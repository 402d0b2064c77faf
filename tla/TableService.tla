---------------------------- MODULE TableService ----------------------------
(***************************************************************************)
(* One table of a branch, from the opening of a session to its close: the  *)
(* session, its bill, the orders charged to it, the payment attempts that  *)
(* settle it, and the HTTP handlers that run concurrently on them.         *)
(*                                                                         *)
(* A handler is a request that goes through a few steps.  It reads what it *)
(* needs, awaits (the gateway, other queries), and finally runs one        *)
(* transaction; between two steps any other request may run.  A request    *)
(* keeps what it has read (`seen`, `known`, ...).  A transaction of the    *)
(* code is one step when it only writes, and two when it also reads the    *)
(* bill: at READ COMMITTED the row may change between its SELECT and its   *)
(* UPDATE.  Conditional UPDATEs (updateMany with a status in its WHERE)    *)
(* are evaluated again on the current row when the transaction commits.    *)
(*                                                                         *)
(* Online payments are those a gateway answers at once (an embedded        *)
(* checkout); RedirectPayment has those that send the guest elsewhere.  A  *)
(* QR payment for which no gateway is asked is recorded as paid, like one  *)
(* at the restaurant's terminal, unless the installation requires one.     *)
(* Notifications of the gateway and split bills are not part of it.        *)
(***************************************************************************)
EXTENDS BillLedger, Functions

CONSTANTS Sessions,     \* ids of the table's sessions, each with its bill
          Orders,       \* ids of orders
          Attempts,     \* ids of payment attempts
          Requests,     \* how many requests are in progress at once
          Price,        \* the price of every order
          Tips,         \* the tips a customer may add
          Amounts,      \* the parts of a bill a customer may pay, without tip
          NoSession, NoOrder, NoAttempt,
          QrGatewayRequired   \* PAYMENTS_QR_GATEWAY_REQUIRED, FALSE by default

ASSUME PriceAssumption == Price \in Nat \ {0}
ASSUME TipsAssumption == Tips \subseteq Nat
ASSUME AmountsAssumption == Amounts \subseteq Nat \ {0}
ASSUME NonesAssumption ==
    /\ NoSession \notin Sessions
    /\ NoOrder \notin Orders
    /\ NoAttempt \notin Attempts
ASSUME GatewayAssumption == QrGatewayRequired \in BOOLEAN

VARIABLES
    table,       \* "AVAILABLE" or "OCCUPIED"
    session,     \* status of each session, "NONE" while its id is unused
    bill,        \* the bill of each session
    order,       \* each order, with how many times it went to its stations
    items,       \* the OPEN bill items: an order, and the attempt that paid for
                 \* it in advance (NoAttempt: charged by a waiter, to pay later)
    attempt,     \* each payment attempt, with the payments recorded for it
    captured,    \* the attempts whose amount a gateway took from the customer
    offline,     \* the attempts recorded on the restaurant's word: no gateway was
                 \* asked, and their Payment names the offline recorder
    req,         \* the requests in progress
    overwritten, \* ghost: bills an amount of which was rewritten from a stale read
    lateClose    \* ghost: a session was closed that was no longer active

vars == <<table, session, bill, order, items, attempt, captured, offline, req,
          overwritten, lateClose>>

SessionStatuses == {"NONE", "OPEN", "PAYMENT_COMPLETED", "CLOSED", "ABANDONED"}
ActiveTableSessionStatuses == {"OPEN", "PAYMENT_COMPLETED"}
PreProductionStatuses == {"AWAITING_PAYMENT", "PAYMENT_FAILED"}

\* An order the kitchen works on stays "ROUTED" here: of the statuses it goes
\* through, only DELIVERED matters to a guard of this module (it can no longer be
\* cancelled, which a request may leave undone anyway).
OrderStatuses == {"NONE", "AWAITING_PAYMENT", "PAYMENT_FAILED", "ROUTED", "CANCELLED"}
AttemptStatuses == {"NONE", "PENDING", "SUCCEEDED", "FAILED"}

OrderRecords == [status : OrderStatuses,
                 source : {"QR", "WAITER"},
                 session : Sessions \cup {NoSession},
                 tickets : Nat]    \* times it was routed to its stations

AttemptRecords == [status : AttemptStatuses,
                   order : Orders \cup {NoOrder},
                   session : Sessions \cup {NoSession},
                   amount : Nat,   \* what the customer is charged, tip included
                   tip : Nat,
                   payments : Nat]

Steps == {"idle", "opening", "qrOrder", "waiterOrder", "charging", "approved",
          "rejected", "orderTx", "billTx", "cancelPre", "cancelProd",
          "cancelTx", "closing", "abandoning"}

RequestRecords == [step : Steps,
                   session : Sessions \cup {NoSession},
                   order : Orders \cup {NoOrder},
                   attempt : Attempts \cup {NoAttempt},
                   online : BOOLEAN,   \* channel QR_ONLINE, else STAFF_OFFLINE
                   seen : Bills,       \* the bill as this request read it
                   subtotal : Nat]     \* the sum of OPEN items it read

UnusedOrder == [status |-> "NONE", source |-> "QR", session |-> NoSession,
                tickets |-> 0]
UnusedAttempt == [status |-> "NONE", order |-> NoOrder, session |-> NoSession,
                  amount |-> 0, tip |-> 0, payments |-> 0]
IdleRequest == [step |-> "idle", session |-> NoSession, order |-> NoOrder,
                attempt |-> NoAttempt, online |-> FALSE, seen |-> EmptyBill,
                subtotal |-> 0]

Init ==
    /\ table = "AVAILABLE"
    /\ session = [s \in Sessions |-> "NONE"]
    /\ bill = [s \in Sessions |-> EmptyBill]
    /\ order = [o \in Orders |-> UnusedOrder]
    /\ items = {}
    /\ attempt = [a \in Attempts |-> UnusedAttempt]
    /\ captured = {}
    /\ offline = {}
    /\ req = [r \in Requests |-> IdleRequest]
    /\ overwritten = {}
    /\ lateClose = FALSE

-----------------------------------------------------------------------------
(* Helpers                                                                 *)

ActiveSessions == {s \in Sessions : session[s] \in ActiveTableSessionStatuses}
UnusedSessions == {s \in Sessions : session[s] = "NONE"}
UnusedOrders == {o \in Orders : order[o].status = "NONE"}
UnusedAttempts == {a \in Attempts : attempt[a].status = "NONE"}
ItemsOf(o) == {i \in items : i[1] = o}
ItemsOn(s) == {i \in items : order[i[1]].session = s}
RecordedOn(s) ==
    SumFunctionOnSet([a \in Attempts |-> attempt[a].payments * attempt[a].amount],
                     {a \in Attempts : attempt[a].session = s})

IsIdle(r) == req[r].step = "idle"
At(r, step) == req[r].step = step
Goto(r, step) == req' = [req EXCEPT ![r].step = step]
End(r) == req' = [req EXCEPT ![r] = IdleRequest]

\* An uncommitted transaction of another request holds the row lock of order o.
OrderLocked(o) == \E q \in Requests : At(q, "orderTx") /\ req[q].order = o

\* Plausible regression: the partial unique index is dropped.
IndexDropped == TRUE

\* The partial unique index table_sessions_one_active_per_table.
IndexAllowsSession == ActiveSessions = {}

\* Plausible regression: a new session leaves the table AVAILABLE.
CreateSessionOnly(s) ==
    /\ session' = [session EXCEPT ![s] = "OPEN"]
    /\ UNCHANGED table

\* A session is created together with its bill, which starts empty.
CreateSession(s) ==
    /\ session' = [session EXCEPT ![s] = "OPEN"]
    /\ table' = "OCCUPIED"

\* The WHERE of finalize-payment and fail-payment.
Unresolved(a) == attempt[a].status = "PENDING"

\* Plausible regression: the attempt is resolved but its Payment is not created.
SucceededUnrecorded(a) == [attempt EXCEPT ![a].status = "SUCCEEDED"]

Succeeded(a) == [attempt EXCEPT ![a].status = "SUCCEEDED", ![a].payments = @ + 1]

Failed(a) == [attempt EXCEPT ![a].status = "FAILED"]

\* What the charge tells the request, and what became of the money.  An error of
\* the gateway is taken for a rejection, whatever it took.
GatewayAnswers == {<<"approved", "captured">>, <<"rejected", "nothing">>,
                   <<"rejected", "captured">>}
Recorded == <<"approved", "recorded">>

\* Plausible regression: a payment the gateway left pending counts as approved.
AnswersWithPending(online) ==
    GatewayAnswers \cup {<<"approved", "nothing">>, Recorded}

\* Plausible regression: PAYMENTS_QR_GATEWAY_REQUIRED is not looked at.
AnswersUnlessAsked(online) == {x \in GatewayAnswers : online} \cup {Recorded}

\* The staff's channel asks no gateway.  Nor does a QR payment of a restaurant that
\* has none connected, or one without the card's token: it is recorded on the
\* restaurant's word too, unless the installation requires a gateway.
Answers(online) ==
    {x \in GatewayAnswers : online}
        \cup {x \in {Recorded} : online => ~QrGatewayRequired}

\* Remembers the bills whose amounts a rewrite based on `seen` corrupts.
NoteRewrite(s, seen) ==
    overwritten' = IF AmountsDiffer(seen, bill[s]) THEN overwritten \cup {s}
                   ELSE overwritten

-----------------------------------------------------------------------------
(* Sessions: open-table-session, close-table-session, abandon-table-session *)

OpenRead(r) ==
    /\ IsIdle(r)
    /\ ActiveSessions = {}
    /\ Goto(r, "opening")
    /\ UNCHANGED <<table, session, bill, order, items, attempt, captured, offline,
                   overwritten, lateClose>>

OpenCommit(r) ==
    /\ At(r, "opening")
    /\ IndexAllowsSession
    /\ \E s \in UnusedSessions : CreateSession(s)
    /\ End(r)
    /\ UNCHANGED <<bill, order, items, attempt, captured, offline, overwritten,
                   lateClose>>

\* The bill the handler checks later is the one it has read here.
CloseRead(r, s) ==
    /\ IsIdle(r)
    /\ s \in ActiveSessions
    /\ req' = [req EXCEPT ![r] = [IdleRequest EXCEPT !.step = "closing",
                                    !.session = s, !.seen = bill[s]]]
    /\ UNCHANGED <<table, session, bill, order, items, attempt, captured, offline,
                   overwritten, lateClose>>

\* The UPDATE of a close or an abandon does not look at the session's status.
Leave(r, sessionStatus, billStatus) ==
    LET s == req[r].session
    IN  /\ session' = [session EXCEPT ![s] = sessionStatus]
        /\ bill' = [bill EXCEPT ![s].status = billStatus]
        /\ table' = "AVAILABLE"
        /\ lateClose' = (lateClose \/ s \notin ActiveSessions)
        /\ End(r)
        /\ UNCHANGED <<order, items, attempt, captured, offline, overwritten>>

CloseCommit(r) ==
    /\ At(r, "closing")
    /\ req[r].seen.remaining <= 0
    /\ Leave(r, "CLOSED", "PAID")

AbandonRead(r, s) ==
    /\ IsIdle(r)
    /\ s \in ActiveSessions
    /\ req' = [req EXCEPT ![r] = [IdleRequest EXCEPT !.step = "abandoning",
                                    !.session = s]]
    /\ UNCHANGED <<table, session, bill, order, items, attempt, captured, offline,
                   overwritten, lateClose>>

AbandonCommit(r) ==
    /\ At(r, "abandoning")
    /\ Leave(r, "ABANDONED", "ABANDONED")

-----------------------------------------------------------------------------
(* Orders: create-qr-order, create-waiter-order, cancel-order              *)

NewOrder(o, s, source, status, tickets) ==
    order' = [order EXCEPT ![o] = [status |-> status, source |-> source,
                                   session |-> s, tickets |-> tickets]]

\* The transaction looks for the table's active session.
QrOrderRead(r) ==
    /\ IsIdle(r)
    /\ \E s \in IF ActiveSessions = {} THEN {NoSession} ELSE ActiveSessions :
          req' = [req EXCEPT ![r] = [IdleRequest EXCEPT !.step = "qrOrder",
                                                          !.session = s]]
    /\ UNCHANGED <<table, session, bill, order, items, attempt, captured, offline,
                   overwritten, lateClose>>

\* The session found may have been closed since: nothing looks at it again.
QrOrderOnSession(r, o) ==
    /\ At(r, "qrOrder")
    /\ req[r].session # NoSession
    /\ o \in UnusedOrders
    /\ NewOrder(o, req[r].session, "QR", "AWAITING_PAYMENT", 0)
    /\ End(r)
    /\ UNCHANGED <<table, session, bill, items, attempt, captured, offline,
                   overwritten, lateClose>>

QrOrderOnNewSession(r, o) ==
    /\ At(r, "qrOrder")
    /\ req[r].session = NoSession
    /\ IndexAllowsSession
    /\ o \in UnusedOrders
    /\ \E s \in UnusedSessions :
          /\ CreateSession(s)
          /\ NewOrder(o, s, "QR", "AWAITING_PAYMENT", 0)
    /\ End(r)
    /\ UNCHANGED <<bill, items, attempt, captured, offline, overwritten, lateClose>>

\* The bill is read with the session, before the transaction.
WaiterRead(r, s) ==
    /\ IsIdle(r)
    /\ s \in ActiveSessions
    /\ req' = [req EXCEPT ![r] = [IdleRequest EXCEPT !.step = "waiterOrder",
                                    !.session = s, !.seen = bill[s]]]
    /\ UNCHANGED <<table, session, bill, order, items, attempt, captured, offline,
                   overwritten, lateClose>>

WaiterCommit(r, o) ==
    /\ At(r, "waiterOrder")
    /\ o \in UnusedOrders
    /\ LET s       == req[r].session
           seen    == req[r].seen
           charged == ApplyOrderCharge(bill[s], seen, Price)
       IN  /\ NewOrder(o, s, "WAITER", "ROUTED", 1)
           /\ items' = items \cup {<<o, NoAttempt>>}
           /\ bill' = [bill EXCEPT ![s] = charged]
           /\ session' = [session EXCEPT ![s] =
                              SessionAfterCharge(@, charged.remaining)]
           /\ NoteRewrite(s, seen)
    /\ End(r)
    /\ UNCHANGED <<table, attempt, captured, offline, lateClose>>

\* An order that was not paid is cancelled; one that was paid needs a refund.
CancelRead(r, o) ==
    /\ IsIdle(r)
    /\ \E step \in {"cancelPre", "cancelProd"} :
          /\ IF step = "cancelPre"
             THEN order[o].status \in PreProductionStatuses
             ELSE order[o].status = "ROUTED" /\ order[o].source = "WAITER"
          /\ req' = [req EXCEPT ![r] = [IdleRequest EXCEPT !.step = step,
                                        !.order = o, !.session = order[o].session]]
    /\ UNCHANGED <<table, session, bill, order, items, attempt, captured, offline,
                   overwritten, lateClose>>

\* The status that was read is not looked at again.
CancelPreCommit(r) ==
    /\ At(r, "cancelPre")
    /\ ~OrderLocked(req[r].order)
    /\ order' = [order EXCEPT ![req[r].order].status = "CANCELLED"]
    /\ End(r)
    /\ UNCHANGED <<table, session, bill, items, attempt, captured, offline,
                   overwritten, lateClose>>

\* The transaction voids the order's items (which it locks), then reads the
\* bill and adds up the items still OPEN.
CancelTxRead(r) ==
    /\ At(r, "cancelProd")
    /\ \A q \in Requests : ~(At(q, "cancelTx") /\ req[q].order = req[r].order)
    /\ LET s == req[r].session
       IN  req' = [req EXCEPT ![r].step = "cancelTx", ![r].seen = bill[s],
                     ![r].subtotal =
                        Price * Cardinality(ItemsOn(s) \ ItemsOf(req[r].order))]
    /\ UNCHANGED <<table, session, bill, order, items, attempt, captured, offline,
                   overwritten, lateClose>>

\* It rolls back when the payments already cover more than what is left.
CancelTxCommit(r) ==
    /\ At(r, "cancelTx")
    /\ LET s      == req[r].session
           o      == req[r].order
           voided == WithSubtotal(bill[s], req[r].seen, req[r].subtotal)
       IN  /\ voided.remaining >= 0
           /\ bill' = [bill EXCEPT ![s] = voided]
           /\ items' = items \ ItemsOf(o)
           /\ order' = [order EXCEPT ![o].status = "CANCELLED"]
           /\ NoteRewrite(s, req[r].seen)
    /\ End(r)
    /\ UNCHANGED <<table, session, attempt, captured, offline, lateClose>>

-----------------------------------------------------------------------------
(* Payments: pay-qr-order, pay-qr-bill and pay-bill (settle-bill-payment)  *)

OpenAttempt(r, a, o, s, amount, tip, online) ==
    /\ attempt' = [attempt EXCEPT ![a] =
           [status |-> "PENDING", order |-> o, session |-> s,
            amount |-> amount, tip |-> tip, payments |-> 0]]
    /\ req' = [req EXCEPT ![r] = [IdleRequest EXCEPT !.step = "charging",
                  !.session = s, !.order = o, !.attempt = a, !.online = online]]

\* The guest pays an order in advance; its session may be over by then.
PayOrderStart(r, o, a, tip) ==
    /\ IsIdle(r)
    /\ order[o].status \in PayableOrderStatuses
    /\ a \in UnusedAttempts
    /\ OpenAttempt(r, a, o, order[o].session, Price + tip, tip, TRUE)
    /\ UNCHANGED <<table, session, bill, order, items, captured, offline,
                   overwritten, lateClose>>

\* Part of the bill is paid, by the guest (online, on an active session) or at
\* the restaurant's terminal.
PayBillStart(r, s, a, amount, tip, online) ==
    /\ IsIdle(r)
    /\ session[s] # "NONE"
    /\ online => s \in ActiveSessions
    /\ bill[s].status \in PayableBillStatuses
    /\ amount <= bill[s].remaining
    /\ a \in UnusedAttempts
    /\ OpenAttempt(r, a, NoOrder, s, amount + tip, tip, online)
    /\ UNCHANGED <<table, session, bill, order, items, captured, offline,
                   overwritten, lateClose>>

\* The gateway, if any, is called outside any transaction.
Charge(r) ==
    /\ At(r, "charging")
    /\ \E answer \in Answers(req[r].online) :
          /\ Goto(r, answer[1])
          /\ captured' = IF answer[2] = "captured"
                         THEN captured \cup {req[r].attempt} ELSE captured
          /\ offline' = IF answer[2] = "recorded"
                        THEN offline \cup {req[r].attempt} ELSE offline
    /\ UNCHANGED <<table, session, bill, order, items, attempt,
                   overwritten, lateClose>>

\* The order becomes PAYMENT_FAILED whatever its status is by now.
RejectOrder(r) ==
    /\ At(r, "rejected")
    /\ req[r].order # NoOrder
    /\ Unresolved(req[r].attempt)
    /\ ~OrderLocked(req[r].order)
    /\ attempt' = Failed(req[r].attempt)
    /\ order' = [order EXCEPT ![req[r].order].status = "PAYMENT_FAILED"]
    /\ End(r)
    /\ UNCHANGED <<table, session, bill, items, captured, offline, overwritten,
                   lateClose>>

RejectBill(r) ==
    /\ At(r, "rejected")
    /\ req[r].order = NoOrder
    /\ Unresolved(req[r].attempt)
    /\ attempt' = Failed(req[r].attempt)
    /\ End(r)
    /\ UNCHANGED <<table, session, bill, order, items, captured, offline,
                   overwritten, lateClose>>

\* The transaction claims the order, which locks its row, finalizes the attempt
\* and reads the bill.
OrderTxRead(r) ==
    /\ At(r, "approved")
    /\ req[r].order # NoOrder
    /\ ~OrderLocked(req[r].order)
    /\ order[req[r].order].status \in PayableOrderStatuses
    /\ Unresolved(req[r].attempt)
    /\ req' = [req EXCEPT ![r].step = "orderTx", ![r].seen = bill[req[r].session]]
    /\ UNCHANGED <<table, session, bill, order, items, attempt, captured, offline,
                   overwritten, lateClose>>

\* It charges the order (which locks the bill), reads the bill again, applies
\* the payment and routes the order to its stations.
OrderTxCommit(r) ==
    /\ At(r, "orderTx")
    /\ LET s       == req[r].session
           o       == req[r].order
           a       == req[r].attempt
           charged == ApplyOrderCharge(bill[s], req[r].seen, Price)
           paid    == ApplyPayment(charged, charged, attempt[a].amount, attempt[a].tip)
       IN  /\ PaymentFits(charged, attempt[a].amount, attempt[a].tip)
           /\ attempt' = Succeeded(a)
           /\ items' = items \cup {<<o, a>>}
           /\ bill' = [bill EXCEPT ![s] = paid]
           /\ session' = [session EXCEPT ![s] = SessionAfterPayment(
                              SessionAfterCharge(@, charged.remaining), paid.remaining)]
           /\ order' = [order EXCEPT ![o].status = "ROUTED", ![o].tickets = @ + 1]
           /\ NoteRewrite(s, req[r].seen)
    /\ End(r)
    /\ UNCHANGED <<table, captured, offline, lateClose>>

\* The transaction finalizes the attempt and reads the bill.
BillTxRead(r) ==
    /\ At(r, "approved")
    /\ req[r].order = NoOrder
    /\ Unresolved(req[r].attempt)
    /\ req' = [req EXCEPT ![r].step = "billTx", ![r].seen = bill[req[r].session]]
    /\ UNCHANGED <<table, session, bill, order, items, attempt, captured, offline,
                   overwritten, lateClose>>

BillTxCommit(r) ==
    /\ At(r, "billTx")
    /\ LET s    == req[r].session
           a    == req[r].attempt
           seen == req[r].seen
           paid == ApplyPayment(bill[s], seen, attempt[a].amount, attempt[a].tip)
       IN  /\ PaymentFits(seen, attempt[a].amount, attempt[a].tip)
           /\ attempt' = Succeeded(a)
           /\ bill' = [bill EXCEPT ![s] = paid]
           /\ session' = [session EXCEPT ![s] =
                              SessionAfterPayment(@, paid.remaining)]
           /\ NoteRewrite(s, seen)
    /\ End(r)
    /\ UNCHANGED <<table, order, items, captured, offline, lateClose>>

-----------------------------------------------------------------------------
\* The process crashes, the handler refuses, or the database aborts the
\* transaction: the request ends with nothing written since its last step.
Drop(r) ==
    /\ ~IsIdle(r)
    /\ End(r)
    /\ UNCHANGED <<table, session, bill, order, items, attempt, captured, offline,
                   overwritten, lateClose>>

SessionStep(r) ==
    \/ OpenRead(r)
    \/ OpenCommit(r)
    \/ CloseCommit(r)
    \/ AbandonCommit(r)
    \/ \E s \in Sessions : CloseRead(r, s) \/ AbandonRead(r, s)

OrderStep(r) ==
    \/ QrOrderRead(r)
    \/ \E s \in Sessions : WaiterRead(r, s)
    \/ \E o \in Orders :
          \/ QrOrderOnSession(r, o)
          \/ QrOrderOnNewSession(r, o)
          \/ WaiterCommit(r, o)
          \/ CancelRead(r, o)
    \/ CancelPreCommit(r)
    \/ CancelTxRead(r)
    \/ CancelTxCommit(r)

PaymentStep(r) ==
    \/ \E a \in Attempts, tip \in Tips :
          \/ \E o \in Orders : PayOrderStart(r, o, a, tip)
          \/ \E s \in Sessions, amount \in Amounts, online \in BOOLEAN :
                PayBillStart(r, s, a, amount, tip, online)
    \/ Charge(r)
    \/ RejectOrder(r)
    \/ RejectBill(r)
    \/ OrderTxRead(r)
    \/ OrderTxCommit(r)
    \/ BillTxRead(r)
    \/ BillTxCommit(r)

Next ==
    \E r \in Requests :
        SessionStep(r) \/ OrderStep(r) \/ PaymentStep(r) \/ Drop(r)

Spec == Init /\ [][Next]_vars

-----------------------------------------------------------------------------
(* Properties                                                              *)

\* Every variable keeps its type.  The bill's amounts may go negative: see
\* overwritten.
TypeOK ==
    /\ table \in {"AVAILABLE", "OCCUPIED"}
    /\ session \in [Sessions -> SessionStatuses]
    /\ bill \in [Sessions -> Bills]
    /\ order \in [Orders -> OrderRecords]
    /\ items \subseteq Orders \X (Attempts \cup {NoAttempt})
    /\ attempt \in [Attempts -> AttemptRecords]
    /\ captured \subseteq Attempts
    /\ offline \subseteq Attempts
    /\ req \in [Requests -> RequestRecords]
    /\ overwritten \subseteq Sessions
    /\ lateClose \in BOOLEAN

\* The table never has two active sessions, however the two ways to create one
\* (opening the table, ordering by QR) and to end one overlap.
OneActiveSession ==
    \A s, t \in ActiveSessions : s = t

\* A QR order is charged to its bill and sent to its stations once for every
\* payment the handlers of this module record for it, and never without one:
\* charging, paying, recording and routing are one transaction of pay-qr-order.
QrOrderChargedPerPayment ==
    \A o \in Orders : order[o].source = "QR" =>
        LET paying == {a \in Attempts : attempt[a].order = o /\ attempt[a].payments > 0}
        IN  /\ ItemsOf(o) = {o} \X paying
            /\ order[o].tickets = Cardinality(ItemsOf(o))

\* A QR order does not enter production without a payment recorded for it that
\* charge-payment approved: a gateway took the money or, where a QR payment may
\* go without one, it was recorded on the restaurant's word.  An installation
\* that requires the gateway routes only orders whose money was taken.
ProductionNeedsApproval ==
    \A o \in Orders :
        order[o].source = "QR" /\ (order[o].status = "ROUTED" \/ order[o].tickets > 0)
            => \E a \in captured \cup offline :
                  /\ attempt[a].order = o /\ attempt[a].payments > 0
                  /\ QrGatewayRequired => a \in captured

\* Unless an overlapping transaction overwrote an amount, the bill agrees with
\* its items and with the payments recorded for it, and is never overpaid.
LedgerIdentity ==
    \A s \in Sessions \ overwritten :
        /\ bill[s].total = bill[s].subtotal + bill[s].tip
        /\ bill[s].subtotal = Price * Cardinality(ItemsOn(s))
        /\ Paid(bill[s]) = RecordedOn(s)
        /\ bill[s].remaining >= 0

\* While a session is active its bill's status follows the balance, and the
\* session only counts as paid when there is nothing left to pay.
StatusFollowsBalance ==
    \A s \in ActiveSessions \ overwritten :
        /\ bill[s].status = "PAID" <=> Paid(bill[s]) > 0 /\ bill[s].remaining = 0
        /\ bill[s].status = "OPEN" <=> Paid(bill[s]) = 0
        /\ session[s] = "PAYMENT_COMPLETED" => bill[s].remaining = 0

\* The table is OCCUPIED exactly while it has an active session, as long as no
\* session is closed twice (see lateClose).
TableTracksSession ==
    ~lateClose => (table = "OCCUPIED" <=> ActiveSessions # {})

\* A session that was closed or abandoned never becomes active again, whatever
\* payment, charge or close was still under way when it ended.
InactiveStaysInactive ==
    [][\A s \in Sessions : session[s] \in {"CLOSED", "ABANDONED"}
            => session'[s] \in {"CLOSED", "ABANDONED"}]_session

\* Every attempt behaves as the payments module promises.
Promise == INSTANCE PaymentAttempt WITH
    status   <- [a \in Attempts |-> attempt[a].status],
    payments <- [a \in Attempts |-> attempt[a].payments]

AttemptPromise == Promise!Spec

\* docs/01-product-context-backend.md: "Un `waiter` no cierra una mesa con saldo
\* pendiente".  close-table-session tests the bill it read before its transaction.
NoCloseWithDebt ==
    \A s \in Sessions : session[s] = "CLOSED" => bill[s].remaining <= 0

\* docs/12-payments.md: "doble pago protegido: dentro de la transaccion se
\* revalida el estado de la orden".  A rejected attempt sets the order to
\* PAYMENT_FAILED even when another attempt has paid for it meanwhile.
OrderPaidOnce ==
    \A a, b \in Attempts :
        /\ attempt[a].order \in Orders /\ attempt[a].order = attempt[b].order
        /\ attempt[a].payments > 0 /\ attempt[b].payments > 0
        => a = b
=============================================================================
