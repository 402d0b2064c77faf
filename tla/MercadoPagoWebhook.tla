------------------------- MODULE MercadoPagoWebhook -------------------------
(***************************************************************************)
(* Payments through Mercado Pago: the handler that charges a card while    *)
(* the guest waits, the payment as the provider has it, and the            *)
(* notifications the provider sends about it, which may come before the    *)
(* handler has its answer, twice, at the same time, late, or when the      *)
(* handler has died.                                                       *)
(*                                                                         *)
(* One session, its bill and the orders guests pay in advance.  Waiters'   *)
(* orders are already on the bill.  Every attempt has its own handler, so  *)
(* a handler is named by its attempt.  Transactions are split as in        *)
(* TableService: what is read in one step is used in the next.             *)
(*                                                                         *)
(* An attempt is created with the provider name of the offline recorder,   *)
(* and nothing rewrites it, so the search by (provider, reference) never   *)
(* finds one: every notification is correlated through the account.  The   *)
(* provider status kept for audit is left out, no code reads it.           *)
(***************************************************************************)
EXTENDS BillLedger, Functions

CONSTANTS Orders,      \* ids of the QR orders of the session
          Attempts,    \* ids of payment attempts
          Events,      \* ids of notifications, as their body has them
          Hooks,       \* how many notifications are handled at once
          Price,       \* the price of every order
          Charged,     \* what waiters charged to the bill before
          Tips,        \* the tips a guest may add
          Amounts,     \* the parts of a bill a guest may pay, without tip
          NoOrder, NoAttempt, NoEvent

ASSUME PriceAssumption == Price \in Nat \ {0}
ASSUME ChargedAssumption == Charged \in Nat
ASSUME TipsAssumption == Tips \subseteq Nat
ASSUME AmountsAssumption == Amounts \subseteq Nat \ {0}
ASSUME NonesAssumption ==
    /\ NoOrder \notin Orders
    /\ NoAttempt \notin Attempts
    /\ NoEvent \notin Events

VARIABLES
    order,       \* status of each order
    session,     \* status of the table's session
    bill,        \* the bill of the session
    attempt,     \* each payment attempt, with the payments recorded for it
    handler,     \* the request that charges each attempt, with the bill it read
    provider,    \* the payment of each attempt as Mercado Pago has it
    captured,    \* the attempts whose amount the customer really paid
    event,       \* each notification: what it is about, and its stored row
    hook,        \* the notifications being handled
    orphaned,    \* ghost: notifications whose handling died once they were stored
    resolver,    \* ghost: who resolved each attempt
    overwritten  \* ghost: an amount of the bill was rewritten from a stale read

vars == <<order, session, bill, attempt, handler, provider, captured, event,
          hook, orphaned, resolver, overwritten>>

OrderStatuses == {"AWAITING_PAYMENT", "PAYMENT_FAILED", "ROUTED", "CANCELLED"}
AttemptStatuses == {"NONE", "PENDING", "SUCCEEDED", "FAILED"}

\* "none": the provider has not seen the charge yet.
ProviderStatuses == {"none", "pending", "approved", "rejected", "cancelled", "refunded"}

\* "sent": it was delivered, and no row has it yet.
EventStates == {"unsent", "sent", "stored", "processed"}
HandlerSteps == {"none", "charging", "cancelling", "approved", "rejected", "tx", "ended"}
HookSteps == {"idle", "checked", "stored", "finalize", "fail", "finalizing", "processed"}

AttemptRecords == [status : AttemptStatuses, order : Orders \cup {NoOrder},
                   amount : Nat, tip : Nat, payments : Nat]
HandlerRecords == [step : HandlerSteps, seen : Bills]
EventRecords == [state : EventStates, about : Attempts \cup {NoAttempt}]
HookRecords == [step : HookSteps, event : Events \cup {NoEvent}, seen : Bills]

IdleHook == [step |-> "idle", event |-> NoEvent, seen |-> EmptyBill]

Init ==
    /\ order = [o \in Orders |-> "AWAITING_PAYMENT"]
    /\ session = "OPEN"
    /\ bill = ApplyOrderCharge(EmptyBill, EmptyBill, Charged)
    /\ attempt = [a \in Attempts |-> [status |-> "NONE", order |-> NoOrder,
                                      amount |-> 0, tip |-> 0, payments |-> 0]]
    /\ handler = [a \in Attempts |-> [step |-> "none", seen |-> EmptyBill]]
    /\ provider = [a \in Attempts |-> "none"]
    /\ captured = {}
    /\ event = [e \in Events |-> [state |-> "unsent", about |-> NoAttempt]]
    /\ hook = [h \in Hooks |-> IdleHook]
    /\ orphaned = {}
    /\ resolver = [a \in Attempts |-> "nobody"]
    /\ overwritten = FALSE

-----------------------------------------------------------------------------
(* Helpers                                                                 *)

\* Plausible regression: the statuses of a pending payment are forgotten.
ApprovedOrRejected(status) == IF status = "approved" THEN "APPROVED" ELSE "REJECTED"

\* mapMercadoPagoStatus: what is neither approved nor pending is a rejection.
MapMercadoPagoStatus(status) ==
    IF status = "approved" THEN "APPROVED"
    ELSE IF status = "pending" THEN "PENDING"
    ELSE "REJECTED"

\* Plausible regression: finalize-payment and fail-payment lose their WHERE.
AnyStatus(a) == attempt[a].status # "NONE"

\* The WHERE of finalize-payment and fail-payment.
Unresolved(a) == attempt[a].status = "PENDING"
Resolve(a, status, payments, who) ==
    /\ attempt' = [attempt EXCEPT ![a].status = status, ![a].payments = @ + payments]
    /\ resolver' = [resolver EXCEPT ![a] = who]
FinalizePayment(a, who) == Resolve(a, "SUCCEEDED", 1, who)
\* Plausible regression: the provider's word is written as the attempt's status.
RejectPayment(a, who) == Resolve(a, "REJECTED", 0, who)

FailPayment(a, who) == Resolve(a, "FAILED", 0, who)

AboutOf(h) == event[hook[h].event].about
At(a, step) == handler[a].step = step
HookAt(h, step) == hook[h].step = step
Goto(a, step) == handler' = [handler EXCEPT ![a].step = step]
End(a) == handler' = [handler EXCEPT ![a] = [step |-> "ended", seen |-> EmptyBill]]
HookGoto(h, step) == hook' = [hook EXCEPT ![h].step = step]

\* An uncommitted transaction holds the row of attempt a, or of order o.
AttemptLocked(a) ==
    At(a, "tx") \/ \E h \in Hooks : HookAt(h, "finalizing") /\ AboutOf(h) = a
OrderLocked(o) == \E a \in Attempts : At(a, "tx") /\ attempt[a].order = o

NoteRewrite(seen) == overwritten' = (overwritten \/ AmountsDiffer(seen, bill))

AttemptRows == <<attempt, resolver>>
BillRows == <<session, bill, overwritten>>
ProviderSide == <<provider, captured>>
HookSide == <<event, hook, orphaned>>

-----------------------------------------------------------------------------
(* The provider                                                            *)

\* The charge arrives, maybe when its handler no longer waits for it.  The
\* payment is pending only against binary_mode.
ProviderDecides(a) ==
    /\ handler[a].step # "none"
    /\ provider[a] = "none"
    /\ \E status \in {"approved", "rejected", "pending"} :
          /\ provider' = [provider EXCEPT ![a] = status]
          /\ captured' = IF status = "approved" THEN captured \cup {a} ELSE captured
    /\ UNCHANGED <<order, AttemptRows, handler, BillRows, HookSide>>

\* A pending payment is decided, and an approved one refunded from the panel.
ProviderMoves(a) ==
    /\ \E status \in {"approved", "rejected", "refunded"} :
          /\ provider[a] = IF status = "refunded" THEN "approved" ELSE "pending"
          /\ provider' = [provider EXCEPT ![a] = status]
          /\ captured' = IF status = "approved" THEN captured \cup {a} ELSE captured
    /\ UNCHANGED <<order, AttemptRows, handler, BillRows, HookSide>>

\* What it notifies about: a payment, or something this backend does not know or has
\* no use for.  A notification may take any time, and is sent again until it is answered.
ProviderNotifies(e, about) ==
    /\ \/ event[e].state = "unsent"
       \/ event[e] = [state |-> "sent", about |-> about]
    /\ about \in Attempts => provider[about] # "none"

-----------------------------------------------------------------------------
(* The handler of a payment: pay-qr-order, pay-qr-bill                     *)

OpenAttempt(a, o, amount, tip) ==
    /\ attempt[a].status = "NONE"
    /\ attempt' = [attempt EXCEPT ![a] = [status |-> "PENDING", order |-> o,
                       amount |-> amount + tip, tip |-> tip, payments |-> 0]]
    /\ Goto(a, "charging")
    /\ UNCHANGED <<order, resolver, BillRows, ProviderSide, HookSide>>

PayOrder(a, o, tip) ==
    /\ order[o] \in PayableOrderStatuses
    /\ OpenAttempt(a, o, Price, tip)

PayBill(a, amount, tip) ==
    /\ bill.status \in PayableBillStatuses
    /\ amount <= bill.remaining
    /\ OpenAttempt(a, NoOrder, amount, tip)

\* Plausible regression: only a rejection is not an approval.
AnsweredUnlessRejected(a) ==
    /\ At(a, "charging")
    /\ provider[a] # "none"
    /\ Goto(a, IF provider[a] = "rejected" THEN "rejected" ELSE "approved")
    /\ UNCHANGED <<order, AttemptRows, BillRows, ProviderSide, HookSide>>

\* The answer reaches the handler.
ChargeAnswered(a) ==
    /\ At(a, "charging")
    /\ provider[a] # "none"
    /\ Goto(a, CASE provider[a] = "approved" -> "approved"
                 [] provider[a] = "pending"  -> "cancelling"
                 [] OTHER                    -> "rejected")
    /\ UNCHANGED <<order, AttemptRows, BillRows, ProviderSide, HookSide>>

\* A time-out or a network error is a rejection, whatever the provider did.
ChargeUnheard(a) ==
    /\ At(a, "charging")
    /\ Goto(a, "rejected")
    /\ UNCHANGED <<order, AttemptRows, BillRows, ProviderSide, HookSide>>

\* A pending payment is cancelled and counts as rejected, also when the
\* provider refuses to cancel it.
CancelPendingPayment(a) ==
    /\ At(a, "cancelling")
    /\ \/ /\ provider[a] = "pending"
          /\ provider' = [provider EXCEPT ![a] = "cancelled"]
       \/ UNCHANGED provider
    /\ Goto(a, "rejected")
    /\ UNCHANGED <<order, AttemptRows, captured, BillRows, HookSide>>

\* fail-payment throws when the attempt is resolved; the order's update has no
\* condition.
Reject(a) ==
    LET o == attempt[a].order
    IN  /\ At(a, "rejected")
        /\ ~AttemptLocked(a)
        /\ o \in Orders => ~OrderLocked(o)
        /\ IF Unresolved(a)
           THEN /\ FailPayment(a, "handler")
                /\ order' = IF o \in Orders
                            THEN [order EXCEPT ![o] = "PAYMENT_FAILED"] ELSE order
           ELSE UNCHANGED <<AttemptRows, order>>
        /\ End(a)
        /\ UNCHANGED <<BillRows, ProviderSide, HookSide>>

\* The transaction claims the order, finalizes the attempt and reads the bill.
\* It rolls back when either was done by another.
ApproveRead(a) ==
    LET o == attempt[a].order
    IN  /\ At(a, "approved")
        /\ ~AttemptLocked(a)
        /\ o \in Orders => ~OrderLocked(o)
        /\ IF Unresolved(a) /\ (o \in Orders => order[o] \in PayableOrderStatuses)
           THEN handler' = [handler EXCEPT ![a] = [step |-> "tx", seen |-> bill]]
           ELSE End(a)
        /\ UNCHANGED <<order, AttemptRows, BillRows, ProviderSide, HookSide>>

ApproveOrderCommit(a) ==
    /\ At(a, "tx")
    /\ attempt[a].order \in Orders
    /\ LET seen    == handler[a].seen
           charged == ApplyOrderCharge(bill, seen, Price)
           paid    == ApplyPayment(charged, charged, attempt[a].amount, attempt[a].tip)
       IN  IF PaymentFits(charged, attempt[a].amount, attempt[a].tip)
           THEN /\ FinalizePayment(a, "handler")
                /\ order' = [order EXCEPT ![attempt[a].order] = "ROUTED"]
                /\ bill' = paid
                /\ session' = SessionAfterPayment(
                       SessionAfterCharge(session, charged.remaining), paid.remaining)
                /\ NoteRewrite(seen)
           ELSE UNCHANGED <<AttemptRows, order, BillRows>>
    /\ End(a)
    /\ UNCHANGED <<ProviderSide, HookSide>>

\* A payment applied to the bill, with the tip it adds to it.
ApplyToBill(a, seen, tip, who) ==
    /\ FinalizePayment(a, who)
    /\ bill' = ApplyPayment(bill, seen, attempt[a].amount, tip)
    /\ session' = SessionAfterPayment(
           session, RemainingAfterPayment(seen, attempt[a].amount, tip))
    /\ NoteRewrite(seen)

ApproveBillCommit(a) ==
    /\ At(a, "tx")
    /\ attempt[a].order = NoOrder
    /\ LET seen == handler[a].seen
       IN  IF PaymentFits(seen, attempt[a].amount, attempt[a].tip)
           THEN ApplyToBill(a, seen, attempt[a].tip, "handler")
           ELSE UNCHANGED <<AttemptRows, BillRows>>
    /\ End(a)
    /\ UNCHANGED <<order, ProviderSide, HookSide>>

-----------------------------------------------------------------------------
(* A notification: handle-mercado-pago-webhook                             *)

HookOnly(h) == UNCHANGED <<order, AttemptRows, handler, orphaned,
                           BillRows, ProviderSide>>

\* A notification whose row exists is a DUPLICATE and is answered at once.
Receive(h, e, about) ==
    /\ HookAt(h, "idle")
    /\ ProviderNotifies(e, about)
    /\ hook' = [hook EXCEPT ![h] = [IdleHook EXCEPT !.step = "checked", !.event = e]]
    /\ event' = [event EXCEPT ![e] = [state |-> "sent", about |-> about]]
    /\ HookOnly(h)

\* Plausible regression: the row is written whether or not another has it (upsert).
StoreAgain(h) ==
    /\ HookAt(h, "checked")
    /\ event' = [event EXCEPT ![hook[h].event].state = "stored"]
    /\ HookGoto(h, "stored")
    /\ HookOnly(h)

\* The row has a unique (provider, eventId): the INSERT of the second fails, and
\* so does its request.
Store(h) ==
    /\ HookAt(h, "checked")
    /\ LET e == hook[h].event
       IN  IF event[e].state = "sent"
           THEN /\ event' = [event EXCEPT ![e].state = "stored"]
                /\ HookGoto(h, "stored")
           ELSE /\ hook' = [hook EXCEPT ![h] = IdleHook]
                /\ UNCHANGED event
    /\ HookOnly(h)

\* What applySnapshot does with the attempt and the payment it was given; it only
\* records the provider's status when there is nothing to resolve.
Decision(status, outcome) ==
    IF status # "PENDING" \/ outcome = "PENDING" THEN "processed"
    ELSE IF outcome = "APPROVED" THEN "finalize"
    ELSE "fail"

\* The account of the notification's user asks Mercado Pago for the payment, whose
\* external reference names the attempt, which is read next.  One step: what is
\* decided about the two afterwards would be the same had the attempt been read first.
Correlate(h) ==
    /\ HookAt(h, "stored")
    /\ AboutOf(h) \in Attempts
    /\ HookGoto(h, Decision(attempt[AboutOf(h)].status,
                            MapMercadoPagoStatus(provider[AboutOf(h)])))
    /\ UNCHANGED event
    /\ HookOnly(h)

\* Another topic, no account of that user, no answer, no such attempt.
CannotCorrelate(h) ==
    /\ HookAt(h, "stored")
    /\ HookGoto(h, "processed")
    /\ UNCHANGED event
    /\ HookOnly(h)

\* finalize-payment throws when the attempt was resolved since it was read.
FinalizeRead(h) ==
    /\ HookAt(h, "finalize")
    /\ ~AttemptLocked(AboutOf(h))
    /\ IF Unresolved(AboutOf(h))
       THEN hook' = [hook EXCEPT ![h].step = "finalizing", ![h].seen = bill]
       ELSE HookGoto(h, "processed")
    /\ UNCHANGED event
    /\ HookOnly(h)

\* Plausible regression: the attempt's tip is added to the bill as well.
TipOfAttempt(a) == attempt[a].tip

\* How much of the amount was a tip cannot be told from the attempt.
NoRealChargeTipDelta(a) == 0

\* The whole amount is applied to the bill, without a tip, and that is all: an
\* order is neither charged nor routed.
FinalizeCommit(h) ==
    /\ HookAt(h, "finalizing")
    /\ LET a    == AboutOf(h)
           seen == hook[h].seen
       IN  IF PaymentFits(seen, attempt[a].amount, NoRealChargeTipDelta(a))
           THEN ApplyToBill(a, seen, NoRealChargeTipDelta(a), "hook")
           ELSE UNCHANGED <<AttemptRows, BillRows>>
    /\ hook' = [hook EXCEPT ![h].step = "processed", ![h].seen = EmptyBill]
    /\ UNCHANGED <<order, handler, event, orphaned, ProviderSide>>

\* One transaction: the attempt fails, and its order when it is still unpaid.
FailFromWebhook(h) ==
    LET a == AboutOf(h)
        o == attempt[a].order
    IN  /\ HookAt(h, "fail")
        /\ ~AttemptLocked(a)
        /\ o \in Orders => ~OrderLocked(o)
        /\ IF Unresolved(a)
           THEN /\ FailPayment(a, "hook")
                /\ order' = IF o \in Orders /\ order[o] \in PayableOrderStatuses
                            THEN [order EXCEPT ![o] = "PAYMENT_FAILED"] ELSE order
           ELSE UNCHANGED <<AttemptRows, order>>
        /\ HookGoto(h, "processed")
        /\ UNCHANGED <<handler, event, orphaned, BillRows, ProviderSide>>

\* Every error is caught: the notification is marked, also with what went wrong, and
\* answered 200.  Nothing reads the mark, and the model has one for all of them; what
\* the notification was about is not read again either.
MarkProcessed(h) ==
    /\ HookAt(h, "processed")
    /\ event' = [event EXCEPT ![hook[h].event] = [state |-> "processed", about |-> NoAttempt]]
    /\ hook' = [hook EXCEPT ![h] = IdleHook]
    /\ HookOnly(h)

-----------------------------------------------------------------------------
(* The rest of the table, and crashes                                      *)

\* Staff cancels an order that was not paid (cancel-order, before production).
CancelOrder(o) ==
    /\ order[o] \in PayableOrderStatuses
    /\ ~OrderLocked(o)
    /\ order' = [order EXCEPT ![o] = "CANCELLED"]
    /\ UNCHANGED <<AttemptRows, handler, BillRows, ProviderSide, HookSide>>

CrashHandler(a) ==
    /\ handler[a].step \notin {"none", "ended"}
    /\ End(a)
    /\ UNCHANGED <<order, AttemptRows, BillRows, ProviderSide, HookSide>>

\* Every redelivery of what was stored is a DUPLICATE: nobody reads its row again.
CrashHook(h) ==
    /\ ~HookAt(h, "idle")
    /\ IF HookAt(h, "checked")
       THEN UNCHANGED <<event, orphaned>>
       ELSE /\ orphaned' = orphaned \cup {hook[h].event}
            /\ event' = [event EXCEPT ![hook[h].event].about = NoAttempt]
    /\ hook' = [hook EXCEPT ![h] = IdleHook]
    /\ UNCHANGED <<order, AttemptRows, handler, BillRows, ProviderSide>>

ProviderStep == \E a \in Attempts : ProviderDecides(a) \/ ProviderMoves(a)

HandlerStep(a) ==
    \/ \E tip \in Tips :
          \/ \E o \in Orders : PayOrder(a, o, tip)
          \/ \E amount \in Amounts : PayBill(a, amount, tip)
    \/ ChargeAnswered(a)
    \/ ChargeUnheard(a)
    \/ CancelPendingPayment(a)
    \/ Reject(a)
    \/ ApproveRead(a)
    \/ ApproveOrderCommit(a)
    \/ ApproveBillCommit(a)

\* What a notification does once it was delivered.
HookStep(h) ==
    \/ Store(h)
    \/ Correlate(h)
    \/ CannotCorrelate(h)
    \/ FinalizeRead(h)
    \/ FinalizeCommit(h)
    \/ FailFromWebhook(h)
    \/ MarkProcessed(h)

Deliver(e) ==
    \E h \in Hooks, about \in Attempts \cup {NoAttempt} : Receive(h, e, about)

Next ==
    \/ ProviderStep
    \/ \E a \in Attempts : HandlerStep(a) \/ CrashHandler(a)
    \/ \E h \in Hooks : HookStep(h) \/ CrashHook(h)
    \/ \E e \in Events : Deliver(e)
    \/ \E o \in Orders : CancelOrder(o)

Spec == Init /\ [][Next]_vars

-----------------------------------------------------------------------------
(* Properties                                                              *)

\* Every variable keeps its type.
TypeOK ==
    /\ order \in [Orders -> OrderStatuses]
    /\ session \in {"OPEN", "PAYMENT_COMPLETED"}
    /\ bill \in Bills
    /\ attempt \in [Attempts -> AttemptRecords]
    /\ handler \in [Attempts -> HandlerRecords]
    /\ provider \in [Attempts -> ProviderStatuses]
    /\ captured \subseteq Attempts
    /\ event \in [Events -> EventRecords]
    /\ hook \in [Hooks -> HookRecords]
    /\ orphaned \subseteq Events
    /\ resolver \in [Attempts -> {"nobody", "handler", "hook"}]
    /\ overwritten \in BOOLEAN

\* A notification is worked on by one request at most, although it is looked up and
\* stored in two statements and may be delivered several times at once.  It stays
\* stored exactly as long as that request lives, or for ever when it has died:
\* then every redelivery is a DUPLICATE.
OneWorkerPerEvent ==
    \A e \in Events :
        LET workers == {h \in Hooks : hook[h].event = e /\ hook[h].step # "checked"}
        IN  /\ event[e].state = "stored" <=> workers # {} \/ e \in orphaned
            /\ Cardinality(workers) <= IF e \in orphaned THEN 0 ELSE 1

\* A notification never fails an attempt whose money stays with the restaurant,
\* however old the answer it acts on is: what it was told is final.
HookFailsNothingPaid ==
    \A a \in Attempts : resolver[a] = "hook" /\ attempt[a].status = "FAILED"
        => provider[a] \in {"rejected", "cancelled", "refunded"}

\* Only a handler sends an order to production, with its own payment and with the
\* order on the bill; a payment that a notification recorded does neither.
ProductionNeedsHandler ==
    \A o \in Orders : order[o] = "ROUTED" =>
        \E a \in captured : attempt[a].order = o /\ attempt[a].payments = 1
                            /\ resolver[a] = "handler"

\* The attempts with payments, those that are a handler's, and those of an order.
Recorded == {a \in Attempts : attempt[a].payments > 0}
ByHandler == {a \in Recorded : resolver[a] = "handler"}
OfOrders == {a \in ByHandler : attempt[a].order \in Orders}

RecordedPrices ==
    SumFunctionOnSet([a \in Attempts |-> attempt[a].payments * Price], OfOrders)
RecordedTips ==
    SumFunctionOnSet([a \in Attempts |-> attempt[a].payments * attempt[a].tip], ByHandler)
RecordedAmounts ==
    SumFunctionOnSet([a \in Attempts |-> attempt[a].payments * attempt[a].amount], Recorded)

\* Handlers and notifications together keep the books of the bill, unless two
\* transactions on it overlapped: it holds what waiters charged, the orders and tips
\* of the payments handlers recorded, and everything that was recorded is paid.
HookLedgerIdentity ==
    ~overwritten =>
        /\ bill.total = bill.subtotal + bill.tip
        /\ bill.subtotal = Charged + RecordedPrices
        /\ bill.tip = RecordedTips
        /\ Paid(bill) = RecordedAmounts
        /\ bill.remaining >= 0

\* Every attempt behaves as the payments module promises, although its handler and
\* any number of notifications try to resolve it.  Mercado Pago is always asked
\* here: nothing is recorded on the restaurant's word.
Promise == INSTANCE PaymentAttempt WITH
    status   <- [a \in Attempts |-> attempt[a].status],
    payments <- [a \in Attempts |-> attempt[a].payments],
    offline  <- {}

AttemptPromise == Promise!Spec
=============================================================================
