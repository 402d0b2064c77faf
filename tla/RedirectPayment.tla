--------------------------- MODULE RedirectPayment ---------------------------
(***************************************************************************)
(* Payments through a gateway that redirects the guest's browser (Webpay   *)
(* Plus Mall): a request opens the attempt and hands out a token, the      *)
(* guest pays on the gateway's page, the browser comes back (or comes back *)
(* twice, or never), and a scheduled job reconciles what is left PENDING.  *)
(*                                                                         *)
(* A worker is an HTTP request or a run of the job.  It awaits between     *)
(* steps; a transaction that reads what it later writes is several steps,  *)
(* and holds the row lock of the attempt it resolved until it commits.     *)
(* The waiter's charges and cancellations, which TableService details, are *)
(* single steps here.                                                      *)
(***************************************************************************)
EXTENDS BillLedger, Functions

CONSTANTS Orders,             \* QR orders waiting to be paid
          Attempts,           \* ids of attempts, in the order they are created
          Guests,             \* HTTP requests in progress at once
          Jobs,               \* runs of the reconciliation that may overlap
          Price,              \* the price of every order
          Tips, Amounts,      \* what a guest may add to, or pay of, the bill
          MaxAttemptsPerRun,  \* MAX_ATTEMPTS_PER_RUN of the job
          MaxCharges,         \* bound: charges of other orders to the bill
          MaxCrashes,         \* bound: workers lost half way
          NoOrder, NoAttempt

ASSUME AttemptsAssumption == Attempts \subseteq Nat /\ NoAttempt \notin Attempts
ASSUME OrdersAssumption == NoOrder \notin Orders
ASSUME WorkersAssumption == Guests \cap Jobs = {}
ASSUME AmountsAssumption ==
    /\ Price \in Nat \ {0}
    /\ Tips \subseteq Nat
    /\ Amounts \subseteq Nat \ {0}

Workers == Guests \cup Jobs

VARIABLES
    bill,        \* the bill of the table's session
    session,     \* the status of the session, which stays active
    order,       \* status of each order, and times it was sent to its stations
    items,       \* the orders charged to the bill, with the attempt that paid
    charges,     \* other orders charged to the bill
    attempt,     \* each payment attempt, with the payments recorded for it
    gateway,     \* the state of each attempt's transaction at the gateway
    req,         \* the workers
    told,        \* what the guest was last told of the attempt on returning
    crashes,     \* workers lost so far
    overwritten  \* ghost: an amount of the bill was rewritten from a stale read

vars == <<bill, session, order, items, charges, attempt, gateway, req, told,
          crashes, overwritten>>

OrderRecords ==
    [status : {"AWAITING_PAYMENT", "PAYMENT_FAILED", "ROUTED", "CANCELLED"},
     tickets : Nat]

AttemptRecords ==
    [status : {"NONE", "PENDING", "SUCCEEDED", "FAILED"},
     order : Orders \cup {NoOrder},
     amount : Nat,         \* what the guest pays, tip included
     tip : Nat,
     reference : BOOLEAN,  \* the gateway's token was saved
     payments : Nat]

GatewayStates == {"none", "open", "authorized", "captured", "declined",
                  "aborted", "expired"}

Steps == {"idle", "creating", "redirecting", "notCreated", "confirming",
          "aborting", "polling", "approved", "rejected", "orderRead", "tx"}

WorkerRecords ==
    [step : Steps,
     attempt : Attempts \cup {NoAttempt},
     payable : BOOLEAN,      \* whether the order could be paid when it was read
     seen : Bills,           \* the bill as it was read
     todo : SUBSET Attempts] \* what is left of a run of the job

Idle == [step |-> "idle", attempt |-> NoAttempt, payable |-> FALSE,
         seen |-> EmptyBill, todo |-> {}]

\* The bill starts with one order already charged to it, or with none.
Init ==
    /\ charges \in {0, 1}
    /\ bill = IF charges = 0 THEN EmptyBill
              ELSE ApplyOrderCharge(EmptyBill, EmptyBill, Price)
    /\ session = "OPEN"
    /\ order = [o \in Orders |-> [status |-> "AWAITING_PAYMENT", tickets |-> 0]]
    /\ items = {}
    /\ attempt = [a \in Attempts |-> [status |-> "NONE", order |-> NoOrder,
                     amount |-> 0, tip |-> 0, reference |-> FALSE, payments |-> 0]]
    /\ gateway = [a \in Attempts |-> "none"]
    /\ req = [w \in Workers |-> Idle]
    /\ told = [a \in Attempts |-> "NOTHING"]
    /\ crashes = 0
    /\ overwritten = FALSE

-----------------------------------------------------------------------------
(* Helpers                                                                 *)

At(w, step) == req[w].step = step
Goto(w, step) == req' = [req EXCEPT ![w].step = step]

\* The worker is done with its attempt; the job goes on with the next one.
Done(w) == req' = [req EXCEPT ![w] = [Idle EXCEPT !.todo =
                                         req[w].todo \ {req[w].attempt}]]

Captured == {a \in Attempts : gateway[a] = "captured"}
ItemsOf(o) == {i \in items : i[1] = o}
RecordedAmount ==
    SumFunctionOnSet([a \in Attempts |-> attempt[a].payments * attempt[a].amount],
                     {a \in Attempts : attempt[a].payments > 0})
NextAttempt(a) ==
    /\ attempt[a].status = "NONE"
    /\ \A b \in Attempts : b < a => attempt[b].status # "NONE"

\* Plausible regression: an attempt that FAILED may still be finalized.
UnresolvedOrFailed(a) == attempt[a].status \in {"PENDING", "FAILED"}

\* The WHERE of finalize-payment and fail-payment; the UPDATE waits for the
\* transaction of another worker that has resolved the attempt.
Unresolved(a) == attempt[a].status = "PENDING"
Locked(a) == \E w \in Workers : At(w, "tx") /\ req[w].attempt = a

\* Plausible regression: the order fails whatever its status, as it does when
\* an embedded payment is rejected.
AlwaysFailed(status) == "PAYMENT_FAILED"

\* Plausible regression: the order is given the attempt's status.
FailedStatus(status) == "FAILED"

\* The WHERE of fail-attempt: an order already routed or cancelled is left alone.
OrderAfterFailure(status) ==
    IF status \in PayableOrderStatuses THEN "PAYMENT_FAILED" ELSE status

\* Plausible regression: the job only looks at the attempts that pay an order.
EligibleOfOrders ==
    {a \in Attempts : Unresolved(a) /\ attempt[a].reference
                      /\ attempt[a].order # NoOrder}

\* Attempts the job looks for (they are old enough when time passes).
Eligible == {a \in Attempts : Unresolved(a) /\ attempt[a].reference}

Oldest(S) ==
    {a \in S : Cardinality({b \in S : b < a}) < MaxAttemptsPerRun}

\* Plausible regression: a commit the gateway did not answer counts as approved.
OptimisticCommit(state) ==
    IF state = "authorized"
    THEN {<<"approved", "captured">>, <<"approved", "authorized">>}
    ELSE {<<"rejected", state>>}

\* What commit answers, and the state it leaves.  It may fail before or after
\* the money is taken, and fails when repeated: all of that reads "rejected".
CommitAnswers(state) ==
    IF state = "authorized"
    THEN {<<"approved", "captured">>, <<"rejected", "captured">>,
          <<"rejected", "authorized">>}
    ELSE {<<"rejected", state>>}

\* What status answers; when it fails the attempt is "not found".
StatusAnswers(state) ==
    IF state = "captured" THEN {"approved", "rejected"} ELSE {"rejected"}

\* finalize-payment creates the Payment without its paymentAttemptId.
PaymentLinked(a) == FALSE

\* Plausible regression: any resolved attempt is reused as an approval.
ReusedAsApproval(a) == "APPROVED"

\* What a guest who returns again is told: a SUCCEEDED attempt whose Payment is
\* not found by paymentAttemptId reads as rejected.
ReusedAnswer(a) ==
    IF attempt[a].status = "SUCCEEDED" /\ PaymentLinked(a) THEN "APPROVED"
    ELSE "REJECTED"

\* Only a guest's own request has somebody to tell.
Tell(w, answer) ==
    told' = IF w \in Guests THEN [told EXCEPT ![req[w].attempt] = answer] ELSE told

-----------------------------------------------------------------------------
(* start-redirect-payment                                                  *)

OpenAttempt(g, a, o, amount, tip) ==
    /\ attempt' = [attempt EXCEPT ![a] =
           [status |-> "PENDING", order |-> o, amount |-> amount, tip |-> tip,
            reference |-> FALSE, payments |-> 0]]
    /\ req' = [req EXCEPT ![g] = [Idle EXCEPT !.step = "creating", !.attempt = a]]
    /\ UNCHANGED <<bill, session, order, items, charges, gateway, told, crashes,
                   overwritten>>

StartForQrOrder(g, a, o, tip) ==
    /\ At(g, "idle")
    /\ order[o].status \in PayableOrderStatuses
    /\ NextAttempt(a)
    /\ OpenAttempt(g, a, o, Price + tip, tip)

StartForQrBill(g, a, amount, tip) ==
    /\ At(g, "idle")
    /\ bill.status \in PayableBillStatuses
    /\ amount <= bill.remaining
    /\ NextAttempt(a)
    /\ OpenAttempt(g, a, NoOrder, amount + tip, tip)

\* The gateway creates its transaction, and the answer may be lost.
Create(g) ==
    /\ At(g, "creating")
    /\ \/ /\ Goto(g, "redirecting")
          /\ gateway' = [gateway EXCEPT ![req[g].attempt] = "open"]
       \/ /\ Goto(g, "notCreated")
          /\ UNCHANGED gateway
    /\ UNCHANGED <<bill, session, order, items, charges, attempt, told, crashes,
                   overwritten>>

SaveReference(g) ==
    /\ At(g, "redirecting")
    /\ attempt' = [attempt EXCEPT ![req[g].attempt].reference = TRUE]
    /\ Done(g)
    /\ UNCHANGED <<bill, session, order, items, charges, gateway, told, crashes,
                   overwritten>>

\* The attempt fails; the order it was to pay keeps its status.
FailStart(g) ==
    /\ At(g, "notCreated")
    /\ Unresolved(req[g].attempt)
    /\ attempt' = [attempt EXCEPT ![req[g].attempt].status = "FAILED"]
    /\ Done(g)
    /\ UNCHANGED <<bill, session, order, items, charges, gateway, told, crashes,
                   overwritten>>

-----------------------------------------------------------------------------
(* The guest on the gateway's page, and the waiter                         *)

\* The guest pays, is declined or gives up, once the page was handed out.
GuestPays(a) ==
    /\ gateway[a] = "open" /\ attempt[a].reference
    /\ \E state \in {"authorized", "declined", "aborted"} :
          gateway' = [gateway EXCEPT ![a] = state]
    /\ UNCHANGED <<bill, session, order, items, charges, attempt, req, told,
                   crashes, overwritten>>

\* What was authorized and never committed is given back.
Expire(a) ==
    /\ gateway[a] = "authorized"
    /\ gateway' = [gateway EXCEPT ![a] = "expired"]
    /\ UNCHANGED <<bill, session, order, items, charges, attempt, req, told,
                   crashes, overwritten>>

ChargeOther ==
    LET charged == ApplyOrderCharge(bill, bill, Price)
    IN  /\ charges < MaxCharges
        /\ charges' = charges + 1
        /\ bill' = charged
        /\ session' = SessionAfterCharge(session, charged.remaining)
        /\ UNCHANGED <<order, items, attempt, gateway, req, told, crashes,
                       overwritten>>

CancelOrder(o) ==
    /\ order[o].status \in PayableOrderStatuses
    /\ order' = [order EXCEPT ![o].status = "CANCELLED"]
    /\ UNCHANGED <<bill, session, items, charges, attempt, gateway, req, told,
                   crashes, overwritten>>

-----------------------------------------------------------------------------
(* confirm-redirect-payment: the browser returns                           *)

\* The browser posts token_ws, possibly more than once.
Return(g, a) ==
    /\ At(g, "idle")
    /\ gateway[a] \in {"authorized", "declined", "captured", "expired"}
    /\ IF Unresolved(a)
       THEN /\ req' = [req EXCEPT ![g] = [Idle EXCEPT !.step = "confirming",
                                                        !.attempt = a]]
            /\ UNCHANGED told
       ELSE /\ told' = [told EXCEPT ![a] = ReusedAnswer(a)]
            /\ UNCHANGED req
    /\ UNCHANGED <<bill, session, order, items, charges, attempt, gateway,
                   crashes, overwritten>>

\* The browser posts TBK_TOKEN: nothing is asked of the gateway.
Abort(g, a) ==
    /\ At(g, "idle")
    /\ gateway[a] = "aborted"
    /\ IF Unresolved(a)
       THEN /\ req' = [req EXCEPT ![g] = [Idle EXCEPT !.step = "aborting",
                                                        !.attempt = a]]
            /\ UNCHANGED told
       ELSE /\ told' = [told EXCEPT ![a] = ReusedAnswer(a)]
            /\ UNCHANGED req
    /\ UNCHANGED <<bill, session, order, items, charges, attempt, gateway,
                   crashes, overwritten>>

Confirm(g) ==
    /\ At(g, "confirming")
    /\ \E answer \in CommitAnswers(gateway[req[g].attempt]) :
          /\ Goto(g, answer[1])
          /\ gateway' = [gateway EXCEPT ![req[g].attempt] = answer[2]]
    /\ UNCHANGED <<bill, session, order, items, charges, attempt, told, crashes,
                   overwritten>>

-----------------------------------------------------------------------------
(* reconcile-transbank-payments: the job                                   *)

\* A run lists the attempts first, and works on what it has listed.
JobStart(j) ==
    /\ At(j, "idle") /\ req[j].todo = {}
    /\ Eligible # {}
    /\ req' = [req EXCEPT ![j].todo = Oldest(Eligible)]
    /\ UNCHANGED <<bill, session, order, items, charges, attempt, gateway, told,
                   crashes, overwritten>>

JobNext(j) ==
    /\ At(j, "idle")
    /\ \E a \in req[j].todo :
          /\ \A b \in req[j].todo : a <= b
          /\ req' = [req EXCEPT ![j].step = "polling", ![j].attempt = a]
    /\ UNCHANGED <<bill, session, order, items, charges, attempt, gateway, told,
                   crashes, overwritten>>

Poll(j) ==
    /\ At(j, "polling")
    /\ \E answer \in StatusAnswers(gateway[req[j].attempt]) : Goto(j, answer)
    /\ UNCHANGED <<bill, session, order, items, charges, attempt, gateway, told,
                   crashes, overwritten>>

-----------------------------------------------------------------------------
(* confirm-redirect-payment: applying the outcome, from either of the two  *)

FailAttempt(w) ==
    /\ At(w, "rejected") \/ At(w, "aborting")
    /\ LET a == req[w].attempt
           o == attempt[a].order
       IN  /\ Unresolved(a) /\ ~Locked(a)
           /\ attempt' = [attempt EXCEPT ![a].status = "FAILED"]
           /\ order' = IF o = NoOrder THEN order
                       ELSE [order EXCEPT ![o].status = OrderAfterFailure(@)]
    /\ Tell(w, IF At(w, "aborting") THEN "ABORTED" ELSE "REJECTED")
    /\ Done(w)
    /\ UNCHANGED <<bill, session, items, charges, gateway, crashes, overwritten>>

\* The transaction reads the order before it resolves the attempt.
ReadOrder(w) ==
    /\ At(w, "approved")
    /\ attempt[req[w].attempt].order # NoOrder
    /\ req' = [req EXCEPT ![w].step = "orderRead", ![w].payable =
                  order[attempt[req[w].attempt].order].status \in PayableOrderStatuses]
    /\ UNCHANGED <<bill, session, order, items, charges, attempt, gateway, told,
                   crashes, overwritten>>

\* It resolves the attempt, which locks its row, and reads the bill.
Finalize(w) ==
    /\ \/ At(w, "orderRead")
       \/ At(w, "approved") /\ attempt[req[w].attempt].order = NoOrder
    /\ Unresolved(req[w].attempt) /\ ~Locked(req[w].attempt)
    /\ req' = [req EXCEPT ![w].step = "tx", ![w].seen = bill]
    /\ UNCHANGED <<bill, session, order, items, charges, attempt, gateway, told,
                   crashes, overwritten>>

\* The bill the payment is applied to: with the order's charge, if it is routed.
\* The charge locks the bill, and the payment then reads it again.
ChargedBill(w) ==
    IF req[w].payable THEN ApplyOrderCharge(bill, req[w].seen, Price) ELSE bill
SeenBill(w) == IF req[w].payable THEN ChargedBill(w) ELSE req[w].seen
Fits(w) ==
    PaymentFits(SeenBill(w), attempt[req[w].attempt].amount,
                attempt[req[w].attempt].tip)

\* An order that could be paid when it was read is charged and routed, whatever
\* became of it since; otherwise the payment is credited to the bill.
CommitPayment(w) ==
    /\ At(w, "tx")
    /\ Fits(w)
    /\ LET a    == req[w].attempt
           o    == attempt[a].order
           paid == ApplyPayment(ChargedBill(w), SeenBill(w), attempt[a].amount,
                                attempt[a].tip)
       IN  /\ attempt' = [attempt EXCEPT ![a].status = "SUCCEEDED",
                                         ![a].payments = @ + 1]
           /\ bill' = paid
           /\ session' = SessionAfterPayment(
                  IF req[w].payable
                  THEN SessionAfterCharge(session, SeenBill(w).remaining)
                  ELSE session, paid.remaining)
           /\ IF req[w].payable
              THEN /\ order' = [order EXCEPT ![o].status = "ROUTED",
                                             ![o].tickets = @ + 1]
                   /\ items' = items \cup {<<o, a>>}
              ELSE UNCHANGED <<order, items>>
           /\ overwritten' = (overwritten \/ AmountsDiffer(req[w].seen, bill))
    /\ Tell(w, "APPROVED")
    /\ Done(w)
    /\ UNCHANGED <<charges, gateway, crashes>>

\* Somebody else has resolved the attempt, or the bill cannot take the payment:
\* the transaction rolls back and the worker gives up.
Refuse(w) ==
    /\ \/ /\ req[w].step \in {"notCreated", "rejected", "aborting", "approved",
                              "orderRead"}
          /\ ~Unresolved(req[w].attempt)
       \/ At(w, "tx") /\ ~Fits(w)
    /\ Done(w)
    /\ UNCHANGED <<bill, session, order, items, charges, attempt, gateway, told,
                   crashes, overwritten>>

\* The process dies, or the database aborts the transaction.
Crash(w) ==
    /\ crashes < MaxCrashes
    /\ ~At(w, "idle")
    /\ crashes' = crashes + 1
    /\ req' = [req EXCEPT ![w] = Idle]
    /\ UNCHANGED <<bill, session, order, items, charges, attempt, gateway, told,
                   overwritten>>

-----------------------------------------------------------------------------
Start(g) ==
    \E a \in Attempts, tip \in Tips :
        \/ \E o \in Orders : StartForQrOrder(g, a, o, tip)
        \/ \E amount \in Amounts : StartForQrBill(g, a, amount, tip)

Outcome(w) ==
    FailAttempt(w) \/ ReadOrder(w) \/ Finalize(w) \/ CommitPayment(w) \/ Refuse(w)

GuestStep(g) ==
    \/ Create(g) \/ SaveReference(g) \/ FailStart(g)
    \/ Confirm(g) \/ Outcome(g)

JobStep(j) == JobNext(j) \/ Poll(j) \/ Outcome(j)

Next ==
    \/ \E g \in Guests :
          Start(g) \/ GuestStep(g) \/ \E a \in Attempts : Return(g, a) \/ Abort(g, a)
    \/ \E j \in Jobs : JobStart(j) \/ JobStep(j)
    \/ \E a \in Attempts : GuestPays(a) \/ Expire(a)
    \/ ChargeOther
    \/ \E o \in Orders : CancelOrder(o)
    \/ \E w \in Workers : Crash(w)

\* A request that was accepted goes on, and the scheduler starts its job again
\* and again; nobody has to order, to pay or to come back.
Fairness ==
    /\ \A g \in Guests : WF_vars(GuestStep(g))
    /\ \A j \in Jobs : WF_vars(JobStart(j)) /\ WF_vars(JobStep(j))

Spec == Init /\ [][Next]_vars /\ Fairness

-----------------------------------------------------------------------------
(* Properties                                                              *)

\* Every variable keeps its type.
TypeOK ==
    /\ bill \in Bills
    /\ session \in {"OPEN", "PAYMENT_COMPLETED"}
    /\ order \in [Orders -> OrderRecords]
    /\ items \subseteq Orders \X Attempts
    /\ charges \in Nat
    /\ attempt \in [Attempts -> AttemptRecords]
    /\ gateway \in [Attempts -> GatewayStates]
    /\ req \in [Workers -> WorkerRecords]
    /\ told \in [Attempts -> {"NOTHING", "APPROVED", "REJECTED", "ABORTED"}]
    /\ crashes \in Nat
    /\ overwritten \in BOOLEAN

\* Every attempt behaves as the payments module promises, however many returns
\* of the browser and runs of the job work on it at once.  The gateway is always
\* asked here: nothing is recorded on the restaurant's word.
Promise == INSTANCE PaymentAttempt WITH
    status   <- [a \in Attempts |-> attempt[a].status],
    captured <- Captured,
    offline  <- {},
    payments <- [a \in Attempts |-> attempt[a].payments]

AttemptPromise == Promise!Spec

\* An order enters production only with money that was captured and recorded,
\* and every time it is charged it is for a payment of its own.
RoutingIsPaid ==
    \A o \in Orders :
        /\ order[o].tickets = Cardinality(ItemsOf(o))
        /\ order[o].status = "ROUTED" => ItemsOf(o) # {}
        /\ \A i \in ItemsOf(o) :
              i[2] \in Captured /\ attempt[i[2]].payments = 1 /\ attempt[i[2]].order = o

\* An order that was sent to its stations is never offered for payment again: a
\* late rejection or abort of another attempt leaves it alone.
RoutedIsNotPayable ==
    \A o \in Orders : order[o].tickets > 0 => order[o].status \notin PayableOrderStatuses

\* Unless an overlapping transaction overwrote an amount, the bill agrees with
\* what was charged to it and with the payments recorded, whichever of them paid
\* an order, a part of the bill, or an order that could no longer be routed.
RedirectLedgerIdentity ==
    ~overwritten =>
        /\ bill.total = bill.subtotal + bill.tip
        /\ bill.subtotal = Price * (charges + Cardinality(items))
        /\ Paid(bill) = RecordedAmount
        /\ bill.remaining >= 0

\* A guest who is told that the payment was approved has a recorded payment.
ApprovalIsRecorded ==
    \A a \in Attempts : told[a] = "APPROVED" => attempt[a].payments = 1

\* An attempt the guest was sent to the gateway with does not stay PENDING: a
\* return or the job resolves it, unless the money was captured and the bill can
\* no longer take it.
PaymentRoom(a) == PaymentFits(bill, attempt[a].amount, attempt[a].tip)
ReferenceResolved ==
    \A a \in Attempts :
        attempt[a].status = "PENDING" /\ attempt[a].reference
            ~> attempt[a].status # "PENDING" \/ (a \in Captured /\ ~PaymentRoom(a))

\* docs/22-transbank-webpay-integracion.md: "Si el intento ya estaba resuelto
\* (reintento del navegador, doble POST), reusa el resultado".
ReturnReusesResult ==
    \A a \in Attempts : attempt[a].status = "SUCCEEDED" => told[a] # "REJECTED"
=============================================================================
