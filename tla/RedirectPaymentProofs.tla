----------------------- MODULE RedirectPaymentProofs -----------------------
(***************************************************************************)
(* Proofs about RedirectPayment, for any orders, attempts, browser         *)
(* requests and runs of the job, any amounts and any number of crashes:    *)
(* what is routed, recorded and told to the guest, and that the payments   *)
(* module's promise about every attempt is kept, and that the bill is the  *)
(* sum of what was recorded.                                               *)
(***************************************************************************)
EXTENDS RedirectPayment, BillLedgerTheorems, FiniteSetTheorems

USE AttemptsAssumption, OrdersAssumption, AmountsAssumption

-----------------------------------------------------------------------------
(* The inductive invariant                                                 *)

\* An attempt that succeeded was captured, and has its one payment.
AttemptInv(a) ==
    /\ gateway[a] # "none" => attempt[a].status # "NONE"
    /\ attempt[a].payments = IF attempt[a].status = "SUCCEEDED" THEN 1 ELSE 0
    /\ attempt[a].status = "SUCCEEDED" => gateway[a] = "captured"

Starting(w) == req[w].step \in {"creating", "notCreated"}
Approved(w) == req[w].step \in {"approved", "orderRead", "tx"}

\* What a worker may rely on while it awaits, whatever the others do.
WorkerInv(w) ==
    /\ At(w, "idle") => ~req[w].payable
    /\ ~At(w, "idle") => /\ req[w].attempt \in Attempts
                         /\ attempt[req[w].attempt].status # "NONE"
    /\ \A a \in req[w].todo : attempt[a].status # "NONE"
    /\ Starting(w) => gateway[req[w].attempt] = "none"
    /\ Approved(w) => gateway[req[w].attempt] = "captured"
    /\ At(w, "tx") => Unresolved(req[w].attempt)
    /\ req[w].payable => attempt[req[w].attempt].order \in Orders

\* The gateway is asked for a transaction by one worker, and the row of an attempt
\* is locked by one transaction.
OneStarter ==
    \A v, w \in Workers :
        Starting(v) /\ Starting(w) /\ req[v].attempt = req[w].attempt => v = w

OneFinalizer ==
    \A v, w \in Workers :
        At(v, "tx") /\ At(w, "tx") /\ req[v].attempt = req[w].attempt => v = w

Inv ==
    /\ TypeOK
    /\ \A a \in Attempts : AttemptInv(a)
    /\ \A w \in Workers : WorkerInv(w)
    /\ OneStarter
    /\ OneFinalizer
    /\ IsFiniteSet(items)
    /\ RoutingIsPaid
    /\ RoutedIsNotPayable
    /\ ApprovalIsRecorded

-----------------------------------------------------------------------------
(* Types, and what a step makes of a row                                   *)

LEMMA IdleType == EmptyBill \in Bills /\ Idle \in WorkerRecords
BY DEF Idle, WorkerRecords, Steps, EmptyBill, Bills, BillStatuses

LEMMA TypeInit == Init => TypeOK
<1> SUFFICES ASSUME Init
             PROVE  TypeOK
  OBVIOUS
<1>1. bill \in Bills
  <2>1. Price \in Int
    OBVIOUS
  <2>2. ApplyOrderCharge(EmptyBill, EmptyBill, Price) \in Bills
    BY <2>1, IdleType, BillRewriteType
  <2> QED
    BY <2>2, IdleType DEF Init
<1>2. req \in [Workers -> WorkerRecords]
  BY IdleType DEF Init
<1>3. order \in [Orders -> OrderRecords] /\ attempt \in [Attempts -> AttemptRecords]
  BY DEF Init, OrderRecords, AttemptRecords
<1>4. gateway \in [Attempts -> GatewayStates] /\ charges \in Nat /\ items = {}
  BY DEF Init, GatewayStates
<1>5. told \in [Attempts -> {"NOTHING", "APPROVED", "REJECTED", "ABORTED"}]
      /\ crashes \in Nat /\ overwritten \in BOOLEAN /\ session = "OPEN"
  BY DEF Init
<1> QED
  BY <1>1, <1>2, <1>3, <1>4, <1>5 DEF TypeOK

\* A worker that goes on keeps what it has read.
LEMMA GotoRow ==
    ASSUME TypeOK, NEW w \in Workers, NEW step \in Steps, Goto(w, step)
    PROVE  /\ req' \in [Workers -> WorkerRecords]
           /\ req'[w].step = step
           /\ req'[w].attempt = req[w].attempt /\ req'[w].payable = req[w].payable
           /\ req'[w].todo = req[w].todo
           /\ \A v \in Workers \ {w} : req'[v] = req[v]
<1> DEFINE record == [req[w] EXCEPT !.step = step]
<1>1. /\ record \in WorkerRecords /\ record.step = step
      /\ record.attempt = req[w].attempt /\ record.payable = req[w].payable
      /\ record.todo = req[w].todo
  BY DEF TypeOK, WorkerRecords
<1>2. req' = [req EXCEPT ![w] = record]
  BY DEF Goto
<1> HIDE DEF record
<1> QED
  BY <1>1, <1>2 DEF TypeOK

\* A worker that is done has nothing but what is left of its list.
LEMMA DoneRow ==
    ASSUME TypeOK, NEW w \in Workers, Done(w)
    PROVE  /\ req' \in [Workers -> WorkerRecords]
           /\ req'[w].step = "idle" /\ ~req'[w].payable
           /\ req'[w].todo \subseteq req[w].todo
           /\ \A v \in Workers \ {w} : req'[v] = req[v]
<1> DEFINE todo == req[w].todo \ {req[w].attempt}
           record == [Idle EXCEPT !.todo = todo]
<1>1. todo \in SUBSET Attempts
  BY DEF TypeOK, WorkerRecords
<1>2. record \in WorkerRecords /\ record.step = "idle" /\ ~record.payable /\ record.todo = todo
  BY <1>1, IdleType DEF Idle, WorkerRecords
<1>3. req' = [req EXCEPT ![w] = record]
  BY DEF Done
<1> HIDE DEF record
<1> QED
  BY <1>2, <1>3 DEF TypeOK

\* The row of an attempt whose status is rewritten, with a payment or without.
LEMMA AttemptRow ==
    ASSUME TypeOK, NEW a \in Attempts, NEW n \in {0, 1},
           NEW status \in {"SUCCEEDED", "FAILED"},
           attempt' = [attempt EXCEPT ![a] =
               [attempt[a] EXCEPT !.status = status, !.payments = attempt[a].payments + n]]
    PROVE  /\ attempt' \in [Attempts -> AttemptRecords]
           /\ attempt'[a].status = status /\ attempt'[a].order = attempt[a].order
           /\ attempt'[a].payments = attempt[a].payments + n
           /\ attempt'[a].amount = attempt[a].amount
           /\ \A b \in Attempts \ {a} : attempt'[b] = attempt[b]
<1> DEFINE record == [attempt[a] EXCEPT !.status = status,
                                        !.payments = attempt[a].payments + n]
<1>1. attempt[a] \in AttemptRecords /\ attempt[a].payments + n \in Nat
  BY DEF TypeOK, AttemptRecords
<1>2. /\ record \in AttemptRecords /\ record.status = status
      /\ record.order = attempt[a].order /\ record.payments = attempt[a].payments + n
      /\ record.amount = attempt[a].amount
  BY <1>1 DEF AttemptRecords
<1>3. attempt' = [attempt EXCEPT ![a] = record]
  OBVIOUS
<1> HIDE DEF record
<1> QED
  BY <1>2, <1>3 DEF TypeOK

LEMMA FailedRow ==
    ASSUME TypeOK, NEW a \in Attempts, attempt' = [attempt EXCEPT ![a].status = "FAILED"]
    PROVE  /\ attempt' \in [Attempts -> AttemptRecords]
           /\ attempt'[a].status = "FAILED" /\ attempt'[a].order = attempt[a].order
           /\ attempt'[a].payments = attempt[a].payments
           /\ attempt'[a].amount = attempt[a].amount
           /\ \A b \in Attempts \ {a} : attempt'[b] = attempt[b]
<1> DEFINE record == [attempt[a] EXCEPT !.status = "FAILED"]
<1>1. /\ record \in AttemptRecords /\ record.status = "FAILED"
      /\ record.order = attempt[a].order /\ record.payments = attempt[a].payments
      /\ record.amount = attempt[a].amount
  BY DEF TypeOK, AttemptRecords
<1>2. attempt' = [attempt EXCEPT ![a] = record]
  OBVIOUS
<1> HIDE DEF record
<1> QED
  BY <1>1, <1>2 DEF TypeOK

LEMMA OrderRow ==
    ASSUME TypeOK, NEW o \in Orders, NEW n \in {0, 1},
           NEW status \in {"AWAITING_PAYMENT", "PAYMENT_FAILED", "ROUTED", "CANCELLED"},
           order' = [order EXCEPT ![o] =
               [order[o] EXCEPT !.status = status, !.tickets = order[o].tickets + n]]
    PROVE  /\ order' \in [Orders -> OrderRecords]
           /\ order'[o].status = status /\ order'[o].tickets = order[o].tickets + n
           /\ \A p \in Orders \ {o} : order'[p] = order[p]
<1> DEFINE record == [order[o] EXCEPT !.status = status, !.tickets = order[o].tickets + n]
<1>1. order[o] \in OrderRecords /\ order[o].tickets + n \in Nat
  BY DEF TypeOK, OrderRecords
<1>2. /\ record \in OrderRecords /\ record.status = status
      /\ record.tickets = order[o].tickets + n
  BY <1>1 DEF OrderRecords
<1>3. order' = [order EXCEPT ![o] = record]
  OBVIOUS
<1> HIDE DEF record
<1> QED
  BY <1>2, <1>3 DEF TypeOK

\* An order that only changes its status: cancelled, or failed with an attempt.
LEMMA OrderStatusRow ==
    ASSUME TypeOK, NEW o \in Orders,
           NEW status \in {"AWAITING_PAYMENT", "PAYMENT_FAILED", "ROUTED", "CANCELLED"},
           order' = [order EXCEPT ![o].status = status]
    PROVE  /\ order' \in [Orders -> OrderRecords]
           /\ order'[o].status = status /\ order'[o].tickets = order[o].tickets
           /\ \A p \in Orders \ {o} : order'[p] = order[p]
<1> DEFINE record == [order[o] EXCEPT !.status = status]
<1>1. record \in OrderRecords /\ record.status = status /\ record.tickets = order[o].tickets
  BY DEF TypeOK, OrderRecords
<1>2. order' = [order EXCEPT ![o] = record]
  OBVIOUS
<1> HIDE DEF record
<1> QED
  BY <1>1, <1>2 DEF TypeOK

-----------------------------------------------------------------------------
(* What a step may do to the attempts                                      *)

SameRow(a) ==
    /\ attempt'[a].status = attempt[a].status
    /\ attempt'[a].order = attempt[a].order
    /\ attempt'[a].payments = attempt[a].payments

\* The gateway's transaction of an attempt goes on, towards captured or not.
Advances(a) ==
    /\ attempt[a].status # "NONE" /\ gateway[a] # "captured" /\ gateway'[a] # "none"
    /\ \A b \in Attempts \ {a} : gateway'[b] = gateway[b]

Waits ==
    /\ \A a \in Attempts : SameRow(a)
    /\ UNCHANGED gateway \/ \E a \in Attempts : Advances(a)

Opens(a) ==
    /\ UNCHANGED gateway
    /\ attempt[a].status = "NONE"
    /\ attempt'[a].status = "PENDING" /\ attempt'[a].payments = 0
    /\ \A b \in Attempts \ {a} : SameRow(b)

Resolves(a, status, n) ==
    /\ UNCHANGED gateway
    /\ attempt[a].status = "PENDING"
    /\ attempt'[a].status = status /\ attempt'[a].order = attempt[a].order
    /\ attempt'[a].payments = attempt[a].payments + n
    /\ \A b \in Attempts \ {a} : SameRow(b)

Succeeds(a) == gateway[a] = "captured" /\ Resolves(a, "SUCCEEDED", 1)
Fails(a) == Resolves(a, "FAILED", 0)

Moves == Waits \/ \E a \in Attempts : Opens(a) \/ Succeeds(a) \/ Fails(a)

\* What was known of an attempt that exists stays true.
Abides ==
    \A a \in Attempts : attempt[a].status # "NONE" =>
        /\ attempt'[a].status # "NONE" /\ attempt'[a].order = attempt[a].order
        /\ gateway[a] = "captured" => gateway'[a] = "captured"

LEMMA MovesKeep ==
    ASSUME Inv, Moves
    PROVE  Abides /\ \A a \in Attempts : AttemptInv(a)'
<1>t. \A a \in Attempts : attempt[a].payments \in Nat
  BY DEF Inv, TypeOK, AttemptRecords
<1>1. CASE Waits
  <2> SUFFICES ASSUME NEW a \in Attempts
               PROVE  /\ gateway[a] = "captured" => gateway'[a] = "captured"
                      /\ AttemptInv(a)'
    BY <1>1 DEF Waits, SameRow, Abides
  <2>1. SameRow(a) /\ AttemptInv(a)
    BY <1>1 DEF Waits, Inv
  <2>2. CASE UNCHANGED gateway
    BY <2>1, <2>2 DEF SameRow, AttemptInv
  <2>3. CASE \E b \in Attempts : Advances(b)
    BY <2>1, <2>3 DEF SameRow, AttemptInv, Advances
  <2> QED
    BY <1>1, <2>2, <2>3 DEF Waits
<1>2. ASSUME NEW a \in Attempts, Opens(a) \/ Succeeds(a) \/ Fails(a)
      PROVE  Abides /\ \A b \in Attempts : AttemptInv(b)'
  <2>1. /\ UNCHANGED gateway /\ \A b \in Attempts \ {a} : SameRow(b)
        /\ attempt'[a].status # "NONE"
        /\ attempt[a].status = "NONE" \/ attempt'[a].order = attempt[a].order
    BY <1>2 DEF Opens, Succeeds, Fails, Resolves
  <2>2. Abides
    BY <2>1 DEF Abides, SameRow
  <2>3. \A b \in Attempts \ {a} : AttemptInv(b)'
    BY <2>1 DEF Inv, AttemptInv, SameRow
  <2>4. AttemptInv(a)'
    <3>1. AttemptInv(a) /\ attempt[a].payments \in Nat
      BY <1>t DEF Inv
    <3>2. CASE Opens(a)
      BY <3>2 DEF AttemptInv, Opens
    <3>3. CASE Succeeds(a)
      BY <3>1, <3>3 DEF AttemptInv, Succeeds, Resolves
    <3>4. CASE Fails(a)
      BY <3>1, <3>4 DEF AttemptInv, Fails, Resolves
    <3> QED
      BY <1>2, <3>2, <3>3, <3>4
  <2> QED
    BY <2>2, <2>3, <2>4
<1> QED
  BY <1>1, <1>2 DEF Moves

LEMMA Bystander ==
    ASSUME Inv, Abides, NEW v \in Workers, req'[v] = req[v],
           Starting(v) => gateway'[req[v].attempt] = gateway[req[v].attempt],
           At(v, "tx") => attempt'[req[v].attempt].status = attempt[req[v].attempt].status
    PROVE  WorkerInv(v)'
<1>1. WorkerInv(v) /\ req[v].todo \subseteq Attempts
  BY DEF Inv, TypeOK, WorkerRecords
<1> QED
  BY <1>1 DEF WorkerInv, Abides, Starting, Approved, At, Unresolved

WorkersInv == (\A w \in Workers : WorkerInv(w)) /\ OneStarter /\ OneFinalizer

\* What a worker that moves owes to the others.
LEMMA WorkerMoves ==
    ASSUME Inv, Abides, NEW w \in Workers, WorkerInv(w)',
           ASSUME NEW v \in Workers \ {w}
           PROVE  /\ req'[v] = req[v]
                  /\ Starting(v) =>
                        /\ gateway'[req[v].attempt] = gateway[req[v].attempt]
                        /\ Starting(w)' => req'[w].attempt # req[v].attempt
                  /\ At(v, "tx") =>
                        /\ attempt'[req[v].attempt].status = attempt[req[v].attempt].status
                        /\ At(w, "tx")' => req'[w].attempt # req[v].attempt
    PROVE  WorkersInv'
<1>1. \A v \in Workers \ {w} : WorkerInv(v)'
  BY Bystander
<1>2. OneStarter'
  BY DEF Inv, OneStarter, Starting
<1>3. OneFinalizer'
  BY DEF Inv, OneFinalizer, At
<1> QED
  BY <1>1, <1>2, <1>3 DEF WorkersInv

-----------------------------------------------------------------------------
(* Starting a payment                                                      *)

Holds == TypeOK' /\ Moves /\ WorkersInv'

LEMMA OpenHolds ==
    ASSUME Inv, NEW g \in Guests, NEW a \in Attempts, NEW o \in Orders \cup {NoOrder},
           NEW amount \in Nat, NEW tip \in Nat, attempt[a].status = "NONE",
           OpenAttempt(g, a, o, amount + tip, tip)
    PROVE  Holds
<1>t. TypeOK /\ g \in Workers
  BY DEF Inv, Workers
<1> DEFINE row == [status |-> "PENDING", order |-> o, amount |-> amount + tip, tip |-> tip,
                   reference |-> FALSE, payments |-> 0]
           record == [Idle EXCEPT !.step = "creating", !.attempt = a]
<1>1. row \in AttemptRecords /\ row.status = "PENDING" /\ row.payments = 0
  <2>1. amount + tip \in Nat
    OBVIOUS
  <2> QED
    BY <2>1 DEF AttemptRecords
<1>2. /\ record \in WorkerRecords /\ record.step = "creating" /\ record.attempt = a
      /\ ~record.payable /\ record.todo = {}
  BY IdleType DEF Idle, WorkerRecords, Steps
<1>3. attempt' = [attempt EXCEPT ![a] = row] /\ req' = [req EXCEPT ![g] = record]
  BY DEF OpenAttempt
<1> HIDE DEF row, record
<1>4. /\ attempt' \in [Attempts -> AttemptRecords] /\ attempt'[a] = row
      /\ \A b \in Attempts \ {a} : attempt'[b] = attempt[b]
      /\ req' \in [Workers -> WorkerRecords] /\ req'[g] = record
      /\ \A v \in Workers \ {g} : req'[v] = req[v]
  BY <1>t, <1>1, <1>2, <1>3 DEF TypeOK
<1>5. TypeOK'
  BY <1>t, <1>4 DEF OpenAttempt, TypeOK
<1>6. Opens(a)
  BY <1>1, <1>4 DEF OpenAttempt, Opens, SameRow
<1>7. Abides
  BY <1>6, MovesKeep DEF Moves
<1>8. gateway[a] = "none"
  BY DEF Inv, AttemptInv
<1>9. WorkerInv(g)'
  BY <1>1, <1>2, <1>4, <1>8 DEF WorkerInv, At, Starting, Approved, OpenAttempt
<1>10. ASSUME NEW v \in Workers, ~At(v, "idle")
       PROVE  req[v].attempt \in Attempts \ {a}
  BY <1>10 DEF Inv, WorkerInv
<1>11. ASSUME NEW v \in Workers \ {g}
       PROVE  /\ req'[v] = req[v]
              /\ gateway'[req[v].attempt] = gateway[req[v].attempt]
              /\ Starting(v) => req'[g].attempt # req[v].attempt
              /\ At(v, "tx") =>
                    attempt'[req[v].attempt].status = attempt[req[v].attempt].status
  <2>1. req'[v] = req[v] /\ req'[g].attempt = a /\ UNCHANGED gateway
    BY <1>2, <1>4 DEF OpenAttempt
  <2>2. ~At(v, "idle") => req[v].attempt \in Attempts \ {a}
    BY <1>10
  <2> QED
    BY <1>4, <2>1, <2>2 DEF Starting, At
<1>12. ~At(g, "tx")'
  BY <1>2, <1>4 DEF At
<1>13. WorkersInv'
  BY <1>t, <1>7, <1>9, <1>11, <1>12, WorkerMoves
<1> QED
  BY <1>5, <1>6, <1>13 DEF Holds, Moves

\* A worker that goes on with its attempt, with every row as it was.
LEMMA GoesOn ==
    ASSUME Inv, NEW w \in Workers, ~At(w, "idle"),
           UNCHANGED <<bill, session, order, items, charges, attempt, gateway, told,
                       crashes, overwritten>>,
           req' \in [Workers -> WorkerRecords],
           \A v \in Workers \ {w} : req'[v] = req[v],
           req'[w].attempt = req[w].attempt, req'[w].todo = req[w].todo,
           ~At(w, "idle")',
           Starting(w)' => Starting(w),
           Approved(w)' => Approved(w),
           At(w, "tx")' => Unresolved(req[w].attempt) /\ ~Locked(req[w].attempt),
           req'[w].payable => attempt[req[w].attempt].order \in Orders
    PROVE  Holds
<1>1. TypeOK'
  BY DEF Inv, TypeOK
<1>2. Waits
  BY DEF Waits, SameRow
<1>3. Abides
  BY <1>2, MovesKeep DEF Moves
<1>4. WorkerInv(w)'
  BY DEF Inv, WorkerInv, At, Starting, Approved, Unresolved
<1>5. WorkersInv'
  BY <1>3, <1>4, WorkerMoves DEF Inv, OneStarter, Locked, At, Starting
<1> QED
  BY <1>1, <1>2, <1>5 DEF Holds, Moves

\* A worker that is done or lost, or a job that starts: nothing is held any more.
LEMMA Rests ==
    ASSUME Inv, Abides, NEW w \in Workers,
           req' \in [Workers -> WorkerRecords],
           \A v \in Workers \ {w} : req'[v] = req[v],
           At(w, "idle")', ~req'[w].payable,
           \A a \in req'[w].todo : a \in Attempts /\ attempt[a].status # "NONE",
           UNCHANGED gateway,
           \A v \in Workers \ {w} : At(v, "tx") =>
               attempt'[req[v].attempt].status = attempt[req[v].attempt].status
    PROVE  WorkersInv'
<1>1. WorkerInv(w)'
  BY DEF WorkerInv, At, Starting, Approved, Abides
<1> QED
  BY <1>1, WorkerMoves DEF At, Starting

\* The same, when every row stays as it was.
LEMMA RestsQuietly ==
    ASSUME Inv, NEW w \in Workers,
           req' \in [Workers -> WorkerRecords],
           \A v \in Workers \ {w} : req'[v] = req[v],
           At(w, "idle")', ~req'[w].payable,
           \A a \in req'[w].todo : a \in Attempts /\ attempt[a].status # "NONE",
           crashes' \in Nat,
           UNCHANGED <<bill, session, order, items, charges, attempt, gateway, told,
                       overwritten>>
    PROVE  Holds
<1>1. TypeOK'
  BY DEF Inv, TypeOK
<1>2. Waits
  BY DEF Waits, SameRow
<1>3. Abides
  BY <1>2, MovesKeep DEF Moves
<1>4. WorkersInv'
  BY <1>3, Rests
<1> QED
  BY <1>1, <1>2, <1>4 DEF Holds, Moves

\* The job's list only holds attempts that exist.
LEMMA TodoExists ==
    ASSUME Inv, NEW w \in Workers
    PROVE  \A a \in req[w].todo : a \in Attempts /\ attempt[a].status # "NONE"
BY DEF Inv, WorkerInv, TypeOK, WorkerRecords

LEMMA CreateHolds ==
    ASSUME Inv, NEW g \in Guests, Create(g)
    PROVE  Holds
<1>t. TypeOK /\ g \in Workers /\ {"redirecting", "notCreated"} \subseteq Steps
  BY DEF Inv, Workers, Steps
<1> DEFINE a == req[g].attempt
<1>1. CASE Goto(g, "notCreated") /\ UNCHANGED gateway
  BY <1>t, <1>1, GotoRow, GoesOn
     DEF Create, At, Starting, Approved, Inv, WorkerInv
<1>2. CASE Goto(g, "redirecting") /\ gateway' = [gateway EXCEPT ![a] = "open"]
  <2>1. WorkerInv(g) /\ a \in Attempts /\ attempt[a].status # "NONE" /\ gateway[a] = "none"
    BY <1>t DEF Create, Inv, WorkerInv, At, Starting
  <2>2. /\ req' \in [Workers -> WorkerRecords]
        /\ req'[g].step = "redirecting" /\ req'[g].attempt = a
        /\ req'[g].payable = req[g].payable /\ req'[g].todo = req[g].todo
        /\ \A v \in Workers \ {g} : req'[v] = req[v]
    BY <1>t, <1>2, GotoRow
  <2>3. gateway' \in [Attempts -> GatewayStates]
    BY <1>t, <1>2, <2>1 DEF TypeOK, GatewayStates
  <2>4. TypeOK'
    BY <1>t, <2>2, <2>3 DEF Create, TypeOK
  <2>5. Advances(a)
    BY <1>t, <1>2, <2>1 DEF Advances, TypeOK
  <2>6. Waits
    BY <2>1, <2>5 DEF Waits, SameRow, Create
  <2>7. Abides
    BY <2>6, MovesKeep DEF Moves
  <2>8. WorkerInv(g)'
    BY <2>1, <2>2 DEF WorkerInv, At, Starting, Approved, Create
  <2>9. ASSUME NEW v \in Workers \ {g}, Starting(v)
        PROVE  gateway'[req[v].attempt] = gateway[req[v].attempt]
    <3>1. req[v].attempt # a /\ req[v].attempt \in Attempts
      BY <1>t, <2>9 DEF Create, Inv, OneStarter, Starting, WorkerInv, At
    <3> QED
      BY <2>5, <3>1 DEF Advances
  <2>10. WorkersInv'
    BY <1>t, <2>2, <2>7, <2>8, <2>9, WorkerMoves DEF Create, At, Starting
  <2> QED
    BY <2>4, <2>6, <2>10 DEF Holds, Moves
<1> QED
  BY <1>1, <1>2 DEF Create

LEMMA SaveReferenceHolds ==
    ASSUME Inv, NEW g \in Guests, SaveReference(g)
    PROVE  Holds
<1>t. TypeOK /\ g \in Workers
  BY DEF Inv, Workers
<1> DEFINE a == req[g].attempt
           record == [attempt[a] EXCEPT !.reference = TRUE]
<1>1. a \in Attempts /\ attempt[a] \in AttemptRecords
  BY <1>t DEF Inv, WorkerInv, SaveReference, At, TypeOK
<1>2. /\ record \in AttemptRecords /\ record.status = attempt[a].status
      /\ record.order = attempt[a].order /\ record.payments = attempt[a].payments
  BY <1>1 DEF AttemptRecords
<1>3. attempt' = [attempt EXCEPT ![a] = record]
  BY DEF SaveReference
<1> HIDE DEF record
<1>4. attempt' \in [Attempts -> AttemptRecords] /\ \A b \in Attempts : SameRow(b)
  BY <1>t, <1>1, <1>2, <1>3 DEF TypeOK, SameRow
<1>5. /\ req' \in [Workers -> WorkerRecords]
      /\ req'[g].step = "idle" /\ ~req'[g].payable
      /\ req'[g].todo \subseteq req[g].todo
      /\ \A v \in Workers \ {g} : req'[v] = req[v]
  BY <1>t, DoneRow DEF SaveReference
<1>6. TypeOK'
  BY <1>t, <1>4, <1>5 DEF SaveReference, TypeOK
<1>7. Waits
  BY <1>4 DEF Waits, SaveReference
<1>8. Abides
  BY <1>7, MovesKeep DEF Moves
<1>9. \A v \in Workers \ {g} : At(v, "tx") =>
          attempt'[req[v].attempt].status = attempt[req[v].attempt].status
  BY <1>4 DEF Inv, WorkerInv, SameRow, At
<1>10. WorkersInv'
  BY <1>t, <1>5, <1>8, <1>9, TodoExists, Rests DEF SaveReference, At
<1> QED
  BY <1>6, <1>7, <1>10 DEF Holds, Moves

\* A worker whose attempt is resolved for good, by its own transaction.
LEMMA ResolverHolds ==
    ASSUME Inv, NEW w \in Workers, NEW a \in Attempts, Succeeds(a) \/ Fails(a),
           Done(w),
           \A v \in Workers \ {w} : At(v, "tx") => req[v].attempt # a
    PROVE  WorkersInv'
<1>t. TypeOK
  BY DEF Inv
<1>1. /\ req' \in [Workers -> WorkerRecords]
      /\ req'[w].step = "idle" /\ ~req'[w].payable
      /\ req'[w].todo \subseteq req[w].todo
      /\ \A v \in Workers \ {w} : req'[v] = req[v]
  BY <1>t, DoneRow
<1>2. Abides
  BY MovesKeep DEF Moves
<1>3. ASSUME NEW v \in Workers \ {w}, At(v, "tx")
      PROVE  attempt'[req[v].attempt].status = attempt[req[v].attempt].status
  <2>1. req[v].attempt \in Attempts \ {a}
    BY <1>3 DEF Inv, WorkerInv, At
  <2> QED
    BY <2>1 DEF Succeeds, Fails, Resolves, SameRow
<1> QED
  BY <1>1, <1>2, <1>3, TodoExists, Rests DEF At, Succeeds, Fails, Resolves

\* The row of an attempt that fails.
LEMMA FailsRow ==
    ASSUME Inv, NEW a \in Attempts, Unresolved(a), UNCHANGED gateway,
           attempt' = [attempt EXCEPT ![a].status = "FAILED"]
    PROVE  attempt' \in [Attempts -> AttemptRecords] /\ Fails(a)
<1>1. TypeOK /\ attempt[a].payments + 0 = attempt[a].payments
  BY DEF Inv, TypeOK, AttemptRecords
<1> QED
  BY <1>1, FailedRow DEF Fails, Resolves, SameRow, Unresolved

LEMMA FailStartHolds ==
    ASSUME Inv, NEW g \in Guests, FailStart(g)
    PROVE  Holds
<1>t. TypeOK /\ g \in Workers
  BY DEF Inv, Workers
<1> DEFINE a == req[g].attempt
<1>1. a \in Attempts /\ gateway[a] = "none"
  BY <1>t DEF Inv, WorkerInv, FailStart, At, Starting
<1>2. attempt' \in [Attempts -> AttemptRecords] /\ Fails(a)
  BY <1>1, FailsRow DEF FailStart
<1>3. \A v \in Workers : At(v, "tx") => req[v].attempt # a
  BY <1>1 DEF Inv, WorkerInv, At, Approved
<1>4. WorkersInv'
  BY <1>t, <1>1, <1>2, <1>3, ResolverHolds DEF FailStart
<1>5. req' \in [Workers -> WorkerRecords]
  BY <1>t, DoneRow DEF FailStart
<1>6. TypeOK'
  BY <1>t, <1>2, <1>5 DEF FailStart, TypeOK
<1> QED
  BY <1>1, <1>2, <1>4, <1>6 DEF Holds, Moves

-----------------------------------------------------------------------------
(* Returning to the restaurant, and the job                                *)

\* A worker that takes up an attempt the gateway knows, or the job has listed.
LEMMA TakesUp ==
    ASSUME Inv, NEW w \in Workers, NEW a \in Attempts, attempt[a].status # "NONE",
           At(w, "idle"),
           NEW step \in {"confirming", "aborting", "polling"},
           req' \in [Workers -> WorkerRecords],
           req'[w].step = step, req'[w].attempt = a, ~req'[w].payable,
           \A b \in req'[w].todo : b \in Attempts /\ attempt[b].status # "NONE",
           \A v \in Workers \ {w} : req'[v] = req[v],
           UNCHANGED <<bill, session, order, items, charges, attempt, gateway, told,
                       crashes, overwritten>>
    PROVE  Holds
<1>1. TypeOK'
  BY DEF Inv, TypeOK
<1>2. Waits
  BY DEF Waits, SameRow
<1>3. Abides
  BY <1>2, MovesKeep DEF Moves
<1>4. WorkerInv(w)'
  BY DEF WorkerInv, At, Starting, Approved
<1>5. WorkersInv'
  BY <1>3, <1>4, WorkerMoves DEF At, Starting
<1> QED
  BY <1>1, <1>2, <1>5 DEF Holds, Moves

LEMMA ReturnHolds ==
    ASSUME Inv, NEW g \in Guests, NEW a \in Attempts, Return(g, a) \/ Abort(g, a)
    PROVE  Holds
<1>t. TypeOK /\ g \in Workers
  BY DEF Inv, Workers
<1>1. attempt[a].status # "NONE"
  BY DEF Return, Abort, Inv, AttemptInv
<1>2. CASE Unresolved(a)
  <2>1. PICK step \in {"confirming", "aborting"} :
            req' = [req EXCEPT ![g] = [Idle EXCEPT !.step = step, !.attempt = a]]
    BY <1>2 DEF Return, Abort
  <2> DEFINE record == [Idle EXCEPT !.step = step, !.attempt = a]
  <2>2. /\ record \in WorkerRecords /\ record.step = step /\ record.attempt = a
        /\ ~record.payable /\ record.todo = {}
    BY IdleType DEF Idle, WorkerRecords, Steps
  <2>3. req' = [req EXCEPT ![g] = record]
    BY <2>1
  <2> HIDE DEF record
  <2>4. /\ req' \in [Workers -> WorkerRecords] /\ req'[g] = record
        /\ \A v \in Workers \ {g} : req'[v] = req[v]
    BY <1>t, <2>2, <2>3 DEF TypeOK
  <2> QED
    BY <1>t, <1>1, <1>2, <2>2, <2>4, TakesUp DEF Return, Abort
<1>3. CASE ~Unresolved(a)
  <2>1. UNCHANGED <<bill, session, order, items, charges, attempt, gateway, req, crashes,
                    overwritten>>
        /\ told' = [told EXCEPT ![a] = ReusedAnswer(a)]
    BY <1>3 DEF Return, Abort
  <2>2. TypeOK'
    BY <1>t, <2>1 DEF TypeOK, ReusedAnswer
  <2>3. Waits
    BY <2>1 DEF Waits, SameRow
  <2>4. WorkersInv'
    BY <2>1 DEF Inv, WorkersInv, WorkerInv, OneStarter, OneFinalizer, At, Starting,
       Approved, Unresolved
  <2> QED
    BY <2>2, <2>3, <2>4 DEF Holds, Moves
<1> QED
  BY <1>2, <1>3

LEMMA ConfirmHolds ==
    ASSUME Inv, NEW g \in Guests, Confirm(g)
    PROVE  Holds
<1>t. TypeOK /\ g \in Workers /\ {"approved", "rejected"} \subseteq Steps
  BY DEF Inv, Workers, Steps
<1> DEFINE a == req[g].attempt
<1>1. WorkerInv(g) /\ a \in Attempts /\ attempt[a].status # "NONE"
  BY <1>t DEF Confirm, Inv, WorkerInv, At
<1>2. PICK answer \in CommitAnswers(gateway[a]) :
          Goto(g, answer[1]) /\ gateway' = [gateway EXCEPT ![a] = answer[2]]
  BY DEF Confirm
<1>3. \/ /\ gateway[a] = "authorized" /\ answer[2] = "captured"
         /\ answer[1] \in {"approved", "rejected"}
      \/ answer[1] = "rejected" /\ answer[2] = gateway[a]
  BY DEF CommitAnswers
<1>4. /\ req' \in [Workers -> WorkerRecords]
      /\ req'[g].step = answer[1] /\ req'[g].attempt = a
      /\ req'[g].payable = req[g].payable /\ req'[g].todo = req[g].todo
      /\ \A v \in Workers \ {g} : req'[v] = req[v]
  <2>1. answer[1] \in Steps
    BY <1>t, <1>3
  <2> QED
    BY <1>t, <1>2, <2>1, GotoRow
<1>5. /\ gateway' \in [Attempts -> GatewayStates]
      /\ gateway'[a] = answer[2] /\ \A b \in Attempts \ {a} : gateway'[b] = gateway[b]
  BY <1>t, <1>1, <1>2, <1>3 DEF TypeOK, GatewayStates
<1>6. TypeOK'
  BY <1>t, <1>4, <1>5 DEF Confirm, TypeOK
<1>7. Waits
  <2>1. CASE answer[2] = gateway[a]
    BY <1>t, <1>2, <2>1 DEF Waits, SameRow, Confirm, TypeOK
  <2>2. CASE gateway[a] = "authorized" /\ answer[2] = "captured"
    BY <1>1, <1>5, <2>2 DEF Waits, SameRow, Confirm, Advances
  <2> QED
    BY <1>3, <2>1, <2>2
<1>8. Abides
  BY <1>7, MovesKeep DEF Moves
<1>9. WorkerInv(g)'
  BY <1>1, <1>3, <1>4, <1>5 DEF WorkerInv, At, Starting, Approved, Confirm
<1>10. ASSUME NEW v \in Workers, Starting(v)
       PROVE  gateway'[req[v].attempt] = gateway[req[v].attempt]
  <2>1. req[v].attempt \in Attempts /\ gateway[req[v].attempt] = "none"
    BY <1>10 DEF Inv, WorkerInv, At, Starting
  <2> QED
    BY <1>3, <1>5, <2>1
<1>11. WorkersInv'
  BY <1>t, <1>3, <1>4, <1>8, <1>9, <1>10, WorkerMoves DEF Confirm, At, Starting
<1> QED
  BY <1>6, <1>7, <1>11 DEF Holds, Moves

LEMMA JobHolds ==
    ASSUME Inv, NEW j \in Jobs, JobStart(j) \/ JobNext(j) \/ Poll(j)
    PROVE  Holds
<1>t. TypeOK /\ j \in Workers /\ req[j] \in WorkerRecords
  BY DEF Inv, Workers, TypeOK
<1>1. CASE JobStart(j)
  <2> DEFINE record == [req[j] EXCEPT !.todo = Oldest(Eligible)]
  <2>1. \A a \in Oldest(Eligible) : a \in Attempts /\ attempt[a].status # "NONE"
    BY DEF Oldest, Eligible, Unresolved
  <2>2. /\ record \in WorkerRecords /\ record.step = req[j].step
        /\ record.payable = req[j].payable /\ record.todo = Oldest(Eligible)
    BY <1>t, <2>1 DEF WorkerRecords
  <2>3. req' = [req EXCEPT ![j] = record]
    BY <1>1 DEF JobStart
  <2> HIDE DEF record
  <2>4. /\ req' \in [Workers -> WorkerRecords] /\ req'[j] = record
        /\ \A v \in Workers \ {j} : req'[v] = req[v]
    BY <1>t, <2>2, <2>3 DEF TypeOK
  <2>5. ~req[j].payable /\ req[j].step = "idle" /\ crashes' \in Nat
    BY <1>t, <1>1 DEF JobStart, Inv, WorkerInv, At, TypeOK
  <2> QED
    BY <1>t, <1>1, <2>1, <2>2, <2>4, <2>5, RestsQuietly DEF JobStart, At
<1>2. CASE JobNext(j)
  <2>1. PICK a \in req[j].todo :
            req' = [req EXCEPT ![j].step = "polling", ![j].attempt = a]
    BY <1>2 DEF JobNext
  <2>2. a \in Attempts /\ attempt[a].status # "NONE"
    BY <1>t, <2>1, TodoExists
  <2> DEFINE record == [req[j] EXCEPT !.step = "polling", !.attempt = a]
  <2>3. /\ record \in WorkerRecords /\ record.step = "polling" /\ record.attempt = a
        /\ record.payable = req[j].payable /\ record.todo = req[j].todo
    BY <1>t, <2>2 DEF WorkerRecords, Steps
  <2>4. req' = [req EXCEPT ![j] = record]
    BY <2>1
  <2> HIDE DEF record
  <2>5. /\ req' \in [Workers -> WorkerRecords] /\ req'[j] = record
        /\ \A v \in Workers \ {j} : req'[v] = req[v]
    BY <1>t, <2>3, <2>4 DEF TypeOK
  <2>6. ~req[j].payable
    BY <1>t, <1>2 DEF JobNext, Inv, WorkerInv
  <2> QED
    BY <1>t, <1>2, <2>2, <2>3, <2>5, <2>6, TodoExists, TakesUp DEF JobNext
<1>3. CASE Poll(j)
  <2>1. PICK answer \in StatusAnswers(gateway[req[j].attempt]) : Goto(j, answer)
    BY <1>3 DEF Poll
  <2>2. /\ answer \in {"approved", "rejected"} /\ answer \in Steps
        /\ answer = "approved" => gateway[req[j].attempt] = "captured"
    BY DEF StatusAnswers, Steps
  <2>3. /\ req' \in [Workers -> WorkerRecords]
        /\ req'[j].step = answer /\ req'[j].attempt = req[j].attempt
        /\ req'[j].payable = req[j].payable /\ req'[j].todo = req[j].todo
        /\ \A v \in Workers \ {j} : req'[v] = req[v]
    BY <1>t, <2>1, <2>2, GotoRow
  <2>4. WorkerInv(j) /\ WorkerInv(j)'
    BY <1>t, <1>3, <2>2, <2>3 DEF Poll, Inv, WorkerInv, At, Starting, Approved
  <2>5. Waits
    BY <1>3 DEF Waits, SameRow, Poll
  <2>6. Abides
    BY <2>5, MovesKeep DEF Moves
  <2>7. WorkersInv'
    BY <1>t, <1>3, <2>2, <2>3, <2>4, <2>6, WorkerMoves DEF Poll, At, Starting
  <2>8. TypeOK'
    BY <1>t, <1>3, <2>3 DEF Poll, TypeOK
  <2> QED
    BY <2>5, <2>7, <2>8 DEF Holds, Moves
<1> QED
  BY <1>1, <1>2, <1>3

-----------------------------------------------------------------------------
(* The outcome                                                             *)

LEMMA TellType ==
    ASSUME TypeOK, NEW w \in Workers,
           NEW answer \in {"APPROVED", "REJECTED", "ABORTED"}, Tell(w, answer)
    PROVE  told' \in [Attempts -> {"NOTHING", "APPROVED", "REJECTED", "ABORTED"}]
BY DEF Tell, TypeOK

LEMMA FailAttemptHolds ==
    ASSUME Inv, NEW w \in Workers, FailAttempt(w)
    PROVE  Holds
<1>t. TypeOK
  BY DEF Inv
<1> DEFINE a == req[w].attempt
           o == attempt[a].order
<1>1. a \in Attempts /\ o \in Orders \cup {NoOrder}
  BY <1>t DEF FailAttempt, Inv, WorkerInv, At, TypeOK, AttemptRecords
<1>2. attempt' \in [Attempts -> AttemptRecords] /\ Fails(a)
  BY <1>1, FailsRow DEF FailAttempt
<1>3. \A v \in Workers : At(v, "tx") => req[v].attempt # a
  BY DEF FailAttempt, Locked
<1>4. WorkersInv'
  BY <1>1, <1>2, <1>3, ResolverHolds DEF FailAttempt
<1>5. req' \in [Workers -> WorkerRecords]
  BY <1>t, DoneRow DEF FailAttempt
<1>6. order' \in [Orders -> OrderRecords]
  <2>1. CASE o = NoOrder
    BY <1>t, <2>1 DEF FailAttempt, TypeOK
  <2>2. CASE o # NoOrder
    <3>1. order' = [order EXCEPT ![o].status = OrderAfterFailure(order[o].status)]
      BY <2>2 DEF FailAttempt
    <3>2. OrderAfterFailure(order[o].status)
              \in {"AWAITING_PAYMENT", "PAYMENT_FAILED", "ROUTED", "CANCELLED"}
      BY <1>t, <1>1, <2>2 DEF OrderAfterFailure, TypeOK, OrderRecords
    <3> QED
      BY <1>t, <1>1, <2>2, <3>1, <3>2, OrderStatusRow
  <2> QED
    BY <2>1, <2>2
<1>7. told' \in [Attempts -> {"NOTHING", "APPROVED", "REJECTED", "ABORTED"}]
  BY <1>t, TellType DEF FailAttempt
<1>8. TypeOK'
  BY <1>t, <1>2, <1>5, <1>6, <1>7 DEF FailAttempt, TypeOK
<1> QED
  BY <1>1, <1>2, <1>4, <1>8 DEF Holds, Moves

LEMMA ReadOrderHolds ==
    ASSUME Inv, NEW w \in Workers, ReadOrder(w)
    PROVE  Holds
<1>t. TypeOK /\ req[w] \in WorkerRecords
  BY DEF Inv, TypeOK
<1> DEFINE a == req[w].attempt
           payable == order[attempt[a].order].status \in PayableOrderStatuses
           record == [req[w] EXCEPT !.step = "orderRead", !.payable = payable]
<1>1. a \in Attempts /\ attempt[a].order \in Orders
  BY <1>t DEF ReadOrder, Inv, WorkerInv, At, TypeOK, AttemptRecords
<1>2. /\ record \in WorkerRecords /\ record.step = "orderRead" /\ record.attempt = a
      /\ record.todo = req[w].todo
  <2>1. payable \in BOOLEAN
    OBVIOUS
  <2> HIDE DEF payable
  <2> QED
    BY <1>t, <2>1 DEF WorkerRecords, Steps
<1>3. req' = [req EXCEPT ![w] = record]
  BY DEF ReadOrder
<1> HIDE DEF record
<1>4. /\ req' \in [Workers -> WorkerRecords] /\ req'[w] = record
      /\ \A v \in Workers \ {w} : req'[v] = req[v]
  BY <1>t, <1>2, <1>3 DEF TypeOK
<1> QED
  BY <1>1, <1>2, <1>4, GoesOn DEF ReadOrder, At, Starting, Approved

LEMMA FinalizeHolds ==
    ASSUME Inv, NEW w \in Workers, Finalize(w)
    PROVE  Holds
<1>t. TypeOK /\ req[w] \in WorkerRecords
  BY DEF Inv, TypeOK
<1> DEFINE record == [req[w] EXCEPT !.step = "tx", !.seen = bill]
<1>1. /\ record \in WorkerRecords /\ record.step = "tx"
      /\ record.attempt = req[w].attempt
      /\ record.todo = req[w].todo /\ record.payable = req[w].payable
  BY <1>t DEF TypeOK, WorkerRecords, Steps
<1>2. req' = [req EXCEPT ![w] = record]
  BY DEF Finalize
<1> HIDE DEF record
<1>3. /\ req' \in [Workers -> WorkerRecords] /\ req'[w] = record
      /\ \A v \in Workers \ {w} : req'[v] = req[v]
  BY <1>t, <1>1, <1>2 DEF TypeOK
<1>4. req[w].payable => attempt[req[w].attempt].order \in Orders
  BY DEF Inv, WorkerInv
<1> QED
  BY <1>1, <1>3, <1>4, GoesOn DEF Finalize, At, Starting, Approved

LEMMA GivesUpHolds ==
    ASSUME Inv, NEW w \in Workers, Refuse(w) \/ Crash(w)
    PROVE  Holds
<1>t. TypeOK /\ crashes \in Nat
  BY DEF Inv, TypeOK
<1>1. CASE Refuse(w)
  BY <1>t, <1>1, DoneRow, TodoExists, RestsQuietly DEF Refuse, At
<1>2. CASE Crash(w)
  <2>1. Idle \in WorkerRecords /\ Idle.step = "idle" /\ ~Idle.payable /\ Idle.todo = {}
    BY IdleType DEF Idle
  <2>2. req' = [req EXCEPT ![w] = Idle] /\ crashes' \in Nat
    BY <1>t, <1>2 DEF Crash
  <2>3. /\ req' \in [Workers -> WorkerRecords] /\ req'[w] = Idle
        /\ \A v \in Workers \ {w} : req'[v] = req[v]
    BY <1>t, <2>1, <2>2 DEF TypeOK
  <2> QED
    BY <1>2, <2>1, <2>2, <2>3, RestsQuietly DEF Crash, At
<1> QED
  BY <1>1, <1>2

LEMMA SessionType ==
    ASSUME session \in {"OPEN", "PAYMENT_COMPLETED"}, NEW r1, NEW r2
    PROVE  /\ SessionAfterCharge(session, r1) \in {"OPEN", "PAYMENT_COMPLETED"}
           /\ SessionAfterPayment(session, r2) \in {"OPEN", "PAYMENT_COMPLETED"}
           /\ SessionAfterPayment(SessionAfterCharge(session, r1), r2)
                  \in {"OPEN", "PAYMENT_COMPLETED"}
BY DEF SessionAfterCharge, SessionAfterPayment

\* What the rest of the invariant needs to know of a commit.
LEMMA CommitRows ==
    ASSUME Inv, NEW w \in Workers, CommitPayment(w)
    PROVE  LET a == req[w].attempt
               o == attempt[a].order
           IN  /\ a \in Attempts /\ Succeeds(a)
               /\ attempt' \in [Attempts -> AttemptRecords]
               /\ attempt'[a].amount = attempt[a].amount
               /\ \A b \in Attempts \ {a} : attempt'[b] = attempt[b]
               /\ IF req[w].payable
                  THEN /\ o \in Orders
                       /\ order' \in [Orders -> OrderRecords]
                       /\ order'[o].status = "ROUTED"
                       /\ order'[o].tickets = order[o].tickets + 1
                       /\ \A p \in Orders \ {o} : order'[p] = order[p]
                       /\ items' = items \cup {<<o, a>>}
                  ELSE UNCHANGED <<order, items>>
<1>t. TypeOK
  BY DEF Inv
<1> DEFINE a == req[w].attempt
           o == attempt[a].order
<1>1. /\ a \in Attempts /\ gateway[a] = "captured" /\ attempt[a].status = "PENDING"
      /\ req[w].payable => o \in Orders
  BY DEF CommitPayment, Inv, WorkerInv, At, Approved, Unresolved
<1>2. attempt' = [attempt EXCEPT ![a] =
          [attempt[a] EXCEPT !.status = "SUCCEEDED", !.payments = attempt[a].payments + 1]]
  BY <1>t, <1>1 DEF CommitPayment, TypeOK
<1>3. /\ attempt' \in [Attempts -> AttemptRecords]
      /\ attempt'[a].status = "SUCCEEDED" /\ attempt'[a].order = attempt[a].order
      /\ attempt'[a].payments = attempt[a].payments + 1
      /\ attempt'[a].amount = attempt[a].amount
      /\ \A b \in Attempts \ {a} : attempt'[b] = attempt[b]
  BY <1>t, <1>1, <1>2, AttemptRow
<1>4. Succeeds(a)
  BY <1>1, <1>3 DEF Succeeds, Resolves, SameRow, CommitPayment
<1>5. ASSUME req[w].payable
      PROVE  /\ order' \in [Orders -> OrderRecords]
             /\ order'[o].status = "ROUTED" /\ order'[o].tickets = order[o].tickets + 1
             /\ \A p \in Orders \ {o} : order'[p] = order[p]
             /\ items' = items \cup {<<o, a>>}
  <2>1. order' = [order EXCEPT ![o] =
            [order[o] EXCEPT !.status = "ROUTED", !.tickets = order[o].tickets + 1]]
    BY <1>t, <1>1, <1>5 DEF CommitPayment, TypeOK
  <2> QED
    BY <1>t, <1>1, <1>5, <2>1, OrderRow DEF CommitPayment
<1>6. ~req[w].payable => UNCHANGED <<order, items>>
  BY DEF CommitPayment
<1> QED
  BY <1>1, <1>3, <1>4, <1>5, <1>6

LEMMA CommitHolds ==
    ASSUME Inv, NEW w \in Workers, CommitPayment(w)
    PROVE  Holds
<1>t. TypeOK /\ req[w] \in WorkerRecords
  BY DEF Inv, TypeOK
<1> DEFINE a == req[w].attempt
<1>1. /\ a \in Attempts /\ Succeeds(a) /\ attempt' \in [Attempts -> AttemptRecords]
      /\ order' \in [Orders -> OrderRecords] /\ items' \subseteq Orders \X Attempts
  BY <1>t, CommitRows DEF TypeOK
<1>2. bill' \in Bills
  <2>r. attempt[a] \in AttemptRecords
    BY <1>t, <1>1 DEF TypeOK
  <2>1. /\ bill \in Bills /\ req[w].seen \in Bills /\ Price \in Int
        /\ attempt[a].amount \in Int /\ attempt[a].tip \in Int
    BY <1>t, <2>r DEF TypeOK, WorkerRecords, AttemptRecords
  <2>2. ChargedBill(w) \in Bills /\ SeenBill(w) \in Bills
    BY <2>1, BillRewriteType DEF ChargedBill, SeenBill
  <2> QED
    BY <2>1, <2>2, BillRewriteType DEF CommitPayment
<1>3. session' \in {"OPEN", "PAYMENT_COMPLETED"}
  BY <1>t, SessionType DEF CommitPayment, TypeOK
<1>4. req' \in [Workers -> WorkerRecords]
  BY <1>t, DoneRow DEF CommitPayment
<1>5. told' \in [Attempts -> {"NOTHING", "APPROVED", "REJECTED", "ABORTED"}]
  BY <1>t, TellType DEF CommitPayment
<1>6. overwritten' \in BOOLEAN
  BY <1>t DEF CommitPayment, TypeOK
<1>7. TypeOK'
  BY <1>t, <1>1, <1>2, <1>3, <1>4, <1>5, <1>6 DEF CommitPayment, TypeOK
<1>8. \A v \in Workers \ {w} : At(v, "tx") => req[v].attempt # a
  BY DEF CommitPayment, Inv, OneFinalizer
<1>9. WorkersInv'
  BY <1>1, <1>8, ResolverHolds DEF CommitPayment
<1> QED
  BY <1>1, <1>7, <1>9 DEF Holds, Moves

-----------------------------------------------------------------------------
(* The guest at the gateway and the waiter, and every step                 *)

LEMMA GatewayHolds ==
    ASSUME Inv, NEW a \in Attempts, GuestPays(a) \/ Expire(a)
    PROVE  Holds
<1>t. TypeOK
  BY DEF Inv
<1>1. PICK state \in {"authorized", "declined", "aborted", "expired"} :
          gateway' = [gateway EXCEPT ![a] = state]
  BY DEF GuestPays, Expire
<1>2. /\ gateway' \in [Attempts -> GatewayStates]
      /\ gateway'[a] = state /\ \A b \in Attempts \ {a} : gateway'[b] = gateway[b]
  BY <1>t, <1>1 DEF TypeOK, GatewayStates
<1>3. gateway[a] \notin {"none", "captured"} /\ attempt[a].status # "NONE"
  BY DEF GuestPays, Expire, Inv, AttemptInv
<1>4. TypeOK'
  BY <1>t, <1>2 DEF GuestPays, Expire, TypeOK
<1>5. Waits
  BY <1>2, <1>3 DEF Waits, SameRow, Advances, GuestPays, Expire
<1>6. Abides
  BY <1>5, MovesKeep DEF Moves
<1>7. ASSUME NEW v \in Workers
      PROVE  WorkerInv(v)'
  <2>1. Starting(v) => gateway'[req[v].attempt] = gateway[req[v].attempt]
    BY <1>2, <1>3 DEF Inv, WorkerInv, At, Starting
  <2> QED
    BY <1>6, <2>1, Bystander DEF GuestPays, Expire
<1>8. WorkersInv'
  BY <1>7 DEF Inv, WorkersInv, OneStarter, OneFinalizer, At, Starting, GuestPays, Expire
<1> QED
  BY <1>4, <1>5, <1>8 DEF Holds, Moves

LEMMA WaiterHolds ==
    ASSUME Inv, ChargeOther \/ (\E o \in Orders : CancelOrder(o)) \/ UNCHANGED vars
    PROVE  Holds
<1>t. TypeOK
  BY DEF Inv
<1>1. UNCHANGED <<attempt, gateway, req>>
  BY DEF ChargeOther, CancelOrder, vars
<1>2. Waits
  BY <1>1 DEF Waits, SameRow
<1>3. WorkersInv'
  BY <1>1 DEF Inv, WorkersInv, WorkerInv, OneStarter, OneFinalizer, At, Starting,
     Approved, Unresolved
<1>4. CASE ChargeOther
  <2>1. bill \in Bills /\ Price \in Int
    BY <1>t DEF TypeOK
  <2>2. bill' \in Bills
    BY <1>4, <2>1, BillRewriteType DEF ChargeOther
  <2>3. session' \in {"OPEN", "PAYMENT_COMPLETED"} /\ charges' \in Nat
    BY <1>t, <1>4, SessionType DEF ChargeOther, TypeOK
  <2>4. TypeOK'
    BY <1>t, <1>4, <2>2, <2>3 DEF ChargeOther, TypeOK
  <2> QED
    BY <1>2, <1>3, <2>4 DEF Holds, Moves
<1>5. ASSUME NEW o \in Orders, CancelOrder(o)
      PROVE  Holds
  <2>1. order' \in [Orders -> OrderRecords]
    BY <1>t, <1>5, OrderStatusRow DEF CancelOrder
  <2>2. TypeOK'
    BY <1>t, <1>5, <2>1 DEF CancelOrder, TypeOK
  <2> QED
    BY <1>2, <1>3, <2>2 DEF Holds, Moves
<1>6. CASE UNCHANGED vars
  <2>1. TypeOK'
    BY <1>t, <1>6 DEF vars, TypeOK
  <2> QED
    BY <1>2, <1>3, <2>1 DEF Holds, Moves
<1> QED
  BY <1>4, <1>5, <1>6

LEMMA StepHolds ==
    ASSUME Inv, [Next]_vars
    PROVE  Holds
<1>1. ASSUME NEW w \in Workers, Outcome(w) \/ Crash(w)
      PROVE  Holds
  BY <1>1, FailAttemptHolds, ReadOrderHolds, FinalizeHolds, CommitHolds, GivesUpHolds
     DEF Outcome
<1>2. ASSUME NEW g \in Guests, Start(g)
      PROVE  Holds
  <2>1. PICK a \in Attempts, tip \in Tips :
            \/ \E o \in Orders : StartForQrOrder(g, a, o, tip)
            \/ \E amount \in Amounts : StartForQrBill(g, a, amount, tip)
    BY <1>2 DEF Start
  <2>2. PICK o \in Orders \cup {NoOrder}, amount \in Nat :
            attempt[a].status = "NONE" /\ OpenAttempt(g, a, o, amount + tip, tip)
    BY <2>1 DEF StartForQrOrder, StartForQrBill, NextAttempt
  <2>3. tip \in Nat
    OBVIOUS
  <2> QED
    BY <2>2, <2>3, OpenHolds
<1>3. ASSUME NEW g \in Guests, GuestStep(g)
      PROVE  Holds
  BY <1>1, <1>3, CreateHolds, SaveReferenceHolds, FailStartHolds, ConfirmHolds
     DEF GuestStep, Workers
<1>4. ASSUME NEW j \in Jobs, JobStart(j) \/ JobStep(j)
      PROVE  Holds
  BY <1>1, <1>4, JobHolds DEF JobStep, Workers
<1> QED
  BY <1>1, <1>2, <1>3, <1>4, ReturnHolds, GatewayHolds, WaiterHolds DEF Next

-----------------------------------------------------------------------------
(* What is routed, and what the guest was told                             *)

\* An attempt that succeeded is never touched again.
LEMMA SucceededStays ==
    ASSUME Inv, Moves, NEW a \in Attempts, attempt[a].payments = 1
    PROVE  SameRow(a) /\ gateway[a] = "captured" /\ gateway'[a] = "captured"
<1>1. attempt[a].status = "SUCCEEDED" /\ gateway[a] = "captured"
  BY DEF Inv, AttemptInv
<1>2. Abides
  BY MovesKeep
<1> QED
  BY <1>1, <1>2 DEF Abides, Moves, Waits, Opens, Succeeds, Fails, Resolves

\* Only a commit routes an order; a rejection or a cancellation leaves a routed one alone.
LeavesRouted ==
    /\ UNCHANGED items
    /\ \A o \in Orders :
          /\ order'[o].tickets = order[o].tickets
          /\ \/ order'[o].status = order[o].status
             \/ /\ order[o].status \in PayableOrderStatuses
                /\ order'[o].status # "ROUTED"

LEMMA OrderSteps ==
    ASSUME Inv, [Next]_vars
    PROVE  LeavesRouted \/ \E w \in Workers : CommitPayment(w)
<1>t. TypeOK
  BY DEF Inv
<1>1. ASSUME order' = order, items' = items
      PROVE  LeavesRouted
  BY <1>1 DEF LeavesRouted
<1>2. ASSUME NEW o \in Orders, CancelOrder(o)
      PROVE  LeavesRouted
  <2>1. /\ order'[o].status = "CANCELLED" /\ order'[o].tickets = order[o].tickets
        /\ \A p \in Orders \ {o} : order'[p] = order[p]
    BY <1>t, <1>2, OrderStatusRow DEF CancelOrder
  <2> QED
    BY <1>2, <2>1 DEF CancelOrder, LeavesRouted
<1>3. ASSUME NEW w \in Workers, FailAttempt(w)
      PROVE  LeavesRouted
  <2> DEFINE o == attempt[req[w].attempt].order
             status == OrderAfterFailure(order[o].status)
  <2>1. o \in Orders \cup {NoOrder} /\ UNCHANGED items
    BY <1>t, <1>3 DEF FailAttempt, Inv, WorkerInv, At, TypeOK, AttemptRecords
  <2>2. CASE o = NoOrder
    <3>1. order' = order /\ items' = items
      BY <1>3, <2>2 DEF FailAttempt
    <3> QED
      BY <1>1, <3>1
  <2>3. CASE o # NoOrder
    <3>1. order' = [order EXCEPT ![o].status = status]
      BY <1>3, <2>3 DEF FailAttempt
    <3>2. /\ status \in {"AWAITING_PAYMENT", "PAYMENT_FAILED", "ROUTED", "CANCELLED"}
          /\ \/ status = order[o].status
             \/ order[o].status \in PayableOrderStatuses /\ status # "ROUTED"
      BY <1>t, <2>1, <2>3 DEF OrderAfterFailure, TypeOK, OrderRecords
    <3>3. /\ order'[o].status = status /\ order'[o].tickets = order[o].tickets
          /\ \A p \in Orders \ {o} : order'[p] = order[p]
      BY <1>t, <2>1, <2>3, <3>1, <3>2, OrderStatusRow
    <3> QED
      BY <2>1, <3>2, <3>3 DEF LeavesRouted
  <2> QED
    BY <2>2, <2>3
<1>4. ASSUME NEW w \in Workers, Outcome(w) \/ Crash(w)
      PROVE  LeavesRouted \/ CommitPayment(w)
  <2>1. CASE ReadOrder(w) \/ Finalize(w) \/ Refuse(w) \/ Crash(w)
    <3>1. order' = order /\ items' = items
      BY <2>1 DEF ReadOrder, Finalize, Refuse, Crash
    <3> QED
      BY <1>1, <3>1
  <2> QED
    BY <1>3, <1>4, <2>1 DEF Outcome
<1>5. ASSUME NEW g \in Guests, Start(g) \/ GuestStep(g) \/ \E a \in Attempts : Return(g, a) \/ Abort(g, a)
      PROVE  LeavesRouted \/ \E w \in Workers : CommitPayment(w)
  <2>1. CASE Outcome(g)
    BY <1>4, <2>1 DEF Workers
  <2> QED
    BY <1>1, <1>5, <2>1 DEF Start, StartForQrOrder, StartForQrBill, OpenAttempt, GuestStep,
       Create, SaveReference, FailStart, Confirm, Return, Abort
<1>6. ASSUME NEW j \in Jobs, JobStart(j) \/ JobStep(j)
      PROVE  LeavesRouted \/ \E w \in Workers : CommitPayment(w)
  <2>1. CASE Outcome(j)
    BY <1>4, <2>1 DEF Workers
  <2> QED
    BY <1>1, <1>6, <2>1 DEF JobStart, JobStep, JobNext, Poll
<1>7. CASE ChargeOther \/ (\E a \in Attempts : GuestPays(a) \/ Expire(a)) \/ UNCHANGED vars
  BY <1>1, <1>7 DEF ChargeOther, GuestPays, Expire, vars
<1> QED
  BY <1>2, <1>4, <1>5, <1>6, <1>7 DEF Next

RoutingInv == IsFiniteSet(items) /\ RoutingIsPaid /\ RoutedIsNotPayable

LEMMA RoutingStep ==
    ASSUME Inv, [Next]_vars
    PROVE  RoutingInv'
<1>t. TypeOK /\ Moves
  BY StepHolds DEF Inv, Holds
<1>1. ASSUME NEW i \in items
      PROVE  /\ i[1] \in Orders /\ i[2] \in Attempts /\ i[2] \in Captured'
             /\ attempt'[i[2]].payments = 1 /\ attempt'[i[2]].order = i[1]
  <2>1. /\ i[1] \in Orders /\ i[2] \in Attempts
        /\ attempt[i[2]].payments = 1 /\ attempt[i[2]].order = i[1]
    BY <1>t DEF TypeOK, Inv, RoutingIsPaid, ItemsOf
  <2>2. SameRow(i[2]) /\ gateway'[i[2]] = "captured"
    BY <1>t, <2>1, SucceededStays
  <2> QED
    BY <2>1, <2>2 DEF SameRow, Captured
<1>2. CASE LeavesRouted
  <2>1. IsFiniteSet(items') /\ \A o \in Orders : ItemsOf(o)' = ItemsOf(o)
    BY <1>2 DEF LeavesRouted, Inv, ItemsOf
  <2>2. RoutingIsPaid'
    BY <1>1, <1>2, <2>1 DEF LeavesRouted, Inv, RoutingIsPaid, ItemsOf
  <2>3. RoutedIsNotPayable'
    <3> SUFFICES ASSUME NEW o \in Orders, order'[o].tickets > 0
                 PROVE  order'[o].status \notin PayableOrderStatuses
      BY DEF RoutedIsNotPayable
    <3> QED
      BY <1>2 DEF LeavesRouted, Inv, RoutedIsNotPayable
  <2> QED
    BY <2>1, <2>2, <2>3 DEF RoutingInv
<1>3. ASSUME NEW w \in Workers, CommitPayment(w), req[w].payable
      PROVE  RoutingInv'
  <2> DEFINE a == req[w].attempt
             o == attempt[a].order
  <2>1. /\ a \in Attempts /\ Succeeds(a) /\ o \in Orders  /\ attempt[a].order = o
        /\ order'[o].status = "ROUTED" /\ order'[o].tickets = order[o].tickets + 1
        /\ \A p \in Orders \ {o} : order'[p] = order[p]
        /\ items' = items \cup {<<o, a>>}
    BY <1>3, CommitRows
  <2> HIDE DEF a, o
  <2>2. attempt[a].payments = 0
    BY <2>1 DEF Inv, AttemptInv, Succeeds, Resolves
  <2>3. a \in Captured' /\ attempt'[a].payments = 1 /\ attempt'[a].order = o
    BY <2>1, <2>2 DEF Succeeds, Resolves, Captured
  <2> DEFINE Before(p) == {i \in items : i[1] = p}
             After(p) == {i \in items' : i[1] = p}
  <2>4. <<o, a>> \notin items
    <3>1. \A i \in items : i[1] = o => attempt[i[2]].payments = 1
      BY <2>1 DEF Inv, RoutingIsPaid, ItemsOf
    <3>2. <<o, a>>[1] = o /\ <<o, a>>[2] = a
      OBVIOUS
    <3> QED
      BY <2>2, <3>1, <3>2
  <2>5. /\ After(o) = Before(o) \cup {<<o, a>>}
        /\ \A p \in Orders \ {o} : After(p) = Before(p)
    BY <2>1
  <2>6. IsFiniteSet(items') /\ IsFiniteSet(Before(o)) /\ <<o, a>> \notin Before(o)
    <3>1. IsFiniteSet(items) /\ Before(o) \in SUBSET items
      BY DEF Inv
    <3> QED
      BY <2>1, <2>4, <3>1, FS_AddElement, FS_Subset
  <2>7. \A p \in Orders : /\ order[p].tickets = Cardinality(Before(p))
                          /\ order[p].status = "ROUTED" => Before(p) # {}
    BY DEF Inv, RoutingIsPaid, ItemsOf
  <2>8. \A p \in Orders : \A i \in After(p) :
            i[2] \in Captured' /\ attempt'[i[2]].payments = 1 /\ attempt'[i[2]].order = p
    BY <1>1, <2>1, <2>3
  <2> HIDE DEF Before, After
  <2>9. Cardinality(After(o)) = Cardinality(Before(o)) + 1
    BY <2>5, <2>6, FS_AddElement
  <2>10. \A p \in Orders : /\ order'[p].tickets = Cardinality(After(p))
                           /\ order'[p].status = "ROUTED" => After(p) # {}
    BY <2>1, <2>5, <2>7, <2>9
  <2>11. RoutingIsPaid'
    BY <2>8, <2>10 DEF RoutingIsPaid, ItemsOf, After
  <2>12. RoutedIsNotPayable'
    BY <2>1 DEF Inv, RoutedIsNotPayable, PayableOrderStatuses
  <2> QED
    BY <2>6, <2>11, <2>12 DEF RoutingInv
<1>4. ASSUME NEW w \in Workers, CommitPayment(w), ~req[w].payable
      PROVE  RoutingInv'
  <2>1. LeavesRouted
    BY <1>4, CommitRows DEF LeavesRouted
  <2> QED
    BY <1>2, <2>1
<1> QED
  BY <1>2, <1>3, <1>4, OrderSteps

\* The guest is only told of an approval by the transaction that recorded it.
LEMMA ApprovalStep ==
    ASSUME Inv, [Next]_vars
    PROVE  ApprovalIsRecorded'
<1> SUFFICES ASSUME NEW a \in Attempts, told'[a] = "APPROVED"
             PROVE  attempt'[a].payments = 1
  BY DEF ApprovalIsRecorded
<1>t. TypeOK /\ Moves
  BY StepHolds DEF Inv, Holds
<1>1. CASE told[a] = "APPROVED"
  BY <1>t, <1>1, SucceededStays DEF Inv, ApprovalIsRecorded, SameRow
<1>2. CASE told[a] # "APPROVED"
  <2>1. \A w \in Workers, answer \in {"REJECTED", "ABORTED"} : ~Tell(w, answer)
    BY <1>t, <1>2 DEF Tell, TypeOK
  <2>2. \A b \in Attempts : told' # [told EXCEPT ![b] = ReusedAnswer(b)]
    BY <1>t, <1>2 DEF ReusedAnswer, PaymentLinked, TypeOK
  <2>3. told' # told
    BY <1>2
  <2>4. \E w \in Workers : CommitPayment(w)
    <3>1. ASSUME NEW w \in Workers, Outcome(w) \/ Crash(w)
          PROVE  CommitPayment(w)
      BY <2>1, <2>3, <3>1 DEF Outcome, FailAttempt, ReadOrder, Finalize, Refuse, Crash
    <3>2. ASSUME NEW g \in Guests, NEW b \in Attempts, Return(g, b) \/ Abort(g, b)
          PROVE  FALSE
      BY <2>2, <2>3, <3>2 DEF Return, Abort
    <3>3. ASSUME NEW g \in Guests, Start(g) \/ GuestStep(g)
          PROVE  Outcome(g)
      BY <2>3, <3>3 DEF Start, StartForQrOrder, StartForQrBill, OpenAttempt, GuestStep,
         Create, SaveReference, FailStart, Confirm
    <3>4. ASSUME NEW j \in Jobs, JobStart(j) \/ JobStep(j)
          PROVE  Outcome(j)
      BY <2>3, <3>4 DEF JobStart, JobStep, JobNext, Poll
    <3>5. ~ChargeOther /\ ~(\E o \in Orders : CancelOrder(o)) /\ ~UNCHANGED vars
          /\ ~(\E b \in Attempts : GuestPays(b) \/ Expire(b))
      BY <2>3 DEF ChargeOther, CancelOrder, GuestPays, Expire, vars
    <3> QED
      BY <3>1, <3>2, <3>3, <3>4, <3>5 DEF Next, Workers
  <2>5. PICK w \in Workers : CommitPayment(w)
    BY <2>4
  <2>6. req[w].attempt = a
    BY <1>t, <1>2, <2>5 DEF CommitPayment, Tell, TypeOK
  <2>7. Succeeds(a)
    BY <2>5, <2>6, CommitRows
  <2> QED
    BY <2>7 DEF Inv, AttemptInv, Succeeds, Resolves
<1> QED
  BY <1>1, <1>2

-----------------------------------------------------------------------------
(* The invariant, and what follows                                         *)

LEMMA InvInit == Init => Inv
<1> SUFFICES ASSUME Init
             PROVE  Inv
  OBVIOUS
<1>1. \A a \in Attempts : AttemptInv(a)
  BY DEF Init, AttemptInv
<1>2. \A w \in Workers : WorkerInv(w)
  BY DEF Init, WorkerInv, Idle, At, Starting, Approved
<1>3. OneStarter /\ OneFinalizer
  BY DEF Init, OneStarter, OneFinalizer, Idle, At, Starting
<1>4. IsFiniteSet(items) /\ \A o \in Orders : ItemsOf(o) = {}
  BY FS_EmptySet DEF Init, ItemsOf
<1>5. RoutingIsPaid
  BY <1>4, FS_EmptySet DEF Init, RoutingIsPaid
<1>6. RoutedIsNotPayable /\ ApprovalIsRecorded
  BY DEF Init, RoutedIsNotPayable, ApprovalIsRecorded
<1> QED
  BY <1>1, <1>2, <1>3, <1>4, <1>5, <1>6, TypeInit DEF Inv

LEMMA InvNext == Inv /\ [Next]_vars => Inv'
BY StepHolds, MovesKeep, RoutingStep, ApprovalStep DEF Inv, Holds, WorkersInv, RoutingInv

\* The invariant holds in every state: what guests' requests and the job rely on while
\* they await stays true.
THEOREM Invariance == Spec => []Inv
BY InvInit, InvNext, PTL DEF Spec

\* Types, in every state the program can reach.
THEOREM RedirectTypes == Spec => []TypeOK
<1>1. Inv => TypeOK
  BY DEF Inv
<1> QED
  BY <1>1, Invariance, PTL

\* Whatever goes to the kitchen was captured and recorded, each time for a payment of
\* its own, with browsers that return twice, jobs that overlap and crashes.
THEOREM RoutedIsPaid == Spec => []RoutingIsPaid
<1>1. Inv => RoutingIsPaid
  BY DEF Inv
<1> QED
  BY <1>1, Invariance, PTL

\* A late rejection, abort or cancellation never offers a routed order for payment.
THEOREM RoutedStaysPaid == Spec => []RoutedIsNotPayable
<1>1. Inv => RoutedIsNotPayable
  BY DEF Inv
<1> QED
  BY <1>1, Invariance, PTL

\* A guest is told of an approval only when the payment was recorded.
THEOREM ToldIsRecorded == Spec => []ApprovalIsRecorded
<1>1. Inv => ApprovalIsRecorded
  BY DEF Inv
<1> QED
  BY <1>1, Invariance, PTL

-----------------------------------------------------------------------------
(* The books                                                               *)

AmountOf == [a \in Attempts |-> attempt[a].payments * attempt[a].amount]
Recorded == {a \in Attempts : attempt[a].payments > 0}

Books == IsFiniteSet(Recorded) /\ RedirectLedgerIdentity

\* An attempt that was opened is charged the same amount ever after, and only a
\* commit records a payment.
RowKept(a) ==
    /\ attempt[a].status # "NONE" => attempt'[a].amount = attempt[a].amount
    /\ attempt'[a].payments = attempt[a].payments

LedgerRests ==
    /\ UNCHANGED <<bill, items, charges, overwritten>>
    /\ \A a \in Attempts : RowKept(a)

LEMMA OpenRests ==
    ASSUME Inv, NEW g, NEW a \in Attempts, attempt[a].status = "NONE", NEW o,
           NEW amount, NEW tip, OpenAttempt(g, a, o, amount, tip)
    PROVE  LedgerRests
<1>1. attempt[a].payments = 0
  BY DEF Inv, AttemptInv
<1>2. /\ attempt'[a] = [status |-> "PENDING", order |-> o, amount |-> amount,
                        tip |-> tip, reference |-> FALSE, payments |-> 0]
      /\ \A b \in Attempts \ {a} : attempt'[b] = attempt[b]
  BY DEF OpenAttempt, Inv, TypeOK
<1> QED
  BY <1>1, <1>2 DEF LedgerRests, RowKept, OpenAttempt

LEMMA FailRests ==
    ASSUME Inv, NEW w \in Workers, FailStart(w) \/ FailAttempt(w)
    PROVE  LedgerRests
<1> DEFINE a == req[w].attempt
<1>1. TypeOK /\ a \in Attempts /\ attempt' = [attempt EXCEPT ![a].status = "FAILED"]
  BY DEF FailStart, FailAttempt, Inv, WorkerInv, At
<1>2. /\ attempt'[a].amount = attempt[a].amount
      /\ attempt'[a].payments = attempt[a].payments
      /\ \A b \in Attempts \ {a} : attempt'[b] = attempt[b]
  BY <1>1, FailedRow
<1> QED
  BY <1>2 DEF LedgerRests, RowKept, FailStart, FailAttempt

LEMMA SaveRests ==
    ASSUME Inv, NEW g \in Workers, SaveReference(g)
    PROVE  LedgerRests
<1> DEFINE a == req[g].attempt
           record == [attempt[a] EXCEPT !.reference = TRUE]
<1>1. a \in Attempts /\ attempt[a] \in AttemptRecords
  BY DEF SaveReference, Inv, WorkerInv, At, TypeOK
<1>2. record.amount = attempt[a].amount /\ record.payments = attempt[a].payments
  BY <1>1 DEF AttemptRecords
<1>3. attempt' = [attempt EXCEPT ![a] = record]
  BY DEF SaveReference
<1> HIDE DEF record
<1>4. \A b \in Attempts : attempt'[b] = IF b = a THEN record ELSE attempt[b]
  BY <1>1, <1>3 DEF Inv, TypeOK
<1> QED
  BY <1>2, <1>4 DEF LedgerRests, RowKept, SaveReference

\* What is charged or paid is written by a commit or by the waiter's charge.
LEMMA LedgerSteps ==
    ASSUME Inv, [Next]_vars
    PROVE  LedgerRests \/ ChargeOther \/ \E w \in Workers : CommitPayment(w)
<1>1. ASSUME attempt' = attempt, UNCHANGED <<bill, items, charges, overwritten>>
      PROVE  LedgerRests
  BY <1>1 DEF LedgerRests, RowKept
<1>2. ASSUME NEW w \in Workers, Outcome(w) \/ Crash(w)
      PROVE  LedgerRests \/ CommitPayment(w)
  <2>1. CASE ReadOrder(w) \/ Finalize(w) \/ Refuse(w) \/ Crash(w)
    <3>1. attempt' = attempt /\ UNCHANGED <<bill, items, charges, overwritten>>
      BY <2>1 DEF ReadOrder, Finalize, Refuse, Crash
    <3> QED
      BY <1>1, <3>1
  <2> QED
    BY <1>2, <2>1, FailRests DEF Outcome
<1>3. ASSUME NEW g \in Guests, Start(g)
      PROVE  LedgerRests
  <2>1. PICK a \in Attempts, tip \in Tips :
            \/ \E o \in Orders : StartForQrOrder(g, a, o, tip)
            \/ \E amount \in Amounts : StartForQrBill(g, a, amount, tip)
    BY <1>3 DEF Start
  <2>2. PICK o, amount : attempt[a].status = "NONE" /\ OpenAttempt(g, a, o, amount, tip)
    BY <2>1 DEF StartForQrOrder, StartForQrBill, NextAttempt
  <2> QED
    BY <2>2, OpenRests
<1>4. ASSUME NEW g \in Guests, GuestStep(g) \/ \E a \in Attempts : Return(g, a) \/ Abort(g, a)
      PROVE  LedgerRests \/ \E w \in Workers : CommitPayment(w)
  <2>0. g \in Workers
    BY DEF Workers
  <2>1. CASE Outcome(g)
    BY <1>2, <2>0, <2>1
  <2>2. CASE FailStart(g)
    BY <2>0, <2>2, FailRests
  <2>4. CASE SaveReference(g)
    BY <2>0, <2>4, SaveRests
  <2>3. CASE Create(g) \/ Confirm(g) \/ \E a \in Attempts : Return(g, a) \/ Abort(g, a)
    <3>1. attempt' = attempt /\ UNCHANGED <<bill, items, charges, overwritten>>
      <4>1. CASE Create(g)
        BY <4>1 DEF Create
      <4>2. CASE Confirm(g)
        BY <4>2 DEF Confirm
      <4>3. CASE \E a \in Attempts : Return(g, a) \/ Abort(g, a)
        BY <4>3 DEF Return, Abort
      <4> QED
        BY <2>3, <4>1, <4>2, <4>3
    <3> QED
      BY <1>1, <3>1
  <2> QED
    BY <1>4, <2>1, <2>2, <2>3, <2>4 DEF GuestStep
<1>5. ASSUME NEW j \in Jobs, JobStart(j) \/ JobStep(j)
      PROVE  LedgerRests \/ \E w \in Workers : CommitPayment(w)
  <2>1. CASE Outcome(j)
    BY <1>2, <2>1 DEF Workers
  <2>2. CASE JobStart(j) \/ JobNext(j) \/ Poll(j)
    <3>1. attempt' = attempt /\ UNCHANGED <<bill, items, charges, overwritten>>
      BY <2>2 DEF JobStart, JobNext, Poll
    <3> QED
      BY <1>1, <3>1
  <2> QED
    BY <1>5, <2>1, <2>2 DEF JobStep
<1>6. ASSUME \/ \E a \in Attempts : GuestPays(a) \/ Expire(a)
             \/ \E o \in Orders : CancelOrder(o)
             \/ UNCHANGED vars
      PROVE  LedgerRests
  <2>1. attempt' = attempt /\ UNCHANGED <<bill, items, charges, overwritten>>
    BY <1>6 DEF GuestPays, Expire, CancelOrder, vars
  <2> QED
    BY <1>1, <2>1
<1> QED
  BY <1>2, <1>3, <1>4, <1>5, <1>6 DEF Next

\* What is recorded is a sum over finitely many attempts.
LEMMA RecordedSum ==
    ASSUME Inv, IsFiniteSet(Recorded)
    PROVE  /\ RecordedAmount = SumFunctionOnSet(AmountOf, Recorded)
           /\ \A a \in Attempts : AmountOf[a] \in Nat
           /\ RecordedAmount \in Nat
<1>1. RecordedAmount = SumFunctionOnSet(AmountOf, Recorded)
  BY DEF RecordedAmount, AmountOf, Recorded
<1>2. \A a \in Attempts : AmountOf[a] \in Nat
  <2>1. \A a \in Attempts : attempt[a] \in AttemptRecords
    BY DEF Inv, TypeOK
  <2>2. \A a \in Attempts : attempt[a].payments \in Nat /\ attempt[a].amount \in Nat
    BY <2>1 DEF AttemptRecords
  <2>3. \A m, n \in Nat : m * n \in Nat
    OBVIOUS
  <2>4. \A a \in Attempts : AmountOf[a] = attempt[a].payments * attempt[a].amount
    BY DEF AmountOf
  <2> QED
    BY <2>2, <2>3, <2>4, Zenon
<1>3. SumFunctionOnSet(AmountOf, Recorded) \in Nat
  <2>1. \A a \in Recorded : AmountOf[a] \in Nat
    BY <1>2 DEF Recorded
  <2> QED
    BY <2>1, SumNat
<1> QED
  BY <1>1, <1>2, <1>3

\* A payment is recorded for an attempt that exists.
LEMMA RecordedExist ==
    ASSUME Inv, NEW a \in Recorded
    PROVE  a \in Attempts /\ attempt[a].status = "SUCCEEDED"
BY DEF Inv, AttemptInv, Recorded

\* What rests of the ledger keeps the books.
LEMMA RestsKeepsBooks ==
    ASSUME Inv, Books, \A a \in Attempts : RowKept(a)
    PROVE  IsFiniteSet(Recorded)' /\ RecordedAmount' = RecordedAmount
<1> DEFINE f == AmountOf
           g == [b \in Attempts |-> attempt'[b].payments * attempt'[b].amount]
           S == Recorded
           T == {a \in Attempts : attempt'[a].payments > 0}
<1>1. T = S /\ \A a \in S : f[a] = g[a]
  BY RecordedExist DEF RowKept, Recorded, AmountOf
<1>2. RecordedAmount = SumFunctionOnSet(f, S)
  BY RecordedSum DEF Books
<1>3. RecordedAmount' = SumFunctionOnSet(g, T)
  BY DEF RecordedAmount
<1>4. IsFiniteSet(S) /\ Recorded' = T
  BY DEF Books, Recorded
<1> HIDE DEF f, g, S, T
<1>5. SumFunctionOnSet(f, S) = SumFunctionOnSet(g, S)
  BY <1>1, <1>4, SumSame
<1>6. SumFunctionOnSet(g, S) = SumFunctionOnSet(g, T)
  BY <1>1, Zenon
<1>7. IsFiniteSet(T)
  BY <1>1, <1>4, Zenon
<1> QED
  BY <1>2, <1>3, <1>4, <1>5, <1>6, <1>7

\* A commit adds the amount of its attempt to what is recorded.
LEMMA CommitRecords ==
    ASSUME Inv, Books, NEW w \in Workers, CommitPayment(w)
    PROVE  /\ IsFiniteSet(Recorded)'
           /\ RecordedAmount' = RecordedAmount + attempt[req[w].attempt].amount
<1>1. PICK a \in Attempts : a = req[w].attempt /\ Succeeds(a)
  BY CommitRows
<1>2. /\ attempt[a].payments = 0
      /\ attempt'[a].payments = 1
      /\ attempt'[a].amount = attempt[a].amount
      /\ \A b \in Attempts \ {a} : attempt'[b] = attempt[b]
  <2>1. AttemptInv(a) /\ attempt[a].status = "PENDING"
    BY <1>1 DEF Inv, Succeeds, Resolves
  <2>2. attempt[a].payments = 0
    BY <2>1 DEF AttemptInv
  <2>3. attempt'[a].payments = 1
    BY <1>1, <2>2 DEF Succeeds, Resolves
  <2> QED
    BY <1>1, <2>2, <2>3, CommitRows
<1> DEFINE f == AmountOf
           g == [b \in Attempts |-> attempt'[b].payments * attempt'[b].amount]
           S == Recorded
           T == {b \in Attempts : attempt'[b].payments > 0}
<1>3. T = S \cup {a} /\ a \notin S /\ \A b \in S : f[b] = g[b]
  <2>1. a \notin S /\ a \in T
    BY <1>2 DEF Recorded
  <2>2. \A b \in Attempts \ {a} : (b \in S <=> b \in T) /\ f[b] = g[b]
    BY <1>2 DEF Recorded, AmountOf
  <2>3. S \subseteq Attempts /\ T \subseteq Attempts
    BY DEF Recorded
  <2> HIDE DEF f, g, S, T
  <2> QED
    BY <2>1, <2>2, <2>3
<1>4. RecordedAmount = SumFunctionOnSet(f, S) /\ \A b \in Attempts : f[b] \in Nat
  BY RecordedSum DEF Books
<1>5. RecordedAmount' = SumFunctionOnSet(g, T)
  BY DEF RecordedAmount
<1>6. IsFiniteSet(S) /\ S \subseteq Attempts /\ Recorded' = T
  BY DEF Books, Recorded
<1>7. g[a] = attempt[a].amount /\ g[a] \in Nat
  <2>1. attempt[a].amount \in Nat
    <3>1. attempt[a] \in AttemptRecords
      BY DEF Inv, TypeOK
    <3> QED
      BY <3>1 DEF AttemptRecords
  <2>2. g[a] = 1 * attempt[a].amount
    BY <1>2
  <2> HIDE DEF g
  <2> QED
    BY <2>1, <2>2
<1> HIDE DEF f, g, S, T
<1>8. SumFunctionOnSet(f, S) = SumFunctionOnSet(g, S)
  BY <1>3, <1>6, SumSame
<1>9. SumFunctionOnSet(g, S \cup {a}) = SumFunctionOnSet(g, S) + g[a]
  <2>1. \A b \in S \cup {a} : g[b] \in Int
    <3>1. \A b \in S : g[b] \in Nat
      BY <1>3, <1>4, <1>6, Zenon
    <3>2. Nat \subseteq Int
      OBVIOUS
    <3> QED
      BY <1>7, <3>1, <3>2, Zenon
  <2> QED
    BY <1>3, <1>6, <2>1, SumAdd
<1>10. SumFunctionOnSet(g, S \cup {a}) = SumFunctionOnSet(g, T)
  BY <1>3, Zenon
<1>11. IsFiniteSet(S \cup {a})
  BY <1>6, FS_AddElement
<1>12. IsFiniteSet(T)
  BY <1>3, <1>11, Zenon
<1> QED
  BY <1>1, <1>4, <1>5, <1>6, <1>7, <1>8, <1>9, <1>10, <1>12

\* The item an order that is paid is charged with is a new one.
LEMMA CommitItems ==
    ASSUME Inv, NEW w \in Workers, CommitPayment(w)
    PROVE  /\ Cardinality(items) \in Nat
           /\ Cardinality(items') =
                 IF req[w].payable THEN Cardinality(items) + 1 ELSE Cardinality(items)
<1>1. PICK a \in Attempts : a = req[w].attempt /\ Succeeds(a)
  BY CommitRows
<1>2. attempt[a].payments = 0
  BY <1>1 DEF Inv, AttemptInv, Succeeds, Resolves
<1>3. IsFiniteSet(items) /\ Cardinality(items) \in Nat
  BY FS_CardinalityType DEF Inv
<1>4. CASE req[w].payable
  <2>1. PICK o \in Orders : o = attempt[a].order /\ items' = items \cup {<<o, a>>}
    BY <1>1, <1>4, CommitRows
  <2>2. <<o, a>> \notin items
    <3>1. \A i \in items : i[1] = o => attempt[i[2]].payments = 1
      BY DEF Inv, RoutingIsPaid, ItemsOf
    <3>2. <<o, a>>[1] = o /\ <<o, a>>[2] = a
      OBVIOUS
    <3> QED
      BY <1>2, <3>1, <3>2
  <2>3. Cardinality(items \cup {<<o, a>>}) = Cardinality(items) + 1
    BY <1>3, <2>2, FS_AddElement
  <2>4. Cardinality(items') = Cardinality(items) + 1
    BY <2>1, <2>3, Zenon
  <2> QED
    BY <1>3, <1>4, <2>4
<1>5. CASE ~req[w].payable
  <2>1. items' = items
    BY <1>5, CommitRows
  <2>2. Cardinality(items') = Cardinality(items)
    BY <2>1, Zenon
  <2> QED
    BY <1>3, <1>5, <2>2
<1> QED
  BY <1>4, <1>5

\* A commit that applied its payment to the amounts the bill still had keeps the
\* ledger, whether it charges its order or only credits the bill.
LEMMA CommitBooks ==
    ASSUME Inv, Books, NEW w \in Workers, CommitPayment(w)
    PROVE  Books'
<1>1. PICK a \in Attempts : a = req[w].attempt
  BY CommitRows
<1> DEFINE seen   == req[w].seen
           amount == attempt[a].amount
           tip    == attempt[a].tip
           c      == ChargedBill(w)
           d      == SeenBill(w)
           b      == ApplyPayment(c, d, amount, tip)
           n      == Cardinality(items)
<1>2. /\ bill' = b
      /\ PaymentFits(d, amount, tip)
      /\ overwritten' = (overwritten \/ AmountsDiffer(seen, bill))
      /\ charges' = charges
  BY <1>1 DEF CommitPayment, Fits
<1>3. /\ bill \in Bills /\ seen \in Bills
      /\ amount \in Int /\ tip \in Int
      /\ charges \in Nat /\ Price \in Int
      /\ n \in Nat
      /\ Cardinality(items') = IF req[w].payable THEN n + 1 ELSE n
  <2>1. attempt[a] \in AttemptRecords /\ req[w] \in WorkerRecords
        /\ bill \in Bills /\ charges \in Nat
    BY DEF Inv, TypeOK
  <2>2. amount \in Int /\ tip \in Int /\ seen \in Bills
    BY <2>1 DEF AttemptRecords, WorkerRecords
  <2> QED
    BY <2>1, <2>2, CommitItems
<1>4. /\ IsFiniteSet(Recorded)'
      /\ RecordedAmount' = RecordedAmount + amount
      /\ RecordedAmount \in Nat
  BY <1>1, CommitRecords, RecordedSum DEF Books
<1>5. ASSUME ~overwritten'
      PROVE  /\ b.total = b.subtotal + b.tip
             /\ b.subtotal = Price * (charges + Cardinality(items'))
             /\ Paid(b) = RecordedAmount + amount
             /\ b.remaining >= 0
  <2>1. /\ ~AmountsDiffer(seen, bill)
        /\ bill.total = bill.subtotal + bill.tip
        /\ bill.subtotal = Price * (charges + n)
        /\ Paid(bill) = RecordedAmount
    BY <1>2, <1>5 DEF Books, RedirectLedgerIdentity
  <2>2. /\ c \in Bills /\ d \in Bills /\ ~AmountsDiffer(d, c)
        /\ c.total = c.subtotal + c.tip
        /\ Paid(c) = Paid(bill)
        /\ c.subtotal = Price * (charges + Cardinality(items'))
    <3>1. CASE req[w].payable
      <4>1. c = ApplyOrderCharge(bill, seen, Price) /\ d = c
        BY <3>1 DEF ChargedBill, SeenBill
      <4>2. seen.subtotal = bill.subtotal /\ seen.subtotal + Price \in Int
        BY <1>3, <2>1, AmountsAgree DEF Bills
      <4> HIDE DEF c, d, seen
      <4>3. ApplyOrderCharge(bill, seen, Price) \in Bills
        BY <1>3, BillRewriteType
      <4>4. c \in Bills
        BY <4>1, <4>3
      <4>5. /\ c.subtotal = seen.subtotal + Price
            /\ c.total = c.subtotal + c.tip
            /\ Paid(c) = Paid(bill)
        BY <1>3, <2>1, <4>1, <4>2, SubtotalRewritten DEF ApplyOrderCharge
      <4>6. ~AmountsDiffer(c, c)
        BY <4>4 DEF AmountsDiffer, Bills
      <4>7. c.subtotal = Price * (charges + (n + 1))
        <5>1. Price * (charges + (n + 1)) = Price * (charges + n) + Price
          BY <1>3
        <5> QED
          BY <2>1, <4>2, <4>5, <5>1
      <4> QED
        BY <1>3, <3>1, <4>1, <4>4, <4>5, <4>6, <4>7
    <3>2. CASE ~req[w].payable
      <4>1. c = bill /\ d = seen
        BY <3>2 DEF ChargedBill, SeenBill
      <4> QED
        BY <1>3, <2>1, <3>2, <4>1
    <3> QED
      BY <3>1, <3>2
  <2> HIDE DEF c, d, seen, amount, tip
  <2>3. /\ b.subtotal = c.subtotal
        /\ b.total = b.subtotal + b.tip
        /\ Paid(b) = Paid(c) + amount
        /\ b.remaining >= 0
    BY <1>2, <1>3, <2>2, PaymentApplied
  <2> QED
    BY <2>1, <2>2, <2>3
<1> HIDE DEF b, c, d, n, seen, amount, tip
<1>6. RedirectLedgerIdentity'
  BY <1>2, <1>4, <1>5 DEF RedirectLedgerIdentity
<1> QED
  BY <1>4, <1>6 DEF Books

LEMMA ChargeBooks ==
    ASSUME Inv, Books, ChargeOther
    PROVE  Books'
<1> DEFINE c == ApplyOrderCharge(bill, bill, Price)
           n == Cardinality(items)
<1>1. /\ bill' = c /\ charges' = charges + 1
      /\ items' = items /\ overwritten' = overwritten /\ attempt' = attempt
  BY DEF ChargeOther
<1>2. bill \in Bills /\ Price \in Int /\ charges \in Nat /\ n \in Nat
  BY FS_CardinalityType DEF Inv, TypeOK
<1>3. IsFiniteSet(Recorded)' /\ RecordedAmount' = RecordedAmount
  BY <1>1, RestsKeepsBooks DEF RowKept
<1>4. ASSUME ~overwritten
      PROVE  /\ c.total = c.subtotal + c.tip
             /\ c.subtotal = Price * (charges + 1 + n)
             /\ Paid(c) = RecordedAmount
             /\ c.remaining >= 0
  <2>1. /\ bill.total = bill.subtotal + bill.tip
        /\ bill.subtotal = Price * (charges + n)
        /\ Paid(bill) = RecordedAmount
        /\ bill.remaining >= 0
    BY <1>4 DEF Books, RedirectLedgerIdentity
  <2>2. /\ ~AmountsDiffer(bill, bill)
        /\ bill.subtotal \in Int /\ bill.remaining \in Int /\ bill.subtotal + Price \in Int
    BY <1>2 DEF AmountsDiffer, Bills
  <2>3. /\ c.subtotal = bill.subtotal + Price
        /\ c.total = c.subtotal + c.tip
        /\ Paid(c) = Paid(bill)
        /\ c.remaining = bill.remaining + (bill.subtotal + Price) - bill.subtotal
    BY <1>2, <2>1, <2>2, SubtotalRewritten DEF ApplyOrderCharge
  <2> HIDE DEF c, n
  <2>4. Price * (charges + 1 + n) = Price * (charges + n) + Price
    BY <1>2
  <2>5. c.remaining >= 0
    BY <2>1, <2>2, <2>3
  <2> QED
    BY <2>1, <2>3, <2>4, <2>5
<1>5. Cardinality(items') = n
  BY <1>1, Zenon
<1> HIDE DEF c, n
<1>6. RedirectLedgerIdentity'
  BY <1>1, <1>3, <1>4, <1>5 DEF RedirectLedgerIdentity
<1> QED
  BY <1>3, <1>6 DEF Books

LEMMA BooksInit == Init => Books
<1> SUFFICES ASSUME Init
             PROVE  Books
  OBVIOUS
<1>1. Inv
  BY InvInit
<1>2. Recorded = {} /\ IsFiniteSet(Recorded)
  <2>1. Recorded = {}
    BY DEF Init, Recorded
  <2> QED
    BY <2>1, FS_EmptySet
<1>3. RecordedAmount = 0
  <2>1. RecordedAmount = SumFunctionOnSet(AmountOf, Recorded)
    BY <1>1, <1>2, RecordedSum
  <2>2. SumFunctionOnSet(AmountOf, Recorded) = SumFunctionOnSet(AmountOf, {})
    BY <1>2, Zenon
  <2> QED
    BY <2>1, <2>2, SumEmpty
<1>4. Cardinality(items) = 0
  BY FS_EmptySet DEF Init
<1>5. EmptyBill \in Bills /\ Price \in Int
  BY IdleType
<1>6. /\ EmptyBill.subtotal = 0 /\ EmptyBill.tip = 0 /\ EmptyBill.total = 0
      /\ EmptyBill.remaining = 0
      /\ Paid(EmptyBill) = 0
      /\ ~AmountsDiffer(EmptyBill, EmptyBill)
  BY DEF EmptyBill, Paid, AmountsDiffer
<1>7. /\ bill.total = bill.subtotal + bill.tip
      /\ bill.subtotal = Price * charges
      /\ Paid(bill) = 0
      /\ bill.remaining >= 0
  <2>1. CASE charges = 0
    BY <1>5, <1>6, <2>1 DEF Init
  <2>2. CASE charges = 1
    <3> DEFINE c == ApplyOrderCharge(EmptyBill, EmptyBill, Price)
    <3>1. bill = c
      BY <2>2 DEF Init
    <3>2. /\ c.subtotal = Price
          /\ c.total = c.subtotal + c.tip
          /\ Paid(c) = 0
          /\ c.remaining = Price
      <4>1. c = WithSubtotal(EmptyBill, EmptyBill, Price)
        BY <1>5, <1>6 DEF ApplyOrderCharge
      <4> HIDE DEF c
      <4> QED
        BY <1>5, <1>6, <4>1, SubtotalRewritten
    <3> HIDE DEF c
    <3> QED
      BY <1>5, <2>2, <3>1, <3>2
  <2> QED
    BY <2>1, <2>2 DEF Init
<1>8. charges \in {0, 1}
  BY DEF Init
<1> QED
  BY <1>2, <1>3, <1>4, <1>5, <1>7, <1>8 DEF Books, RedirectLedgerIdentity

LEMMA BooksNext ==
    ASSUME Inv, Books, [Next]_vars
    PROVE  Books'
<1>1. CASE LedgerRests
  <2>1. /\ bill' = bill /\ items' = items /\ charges' = charges
        /\ overwritten' = overwritten
        /\ IsFiniteSet(Recorded)' /\ RecordedAmount' = RecordedAmount
    BY <1>1, RestsKeepsBooks DEF LedgerRests
  <2>2. Cardinality(items') = Cardinality(items)
    BY <2>1, Zenon
  <2> QED
    BY <2>1, <2>2 DEF Books, RedirectLedgerIdentity, Paid
<1>2. CASE ChargeOther
  BY <1>2, ChargeBooks
<1>3. ASSUME NEW w \in Workers, CommitPayment(w) PROVE Books'
  BY <1>3, CommitBooks
<1> QED
  BY <1>1, <1>2, <1>3, LedgerSteps

\* However returns of the browser, runs of the job, crashes and the waiter's charges
\* interleave, a bill no amount of which was rewritten from a stale read adds up to
\* what was charged to it, was paid what the payments recorded for it add up to (those
\* that paid an order, a part of the bill or an order that was cancelled), and is never
\* overpaid.
THEOREM RedirectAddsUp == Spec => []RedirectLedgerIdentity
<1>1. Init => Books
  BY BooksInit
<1>2. Inv /\ Books /\ [Next]_vars => Books'
  BY BooksNext
<1>3. Books => RedirectLedgerIdentity
  BY DEF Books
<1> QED
  BY <1>1, <1>2, <1>3, Invariance, PTL DEF Spec

-----------------------------------------------------------------------------
(* The refinement                                                          *)

StatusOf == [a \in Attempts |-> attempt[a].status]
PaymentsOf == [a \in Attempts |-> attempt[a].payments]

LEMMA PromiseStep == Inv /\ [Next]_vars => [Promise!Next]_(Promise!vars)
<1> SUFFICES ASSUME Inv, [Next]_vars
             PROVE  Promise!Next \/ UNCHANGED Promise!vars
  OBVIOUS
<1>t. TypeOK /\ Moves
  BY StepHolds DEF Inv, Holds
<1> USE DEF StatusOf, PaymentsOf
<1>c. UNCHANGED gateway => Captured' = Captured
  BY DEF Captured
<1>1. CASE Waits
  <2>1. UNCHANGED <<StatusOf, PaymentsOf>>
    BY <1>1 DEF Waits, SameRow
  <2>2. CASE UNCHANGED gateway
    BY <1>c, <2>1, <2>2 DEF Promise!vars
  <2>3. ASSUME NEW a \in Attempts, Advances(a)
        PROVE  Promise!Next \/ UNCHANGED Promise!vars
    <3>1. CASE gateway'[a] = "captured"
      <4>1. Captured' = Captured \cup {a}
        BY <2>3, <3>1 DEF Captured, Advances
      <4> QED
        BY <2>1, <2>3, <4>1 DEF Advances, Promise!Next, Promise!Capture
    <3>2. CASE gateway'[a] # "captured"
      <4>1. Captured' = Captured
        BY <2>3, <3>2 DEF Captured, Advances
      <4> QED
        BY <2>1, <4>1 DEF Promise!vars
    <3> QED
      BY <3>1, <3>2
  <2> QED
    BY <1>1, <2>2, <2>3 DEF Waits
<1>2. ASSUME NEW a \in Attempts, Opens(a)
      PROVE  Promise!Open(a)
  <2>1. attempt[a].payments = 0
    BY <1>2 DEF Opens, Inv, AttemptInv
  <2>2. StatusOf' = [StatusOf EXCEPT ![a] = "PENDING"] /\ PaymentsOf' = PaymentsOf
    BY <1>2, <2>1 DEF Opens, SameRow
  <2> QED
    BY <1>c, <1>2, <2>2 DEF Opens, Promise!Open
<1>3. ASSUME NEW a \in Attempts, Succeeds(a)
      PROVE  Promise!Succeed(a)
  <2>1. StatusOf' = [StatusOf EXCEPT ![a] = "SUCCEEDED"]
    BY <1>3 DEF Succeeds, Resolves, SameRow
  <2>2. PaymentsOf' = [PaymentsOf EXCEPT ![a] = @ + 1]
    BY <1>3 DEF Succeeds, Resolves, SameRow
  <2>3. a \in Captured
    BY <1>3 DEF Succeeds, Captured
  <2> QED
    BY <1>c, <1>3, <2>1, <2>2, <2>3 DEF Succeeds, Resolves, Promise!Succeed
<1>4. ASSUME NEW a \in Attempts, Fails(a)
      PROVE  Promise!Fail(a)
  <2>1. attempt[a].payments + 0 = attempt[a].payments
    BY <1>t DEF TypeOK, AttemptRecords
  <2>2. StatusOf' = [StatusOf EXCEPT ![a] = "FAILED"] /\ PaymentsOf' = PaymentsOf
    BY <1>4, <2>1 DEF Fails, Resolves, SameRow
  <2> QED
    BY <1>c, <1>4, <2>2 DEF Fails, Resolves, Promise!Fail
<1> QED
  BY <1>t, <1>1, <1>2, <1>3, <1>4 DEF Moves, Promise!Next

\* Browsers and jobs, in any number and any order and with any of them dying, keep the
\* payments module's promise about every attempt.
THEOREM RedirectKeepsPromise == Spec => AttemptPromise
<1>1. Init => Promise!Init
  BY DEF Init, Promise!Init, Captured
<1> QED
  BY <1>1, PromiseStep, Invariance, PTL DEF Spec, AttemptPromise, Promise!Spec
=============================================================================
