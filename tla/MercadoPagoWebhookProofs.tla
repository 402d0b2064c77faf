---------------------- MODULE MercadoPagoWebhookProofs ----------------------
(***************************************************************************)
(* Proofs about MercadoPagoWebhook, for any sets of orders, attempts,      *)
(* notifications and workers, and any amounts: its types, that a           *)
(* notification has one worker, what a worker and a handler that hold an   *)
(* attempt know about it, from these the refinement of PaymentAttempt, and *)
(* the sums that the bill is made of.                                      *)
(***************************************************************************)
EXTENDS MercadoPagoWebhook, BillLedgerTheorems, FiniteSetTheorems

USE PriceAssumption, ChargedAssumption, TipsAssumption, AmountsAssumption, NonesAssumption

-----------------------------------------------------------------------------
(* The inductive invariant                                                 *)

\* The notification of h has a row, and h acts on it.
Working(h) == hook[h].step \notin {"idle", "checked"}

\* h decided what becomes of its attempt.
Resolving(h) == hook[h].step \in {"finalize", "fail", "finalizing"}

EventInv(e) ==
    event[e].state = "stored" <=>
        e \in orphaned \/ \E h \in Hooks : Working(h) /\ hook[h].event = e

WorkerInv(h) ==
    /\ hook[h].step = "idle" <=> hook[h].event = NoEvent
    /\ Working(h) => hook[h].event \notin orphaned

OneWorker ==
    \A h, k \in Hooks : Working(h) /\ Working(k) /\ hook[h].event = hook[k].event => h = k

WorkInv ==
    /\ \A e \in Events : EventInv(e)
    /\ \A h \in Hooks : WorkerInv(h)
    /\ OneWorker

\* What its handler and the provider know of an attempt.
AttemptInv(a) ==
    /\ attempt[a].status = "NONE" <=> handler[a].step = "none"
    /\ provider[a] # "none" => attempt[a].status # "NONE"
    /\ provider[a] = "approved" => a \in captured
    /\ handler[a].step \in {"approved", "tx"} => a \in captured
    /\ handler[a].step = "tx" => attempt[a].status = "PENDING"
    /\ attempt[a].payments = IF attempt[a].status = "SUCCEEDED" THEN 1 ELSE 0

\* What a worker relies on, whatever the handler and the other workers do.
ResolvingInv(h) ==
    /\ Resolving(h) => AboutOf(h) \in Attempts
    /\ HookAt(h, "fail") => provider[AboutOf(h)] \in {"rejected", "cancelled", "refunded"}
    /\ hook[h].step \in {"finalize", "finalizing"} => AboutOf(h) \in captured
    /\ HookAt(h, "finalizing") =>
          attempt[AboutOf(h)].status = "PENDING" /\ ~At(AboutOf(h), "tx")

OneFinalizer ==
    \A h, k \in Hooks :
        HookAt(h, "finalizing") /\ HookAt(k, "finalizing") /\ AboutOf(h) = AboutOf(k)
        => h = k

KnownAbout ==
    \A e \in Events : event[e].about \in Attempts => provider[event[e].about] # "none"

Inv ==
    /\ TypeOK
    /\ WorkInv
    /\ \A a \in Attempts : AttemptInv(a)
    /\ \A h \in Hooks : ResolvingInv(h)
    /\ OneFinalizer
    /\ KnownAbout

-----------------------------------------------------------------------------
(* Types                                                                   *)

LEMMA WebhookTypeInit == Init => TypeOK
<1> SUFFICES ASSUME Init
             PROVE  TypeOK
  OBVIOUS
<1>1. EmptyBill \in Bills
  BY DEF EmptyBill, Bills, BillStatuses
<1>2. bill \in Bills
  BY <1>1, BillRewriteType DEF Init
<1>3. attempt \in [Attempts -> AttemptRecords] /\ handler \in [Attempts -> HandlerRecords]
  BY <1>1 DEF Init, AttemptRecords, AttemptStatuses, HandlerRecords, HandlerSteps
<1>4. event \in [Events -> EventRecords] /\ hook \in [Hooks -> HookRecords]
  BY <1>1 DEF Init, EventRecords, EventStates, HookRecords, HookSteps, IdleHook
<1> QED
  BY <1>2, <1>3, <1>4 DEF Init, TypeOK, OrderStatuses, ProviderStatuses

LEMMA HandlerType ==
    ASSUME TypeOK, NEW a \in Attempts, NEW step \in HandlerSteps, Goto(a, step) \/ End(a)
    PROVE  handler' \in [Attempts -> HandlerRecords]
<1>1. EmptyBill \in Bills /\ "ended" \in HandlerSteps
  BY DEF EmptyBill, Bills, BillStatuses, HandlerSteps
<1> QED
  BY <1>1 DEF TypeOK, Goto, End, HandlerRecords

LEMMA HookType ==
    ASSUME TypeOK, NEW h \in Hooks, NEW step \in HookSteps,
           HookGoto(h, step) \/ hook' = [hook EXCEPT ![h] = IdleHook]
    PROVE  hook' \in [Hooks -> HookRecords]
<1>1. IdleHook \in HookRecords
  BY DEF IdleHook, HookRecords, HookSteps, EmptyBill, Bills, BillStatuses
<1> QED
  BY <1>1 DEF TypeOK, HookGoto, HookRecords

LEMMA ResolveType ==
    ASSUME TypeOK, NEW a \in Attempts, NEW who \in {"handler", "hook"},
           FinalizePayment(a, who) \/ FailPayment(a, who)
    PROVE  /\ attempt' \in [Attempts -> AttemptRecords]
           /\ resolver' \in [Attempts -> {"nobody", "handler", "hook"}]
<1>1. PICK status \in AttemptStatuses, n \in {0, 1} : Resolve(a, status, n, who)
  BY DEF FinalizePayment, FailPayment, AttemptStatuses
<1> DEFINE record == [attempt[a] EXCEPT !.status = status, !.payments = attempt[a].payments + n]
<1>2. record \in AttemptRecords
  <2>1. attempt[a] \in AttemptRecords
    BY DEF TypeOK
  <2>2. attempt[a].payments + n \in Nat
    BY <2>1 DEF AttemptRecords
  <2> QED
    BY <2>1, <2>2 DEF AttemptRecords
<1>3. attempt' = [attempt EXCEPT ![a] = record]
  BY <1>1 DEF Resolve, TypeOK
<1> HIDE DEF record
<1>4. attempt' \in [Attempts -> AttemptRecords]
  BY <1>2, <1>3 DEF TypeOK
<1> QED
  BY <1>1, <1>4 DEF Resolve, TypeOK

LEMMA SessionType ==
    ASSUME session \in {"OPEN", "PAYMENT_COMPLETED"}, NEW r1, NEW r2
    PROVE  /\ SessionAfterPayment(session, r2) \in {"OPEN", "PAYMENT_COMPLETED"}
           /\ SessionAfterPayment(SessionAfterCharge(session, r1), r2)
                  \in {"OPEN", "PAYMENT_COMPLETED"}
BY DEF SessionAfterPayment, SessionAfterCharge

LEMMA ApplyToBillType ==
    ASSUME TypeOK, NEW a \in Attempts, NEW seen \in Bills, NEW tip \in Nat,
           NEW who \in {"handler", "hook"}, ApplyToBill(a, seen, tip, who)
    PROVE  /\ attempt' \in [Attempts -> AttemptRecords]
           /\ resolver' \in [Attempts -> {"nobody", "handler", "hook"}]
           /\ bill' \in Bills /\ session' \in {"OPEN", "PAYMENT_COMPLETED"}
           /\ overwritten' \in BOOLEAN
<1>1. attempt[a].amount \in Int /\ bill \in Bills
  BY DEF TypeOK, AttemptRecords
<1>2. bill' \in Bills
  BY <1>1, BillRewriteType DEF ApplyToBill
<1>3. session' \in {"OPEN", "PAYMENT_COMPLETED"}
  BY SessionType DEF ApplyToBill, TypeOK
<1> QED
  BY <1>2, <1>3, ResolveType DEF ApplyToBill, NoteRewrite

LEMMA HandlerStepType ==
    ASSUME TypeOK, NEW a \in Attempts, HandlerStep(a) \/ CrashHandler(a)
    PROVE  TypeOK'
<1> USE DEF ProviderSide, HookSide, AttemptRows, BillRows
<1>s. {"charging", "cancelling", "approved", "rejected", "tx", "ended"} \subseteq HandlerSteps
  BY DEF HandlerSteps
<1>1. ASSUME NEW o \in Orders \cup {NoOrder}, NEW amount \in Nat, NEW tip \in Nat,
             OpenAttempt(a, o, amount, tip)
      PROVE  TypeOK'
  <2> DEFINE record == [status |-> "PENDING", order |-> o, amount |-> amount + tip,
                        tip |-> tip, payments |-> 0]
  <2>1. record \in AttemptRecords
    BY DEF AttemptRecords, AttemptStatuses
  <2>2. attempt' = [attempt EXCEPT ![a] = record]
    BY <1>1 DEF OpenAttempt
  <2> HIDE DEF record
  <2>3. attempt' \in [Attempts -> AttemptRecords]
    BY <2>1, <2>2 DEF TypeOK
  <2> QED
    BY <1>1, <1>s, <2>3, HandlerType DEF OpenAttempt, TypeOK
<1>2. ASSUME ChargeAnswered(a) \/ ChargeUnheard(a)
      PROVE  TypeOK'
  <2>1. handler' \in [Attempts -> HandlerRecords]
    BY <1>2, <1>s, HandlerType DEF ChargeAnswered, ChargeUnheard
  <2> QED
    BY <1>2, <2>1 DEF ChargeAnswered, ChargeUnheard, TypeOK
<1>3. CASE CancelPendingPayment(a)
  <2>1. handler' \in [Attempts -> HandlerRecords]
    BY <1>3, <1>s, HandlerType DEF CancelPendingPayment
  <2>2. provider' \in [Attempts -> ProviderStatuses]
    BY <1>3 DEF CancelPendingPayment, TypeOK, ProviderStatuses
  <2> QED
    BY <1>3, <2>1, <2>2 DEF CancelPendingPayment, TypeOK
<1>4. CASE Reject(a)
  <2>1. handler' \in [Attempts -> HandlerRecords]
    BY <1>4, <1>s, HandlerType DEF Reject
  <2>2. /\ attempt' \in [Attempts -> AttemptRecords]
        /\ resolver' \in [Attempts -> {"nobody", "handler", "hook"}]
    BY <1>4, ResolveType DEF Reject, TypeOK
  <2>3. order' \in [Orders -> OrderStatuses]
    BY <1>4 DEF Reject, TypeOK, OrderStatuses
  <2> QED
    BY <1>4, <2>1, <2>2, <2>3 DEF Reject, TypeOK
<1>5. CASE ApproveRead(a)
  <2>1. [step |-> "tx", seen |-> bill] \in HandlerRecords
    BY <1>s DEF TypeOK, HandlerRecords
  <2>2. handler' \in [Attempts -> HandlerRecords]
    BY <1>5, <1>s, <2>1, HandlerType DEF ApproveRead, TypeOK
  <2> QED
    BY <1>5, <2>2 DEF ApproveRead, TypeOK
<1>6. CASE ApproveOrderCommit(a)
  <2> DEFINE seen == handler[a].seen
             charged == ApplyOrderCharge(bill, seen, Price)
             paid == ApplyPayment(charged, charged, attempt[a].amount, attempt[a].tip)
  <2>1. handler' \in [Attempts -> HandlerRecords]
    BY <1>6, <1>s, HandlerType DEF ApproveOrderCommit
  <2>2. charged \in Bills /\ paid \in Bills
    <3>1. seen \in Bills /\ bill \in Bills /\ Price \in Int
          /\ attempt[a].amount \in Int /\ attempt[a].tip \in Int
      BY DEF TypeOK, HandlerRecords, AttemptRecords
    <3>2. charged \in Bills
      BY <3>1, BillRewriteType
    <3> HIDE DEF charged
    <3> QED
      BY <3>1, <3>2, BillRewriteType
  <2>3. CASE PaymentFits(charged, attempt[a].amount, attempt[a].tip)
    <3>1. /\ FinalizePayment(a, "handler")
          /\ order' = [order EXCEPT ![attempt[a].order] = "ROUTED"]
          /\ bill' = paid
          /\ session' = SessionAfterPayment(
                 SessionAfterCharge(session, charged.remaining), paid.remaining)
          /\ NoteRewrite(seen)
          /\ UNCHANGED <<ProviderSide, HookSide>>
      BY <1>6, <2>3 DEF ApproveOrderCommit
    <3>2. session' \in {"OPEN", "PAYMENT_COMPLETED"}
      BY <3>1, SessionType DEF TypeOK
    <3>3. order' \in [Orders -> OrderStatuses]
      BY <3>1 DEF TypeOK, OrderStatuses
    <3>4. overwritten' \in BOOLEAN
      BY <3>1 DEF NoteRewrite
    <3> QED
      BY <2>1, <2>2, <3>1, <3>2, <3>3, <3>4, ResolveType DEF TypeOK
  <2>4. CASE ~PaymentFits(charged, attempt[a].amount, attempt[a].tip)
    BY <1>6, <2>4, <2>1 DEF ApproveOrderCommit, TypeOK
  <2> QED
    BY <2>3, <2>4
<1>7. CASE ApproveBillCommit(a)
  <2>1. handler' \in [Attempts -> HandlerRecords]
    BY <1>7, <1>s, HandlerType DEF ApproveBillCommit
  <2>2. handler[a].seen \in Bills /\ attempt[a].tip \in Nat
    BY DEF TypeOK, HandlerRecords, AttemptRecords
  <2>3. CASE ApplyToBill(a, handler[a].seen, attempt[a].tip, "handler")
    BY <1>7, <2>1, <2>2, <2>3, ApplyToBillType DEF ApproveBillCommit, TypeOK
  <2>4. CASE UNCHANGED <<AttemptRows, BillRows>>
    BY <1>7, <2>1, <2>4 DEF ApproveBillCommit, TypeOK
  <2> QED
    BY <1>7, <2>3, <2>4 DEF ApproveBillCommit
<1>8. CASE CrashHandler(a)
  BY <1>8, <1>s, HandlerType DEF CrashHandler, TypeOK
<1>9. ASSUME NEW o \in Orders, NEW tip \in Tips, PayOrder(a, o, tip)
      PROVE  TypeOK'
  BY <1>9, <1>1 DEF PayOrder
<1>10. ASSUME NEW amount \in Amounts, NEW tip \in Tips, PayBill(a, amount, tip)
       PROVE  TypeOK'
  BY <1>10, <1>1 DEF PayBill
<1> QED
  BY <1>2, <1>3, <1>4, <1>5, <1>6, <1>7, <1>8, <1>9, <1>10 DEF HandlerStep

\* What a worker does, given that it has an attempt when it resolves one.
LEMMA HookStepType ==
    ASSUME TypeOK, NEW h \in Hooks, HookStep(h) \/ CrashHook(h),
           Working(h) => hook[h].event \in Events,
           Resolving(h) => AboutOf(h) \in Attempts
    PROVE  TypeOK'
<1> USE DEF ProviderSide, AttemptRows, BillRows, HookOnly
<1>s. {"checked", "stored", "finalize", "fail", "finalizing", "processed"} \subseteq HookSteps
  BY DEF HookSteps
<1>e. EmptyBill \in Bills
  BY DEF EmptyBill, Bills, BillStatuses
<1>1. CASE Store(h)
  <2>1. event' \in [Events -> EventRecords]
    BY <1>1 DEF Store, TypeOK, EventRecords, EventStates
  <2>2. hook' \in [Hooks -> HookRecords]
    BY <1>1, <1>s, HookType DEF Store
  <2> QED
    BY <1>1, <2>1, <2>2 DEF Store, TypeOK
<1>2. CASE Correlate(h) \/ CannotCorrelate(h)
  <2>1. \A status, outcome : Decision(status, outcome) \in {"processed", "finalize", "fail"}
    BY DEF Decision
  <2>2. hook' \in [Hooks -> HookRecords]
    BY <1>2, <1>s, <2>1, HookType DEF Correlate, CannotCorrelate
  <2> QED
    BY <1>2, <2>2 DEF Correlate, CannotCorrelate, TypeOK
<1>3. CASE FinalizeRead(h)
  <2> DEFINE record == [hook[h] EXCEPT !.step = "finalizing", !.seen = bill]
  <2>1. record \in HookRecords
    <3>1. hook[h] \in HookRecords /\ bill \in Bills /\ "finalizing" \in HookSteps
      BY <1>s DEF TypeOK
    <3> QED
      BY <3>1 DEF HookRecords
  <2>2. hook' = [hook EXCEPT ![h] = record] \/ HookGoto(h, "processed")
    BY <1>3 DEF FinalizeRead, TypeOK
  <2> HIDE DEF record
  <2>3. hook' \in [Hooks -> HookRecords]
    BY <1>s, <2>1, <2>2, HookType DEF TypeOK
  <2> QED
    BY <1>3, <2>3 DEF FinalizeRead, TypeOK
<1>4. CASE FinalizeCommit(h)
  <2> DEFINE a == AboutOf(h)
             record == [hook[h] EXCEPT !.step = "processed", !.seen = EmptyBill]
  <2>1. record \in HookRecords
    <3>1. hook[h] \in HookRecords /\ "processed" \in HookSteps
      BY <1>s DEF TypeOK
    <3> QED
      BY <1>e, <3>1 DEF HookRecords
  <2>2. hook' = [hook EXCEPT ![h] = record]
    BY <1>4 DEF FinalizeCommit, TypeOK
  <2> HIDE DEF record
  <2>3. hook' \in [Hooks -> HookRecords]
    BY <2>1, <2>2 DEF TypeOK
  <2>4. hook[h].seen \in Bills /\ NoRealChargeTipDelta(a) = 0 /\ a \in Attempts
    BY <1>4 DEF TypeOK, HookRecords, NoRealChargeTipDelta, FinalizeCommit, HookAt, Resolving
  <2> HIDE DEF a
  <2>5. CASE ApplyToBill(a, hook[h].seen, 0, "hook")
    BY <1>4, <2>3, <2>4, <2>5, ApplyToBillType DEF FinalizeCommit, TypeOK
  <2>6. CASE UNCHANGED <<AttemptRows, BillRows>>
    BY <1>4, <2>3, <2>6 DEF FinalizeCommit, TypeOK
  <2> QED
    BY <1>4, <2>4, <2>5, <2>6 DEF FinalizeCommit, a
<1>5. CASE FailFromWebhook(h)
  <2> DEFINE a == AboutOf(h)
  <2>1. a \in Attempts
    BY <1>5 DEF FailFromWebhook, HookAt, Resolving
  <2>2. hook' \in [Hooks -> HookRecords]
    BY <1>5, <1>s, HookType DEF FailFromWebhook
  <2>3. order' \in [Orders -> OrderStatuses]
    BY <1>5 DEF FailFromWebhook, TypeOK, OrderStatuses
  <2>4. FailPayment(a, "hook") \/ UNCHANGED AttemptRows
    BY <1>5 DEF FailFromWebhook
  <2> HIDE DEF a
  <2>5. /\ attempt' \in [Attempts -> AttemptRecords]
        /\ resolver' \in [Attempts -> {"nobody", "handler", "hook"}]
    BY <2>1, <2>4, ResolveType DEF TypeOK
  <2> QED
    BY <1>5, <2>2, <2>3, <2>5 DEF FailFromWebhook, TypeOK
<1>6. CASE MarkProcessed(h)
  <2>1. [state |-> "processed", about |-> NoAttempt] \in EventRecords
    BY DEF EventRecords, EventStates
  <2>2. event' \in [Events -> EventRecords]
    BY <1>6, <2>1 DEF MarkProcessed, TypeOK
  <2>3. hook' \in [Hooks -> HookRecords]
    BY <1>6, <1>s, HookType DEF MarkProcessed
  <2> QED
    BY <1>6, <2>2, <2>3 DEF MarkProcessed, TypeOK
<1>7. CASE CrashHook(h)
  <2>1. hook' \in [Hooks -> HookRecords]
    BY <1>7, <1>s, HookType DEF CrashHook
  <2>2. event' \in [Events -> EventRecords]
    BY <1>7 DEF CrashHook, TypeOK, EventRecords
  <2>3. orphaned' \subseteq Events
    <3>1. CASE HookAt(h, "checked")
      BY <1>7, <3>1 DEF CrashHook, TypeOK
    <3>2. CASE ~HookAt(h, "checked")
      BY <1>7, <3>2 DEF CrashHook, TypeOK, Working, HookAt
    <3> QED
      BY <3>1, <3>2
  <2> QED
    BY <1>7, <2>1, <2>2, <2>3 DEF CrashHook, TypeOK
<1> QED
  BY <1>1, <1>2, <1>3, <1>4, <1>5, <1>6, <1>7 DEF HookStep

-----------------------------------------------------------------------------
(* Notifications and their workers                                         *)

LEMMA InvInit == Init => Inv
<1> SUFFICES ASSUME Init
             PROVE  Inv
  OBVIOUS
<1>1. WorkInv /\ OneFinalizer /\ KnownAbout
  BY DEF Init, WorkInv, EventInv, WorkerInv, OneWorker, Working, IdleHook, OneFinalizer,
         HookAt, KnownAbout
<1>2. \A a \in Attempts : AttemptInv(a)
  BY DEF Init, AttemptInv
<1>3. \A h \in Hooks : ResolvingInv(h)
  BY DEF Init, ResolvingInv, Resolving, HookAt, IdleHook
<1> QED
  BY <1>1, <1>2, <1>3, WebhookTypeInit DEF Inv

\* A step that leaves notifications and workers alone.
LEMMA WorkUntouched == WorkInv /\ UNCHANGED HookSide => WorkInv'
BY DEF WorkInv, HookSide, EventInv, WorkerInv, OneWorker, Working

\* A worker that goes on with the notification it works on.
LEMMA WorkGoesOn ==
    ASSUME TypeOK, WorkInv, NEW h \in Hooks, Working(h), UNCHANGED <<event, orphaned>>,
           hook' \in [Hooks -> HookRecords],
           hook'[h].step \notin {"idle", "checked"}, hook'[h].event = hook[h].event,
           \A k \in Hooks \ {h} : hook'[k] = hook[k]
    PROVE  WorkInv'
<1>1. \A k \in Hooks : hook'[k].event = hook[k].event /\ (Working(k)' <=> Working(k))
  BY DEF Working
<1>2. \A e \in Events : EventInv(e)'
  BY <1>1 DEF WorkInv, EventInv
<1>3. \A k \in Hooks : WorkerInv(k)'
  BY <1>1 DEF WorkInv, WorkerInv, Working
<1>4. OneWorker'
  BY <1>1 DEF WorkInv, OneWorker
<1> QED
  BY <1>2, <1>3, <1>4 DEF WorkInv

\* What a worker that is done, or dead, leaves behind.
LEMMA WorkEnds ==
    ASSUME TypeOK, WorkInv, NEW h \in Hooks, Working(h),
           hook' = [hook EXCEPT ![h] = IdleHook],
           \A e \in Events \ {hook[h].event} : event'[e] = event[e],
           \/ event'[hook[h].event].state = "stored" /\ orphaned' = orphaned \cup {hook[h].event}
           \/ event'[hook[h].event].state # "stored" /\ UNCHANGED orphaned
    PROVE  WorkInv'
<1>1. hook'[h].step = "idle" /\ hook'[h].event = NoEvent /\ ~Working(h)'
  BY DEF TypeOK, IdleHook, Working
<1>2. \A k \in Hooks \ {h} : hook'[k] = hook[k] /\ (Working(k)' <=> Working(k))
  BY DEF TypeOK, Working
<1>3. \A k \in Hooks \ {h} : Working(k) => hook[k].event # hook[h].event
  BY DEF WorkInv, OneWorker
<1>4. hook[h].event \notin orphaned
  BY DEF WorkInv, WorkerInv
<1>5. \A e \in Events : EventInv(e)'
  <2> SUFFICES ASSUME NEW e \in Events PROVE EventInv(e)'
    OBVIOUS
  <2>1. EventInv(e)
    BY DEF WorkInv
  <2>2. CASE e = hook[h].event
    BY <1>1, <1>2, <1>3, <1>4, <2>2 DEF EventInv
  <2>3. CASE e # hook[h].event
    BY <1>1, <1>2, <2>1, <2>3 DEF EventInv
  <2> QED
    BY <2>2, <2>3
<1>6. \A k \in Hooks : WorkerInv(k)'
  <2> SUFFICES ASSUME NEW k \in Hooks PROVE WorkerInv(k)'
    OBVIOUS
  <2>1. WorkerInv(k)
    BY DEF WorkInv
  <2> QED
    BY <1>1, <1>2, <1>3, <2>1 DEF WorkerInv
<1>7. OneWorker'
  BY <1>1, <1>2 DEF WorkInv, OneWorker
<1> QED
  BY <1>5, <1>6, <1>7 DEF WorkInv

\* A request that never works on the notification it received, or not yet.
LEMMA WorkWaits ==
    ASSUME TypeOK, WorkInv, NEW h \in Hooks, ~Working(h), ~Working(h)',
           \A k \in Hooks \ {h} : hook'[k] = hook[k],
           hook'[h].step = "idle" <=> hook'[h].event = NoEvent,
           \A e \in Events : event'[e].state = "stored" <=> event[e].state = "stored",
           UNCHANGED orphaned
    PROVE  WorkInv'
<1>1. \A k \in Hooks \ {h} : Working(k)' <=> Working(k)
  BY DEF Working
<1>2. \A e \in Events : EventInv(e)'
  BY <1>1 DEF WorkInv, EventInv
<1>3. \A k \in Hooks : WorkerInv(k)'
  BY <1>1 DEF WorkInv, WorkerInv
<1>4. OneWorker'
  BY <1>1 DEF WorkInv, OneWorker
<1> QED
  BY <1>2, <1>3, <1>4 DEF WorkInv

LEMMA ReceiveWork ==
    ASSUME TypeOK, WorkInv, NEW h \in Hooks, NEW e \in Events,
           NEW about \in Attempts \cup {NoAttempt}, Receive(h, e, about)
    PROVE  WorkInv'
<1>1. hook'[h].step = "checked" /\ hook'[h].event = e /\ e # NoEvent
  BY DEF Receive, TypeOK, IdleHook
<1>2. ~Working(h) /\ ~Working(h)'
  BY <1>1 DEF Receive, HookAt, Working
<1>3. event[e].state # "stored" /\ event'[e].state = "sent"
  BY DEF Receive, ProviderNotifies, TypeOK
<1>4. \A f \in Events : event'[f].state = "stored" <=> event[f].state = "stored"
  BY <1>3 DEF Receive, TypeOK
<1>5. \A k \in Hooks \ {h} : hook'[k] = hook[k]
  BY DEF Receive, TypeOK
<1> QED
  BY <1>1, <1>2, <1>4, <1>5, WorkWaits DEF Receive, HookOnly

LEMMA StoreWork ==
    ASSUME TypeOK, WorkInv, NEW h \in Hooks, Store(h)
    PROVE  WorkInv'
<1> DEFINE e == hook[h].event
<1>1. ~Working(h) /\ e \in Events
  BY DEF Store, HookAt, Working, WorkInv, WorkerInv, TypeOK, HookRecords
<1>2. \A k \in Hooks \ {h} : hook'[k] = hook[k] /\ (Working(k)' <=> Working(k))
  BY DEF Store, HookGoto, TypeOK, Working
<1>3. UNCHANGED orphaned
  BY DEF Store, HookOnly
<1>4. CASE event[e].state = "sent"
  <2>1. event' = [event EXCEPT ![e].state = "stored"] /\ HookGoto(h, "stored")
    BY <1>4 DEF Store
  <2>2. hook'[h].event = e /\ Working(h)' /\ e # NoEvent
    BY <1>1, <2>1 DEF HookGoto, TypeOK, HookRecords, Working
  <2>3. e \notin orphaned /\ \A k \in Hooks : Working(k) => hook[k].event # e
    BY <1>1, <1>4 DEF WorkInv, EventInv
  <2>4. \A f \in Events : EventInv(f)'
    <3> SUFFICES ASSUME NEW f \in Events PROVE EventInv(f)'
      OBVIOUS
    <3>1. EventInv(f)
      BY DEF WorkInv
    <3>2. CASE f = e
      <4>1. event'[e].state = "stored"
        BY <1>1, <2>1 DEF TypeOK, EventRecords
      <4> QED
        BY <2>2, <3>2, <4>1 DEF EventInv
    <3>3. CASE f # e
      <4>1. event'[f] = event[f]
        BY <1>1, <2>1, <3>3 DEF TypeOK
      <4> QED
        BY <1>1, <1>2, <1>3, <2>2, <3>1, <3>3, <4>1 DEF EventInv
    <3> QED
      BY <3>2, <3>3
  <2>5. \A k \in Hooks : WorkerInv(k)'
    <3> SUFFICES ASSUME NEW k \in Hooks PROVE WorkerInv(k)'
      OBVIOUS
    <3>1. WorkerInv(k)
      BY DEF WorkInv
    <3>2. CASE k = h
      BY <1>3, <2>2, <2>3, <3>2 DEF WorkerInv, Working
    <3>3. CASE k # h
      BY <1>2, <1>3, <3>1, <3>3 DEF WorkerInv
    <3> QED
      BY <3>2, <3>3
  <2>6. OneWorker'
    BY <1>2, <2>2, <2>3 DEF WorkInv, OneWorker
  <2> QED
    BY <2>4, <2>5, <2>6 DEF WorkInv
<1>5. CASE event[e].state # "sent"
  <2>1. hook' = [hook EXCEPT ![h] = IdleHook] /\ UNCHANGED event
    BY <1>5 DEF Store
  <2>2. hook'[h].step = "idle" /\ hook'[h].event = NoEvent /\ ~Working(h)'
    BY <2>1 DEF TypeOK, IdleHook, Working
  <2> QED
    BY <1>1, <1>2, <1>3, <2>1, <2>2, WorkWaits
<1> QED
  BY <1>4, <1>5

LEMMA HookStepWork ==
    ASSUME Inv, NEW h \in Hooks, HookStep(h) \/ CrashHook(h)
    PROVE  WorkInv'
<1>t. TypeOK /\ WorkInv /\ WorkerInv(h) /\ ResolvingInv(h)
  BY DEF Inv, WorkInv
<1>e. Working(h) => hook[h].event \in Events
  BY <1>t DEF Working, WorkerInv, TypeOK, HookRecords
<1>n. TypeOK'
  BY <1>t, <1>e, HookStepType DEF ResolvingInv
<1>g. ASSUME NEW step \in {"processed", "finalize", "fail"}, Working(h), HookGoto(h, step),
             UNCHANGED <<event, orphaned>>
      PROVE  WorkInv'
  <2>1. /\ hook'[h].step \notin {"idle", "checked"} /\ hook'[h].event = hook[h].event
        /\ \A k \in Hooks \ {h} : hook'[k] = hook[k]
    BY <1>g, <1>t DEF HookGoto, TypeOK, HookRecords
  <2> QED
    BY <1>g, <1>t, <1>n, <2>1, WorkGoesOn DEF TypeOK
<1>1. CASE Store(h)
  BY <1>1, <1>t, StoreWork
<1>2. CASE Correlate(h) \/ CannotCorrelate(h)
  <2>1. \A status, outcome : Decision(status, outcome) \in {"processed", "finalize", "fail"}
    BY DEF Decision
  <2>2. PICK step \in {"processed", "finalize", "fail"} : HookGoto(h, step)
    BY <1>2, <2>1 DEF Correlate, CannotCorrelate
  <2>3. Working(h) /\ UNCHANGED <<event, orphaned>>
    BY <1>2 DEF Correlate, CannotCorrelate, HookAt, Working, HookOnly
  <2> QED
    BY <1>g, <2>2, <2>3
<1>3. CASE FinalizeRead(h)
  <2>1. Working(h) /\ UNCHANGED <<event, orphaned>>
    BY <1>3 DEF FinalizeRead, HookAt, Working, HookOnly
  <2>2. CASE HookGoto(h, "processed")
    BY <1>g, <2>1, <2>2
  <2>3. CASE hook' = [hook EXCEPT ![h].step = "finalizing", ![h].seen = bill]
    <3>1. /\ hook'[h].step = "finalizing" /\ hook'[h].event = hook[h].event
          /\ \A k \in Hooks \ {h} : hook'[k] = hook[k]
      BY <1>t, <2>3 DEF TypeOK, HookRecords
    <3> QED
      BY <1>t, <1>n, <2>1, <3>1, WorkGoesOn DEF TypeOK
  <2> QED
    BY <1>3, <2>2, <2>3 DEF FinalizeRead
<1>4. CASE FinalizeCommit(h)
  <2>1. Working(h) /\ UNCHANGED <<event, orphaned>>
    BY <1>4 DEF FinalizeCommit, HookAt, Working
  <2>2. /\ hook'[h].step = "processed" /\ hook'[h].event = hook[h].event
        /\ \A k \in Hooks \ {h} : hook'[k] = hook[k]
    BY <1>4, <1>t DEF FinalizeCommit, TypeOK, HookRecords
  <2> QED
    BY <1>t, <1>n, <2>1, <2>2, WorkGoesOn DEF TypeOK
<1>5. CASE FailFromWebhook(h)
  BY <1>5, <1>g DEF FailFromWebhook, HookAt, Working
<1>6. CASE MarkProcessed(h)
  <2>1. Working(h) /\ UNCHANGED orphaned /\ hook' = [hook EXCEPT ![h] = IdleHook]
    BY <1>6 DEF MarkProcessed, HookAt, Working, HookOnly
  <2>2. /\ event'[hook[h].event].state # "stored"
        /\ \A e \in Events \ {hook[h].event} : event'[e] = event[e]
    BY <1>6, <1>t, <1>e, <2>1 DEF MarkProcessed, TypeOK
  <2> QED
    BY <1>t, <2>1, <2>2, WorkEnds
<1>7. CASE CrashHook(h) /\ HookAt(h, "checked")
  <2>1. hook' = [hook EXCEPT ![h] = IdleHook] /\ UNCHANGED <<event, orphaned>>
    BY <1>7 DEF CrashHook
  <2>2. /\ hook'[h].step = "idle" /\ hook'[h].event = NoEvent
        /\ \A k \in Hooks \ {h} : hook'[k] = hook[k]
    BY <1>t, <2>1 DEF TypeOK, IdleHook
  <2>3. ~Working(h) /\ ~Working(h)'
    BY <1>7, <2>2 DEF Working, HookAt
  <2> QED
    BY <1>t, <2>1, <2>2, <2>3, WorkWaits
<1>8. CASE CrashHook(h) /\ ~HookAt(h, "checked")
  <2>1. /\ Working(h) /\ hook' = [hook EXCEPT ![h] = IdleHook]
        /\ orphaned' = orphaned \cup {hook[h].event}
        /\ event' = [event EXCEPT ![hook[h].event].about = NoAttempt]
    BY <1>8 DEF CrashHook, HookAt, Working
  <2>2. event[hook[h].event].state = "stored"
    BY <1>t, <1>e, <2>1 DEF WorkInv, EventInv
  <2>3. /\ event'[hook[h].event].state = "stored"
        /\ \A e \in Events \ {hook[h].event} : event'[e] = event[e]
    BY <1>t, <1>e, <2>1, <2>2 DEF TypeOK, EventRecords
  <2> QED
    BY <1>t, <2>1, <2>3, WorkEnds
<1> QED
  BY <1>1, <1>2, <1>3, <1>4, <1>5, <1>6, <1>7, <1>8 DEF HookStep

-----------------------------------------------------------------------------
(* Attempts, their handlers and the provider                               *)

\* What an attempt's resolution changes.
LEMMA ResolvedRow ==
    ASSUME TypeOK, NEW a \in Attempts, NEW status, NEW n \in {0, 1}, NEW who,
           Resolve(a, status, n, who)
    PROVE  /\ attempt'[a] = [attempt[a] EXCEPT !.status = status,
                                               !.payments = attempt[a].payments + n]
           /\ attempt'[a].status = status
           /\ attempt'[a].payments = attempt[a].payments + n
           /\ attempt'[a].order = attempt[a].order
           /\ resolver'[a] = who
           /\ \A b \in Attempts \ {a} : attempt'[b] = attempt[b] /\ resolver'[b] = resolver[b]
BY DEF Resolve, TypeOK, AttemptRecords

\* Attempts a step leaves alone; what was captured stays so.
LEMMA AttemptUntouched ==
    ASSUME NEW a \in Attempts, AttemptInv(a), captured \subseteq captured',
           attempt'[a] = attempt[a], handler'[a] = handler[a], provider'[a] = provider[a]
    PROVE  AttemptInv(a)'
BY DEF AttemptInv

LEMMA ProviderStepAttempt ==
    ASSUME Inv, ProviderStep, NEW a \in Attempts
    PROVE  AttemptInv(a)' /\ captured \subseteq captured'
<1>t. TypeOK /\ AttemptInv(a)
  BY DEF Inv
<1>1. PICK b \in Attempts : ProviderDecides(b) \/ ProviderMoves(b)
  BY DEF ProviderStep
<1>2. PICK status \in {"approved", "rejected", "pending", "refunded"} :
          /\ provider' = [provider EXCEPT ![b] = status]
          /\ captured' = IF status = "approved" THEN captured \cup {b} ELSE captured
  BY <1>1 DEF ProviderDecides, ProviderMoves
<1>3. attempt' = attempt /\ handler' = handler
  BY <1>1 DEF ProviderDecides, ProviderMoves, AttemptRows
<1>4. AttemptInv(b) /\ attempt[b].status # "NONE"
  BY <1>1 DEF ProviderDecides, ProviderMoves, AttemptInv, Inv
<1>5. captured \subseteq captured'
  BY <1>2
<1>6. CASE a = b
  <2>1. provider'[b] = status /\ (status = "approved" => b \in captured')
    BY <1>2, <1>t DEF TypeOK
  <2> QED
    BY <1>3, <1>4, <1>5, <1>6, <2>1 DEF AttemptInv
<1>7. CASE a # b
  BY <1>2, <1>3, <1>5, <1>7, <1>t, AttemptUntouched DEF TypeOK
<1> QED
  BY <1>5, <1>6, <1>7

\* A handler works on its own attempt only.
LEMMA HandlerFrame ==
    ASSUME TypeOK, NEW b \in Attempts, HandlerStep(b) \/ CrashHandler(b)
    PROVE  /\ \A a \in Attempts \ {b} :
                 /\ attempt'[a] = attempt[a]
                 /\ handler'[a] = handler[a]
                 /\ provider'[a] = provider[a]
                 /\ resolver'[a] = resolver[a]
           /\ UNCHANGED <<captured, HookSide>>
<1> USE DEF AttemptRows, ProviderSide, TypeOK, Goto, End
<1>r. ASSUME NEW a \in Attempts \ {b}, NEW who, FinalizePayment(b, who) \/ FailPayment(b, who)
      PROVE  attempt'[a] = attempt[a] /\ resolver'[a] = resolver[a]
  BY <1>r DEF FinalizePayment, FailPayment, Resolve
<1>1. ASSUME NEW o, NEW amount, NEW tip, OpenAttempt(b, o, amount, tip)
      PROVE  /\ \A a \in Attempts \ {b} : attempt'[a] = attempt[a] /\ handler'[a] = handler[a]
             /\ UNCHANGED <<resolver, provider, captured, HookSide>>
  BY <1>1 DEF OpenAttempt
<1>2. ASSUME ChargeAnswered(b) \/ ChargeUnheard(b) \/ CrashHandler(b) \/ ApproveRead(b)
      PROVE  /\ \A a \in Attempts \ {b} : handler'[a] = handler[a]
             /\ UNCHANGED <<attempt, resolver, provider, captured, HookSide>>
  BY <1>2 DEF ChargeAnswered, ChargeUnheard, CrashHandler, ApproveRead
<1>3. ASSUME CancelPendingPayment(b)
      PROVE  /\ \A a \in Attempts \ {b} : handler'[a] = handler[a] /\ provider'[a] = provider[a]
             /\ UNCHANGED <<attempt, resolver, captured, HookSide>>
  BY <1>3 DEF CancelPendingPayment
<1>4. ASSUME Reject(b) \/ ApproveOrderCommit(b) \/ ApproveBillCommit(b)
      PROVE  /\ \A a \in Attempts \ {b} : handler'[a] = handler[a]
             /\ UNCHANGED <<provider, captured, HookSide>>
             /\ \/ UNCHANGED <<attempt, resolver>>
                \/ FinalizePayment(b, "handler") \/ FailPayment(b, "handler")
  BY <1>4 DEF Reject, ApproveOrderCommit, ApproveBillCommit, ApplyToBill
<1>5. CASE \E o, amount, tip : OpenAttempt(b, o, amount, tip)
  BY <1>1, <1>5
<1>6. CASE Reject(b) \/ ApproveOrderCommit(b) \/ ApproveBillCommit(b)
  BY <1>4, <1>6, <1>r
<1> QED
  BY <1>2, <1>3, <1>5, <1>6 DEF HandlerStep, PayOrder, PayBill

LEMMA HandlerStepAttempt ==
    ASSUME Inv, NEW b \in Attempts, HandlerStep(b) \/ CrashHandler(b), NEW a \in Attempts
    PROVE  AttemptInv(a)'
<1>t. TypeOK /\ AttemptInv(b) /\ AttemptInv(a)
  BY DEF Inv
<1>0. CASE a # b
  BY <1>0, <1>t, HandlerFrame, AttemptUntouched
<1> USE DEF AttemptRows, ProviderSide
<1>s. AttemptInv(b)'
  <2>h. ASSUME NEW step, Goto(b, step)
        PROVE  handler'[b].step = step
    BY <2>h, <1>t DEF Goto, TypeOK, HandlerRecords
  <2>e. ASSUME End(b)
        PROVE  handler'[b].step = "ended"
    BY <2>e, <1>t DEF End, TypeOK
  <2>1. ASSUME NEW o, NEW amount, NEW tip, OpenAttempt(b, o, amount, tip)
        PROVE  AttemptInv(b)'
    <3>1. attempt'[b].status = "PENDING" /\ attempt'[b].payments = 0
      BY <1>t, <2>1 DEF OpenAttempt, TypeOK
    <3>2. handler'[b].step = "charging" /\ UNCHANGED <<provider, captured>>
      BY <2>1, <2>h DEF OpenAttempt
    <3> QED
      BY <1>t, <3>1, <3>2 DEF AttemptInv
  <2>2. CASE ChargeAnswered(b)
    <3>1. /\ handler'[b].step \in {"approved", "cancelling", "rejected"}
          /\ handler'[b].step = "approved" => provider[b] = "approved"
      BY <2>2, <2>h DEF ChargeAnswered
    <3>2. handler[b].step = "charging" /\ UNCHANGED <<attempt, provider, captured>>
      BY <2>2 DEF ChargeAnswered, At
    <3> QED
      BY <1>t, <3>1, <3>2 DEF AttemptInv
  <2>3. CASE ChargeUnheard(b)
    BY <1>t, <2>3, <2>h DEF ChargeUnheard, At, AttemptInv
  <2>4. CASE CancelPendingPayment(b)
    <3>1. /\ handler[b].step = "cancelling" /\ handler'[b].step = "rejected"
          /\ UNCHANGED <<attempt, captured>>
      BY <2>4, <2>h DEF CancelPendingPayment, At
    <3>2. provider'[b] = provider[b] \/ (provider[b] = "pending" /\ provider'[b] = "cancelled")
      BY <1>t, <2>4 DEF CancelPendingPayment, TypeOK
    <3> QED
      BY <1>t, <3>1, <3>2 DEF AttemptInv
  <2>5. CASE Reject(b)
    <3>1. /\ handler[b].step = "rejected" /\ handler'[b].step = "ended"
          /\ UNCHANGED <<provider, captured>>
      BY <2>5, <2>e DEF Reject, At
    <3>2. CASE Unresolved(b)
      <4>1. Resolve(b, "FAILED", 0, "handler")
        BY <2>5, <3>2 DEF Reject, FailPayment
      <4>2. attempt'[b].status = "FAILED" /\ attempt'[b].payments = attempt[b].payments + 0
        BY <1>t, <4>1, ResolvedRow
      <4>3. attempt[b].payments = 0
        BY <1>t, <3>2 DEF AttemptInv, Unresolved
      <4> QED
        BY <1>t, <3>1, <3>2, <4>2, <4>3 DEF AttemptInv, Unresolved
    <3>3. CASE ~Unresolved(b)
      BY <1>t, <2>5, <3>1, <3>3 DEF Reject, AttemptInv
    <3> QED
      BY <3>2, <3>3
  <2>6. CASE ApproveRead(b)
    <3>1. handler[b].step = "approved" /\ UNCHANGED <<attempt, provider, captured>>
      BY <2>6 DEF ApproveRead, At
    <3>2. (handler'[b].step = "tx" /\ attempt[b].status = "PENDING") \/ handler'[b].step = "ended"
      BY <1>t, <2>6, <2>e DEF ApproveRead, TypeOK, Unresolved
    <3> QED
      BY <1>t, <3>1, <3>2 DEF AttemptInv
  <2>7. CASE ApproveOrderCommit(b) \/ ApproveBillCommit(b)
    <3>1. /\ handler[b].step = "tx" /\ handler'[b].step = "ended"
          /\ UNCHANGED <<provider, captured>>
      BY <2>7, <2>e DEF ApproveOrderCommit, ApproveBillCommit, At
    <3>2. UNCHANGED attempt \/ Resolve(b, "SUCCEEDED", 1, "handler")
      BY <2>7 DEF ApproveOrderCommit, ApproveBillCommit, ApplyToBill, FinalizePayment
    <3>3. CASE UNCHANGED attempt
      BY <1>t, <3>1, <3>3 DEF AttemptInv
    <3>4. CASE Resolve(b, "SUCCEEDED", 1, "handler")
      <4>1. attempt'[b].status = "SUCCEEDED" /\ attempt'[b].payments = attempt[b].payments + 1
        BY <1>t, <3>4, ResolvedRow
      <4>2. attempt[b].payments = 0 /\ attempt[b].status = "PENDING"
        BY <1>t, <3>1 DEF AttemptInv
      <4> QED
        BY <1>t, <3>1, <4>1, <4>2 DEF AttemptInv
    <3> QED
      BY <3>2, <3>3, <3>4
  <2>8. CASE CrashHandler(b)
    BY <1>t, <2>8, <2>e DEF CrashHandler, AttemptInv
  <2> QED
    BY <2>1, <2>2, <2>3, <2>4, <2>5, <2>6, <2>7, <2>8 DEF HandlerStep, PayOrder, PayBill
<1> QED
  BY <1>0, <1>s

\* What a worker may do to an attempt, and when.
LEMMA HookResolves ==
    ASSUME NEW h \in Hooks, HookStep(h) \/ CrashHook(h)
    PROVE  /\ UNCHANGED <<handler, provider, captured>>
           /\ \/ UNCHANGED <<attempt, resolver, order>>
              \/ HookAt(h, "finalizing") /\ Resolve(AboutOf(h), "SUCCEEDED", 1, "hook")
                 /\ UNCHANGED order
              \/ /\ HookAt(h, "fail")
                 /\ ~AttemptLocked(AboutOf(h))
                 /\ Unresolved(AboutOf(h))
                 /\ Resolve(AboutOf(h), "FAILED", 0, "hook")
                 /\ \/ UNCHANGED order
                    \/ \E o \in Orders : order' = [order EXCEPT ![o] = "PAYMENT_FAILED"]
<1> USE DEF AttemptRows, ProviderSide, HookOnly
<1>1. CASE Store(h) \/ Correlate(h) \/ CannotCorrelate(h) \/ FinalizeRead(h)
           \/ MarkProcessed(h) \/ CrashHook(h)
  BY <1>1 DEF Store, Correlate, CannotCorrelate, FinalizeRead, MarkProcessed, CrashHook
<1>2. CASE FinalizeCommit(h)
  BY <1>2 DEF FinalizeCommit, ApplyToBill, FinalizePayment
<1>3. CASE FailFromWebhook(h)
  BY <1>3 DEF FailFromWebhook, FailPayment
<1> QED
  BY <1>1, <1>2, <1>3 DEF HookStep

LEMMA HookStepAttempt ==
    ASSUME Inv, NEW h \in Hooks, HookStep(h) \/ CrashHook(h), NEW a \in Attempts
    PROVE  AttemptInv(a)'
<1>t. TypeOK /\ AttemptInv(a) /\ ResolvingInv(h)
  BY DEF Inv
<1>u. UNCHANGED <<handler, provider, captured>>
  BY HookResolves
<1>1. ASSUME NEW status \in {"SUCCEEDED", "FAILED"}, NEW n \in {0, 1},
             status = "SUCCEEDED" <=> n = 1,
             AboutOf(h) \in Attempts, attempt[AboutOf(h)].status = "PENDING",
             ~At(AboutOf(h), "tx"), Resolve(AboutOf(h), status, n, "hook")
      PROVE  AttemptInv(a)'
  <2> DEFINE b == AboutOf(h)
  <2>0. b \in Attempts /\ Resolve(b, status, n, "hook")
    BY <1>1
  <2> HIDE DEF b
  <2>1. /\ attempt'[b].status = status
        /\ attempt'[b].payments = attempt[b].payments + n
        /\ \A c \in Attempts \ {b} : attempt'[c] = attempt[c]
    BY <1>t, <2>0 DEF Resolve, TypeOK, AttemptRecords
  <2>2. attempt[b].status = "PENDING" /\ handler[b].step # "tx"
    BY <1>1 DEF At, b
  <2>3. CASE a = b
    <3>1. attempt[a].payments = 0
      BY <1>t, <2>2, <2>3 DEF AttemptInv
    <3> QED
      BY <1>1, <1>t, <1>u, <2>1, <2>2, <2>3, <3>1 DEF AttemptInv
  <2>4. CASE a # b
    BY <1>t, <1>u, <2>1, <2>4, AttemptUntouched
  <2> QED
    BY <2>3, <2>4
<1>2. CASE UNCHANGED attempt
  BY <1>2, <1>t, <1>u, AttemptUntouched
<1>3. CASE HookAt(h, "finalizing") /\ Resolve(AboutOf(h), "SUCCEEDED", 1, "hook")
  BY <1>3, <1>1, <1>t DEF ResolvingInv, Resolving, HookAt
<1>4. CASE /\ HookAt(h, "fail")
           /\ ~AttemptLocked(AboutOf(h))
           /\ Unresolved(AboutOf(h))
           /\ Resolve(AboutOf(h), "FAILED", 0, "hook")
  BY <1>4, <1>1, <1>t DEF ResolvingInv, Resolving, HookAt, AttemptLocked, Unresolved
<1> QED
  BY <1>2, <1>3, <1>4, HookResolves

-----------------------------------------------------------------------------
(* What a worker relies on                                                 *)

\* The provider never takes back a rejection or an approval it acted on.
LEMMA ProviderStepResolving ==
    ASSUME Inv, ProviderStep
    PROVE  /\ \A h \in Hooks : ResolvingInv(h)'
           /\ OneFinalizer'
           /\ KnownAbout'
           /\ UNCHANGED <<order, attempt, handler, resolver, bill, session, overwritten, HookSide>>
<1>1. PICK b \in Attempts : ProviderDecides(b) \/ ProviderMoves(b)
  BY DEF ProviderStep
<1>2. UNCHANGED <<order, attempt, handler, resolver, bill, session, overwritten, HookSide>>
  BY <1>1 DEF ProviderDecides, ProviderMoves, AttemptRows, BillRows
<1>3. captured \subseteq captured'
  BY <1>1 DEF ProviderDecides, ProviderMoves
<1>4. \A a \in Attempts :
         /\ provider[a] # "none" => provider'[a] # "none"
         /\ provider[a] \in {"rejected", "cancelled", "refunded"} => provider'[a] = provider[a]
  BY <1>1 DEF ProviderDecides, ProviderMoves, Inv, TypeOK
<1>5. \A h \in Hooks : ResolvingInv(h)'
  <2> SUFFICES ASSUME NEW h \in Hooks PROVE ResolvingInv(h)'
    OBVIOUS
  <2>1. ResolvingInv(h)
    BY DEF Inv
  <2>2. AboutOf(h)' = AboutOf(h)
    BY <1>2 DEF AboutOf, HookSide
  <2> QED
    BY <1>2, <1>3, <1>4, <2>1, <2>2 DEF ResolvingInv, Resolving, HookAt, At, HookSide
<1>6. OneFinalizer'
  BY <1>2 DEF Inv, OneFinalizer, HookAt, AboutOf, HookSide
<1>7. KnownAbout'
  BY <1>2, <1>4 DEF Inv, KnownAbout, HookSide
<1> QED
  BY <1>2, <1>5, <1>6, <1>7

\* A handler may claim, fail or finalize an attempt only when no worker finalizes it.
LEMMA HandlerStepResolving ==
    ASSUME Inv, NEW b \in Attempts, HandlerStep(b) \/ CrashHandler(b)
    PROVE  /\ \A h \in Hooks : ResolvingInv(h)'
           /\ OneFinalizer'
           /\ KnownAbout'
<1>t. TypeOK /\ AttemptInv(b)
  BY DEF Inv
<1>u. UNCHANGED <<captured, event, hook, orphaned>>
  BY <1>t, HandlerFrame DEF HookSide
<1>f. \A a \in Attempts \ {b} :
         attempt'[a] = attempt[a] /\ handler'[a] = handler[a] /\ provider'[a] = provider[a]
  BY <1>t, HandlerFrame
<1>p. /\ provider[b] # "none" => provider'[b] # "none"
      /\ provider[b] \in {"rejected", "cancelled", "refunded"} => provider'[b] = provider[b]
  <2>1. CASE CancelPendingPayment(b)
    BY <1>t, <2>1 DEF CancelPendingPayment, TypeOK
  <2>2. CASE ~CancelPendingPayment(b)
    BY <2>2 DEF HandlerStep, CrashHandler, PayOrder, PayBill, OpenAttempt, ChargeAnswered,
       ChargeUnheard, Reject, ApproveRead, ApproveOrderCommit, ApproveBillCommit, ProviderSide
  <2> QED
    BY <2>1, <2>2
<1>l. ASSUME AttemptLocked(b), attempt[b].status = "PENDING", ~At(b, "tx")
      PROVE  attempt'[b].status = "PENDING" /\ ~At(b, "tx")'
  <2>1. CASE ChargeAnswered(b) \/ ChargeUnheard(b) \/ CancelPendingPayment(b) \/ CrashHandler(b)
    <3>1. UNCHANGED attempt
      BY <2>1 DEF ChargeAnswered, ChargeUnheard, CancelPendingPayment, CrashHandler, AttemptRows
    <3>2. handler'[b].step # "tx"
      BY <1>t, <2>1 DEF ChargeAnswered, ChargeUnheard, CancelPendingPayment, CrashHandler,
         Goto, End, TypeOK, HandlerRecords
    <3> QED
      BY <1>l, <3>1, <3>2 DEF At
  <2> QED
    BY <1>l, <2>1 DEF HandlerStep, PayOrder, PayBill, OpenAttempt, Reject, ApproveRead,
       ApproveOrderCommit, ApproveBillCommit
<1>a. \A h \in Hooks : AboutOf(h)' = AboutOf(h) /\ hook'[h] = hook[h]
  BY <1>u DEF AboutOf
<1>1. ASSUME NEW h \in Hooks
      PROVE  ResolvingInv(h)'
  <2>1. ResolvingInv(h)
    BY DEF Inv
  <2>2. CASE AboutOf(h) = b
    <3>1. HookAt(h, "finalizing") => AttemptLocked(b)
      BY <2>2 DEF AttemptLocked
    <3> QED
      BY <1>a, <1>u, <1>p, <1>l, <2>1, <2>2, <3>1 DEF ResolvingInv, Resolving, HookAt
  <2>3. CASE AboutOf(h) # b
    BY <1>a, <1>u, <1>f, <2>1, <2>3 DEF ResolvingInv, Resolving, HookAt, At
  <2> QED
    BY <2>2, <2>3
<1>2. OneFinalizer'
  BY <1>a DEF Inv, OneFinalizer, HookAt
<1>3. KnownAbout'
  BY <1>u, <1>f, <1>p DEF Inv, KnownAbout
<1> QED
  BY <1>1, <1>2, <1>3

\* A worker changes no notification another one works on.
LEMMA HookFrame ==
    ASSUME Inv, NEW h \in Hooks, HookStep(h) \/ CrashHook(h)
    PROVE  /\ \A k \in Hooks \ {h} :
                 /\ hook'[k] = hook[k]
                 /\ Working(k) => AboutOf(k)' = AboutOf(k)
           /\ Resolving(h)' => AboutOf(h)' = AboutOf(h)
           /\ \A e \in Events : event'[e].about \in {event[e].about, NoAttempt}
<1>t. TypeOK /\ WorkInv
  BY DEF Inv
<1>w. ASSUME NEW k \in Hooks, Working(k)
      PROVE  hook[k].event \in Events /\ event[hook[k].event].state = "stored"
  BY <1>w, <1>t DEF Working, WorkInv, WorkerInv, EventInv, TypeOK, HookRecords
<1>1. CASE Store(h)
  <2>1. /\ \A k \in Hooks \ {h} : hook'[k] = hook[k]
        /\ hook'[h].step \in {"idle", "stored"}
    BY <1>1, <1>t DEF Store, HookGoto, TypeOK, HookRecords, IdleHook
  <2>2. \A e \in Events : /\ event'[e].about = event[e].about
                          /\ event[e].state = "stored" => event'[e] = event[e]
    BY <1>1, <1>t DEF Store, TypeOK, EventRecords
  <2> QED
    BY <1>w, <2>1, <2>2 DEF AboutOf, Resolving
<1>2. CASE Correlate(h) \/ CannotCorrelate(h) \/ FinalizeRead(h) \/ FinalizeCommit(h)
           \/ FailFromWebhook(h)
  <2>1. UNCHANGED event
    BY <1>2 DEF Correlate, CannotCorrelate, FinalizeRead, FinalizeCommit, FailFromWebhook
  <2>2. Working(h)
    BY <1>2 DEF Correlate, CannotCorrelate, FinalizeRead, FinalizeCommit, FailFromWebhook,
       HookAt, Working
  <2>3. \A k \in Hooks \ {h} : hook'[k] = hook[k]
    BY <1>2, <1>t DEF Correlate, CannotCorrelate, FinalizeRead, FinalizeCommit,
       FailFromWebhook, HookGoto, TypeOK
  <2>4. hook'[h].event = hook[h].event
    BY <1>2, <1>t DEF Correlate, CannotCorrelate, FinalizeRead, FinalizeCommit,
       FailFromWebhook, HookGoto, TypeOK, HookRecords
  <2> QED
    BY <2>1, <2>3, <2>4 DEF AboutOf
<1>3. CASE MarkProcessed(h) \/ CrashHook(h)
  <2>1. hook' = [hook EXCEPT ![h] = IdleHook]
    BY <1>3 DEF MarkProcessed, CrashHook
  <2>2. (\A k \in Hooks \ {h} : hook'[k] = hook[k]) /\ ~Resolving(h)'
    BY <1>t, <2>1 DEF TypeOK, IdleHook, Resolving
  <2>3. UNCHANGED event \/ Working(h)
    BY <1>3 DEF MarkProcessed, CrashHook, HookAt, Working
  <2>4. \A e \in Events \ {hook[h].event} : event'[e] = event[e]
    BY <1>3, <1>t DEF MarkProcessed, CrashHook, TypeOK
  <2>5. \A e \in Events : event'[e].about \in {event[e].about, NoAttempt}
    BY <1>3, <1>t DEF MarkProcessed, CrashHook, TypeOK, EventRecords
  <2>6. \A k \in Hooks \ {h} : Working(k) /\ Working(h) => hook[k].event # hook[h].event
    BY <1>t DEF WorkInv, OneWorker
  <2>7. \A k \in Hooks \ {h} : Working(k) => event'[hook[k].event] = event[hook[k].event]
    BY <1>w, <2>3, <2>4, <2>6
  <2> QED
    BY <2>2, <2>5, <2>7 DEF AboutOf
<1> QED
  BY <1>1, <1>2, <1>3 DEF HookStep

\* What the worker that steps relies on afterwards.
LEMMA HookStepOwn ==
    ASSUME Inv, NEW h \in Hooks, HookStep(h) \/ CrashHook(h)
    PROVE  /\ ResolvingInv(h)'
           /\ HookAt(h, "finalizing")' => ~AttemptLocked(AboutOf(h)) /\ UNCHANGED attempt
<1>t. TypeOK /\ WorkInv /\ WorkerInv(h) /\ ResolvingInv(h)
  BY DEF Inv, WorkInv
<1>u. UNCHANGED <<handler, provider, captured>>
  BY HookResolves
<1>1. CASE Correlate(h)
  <2> DEFINE a == AboutOf(h)
             decision == Decision(attempt[a].status, MapMercadoPagoStatus(provider[a]))
  <2>1. a \in Attempts /\ hook'[h].step = decision /\ hook'[h].event = hook[h].event
        /\ UNCHANGED event
    BY <1>1, <1>t DEF Correlate, HookGoto, TypeOK, HookRecords
  <2>2. hook[h].event \in Events
    BY <1>1, <1>t DEF Correlate, HookAt, WorkerInv, TypeOK, HookRecords
  <2>3. provider[a] # "none" /\ (provider[a] = "approved" => a \in captured)
    BY <2>1, <2>2 DEF Inv, KnownAbout, AboutOf, AttemptInv
  <2>4. /\ decision \in {"processed", "finalize", "fail"}
        /\ decision = "finalize" => provider[a] = "approved"
        /\ decision = "fail" => provider[a] \notin {"none", "approved", "pending"}
    BY <2>3 DEF Decision, MapMercadoPagoStatus
  <2>5. provider[a] \in ProviderStatuses /\ AboutOf(h)' = a
    BY <1>t, <2>1 DEF TypeOK, AboutOf
  <2> HIDE DEF decision
  <2> QED
    BY <1>u, <2>1, <2>3, <2>4, <2>5 DEF ResolvingInv, Resolving, HookAt, ProviderStatuses
<1>2. CASE FinalizeRead(h)
  <2>1. AboutOf(h) \in Attempts /\ AboutOf(h) \in captured /\ ~AttemptLocked(AboutOf(h))
    BY <1>2, <1>t DEF FinalizeRead, ResolvingInv, HookAt, Resolving
  <2>2. /\ hook'[h].event = hook[h].event /\ UNCHANGED <<event, attempt>>
        /\ \/ hook'[h].step = "processed"
           \/ hook'[h].step = "finalizing" /\ attempt[AboutOf(h)].status = "PENDING"
    BY <1>2, <1>t DEF FinalizeRead, HookGoto, TypeOK, HookRecords, Unresolved, HookOnly,
       AttemptRows
  <2>3. AboutOf(h)' = AboutOf(h)
    BY <2>2 DEF AboutOf
  <2> QED
    BY <1>u, <2>1, <2>2, <2>3 DEF ResolvingInv, Resolving, HookAt, AttemptLocked, At
<1>3. CASE Store(h) \/ CannotCorrelate(h) \/ FinalizeCommit(h) \/ FailFromWebhook(h)
           \/ MarkProcessed(h) \/ CrashHook(h)
  <2>1. hook'[h].step \in {"idle", "stored", "processed"}
    BY <1>3, <1>t DEF Store, CannotCorrelate, FinalizeCommit, FailFromWebhook,
       MarkProcessed, CrashHook, HookGoto, TypeOK, HookRecords, IdleHook
  <2> QED
    BY <2>1 DEF ResolvingInv, Resolving, HookAt
<1> QED
  BY <1>1, <1>2, <1>3 DEF HookStep

LEMMA HookStepResolving ==
    ASSUME Inv, NEW h \in Hooks, HookStep(h) \/ CrashHook(h)
    PROVE  /\ \A k \in Hooks : ResolvingInv(k)'
           /\ OneFinalizer'
           /\ KnownAbout'
<1>u. UNCHANGED <<handler, provider, captured>>
  BY HookResolves
<1>f. \A k \in Hooks \ {h} : hook'[k] = hook[k] /\ (Working(k) => AboutOf(k)' = AboutOf(k))
  BY HookFrame
<1>1. ASSUME NEW k \in Hooks \ {h}, HookAt(k, "finalizing")
      PROVE  attempt'[AboutOf(k)].status = attempt[AboutOf(k)].status
  <2>1. TypeOK /\ ResolvingInv(k) /\ ResolvingInv(h)
    BY DEF Inv
  <2>2. CASE HookAt(h, "finalizing") /\ Resolve(AboutOf(h), "SUCCEEDED", 1, "hook")
    <3>1. AboutOf(k) # AboutOf(h)
      BY <1>1, <2>2 DEF Inv, OneFinalizer
    <3>2. AboutOf(k) \in Attempts /\ AboutOf(h) \in Attempts
      BY <1>1, <2>1, <2>2 DEF ResolvingInv, Resolving, HookAt
    <3> QED
      BY <2>1, <2>2, <3>1, <3>2 DEF Resolve, TypeOK
  <2>3. CASE ~AttemptLocked(AboutOf(h)) /\ Resolve(AboutOf(h), "FAILED", 0, "hook")
    <3>1. AboutOf(k) # AboutOf(h)
      BY <1>1, <2>3 DEF AttemptLocked
    <3>2. AboutOf(k) \in Attempts
      BY <1>1, <2>1 DEF ResolvingInv, Resolving, HookAt
    <3> QED
      BY <2>1, <2>3, <3>1, <3>2 DEF Resolve, TypeOK
  <2> QED
    BY <2>2, <2>3, HookResolves
<1>2. ASSUME NEW k \in Hooks \ {h}
      PROVE  ResolvingInv(k)'
  <2>1. ResolvingInv(k)
    BY DEF Inv
  <2>2. Resolving(k) => Working(k)
    BY DEF Resolving, Working
  <2> QED
    BY <1>u, <1>f, <1>1, <2>1, <2>2 DEF ResolvingInv, Resolving, HookAt, At
<1>3. ResolvingInv(h)'
  BY HookStepOwn
<1>4. OneFinalizer'
  <2>1. \A k \in Hooks \ {h} : HookAt(k, "finalizing")' =>
             HookAt(k, "finalizing") /\ AboutOf(k)' = AboutOf(k)
    BY <1>f DEF HookAt, Working
  <2>2. HookAt(h, "finalizing")' => AboutOf(h)' = AboutOf(h) /\ ~AttemptLocked(AboutOf(h))
    BY HookFrame, HookStepOwn DEF Resolving, HookAt
  <2>3. \A k \in Hooks \ {h} : HookAt(k, "finalizing")' /\ HookAt(h, "finalizing")'
             => AboutOf(k)' # AboutOf(h)'
    BY <2>1, <2>2 DEF AttemptLocked
  <2>4. OneFinalizer
    BY DEF Inv
  <2> QED
    BY <2>1, <2>3, <2>4 DEF OneFinalizer
<1>5. KnownAbout'
  BY <1>u, HookFrame DEF Inv, KnownAbout
<1> QED
  BY <1>2, <1>3, <1>4, <1>5

\* A delivery reaches an idle worker, and tells it of no notification in work.
LEMMA DeliverStep ==
    ASSUME Inv, NEW e \in Events, Deliver(e)
    PROVE  Inv'
<1>1. PICK h \in Hooks, about \in Attempts \cup {NoAttempt} : Receive(h, e, about)
  BY DEF Deliver
<1>t. TypeOK /\ WorkInv
  BY DEF Inv
<1>u. UNCHANGED <<order, attempt, handler, provider, captured, orphaned, session, bill,
                  resolver, overwritten>>
  BY <1>1 DEF Receive, HookOnly, AttemptRows, BillRows, ProviderSide
<1> DEFINE record == [IdleHook EXCEPT !.step = "checked", !.event = e]
<1>2. record \in HookRecords /\ record.step = "checked"
  <2>1. IdleHook \in HookRecords
    BY DEF IdleHook, HookRecords, HookSteps, EmptyBill, Bills, BillStatuses
  <2> QED
    BY <2>1 DEF HookRecords, HookSteps
<1>3. hook' = [hook EXCEPT ![h] = record]
  BY <1>1 DEF Receive
<1> HIDE DEF record
<1>4. TypeOK'
  <2>1. hook' \in [Hooks -> HookRecords]
    BY <1>2, <1>3, <1>t DEF TypeOK
  <2>2. event' \in [Events -> EventRecords]
    <3>1. [state |-> "sent", about |-> about] \in EventRecords
      BY DEF EventRecords, EventStates
    <3> QED
      BY <1>1, <1>t, <3>1 DEF Receive, TypeOK
  <2> QED
    BY <1>u, <1>t, <2>1, <2>2 DEF TypeOK
<1>5. WorkInv'
  BY <1>1, <1>t, ReceiveWork
<1>6. \A a \in Attempts : AttemptInv(a)'
  BY <1>u, AttemptUntouched DEF Inv
<1>7. \A k \in Hooks \ {h} : hook'[k] = hook[k] /\ (Working(k) => AboutOf(k)' = AboutOf(k))
  <2> SUFFICES ASSUME NEW k \in Hooks \ {h}
               PROVE  hook'[k] = hook[k] /\ (Working(k) => AboutOf(k)' = AboutOf(k))
    OBVIOUS
  <2>1. hook'[k] = hook[k]
    BY <1>3, <1>t DEF TypeOK
  <2>2. Working(k) => event[hook[k].event].state = "stored"
    BY <1>t DEF WorkInv, WorkerInv, EventInv, Working, TypeOK, HookRecords
  <2>3. event[e].state # "stored"
    BY <1>1 DEF Receive, ProviderNotifies, TypeOK
  <2>4. \A f \in Events \ {e} : event'[f] = event[f]
    BY <1>1, <1>t DEF Receive, TypeOK
  <2>5. Working(k) => hook[k].event \in Events
    BY <1>t DEF WorkInv, WorkerInv, Working, TypeOK, HookRecords
  <2> QED
    BY <2>1, <2>2, <2>3, <2>4, <2>5 DEF AboutOf
<1>8. hook'[h].step = "checked"
  BY <1>2, <1>3, <1>t DEF TypeOK
<1>9. \A k \in Hooks : ResolvingInv(k)'
  <2> SUFFICES ASSUME NEW k \in Hooks PROVE ResolvingInv(k)'
    OBVIOUS
  <2>1. ResolvingInv(k)
    BY DEF Inv
  <2>2. CASE k = h
    BY <1>8, <2>2 DEF ResolvingInv, Resolving, HookAt
  <2>3. CASE k # h
    BY <1>u, <1>7, <2>1, <2>3 DEF ResolvingInv, Resolving, HookAt, At, Working
  <2> QED
    BY <2>2, <2>3
<1>10. OneFinalizer'
  BY <1>7, <1>8 DEF Inv, OneFinalizer, HookAt, Working
<1>11. KnownAbout'
  BY <1>1, <1>u, <1>t DEF Receive, ProviderNotifies, TypeOK, KnownAbout, Inv
<1> QED
  BY <1>4, <1>5, <1>6, <1>9, <1>10, <1>11 DEF Inv

LEMMA CancelStep ==
    ASSUME Inv, NEW o \in Orders, CancelOrder(o)
    PROVE  Inv'
<1>1. UNCHANGED <<attempt, handler, provider, captured, event, hook, orphaned, session, bill,
                  resolver, overwritten>>
  BY DEF CancelOrder, AttemptRows, BillRows, ProviderSide, HookSide
<1>2. TypeOK'
  BY <1>1 DEF Inv, TypeOK, CancelOrder, OrderStatuses
<1>3. WorkInv'
  BY <1>1, WorkUntouched DEF Inv, HookSide
<1>4. \A a \in Attempts : AttemptInv(a)'
  BY <1>1, AttemptUntouched DEF Inv
<1>5. OneFinalizer' /\ KnownAbout' /\ \A h \in Hooks : ResolvingInv(h)'
  BY <1>1 DEF Inv, OneFinalizer, KnownAbout, ResolvingInv, Resolving, HookAt, AboutOf, At
<1> QED
  BY <1>2, <1>3, <1>4, <1>5 DEF Inv

LEMMA InvStep == Inv /\ [Next]_vars => Inv'
<1> SUFFICES ASSUME Inv, [Next]_vars
             PROVE  Inv'
  OBVIOUS
<1>t. TypeOK /\ WorkInv
  BY DEF Inv
<1>1. CASE ProviderStep
  <2>1. \A a \in Attempts : AttemptInv(a)'
    BY <1>1, ProviderStepAttempt
  <2>2. UNCHANGED <<order, attempt, handler, resolver, bill, session, overwritten, HookSide>>
    BY <1>1, ProviderStepResolving
  <2>3. provider' \in [Attempts -> ProviderStatuses] /\ captured' \subseteq Attempts
    BY <1>1, <1>t DEF ProviderStep, ProviderDecides, ProviderMoves, TypeOK, ProviderStatuses
  <2>4. TypeOK'
    BY <1>t, <2>2, <2>3 DEF TypeOK, HookSide
  <2>5. WorkInv'
    BY <1>t, <2>2, WorkUntouched
  <2> QED
    BY <1>1, <2>1, <2>4, <2>5, ProviderStepResolving DEF Inv
<1>2. ASSUME NEW a \in Attempts, HandlerStep(a) \/ CrashHandler(a)
      PROVE  Inv'
  <2>1. TypeOK'
    BY <1>2, <1>t, HandlerStepType
  <2>2. WorkInv'
    BY <1>2, <1>t, HandlerFrame, WorkUntouched
  <2> QED
    BY <1>2, <2>1, <2>2, HandlerStepAttempt, HandlerStepResolving DEF Inv
<1>3. ASSUME NEW h \in Hooks, HookStep(h) \/ CrashHook(h)
      PROVE  Inv'
  <2>1. Working(h) => hook[h].event \in Events
    BY <1>t DEF WorkInv, WorkerInv, Working, TypeOK, HookRecords
  <2>2. TypeOK'
    BY <1>3, <1>t, <2>1, HookStepType DEF Inv, ResolvingInv
  <2>3. WorkInv'
    BY <1>3, HookStepWork
  <2> QED
    BY <1>3, <2>2, <2>3, HookStepAttempt, HookStepResolving DEF Inv
<1>4. CASE UNCHANGED vars
  BY <1>4 DEF vars, Inv, TypeOK, WorkInv, EventInv, WorkerInv, OneWorker, Working, AttemptInv,
     ResolvingInv, Resolving, HookAt, AboutOf, At, OneFinalizer, KnownAbout
<1> QED
  BY <1>1, <1>2, <1>3, <1>4, DeliverStep, CancelStep DEF Next

\* The invariant holds in every state: what handlers and workers rely on stays true.
THEOREM Invariance == Spec => []Inv
BY InvInit, InvStep, PTL DEF Spec

\* Types, in every state the program can reach.
THEOREM WebhookTypes == Spec => []TypeOK
<1>1. Inv => TypeOK
  BY DEF Inv
<1> QED
  BY <1>1, Invariance, PTL

-----------------------------------------------------------------------------
(* One worker per notification                                             *)

LEMMA WorkersSingle ==
    ASSUME Inv, NEW e \in Events
    PROVE  LET workers == {h \in Hooks : hook[h].event = e /\ hook[h].step # "checked"}
           IN  /\ event[e].state = "stored" <=> workers # {} \/ e \in orphaned
               /\ Cardinality(workers) <= IF e \in orphaned THEN 0 ELSE 1
<1> DEFINE workers == {h \in Hooks : hook[h].event = e /\ hook[h].step # "checked"}
<1>1. \A h \in Hooks : h \in workers <=> Working(h) /\ hook[h].event = e
  BY DEF Inv, WorkInv, WorkerInv, Working
<1> HIDE DEF workers
<1>2. workers \subseteq Hooks
  BY DEF workers
<1>3. event[e].state = "stored" <=> workers # {} \/ e \in orphaned
  BY <1>1, <1>2 DEF Inv, WorkInv, EventInv
<1>4. e \in orphaned => workers = {}
  BY <1>1, <1>2 DEF Inv, WorkInv, WorkerInv
<1>5. Cardinality(workers) <= IF e \in orphaned THEN 0 ELSE 1
  <2>1. CASE workers = {}
    BY <2>1, FS_EmptySet
  <2>2. CASE workers # {}
    <3>1. PICK h \in workers : workers = {h}
      BY <1>1, <1>2, <2>2 DEF Inv, WorkInv, OneWorker
    <3>2. Cardinality(workers) = 1
      BY <3>1, FS_Singleton
    <3> QED
      BY <1>4, <2>2, <3>2
  <2> QED
    BY <2>1, <2>2
<1> QED
  BY <1>3, <1>5 DEF workers

\* A notification has one worker at most, although it is looked up and stored in two
\* statements and may be delivered several times at once; a stored one that has none
\* is never worked on again.
THEOREM NotificationHasOneWorker == Spec => []OneWorkerPerEvent
<1>1. Inv => OneWorkerPerEvent
  BY WorkersSingle DEF OneWorkerPerEvent
<1> QED
  BY <1>1, Invariance, PTL

-----------------------------------------------------------------------------
(* How an attempt may change                                               *)

Opens(a) ==
    /\ attempt[a].status = "NONE"
    /\ \E record \in AttemptRecords :
          /\ record.status = "PENDING" /\ record.payments = 0
          /\ attempt' = [attempt EXCEPT ![a] = record]
    /\ UNCHANGED <<resolver, provider, captured>>

Succeeds(a, who) ==
    /\ attempt[a].status = "PENDING" /\ a \in captured
    /\ Resolve(a, "SUCCEEDED", 1, who)
    /\ UNCHANGED <<provider, captured>>

Fails(a, who) ==
    /\ attempt[a].status = "PENDING"
    /\ Resolve(a, "FAILED", 0, who)
    /\ who = "hook" => provider[a] \in {"rejected", "cancelled", "refunded"}
    /\ UNCHANGED <<provider, captured>>

\* A provider goes on, or nothing that concerns the attempts happens.
Decided ==
    /\ UNCHANGED <<attempt, resolver>>
    /\ \/ UNCHANGED captured
       \/ \E a \in Attempts : attempt[a].status # "NONE" /\ captured' = captured \cup {a}
    /\ \A a \in Attempts : provider[a] \in {"rejected", "cancelled", "refunded"}
          => provider'[a] = provider[a]

LEMMA OwnSteps ==
    ASSUME Inv, NEW a \in Attempts, HandlerStep(a) \/ CrashHandler(a)
    PROVE  Decided \/ Opens(a) \/ Succeeds(a, "handler") \/ Fails(a, "handler")
<1>t. TypeOK /\ AttemptInv(a)
  BY DEF Inv
<1> USE DEF AttemptRows, ProviderSide
<1>1. ASSUME NEW o \in Orders \cup {NoOrder}, NEW amount \in Nat, NEW tip \in Nat,
             OpenAttempt(a, o, amount, tip)
      PROVE  Opens(a)
  <2> DEFINE record == [status |-> "PENDING", order |-> o, amount |-> amount + tip,
                        tip |-> tip, payments |-> 0]
  <2>1. record \in AttemptRecords /\ record.status = "PENDING" /\ record.payments = 0
    BY DEF AttemptRecords, AttemptStatuses
  <2>2. attempt' = [attempt EXCEPT ![a] = record]
    BY <1>1 DEF OpenAttempt
  <2> HIDE DEF record
  <2> QED
    BY <1>1, <2>1, <2>2 DEF OpenAttempt, Opens
<1>2. ASSUME NEW o \in Orders, NEW tip \in Tips, PayOrder(a, o, tip)
      PROVE  Opens(a)
  BY <1>2, <1>1 DEF PayOrder
<1>3. ASSUME NEW amount \in Amounts, NEW tip \in Tips, PayBill(a, amount, tip)
      PROVE  Opens(a)
  BY <1>3, <1>1 DEF PayBill
<1>4. CASE ChargeAnswered(a) \/ ChargeUnheard(a) \/ ApproveRead(a) \/ CrashHandler(a)
  BY <1>4 DEF ChargeAnswered, ChargeUnheard, ApproveRead, CrashHandler, Decided
<1>5. CASE CancelPendingPayment(a)
  BY <1>t, <1>5 DEF CancelPendingPayment, Decided, TypeOK
<1>6. CASE Reject(a)
  BY <1>6 DEF Reject, Unresolved, FailPayment, Fails, Decided
<1>7. CASE ApproveOrderCommit(a) \/ ApproveBillCommit(a)
  <2>1. attempt[a].status = "PENDING" /\ a \in captured
    BY <1>t, <1>7 DEF ApproveOrderCommit, ApproveBillCommit, At, AttemptInv
  <2>2. /\ UNCHANGED <<provider, captured>>
        /\ UNCHANGED <<attempt, resolver>> \/ Resolve(a, "SUCCEEDED", 1, "handler")
    BY <1>7 DEF ApproveOrderCommit, ApproveBillCommit, ApplyToBill, FinalizePayment
  <2> QED
    BY <2>1, <2>2 DEF Succeeds, Decided
<1> QED
  BY <1>2, <1>3, <1>4, <1>5, <1>6, <1>7 DEF HandlerStep

LEMMA WorkerSteps ==
    ASSUME Inv, NEW h \in Hooks, HookStep(h) \/ CrashHook(h)
    PROVE  Decided \/ \E a \in Attempts : Succeeds(a, "hook") \/ Fails(a, "hook")
<1>1. ResolvingInv(h) /\ UNCHANGED <<provider, captured>>
  BY HookResolves DEF Inv
<1>2. CASE UNCHANGED <<attempt, resolver>>
  BY <1>1, <1>2 DEF Decided
<1>3. CASE HookAt(h, "finalizing") /\ Resolve(AboutOf(h), "SUCCEEDED", 1, "hook")
  <2>1. AboutOf(h) \in Attempts /\ Succeeds(AboutOf(h), "hook")
    BY <1>1, <1>3 DEF ResolvingInv, Resolving, HookAt, Succeeds
  <2> QED
    BY <2>1
<1>4. CASE /\ HookAt(h, "fail") /\ Unresolved(AboutOf(h))
           /\ Resolve(AboutOf(h), "FAILED", 0, "hook")
  <2>1. AboutOf(h) \in Attempts /\ Fails(AboutOf(h), "hook")
    BY <1>1, <1>4 DEF ResolvingInv, Resolving, HookAt, Fails, Unresolved
  <2> QED
    BY <2>1
<1> QED
  BY <1>2, <1>3, <1>4, HookResolves

\* Handlers and notifications change an attempt in three ways only.
LEMMA AttemptSteps ==
    ASSUME Inv, [Next]_vars
    PROVE  Decided \/ \E a \in Attempts :
                          Opens(a) \/ \E who \in {"handler", "hook"} :
                                          Succeeds(a, who) \/ Fails(a, who)
<1>1. CASE ProviderStep
  <2>1. PICK a \in Attempts : ProviderDecides(a) \/ ProviderMoves(a)
    BY <1>1 DEF ProviderStep
  <2>2. attempt[a].status # "NONE"
    BY <2>1 DEF Inv, AttemptInv, ProviderDecides, ProviderMoves
  <2>3. UNCHANGED <<attempt, resolver>> /\ captured' \in {captured, captured \cup {a}}
    BY <2>1 DEF ProviderDecides, ProviderMoves, AttemptRows
  <2>4. \A b \in Attempts : provider[b] \in {"rejected", "cancelled", "refunded"}
           => provider'[b] = provider[b]
    BY <2>1 DEF ProviderDecides, ProviderMoves, Inv, TypeOK
  <2> QED
    BY <2>2, <2>3, <2>4 DEF Decided
<1>2. CASE \E e \in Events : Deliver(e)
  BY <1>2 DEF Deliver, Receive, HookOnly, AttemptRows, ProviderSide, Decided
<1>3. CASE \E o \in Orders : CancelOrder(o)
  BY <1>3 DEF CancelOrder, AttemptRows, ProviderSide, Decided
<1>4. CASE UNCHANGED vars
  BY <1>4 DEF vars, Decided
<1> QED
  BY <1>1, <1>2, <1>3, <1>4, OwnSteps, WorkerSteps DEF Next

\* Whatever is resolved stays as it is.
LEMMA ResolvedStays ==
    ASSUME Inv, [Next]_vars, NEW a \in Attempts, attempt[a].status \in {"SUCCEEDED", "FAILED"}
    PROVE  attempt'[a] = attempt[a] /\ resolver'[a] = resolver[a]
<1>t. TypeOK
  BY DEF Inv
<1>1. CASE Decided
  BY <1>1 DEF Decided
<1>2. ASSUME NEW b \in Attempts, Opens(b)
      PROVE  attempt'[a] = attempt[a] /\ resolver'[a] = resolver[a]
  BY <1>t, <1>2 DEF Opens, TypeOK
<1>3. ASSUME NEW b \in Attempts, NEW who, Succeeds(b, who) \/ Fails(b, who)
      PROVE  attempt'[a] = attempt[a] /\ resolver'[a] = resolver[a]
  BY <1>t, <1>3 DEF Succeeds, Fails, Resolve, TypeOK
<1> QED
  BY <1>1, <1>2, <1>3, AttemptSteps

LEMMA FailsNothingPaidStep ==
    Inv /\ HookFailsNothingPaid /\ [Next]_vars => HookFailsNothingPaid'
<1> SUFFICES ASSUME Inv, HookFailsNothingPaid, [Next]_vars, NEW a \in Attempts,
                    resolver'[a] = "hook", attempt'[a].status = "FAILED"
             PROVE  provider'[a] \in {"rejected", "cancelled", "refunded"}
  BY DEF HookFailsNothingPaid
<1>t. TypeOK
  BY DEF Inv
<1>1. CASE Decided
  BY <1>1 DEF Decided, HookFailsNothingPaid
<1>2. ASSUME NEW b \in Attempts, Opens(b)
      PROVE  provider'[a] \in {"rejected", "cancelled", "refunded"}
  <2>1. a # b
    BY <1>t, <1>2 DEF Opens, TypeOK
  <2> QED
    BY <1>t, <1>2, <2>1 DEF Opens, TypeOK, HookFailsNothingPaid
<1>3. ASSUME NEW b \in Attempts, NEW who \in {"handler", "hook"}, Succeeds(b, who)
      PROVE  provider'[a] \in {"rejected", "cancelled", "refunded"}
  <2>1. a # b
    BY <1>t, <1>3 DEF Succeeds, Resolve, TypeOK, AttemptRecords
  <2> QED
    BY <1>t, <1>3, <2>1 DEF Succeeds, Resolve, TypeOK, HookFailsNothingPaid
<1>4. ASSUME NEW b \in Attempts, NEW who \in {"handler", "hook"}, Fails(b, who)
      PROVE  provider'[a] \in {"rejected", "cancelled", "refunded"}
  <2>1. CASE a = b
    <3>1. resolver'[a] = who
      BY <1>t, <1>4, <2>1 DEF Fails, Resolve, TypeOK
    <3> QED
      BY <1>4, <2>1, <3>1 DEF Fails
  <2>2. CASE a # b
    BY <1>t, <1>4, <2>2 DEF Fails, Resolve, TypeOK, HookFailsNothingPaid
  <2> QED
    BY <2>1, <2>2
<1> QED
  BY <1>1, <1>2, <1>3, <1>4, AttemptSteps

\* A notification never fails an attempt whose money stays with the restaurant.
THEOREM NothingPaidIsFailed == Spec => []HookFailsNothingPaid
<1>1. Init => HookFailsNothingPaid
  BY DEF Init, HookFailsNothingPaid
<1> QED
  BY <1>1, FailsNothingPaidStep, Invariance, PTL DEF Spec

-----------------------------------------------------------------------------
(* Production                                                              *)

\* Only the commit of a handler routes an order.
LEMMA RoutedByHandler ==
    ASSUME Inv, [Next]_vars, NEW o \in Orders, order'[o] = "ROUTED", order[o] # "ROUTED"
    PROVE  \E a \in captured : /\ a \in Attempts /\ attempt[a].order = o
                               /\ attempt[a].status = "PENDING"
                               /\ Resolve(a, "SUCCEEDED", 1, "handler")
                               /\ UNCHANGED captured
<1>t. TypeOK
  BY DEF Inv
<1>1. ASSUME NEW a \in Attempts, HandlerStep(a) \/ CrashHandler(a)
      PROVE  /\ a \in captured /\ attempt[a].order = o
             /\ attempt[a].status = "PENDING"
             /\ Resolve(a, "SUCCEEDED", 1, "handler")
             /\ UNCHANGED captured
  <2>1. ~Reject(a)
    BY <1>t DEF Reject, TypeOK
  <2>2. ApproveOrderCommit(a)
    BY <1>1, <2>1 DEF HandlerStep, PayOrder, PayBill, OpenAttempt, ChargeAnswered,
       ChargeUnheard, CancelPendingPayment, ApproveRead, ApproveBillCommit, CrashHandler
  <2>3. /\ handler[a].step = "tx"
        /\ Resolve(a, "SUCCEEDED", 1, "handler")
        /\ order' = [order EXCEPT ![attempt[a].order] = "ROUTED"]
        /\ UNCHANGED captured
    BY <2>2 DEF ApproveOrderCommit, FinalizePayment, At, ProviderSide
  <2>4. attempt[a].order = o
    BY <1>t, <2>3 DEF TypeOK
  <2> QED
    BY <2>3, <2>4 DEF Inv, AttemptInv
<1>2. ~ProviderStep /\ ~(\E e \in Events : Deliver(e)) /\ ~UNCHANGED vars
  BY DEF ProviderStep, ProviderDecides, ProviderMoves, Deliver, Receive, HookOnly, vars
<1>3. ~ \E p \in Orders : CancelOrder(p)
  BY <1>t DEF CancelOrder, TypeOK
<1>4. ~ \E h \in Hooks : HookStep(h) \/ CrashHook(h)
  <2> SUFFICES ASSUME NEW h \in Hooks, HookStep(h) \/ CrashHook(h)
               PROVE  FALSE
    OBVIOUS
  <2>1. UNCHANGED order \/ \E p \in Orders : order' = [order EXCEPT ![p] = "PAYMENT_FAILED"]
    BY HookResolves
  <2> QED
    BY <1>t, <2>1 DEF TypeOK
<1> QED
  BY <1>1, <1>2, <1>3, <1>4 DEF Next

LEMMA ProductionStep == Inv /\ ProductionNeedsHandler /\ [Next]_vars => ProductionNeedsHandler'
<1> SUFFICES ASSUME Inv, ProductionNeedsHandler, [Next]_vars,
                    NEW o \in Orders, order'[o] = "ROUTED"
             PROVE  \E a \in captured' : attempt'[a].order = o /\ attempt'[a].payments = 1
                                         /\ resolver'[a] = "handler"
  BY DEF ProductionNeedsHandler
<1>t. TypeOK
  BY DEF Inv
<1>1. CASE order[o] = "ROUTED"
  <2>1. PICK a \in captured : attempt[a].order = o /\ attempt[a].payments = 1
                              /\ resolver[a] = "handler"
    BY <1>1 DEF ProductionNeedsHandler
  <2>2. a \in Attempts /\ attempt[a].status = "SUCCEEDED"
    BY <1>t, <2>1 DEF Inv, AttemptInv, TypeOK
  <2>3. captured \subseteq captured'
    BY AttemptSteps DEF Decided, Opens, Succeeds, Fails
  <2> QED
    BY <2>1, <2>2, <2>3, ResolvedStays
<1>2. CASE order[o] # "ROUTED"
  <2>1. PICK a \in captured : /\ a \in Attempts /\ attempt[a].order = o
                              /\ attempt[a].status = "PENDING"
                              /\ Resolve(a, "SUCCEEDED", 1, "handler")
                              /\ UNCHANGED captured
    BY <1>2, RoutedByHandler
  <2>2. attempt[a].payments = 0
    BY <2>1 DEF Inv, AttemptInv
  <2>3. /\ attempt'[a].payments = attempt[a].payments + 1 /\ attempt'[a].order = o
        /\ resolver'[a] = "handler"
    BY <1>t, <2>1, ResolvedRow
  <2> QED
    BY <2>1, <2>2, <2>3
<1> QED
  BY <1>1, <1>2

\* Only a handler sends an order to production, with its own recorded payment.
THEOREM ProductionIsPaidByHandler == Spec => []ProductionNeedsHandler
<1>1. Init => ProductionNeedsHandler
  BY DEF Init, ProductionNeedsHandler
<1> QED
  BY <1>1, ProductionStep, Invariance, PTL DEF Spec

-----------------------------------------------------------------------------
(* The books                                                               *)

PricesOf == [a \in Attempts |-> attempt[a].payments * Price]
TipsOf == [a \in Attempts |-> attempt[a].payments * attempt[a].tip]
AmountsOf == [a \in Attempts |-> attempt[a].payments * attempt[a].amount]

\* The sums of the ledger are over finitely many attempts: only so do they mean
\* anything, and Attempts itself may be infinite.
Books == IsFiniteSet(Recorded) /\ HookLedgerIdentity

\* The order of a is charged and paid, by its handler.
OrderPaid(a) ==
    LET seen    == handler[a].seen
        charged == ApplyOrderCharge(bill, seen, Price)
    IN  /\ attempt[a].order \in Orders
        /\ FinalizePayment(a, "handler")
        /\ PaymentFits(charged, attempt[a].amount, attempt[a].tip)
        /\ bill' = ApplyPayment(charged, charged, attempt[a].amount, attempt[a].tip)
        /\ NoteRewrite(seen)

\* The amount of a is applied to the bill: with its tip by its handler, as if it had
\* none by a notification.
BillPaid(a, seen, tip, who) ==
    /\ \/ who = "handler" /\ attempt[a].order \notin Orders /\ tip = attempt[a].tip
       \/ who = "hook" /\ tip = 0
    /\ FinalizePayment(a, who)
    /\ PaymentFits(seen, attempt[a].amount, tip)
    /\ bill' = ApplyPayment(bill, seen, attempt[a].amount, tip)
    /\ NoteRewrite(seen)

LedgerRests ==
    /\ UNCHANGED <<bill, overwritten>>
    /\ \A a \in Attempts : attempt'[a].payments = attempt[a].payments

LedgerMoves ==
    \E a \in Attempts :
       /\ attempt[a].status = "PENDING"
       /\ \/ OrderPaid(a)
          \/ \E seen \in Bills, tip \in Nat, who \in {"handler", "hook"} :
                BillPaid(a, seen, tip, who)

LEMMA FailRests ==
    ASSUME TypeOK, NEW a \in Attempts, NEW who, FailPayment(a, who),
           UNCHANGED <<bill, overwritten>>
    PROVE  LedgerRests
<1>1. /\ attempt'[a].payments = attempt[a].payments + 0
      /\ \A b \in Attempts \ {a} : attempt'[b] = attempt[b]
  BY DEF FailPayment, Resolve, TypeOK, AttemptRecords
<1>2. attempt[a].payments \in Nat
  <2>1. attempt[a] \in AttemptRecords
    BY DEF TypeOK
  <2> QED
    BY <2>1 DEF AttemptRecords
<1> QED
  BY <1>1, <1>2 DEF LedgerRests

LEMMA OpenRests ==
    ASSUME Inv, NEW a \in Attempts, NEW o, NEW amount, NEW tip, OpenAttempt(a, o, amount, tip)
    PROVE  LedgerRests
<1>1. attempt[a].payments = 0
  BY DEF Inv, AttemptInv, OpenAttempt
<1>2. /\ attempt'[a] = [status |-> "PENDING", order |-> o, amount |-> amount + tip,
                        tip |-> tip, payments |-> 0]
      /\ \A b \in Attempts \ {a} : attempt'[b] = attempt[b]
  BY DEF OpenAttempt, Inv, TypeOK
<1> QED
  BY <1>1, <1>2 DEF LedgerRests, OpenAttempt, BillRows

\* Only a commit, of a handler or of a notification, writes the bill or records a payment.
LEMMA LedgerSteps ==
    ASSUME Inv, [Next]_vars
    PROVE  LedgerRests \/ LedgerMoves
<1>t. TypeOK
  BY DEF Inv
<1> USE DEF AttemptRows, BillRows
<1>0. ASSUME attempt' = attempt, UNCHANGED <<bill, overwritten>>
      PROVE  LedgerRests
  BY <1>0 DEF LedgerRests
<1>1. ASSUME NEW a \in Attempts, HandlerStep(a) \/ CrashHandler(a)
      PROVE  LedgerRests \/ LedgerMoves
  <2>1. CASE \E tip \in Tips : \/ \E o \in Orders : PayOrder(a, o, tip)
                               \/ \E amount \in Amounts : PayBill(a, amount, tip)
    <3>1. PICK o, amount, tip : OpenAttempt(a, o, amount, tip)
      BY <2>1 DEF PayOrder, PayBill
    <3> QED
      BY <3>1, OpenRests
  <2>2. CASE ChargeAnswered(a) \/ ChargeUnheard(a) \/ CancelPendingPayment(a)
             \/ ApproveRead(a) \/ CrashHandler(a)
    <3>1. attempt' = attempt /\ UNCHANGED <<bill, overwritten>>
      BY <2>2 DEF ChargeAnswered, ChargeUnheard, CancelPendingPayment, ApproveRead, CrashHandler
    <3> QED
      BY <1>0, <3>1
  <2>3. CASE Reject(a)
    <3>1. /\ UNCHANGED <<bill, overwritten>>
          /\ attempt' = attempt \/ FailPayment(a, "handler")
      BY <2>3 DEF Reject
    <3> QED
      BY <1>0, <1>t, <3>1, FailRests
  <2>4. CASE ApproveOrderCommit(a)
    <3>1. attempt[a].status = "PENDING"
      BY <2>4 DEF ApproveOrderCommit, At, Inv, AttemptInv
    <3>2. OrderPaid(a) \/ (attempt' = attempt /\ UNCHANGED <<bill, overwritten>>)
      <4> DEFINE charged == ApplyOrderCharge(bill, handler[a].seen, Price)
                 fits    == PaymentFits(charged, attempt[a].amount, attempt[a].tip)
      <4>1. CASE fits
        BY <2>4, <4>1 DEF ApproveOrderCommit, OrderPaid
      <4>2. CASE ~fits
        BY <2>4, <4>2 DEF ApproveOrderCommit
      <4> QED
        BY <4>1, <4>2
    <3> QED
      BY <1>0, <3>1, <3>2 DEF LedgerMoves
  <2>5. CASE ApproveBillCommit(a)
    <3> DEFINE seen == handler[a].seen
               tip  == attempt[a].tip
    <3>1. attempt[a].status = "PENDING"
      BY <2>5 DEF ApproveBillCommit, At, Inv, AttemptInv
    <3>2. \/ BillPaid(a, seen, tip, "handler")
          \/ attempt' = attempt /\ UNCHANGED <<bill, overwritten>>
      <4>1. CASE PaymentFits(seen, attempt[a].amount, tip)
        <5>1. ApplyToBill(a, seen, tip, "handler") /\ attempt[a].order = NoOrder
          BY <2>5, <4>1 DEF ApproveBillCommit
        <5> QED
          BY <4>1, <5>1 DEF ApplyToBill, BillPaid
      <4>2. CASE ~PaymentFits(seen, attempt[a].amount, tip)
        BY <2>5, <4>2 DEF ApproveBillCommit
      <4> QED
        BY <4>1, <4>2
    <3>3. seen \in Bills /\ tip \in Nat
      <4>1. handler[a] \in HandlerRecords /\ attempt[a] \in AttemptRecords
        BY <1>t DEF TypeOK
      <4> QED
        BY <4>1 DEF HandlerRecords, AttemptRecords
    <3> HIDE DEF seen, tip
    <3> QED
      BY <1>0, <3>1, <3>2, <3>3 DEF LedgerMoves
  <2> QED
    BY <1>1, <2>1, <2>2, <2>3, <2>4, <2>5 DEF HandlerStep
<1>2. ASSUME NEW h \in Hooks, HookStep(h) \/ CrashHook(h)
      PROVE  LedgerRests \/ LedgerMoves
  <2>1. ResolvingInv(h)
    BY DEF Inv
  <2>2. CASE Store(h) \/ Correlate(h) \/ CannotCorrelate(h) \/ FinalizeRead(h)
             \/ MarkProcessed(h) \/ CrashHook(h)
    <3>1. attempt' = attempt /\ UNCHANGED <<bill, overwritten>>
      BY <2>2 DEF Store, Correlate, CannotCorrelate, FinalizeRead, MarkProcessed, CrashHook,
         HookOnly
    <3> QED
      BY <1>0, <3>1
  <2>3. CASE FinalizeCommit(h)
    <3> DEFINE a    == AboutOf(h)
               seen == hook[h].seen
    <3>1. a \in Attempts /\ attempt[a].status = "PENDING"
      BY <2>1, <2>3 DEF ResolvingInv, Resolving, HookAt, FinalizeCommit
    <3>2. \/ BillPaid(a, seen, 0, "hook")
          \/ attempt' = attempt /\ UNCHANGED <<bill, overwritten>>
      <4>1. CASE PaymentFits(seen, attempt[a].amount, 0)
        <5>1. ApplyToBill(a, seen, 0, "hook")
          BY <2>3, <4>1 DEF FinalizeCommit, NoRealChargeTipDelta
        <5> QED
          BY <4>1, <5>1 DEF ApplyToBill, BillPaid
      <4>2. CASE ~PaymentFits(seen, attempt[a].amount, 0)
        BY <2>3, <4>2 DEF FinalizeCommit, NoRealChargeTipDelta
      <4> QED
        BY <4>1, <4>2
    <3>3. seen \in Bills
      <4>1. hook[h] \in HookRecords
        BY <1>t DEF TypeOK
      <4> QED
        BY <4>1 DEF HookRecords
    <3> HIDE DEF a, seen
    <3> QED
      BY <1>0, <3>1, <3>2, <3>3 DEF LedgerMoves
  <2>4. CASE FailFromWebhook(h)
    <3>1. AboutOf(h) \in Attempts
      BY <2>1, <2>4 DEF ResolvingInv, Resolving, HookAt, FailFromWebhook
    <3>2. /\ UNCHANGED <<bill, overwritten>>
          /\ attempt' = attempt \/ FailPayment(AboutOf(h), "hook")
      BY <2>4 DEF FailFromWebhook
    <3> QED
      BY <1>0, <1>t, <3>1, <3>2, FailRests
  <2> QED
    BY <1>2, <2>2, <2>3, <2>4 DEF HookStep
<1>3. CASE ProviderStep \/ (\E e \in Events : Deliver(e)) \/ (\E o \in Orders : CancelOrder(o))
           \/ UNCHANGED vars
  <2>1. attempt' = attempt /\ UNCHANGED <<bill, overwritten>>
    <3>1. CASE ProviderStep
      BY <3>1 DEF ProviderStep, ProviderDecides, ProviderMoves
    <3>2. CASE \E e \in Events : Deliver(e)
      BY <3>2 DEF Deliver, Receive, HookOnly
    <3>3. CASE (\E o \in Orders : CancelOrder(o)) \/ UNCHANGED vars
      BY <3>3 DEF CancelOrder, vars
    <3> QED
      BY <1>3, <3>1, <3>2, <3>3
  <2> QED
    BY <1>0, <2>1
<1> QED
  BY <1>1, <1>2, <1>3 DEF Next

\* What a recorded attempt adds to the sums is a number, and stays what it is.
LEMMA RecordedStay ==
    ASSUME Inv, [Next]_vars
    PROVE  \A a \in Recorded : /\ a \in Attempts
                               /\ attempt'[a] = attempt[a] /\ resolver'[a] = resolver[a]
                               /\ PricesOf'[a] = PricesOf[a]
                               /\ TipsOf'[a] = TipsOf[a]
                               /\ AmountsOf'[a] = AmountsOf[a]
<1> SUFFICES ASSUME NEW a \in Recorded
             PROVE  /\ a \in Attempts
                    /\ attempt'[a] = attempt[a] /\ resolver'[a] = resolver[a]
                    /\ PricesOf'[a] = PricesOf[a]
                    /\ TipsOf'[a] = TipsOf[a]
                    /\ AmountsOf'[a] = AmountsOf[a]
  OBVIOUS
<1>1. a \in Attempts /\ attempt[a].status = "SUCCEEDED"
  BY DEF Recorded, Inv, AttemptInv
<1>2. attempt'[a] = attempt[a] /\ resolver'[a] = resolver[a]
  BY <1>1, ResolvedStays
<1> QED
  BY <1>1, <1>2 DEF PricesOf, TipsOf, AmountsOf

LEMMA SumsOfIntegers ==
    ASSUME TypeOK, NEW a \in Attempts
    PROVE  /\ attempt[a].payments \in Nat /\ attempt[a].amount \in Nat /\ attempt[a].tip \in Nat
           /\ PricesOf[a] \in Int /\ TipsOf[a] \in Int /\ AmountsOf[a] \in Int
<1>1. attempt[a] \in AttemptRecords
  BY DEF TypeOK
<1>2. attempt[a].payments \in Nat /\ attempt[a].amount \in Nat /\ attempt[a].tip \in Nat
  BY <1>1 DEF AttemptRecords
<1>3. \A m, n \in Nat : m * n \in Int
  OBVIOUS
<1>4. /\ attempt[a].payments * Price \in Int
      /\ attempt[a].payments * attempt[a].tip \in Int
      /\ attempt[a].payments * attempt[a].amount \in Int
  <2>1. Price \in Nat
    OBVIOUS
  <2> QED
    BY <1>2, <1>3, <2>1, Zenon
<1> QED
  BY <1>2, <1>4 DEF PricesOf, TipsOf, AmountsOf

LEMMA RecordedFinite ==
    ASSUME IsFiniteSet(Recorded)
    PROVE  /\ IsFiniteSet(ByHandler) /\ ByHandler \subseteq Recorded
           /\ IsFiniteSet(OfOrders) /\ OfOrders \subseteq Recorded
<1>1. ByHandler \subseteq Recorded /\ OfOrders \subseteq Recorded
  BY DEF ByHandler, OfOrders
<1> QED
  BY <1>1, FS_Subset

\* A step that records no payment leaves the sums as they are.
LEMMA RestsKeepsSums ==
    ASSUME Inv, [Next]_vars, IsFiniteSet(Recorded), LedgerRests
    PROVE  /\ IsFiniteSet(Recorded)'
           /\ RecordedPrices' = RecordedPrices
           /\ RecordedTips' = RecordedTips
           /\ RecordedAmounts' = RecordedAmounts
<1> DEFINE R == {a \in Attempts : attempt'[a].payments > 0}
           H == {a \in R : resolver'[a] = "handler"}
           O == {a \in H : attempt'[a].order \in Orders}
           p == [a \in Attempts |-> attempt'[a].payments * Price]
           t == [a \in Attempts |-> attempt'[a].payments * attempt'[a].tip]
           m == [a \in Attempts |-> attempt'[a].payments * attempt'[a].amount]
<1>1. R = Recorded
  BY DEF LedgerRests, Recorded
<1>2. H = ByHandler /\ O = OfOrders
  <2>1. H = ByHandler
    BY <1>1, RecordedStay DEF ByHandler
  <2>2. \A a \in H : a \in Recorded
    BY <1>1
  <2> HIDE DEF H
  <2> QED
    BY <2>1, <2>2, RecordedStay DEF OfOrders
<1>3. /\ \A a \in OfOrders : PricesOf[a] \in Int /\ p[a] = PricesOf[a]
      /\ \A a \in ByHandler : TipsOf[a] \in Int /\ t[a] = TipsOf[a]
      /\ \A a \in Recorded : AmountsOf[a] \in Int /\ m[a] = AmountsOf[a]
  <2>1. p = PricesOf' /\ t = TipsOf' /\ m = AmountsOf'
    BY DEF PricesOf, TipsOf, AmountsOf
  <2> HIDE DEF p, t, m
  <2>2. TypeOK
    BY DEF Inv
  <2> QED
    BY <2>1, <2>2, RecordedStay, RecordedFinite, SumsOfIntegers
<1>4. /\ RecordedPrices' = SumFunctionOnSet(p, O)
      /\ RecordedTips' = SumFunctionOnSet(t, H)
      /\ RecordedAmounts' = SumFunctionOnSet(m, R)
      /\ Recorded' = R
  BY DEF RecordedPrices, RecordedTips, RecordedAmounts, Recorded, ByHandler, OfOrders
<1>5. /\ RecordedPrices = SumFunctionOnSet(PricesOf, OfOrders)
      /\ RecordedTips = SumFunctionOnSet(TipsOf, ByHandler)
      /\ RecordedAmounts = SumFunctionOnSet(AmountsOf, Recorded)
  BY DEF RecordedPrices, RecordedTips, RecordedAmounts, PricesOf, TipsOf, AmountsOf
<1> HIDE DEF R, H, O, p, t, m
<1>6. SumFunctionOnSet(p, O) = SumFunctionOnSet(PricesOf, OfOrders)
  BY <1>2, <1>3, RecordedFinite, SumCarried
<1>7. SumFunctionOnSet(t, H) = SumFunctionOnSet(TipsOf, ByHandler)
  BY <1>2, <1>3, RecordedFinite, SumCarried
<1>8. SumFunctionOnSet(m, R) = SumFunctionOnSet(AmountsOf, Recorded) /\ IsFiniteSet(R)
  BY <1>1, <1>3, SumCarried
<1> QED
  BY <1>4, <1>5, <1>6, <1>7, <1>8

\* A payment that is recorded adds the amount of its attempt, the tip when it is a
\* handler's, and the price of the order it is for.
LEMMA PaymentAddsToSums ==
    ASSUME Inv, [Next]_vars, IsFiniteSet(Recorded), NEW a \in Attempts,
           attempt[a].status = "PENDING", NEW who \in {"handler", "hook"},
           FinalizePayment(a, who)
    PROVE  /\ IsFiniteSet(Recorded)'
           /\ RecordedAmounts' = RecordedAmounts + attempt[a].amount
           /\ RecordedTips' = RecordedTips + (IF who = "handler" THEN attempt[a].tip ELSE 0)
           /\ RecordedPrices' =
                 RecordedPrices +
                    (IF who = "handler" /\ attempt[a].order \in Orders THEN Price ELSE 0)
<1> DEFINE R == {b \in Attempts : attempt'[b].payments > 0}
           H == {b \in R : resolver'[b] = "handler"}
           O == {b \in H : attempt'[b].order \in Orders}
           p == [b \in Attempts |-> attempt'[b].payments * Price]
           t == [b \in Attempts |-> attempt'[b].payments * attempt'[b].tip]
           m == [b \in Attempts |-> attempt'[b].payments * attempt'[b].amount]
<1>0. TypeOK
  BY DEF Inv
<1>1. /\ attempt[a].payments = 0
      /\ attempt'[a].payments = 1
      /\ attempt'[a].order = attempt[a].order
      /\ attempt'[a].amount = attempt[a].amount
      /\ attempt'[a].tip = attempt[a].tip
      /\ resolver'[a] = who
      /\ \A b \in Attempts \ {a} : attempt'[b] = attempt[b] /\ resolver'[b] = resolver[b]
  <2>1. attempt[a].payments = 0 /\ attempt[a] \in AttemptRecords
    BY <1>0 DEF Inv, AttemptInv, TypeOK
  <2>2. attempt' = [attempt EXCEPT ![a].status = "SUCCEEDED",
                                   ![a].payments = attempt[a].payments + 1]
    BY <1>0 DEF FinalizePayment, Resolve, TypeOK
  <2>3. attempt'[a] = [attempt[a] EXCEPT !.status = "SUCCEEDED",
                                         !.payments = attempt[a].payments + 1]
    BY <1>0, <2>2 DEF TypeOK
  <2>4. resolver' = [resolver EXCEPT ![a] = who]
    BY DEF FinalizePayment, Resolve
  <2>5. \A b \in Attempts \ {a} : attempt'[b] = attempt[b] /\ resolver'[b] = resolver[b]
    BY <1>0, <2>2, <2>4 DEF TypeOK
  <2>6. resolver'[a] = who
    BY <1>0, <2>4 DEF TypeOK
  <2>7. /\ attempt'[a].payments = 0 + 1
        /\ attempt'[a].order = attempt[a].order
        /\ attempt'[a].amount = attempt[a].amount
        /\ attempt'[a].tip = attempt[a].tip
    BY <2>1, <2>3 DEF AttemptRecords
  <2> QED
    BY <2>1, <2>5, <2>6, <2>7
<1>2. a \notin Recorded /\ R = Recorded \cup {a}
  BY <1>1 DEF Recorded
<1>3. /\ H = IF who = "handler" THEN ByHandler \cup {a} ELSE ByHandler
      /\ O = IF who = "handler" /\ attempt[a].order \in Orders
             THEN OfOrders \cup {a} ELSE OfOrders
  <2>1. \A b \in Attempts \ {a} : /\ b \in R <=> b \in Recorded
                                  /\ b \in H <=> b \in ByHandler
                                  /\ b \in O <=> b \in OfOrders
    BY <1>1 DEF Recorded, ByHandler, OfOrders
  <2>2. /\ a \in H <=> who = "handler"
        /\ a \in O <=> who = "handler" /\ attempt[a].order \in Orders
    BY <1>1
  <2>3. /\ a \notin ByHandler /\ a \notin OfOrders
        /\ H \subseteq Attempts /\ O \subseteq Attempts
        /\ ByHandler \subseteq Attempts /\ OfOrders \subseteq Attempts
    BY <1>2 DEF ByHandler, OfOrders, Recorded
  <2> HIDE DEF R, H, O
  <2>4. H = IF who = "handler" THEN ByHandler \cup {a} ELSE ByHandler
    BY <2>1, <2>2, <2>3
  <2>5. O = IF who = "handler" /\ attempt[a].order \in Orders
             THEN OfOrders \cup {a} ELSE OfOrders
    BY <2>1, <2>2, <2>3
  <2> QED
    BY <2>4, <2>5
<1>4. /\ \A b \in OfOrders : PricesOf[b] \in Int /\ p[b] = PricesOf[b]
      /\ \A b \in ByHandler : TipsOf[b] \in Int /\ t[b] = TipsOf[b]
      /\ \A b \in Recorded : AmountsOf[b] \in Int /\ m[b] = AmountsOf[b]
  <2>1. p = PricesOf' /\ t = TipsOf' /\ m = AmountsOf'
    BY DEF PricesOf, TipsOf, AmountsOf
  <2> HIDE DEF p, t, m
  <2> QED
    BY <1>0, <2>1, RecordedStay, RecordedFinite, SumsOfIntegers
<1>5. /\ p[a] = Price /\ t[a] = attempt[a].tip /\ m[a] = attempt[a].amount
      /\ p[a] \in Int /\ t[a] \in Int /\ m[a] \in Int
  <2>1. attempt[a].tip \in Nat /\ attempt[a].amount \in Nat /\ Price \in Nat
    BY <1>0, SumsOfIntegers
  <2>2. p[a] = 1 * Price /\ t[a] = 1 * attempt[a].tip /\ m[a] = 1 * attempt[a].amount
    BY <1>1
  <2> HIDE DEF p, t, m
  <2> QED
    BY <2>1, <2>2
<1>6. /\ RecordedPrices' = SumFunctionOnSet(p, O)
      /\ RecordedTips' = SumFunctionOnSet(t, H)
      /\ RecordedAmounts' = SumFunctionOnSet(m, R)
      /\ Recorded' = R
  BY DEF RecordedPrices, RecordedTips, RecordedAmounts, Recorded, ByHandler, OfOrders
<1>7. /\ RecordedPrices = SumFunctionOnSet(PricesOf, OfOrders)
      /\ RecordedTips = SumFunctionOnSet(TipsOf, ByHandler)
      /\ RecordedAmounts = SumFunctionOnSet(AmountsOf, Recorded)
  BY DEF RecordedPrices, RecordedTips, RecordedAmounts, PricesOf, TipsOf, AmountsOf
<1>8. /\ a \notin ByHandler /\ a \notin OfOrders
      /\ SumFunctionOnSet(PricesOf, OfOrders) \in Int
      /\ SumFunctionOnSet(TipsOf, ByHandler) \in Int
  BY <1>2, <1>4, RecordedFinite, SumType
<1> HIDE DEF R, H, O, p, t, m
<1>9. SumFunctionOnSet(m, R) = SumFunctionOnSet(AmountsOf, Recorded) + attempt[a].amount
         /\ IsFiniteSet(R)
  BY <1>2, <1>4, <1>5, SumGrown
<1>10. SumFunctionOnSet(t, H) = SumFunctionOnSet(TipsOf, ByHandler)
                                   + (IF who = "handler" THEN attempt[a].tip ELSE 0)
  <2>1. CASE who = "handler"
    <3>1. H = ByHandler \cup {a}
      BY <1>3, <2>1
    <3>2. SumFunctionOnSet(t, H) = SumFunctionOnSet(TipsOf, ByHandler) + t[a]
      <4>1. IsFiniteSet(ByHandler)
        BY RecordedFinite
      <4>2. \A b \in ByHandler : TipsOf[b] \in Int /\ t[b] = TipsOf[b]
        BY <1>4
      <4>3. t[a] \in Int /\ a \notin ByHandler
        BY <1>5, <1>8
      <4> QED
        BY <3>1, <4>1, <4>2, <4>3, SumGrown
    <3> QED
      BY <1>5, <2>1, <3>2
  <2>2. CASE who # "handler"
    <3>1. H = ByHandler
      BY <1>3, <2>2
    <3>2. SumFunctionOnSet(t, H) = SumFunctionOnSet(TipsOf, ByHandler)
      BY <1>4, <3>1, RecordedFinite, SumCarried
    <3> QED
      BY <1>8, <2>2, <3>2
  <2> QED
    BY <2>1, <2>2
<1>11. SumFunctionOnSet(p, O) =
          SumFunctionOnSet(PricesOf, OfOrders)
             + (IF who = "handler" /\ attempt[a].order \in Orders THEN Price ELSE 0)
  <2>1. CASE who = "handler" /\ attempt[a].order \in Orders
    <3>1. O = OfOrders \cup {a}
      BY <1>3, <2>1
    <3>2. SumFunctionOnSet(p, O) = SumFunctionOnSet(PricesOf, OfOrders) + p[a]
      <4>1. IsFiniteSet(OfOrders)
        BY RecordedFinite
      <4>2. \A b \in OfOrders : PricesOf[b] \in Int /\ p[b] = PricesOf[b]
        BY <1>4
      <4>3. p[a] \in Int /\ a \notin OfOrders
        BY <1>5, <1>8
      <4> QED
        BY <3>1, <4>1, <4>2, <4>3, SumGrown
    <3> QED
      BY <1>5, <2>1, <3>2
  <2>2. CASE ~(who = "handler" /\ attempt[a].order \in Orders)
    <3>1. O = OfOrders
      BY <1>3, <2>2
    <3>2. SumFunctionOnSet(p, O) = SumFunctionOnSet(PricesOf, OfOrders)
      BY <1>4, <3>1, RecordedFinite, SumCarried
    <3> QED
      BY <1>8, <2>2, <3>2
  <2> QED
    BY <2>1, <2>2
<1> QED
  BY <1>6, <1>7, <1>9, <1>10, <1>11

\* A commit that computed from the amounts the bill still had keeps the books.
LEMMA MovesKeepBooks ==
    ASSUME Inv, [Next]_vars, Books, LedgerMoves
    PROVE  Books'
<1>1. PICK a \in Attempts :
          /\ attempt[a].status = "PENDING"
          /\ \/ OrderPaid(a)
             \/ \E seen \in Bills, tip \in Nat, who \in {"handler", "hook"} :
                   BillPaid(a, seen, tip, who)
  BY DEF LedgerMoves
<1> DEFINE amount == attempt[a].amount
<1>2. /\ bill \in Bills /\ handler[a].seen \in Bills
      /\ amount \in Int /\ attempt[a].tip \in Int
      /\ Price \in Int
  <2>1. attempt[a] \in AttemptRecords /\ handler[a] \in HandlerRecords /\ bill \in Bills
    BY DEF Inv, TypeOK
  <2> QED
    BY <2>1 DEF AttemptRecords, HandlerRecords
<1>3. IsFiniteSet(Recorded)
  BY DEF Books
<1>4. ASSUME ~overwritten
      PROVE  /\ bill.total = bill.subtotal + bill.tip
             /\ bill.subtotal = Charged + RecordedPrices
             /\ bill.tip = RecordedTips
             /\ Paid(bill) = RecordedAmounts
  BY <1>4 DEF Books, HookLedgerIdentity
<1>5. RecordedPrices \in Int /\ RecordedTips \in Int /\ RecordedAmounts \in Int
  <2>1. /\ \A b \in OfOrders : PricesOf[b] \in Int
        /\ \A b \in ByHandler : TipsOf[b] \in Int
        /\ \A b \in Recorded : AmountsOf[b] \in Int
    BY RecordedFinite, RecordedStay, SumsOfIntegers, <1>3 DEF Inv
  <2>2. /\ SumFunctionOnSet(PricesOf, OfOrders) \in Int
        /\ SumFunctionOnSet(TipsOf, ByHandler) \in Int
        /\ SumFunctionOnSet(AmountsOf, Recorded) \in Int
    BY <1>3, <2>1, RecordedFinite, SumType
  <2> QED
    BY <2>2 DEF RecordedPrices, RecordedTips, RecordedAmounts, PricesOf, TipsOf, AmountsOf
<1>6. CASE OrderPaid(a)
  <2> DEFINE seen == handler[a].seen
             c    == ApplyOrderCharge(bill, seen, Price)
             tip  == attempt[a].tip
             b    == ApplyPayment(c, c, amount, tip)
  <2>1. /\ bill' = b /\ PaymentFits(c, amount, tip)
        /\ overwritten' = (overwritten \/ AmountsDiffer(seen, bill))
        /\ FinalizePayment(a, "handler") /\ attempt[a].order \in Orders
    BY <1>6 DEF OrderPaid, NoteRewrite
  <2>2. /\ IsFiniteSet(Recorded)'
        /\ RecordedAmounts' = RecordedAmounts + amount
        /\ RecordedTips' = RecordedTips + tip
        /\ RecordedPrices' = RecordedPrices + Price
    BY <1>1, <1>3, <2>1, PaymentAddsToSums
  <2>3. ASSUME ~overwritten, ~AmountsDiffer(seen, bill)
        PROVE  /\ b.total = b.subtotal + b.tip
               /\ b.subtotal = Charged + RecordedPrices'
               /\ b.tip = RecordedTips'
               /\ Paid(b) = RecordedAmounts'
               /\ b.remaining >= 0
    <3>1. seen.subtotal = bill.subtotal /\ bill.subtotal \in Int /\ bill.tip \in Int
          /\ seen.subtotal + Price \in Int
      BY <1>2, <2>3, AmountsAgree DEF Bills
    <3>2. c \in Bills
      BY <1>2, BillRewriteType
    <3>3. /\ c.subtotal = seen.subtotal + Price
          /\ c.tip = bill.tip
          /\ c.total = c.subtotal + c.tip
          /\ Paid(c) = Paid(bill)
      <4> DEFINE n == seen.subtotal + Price
      <4>1. c = WithSubtotal(bill, seen, n) /\ n \in Int
        BY <3>1 DEF ApplyOrderCharge
      <4>2. /\ bill \in Bills /\ seen \in Bills /\ ~AmountsDiffer(seen, bill)
            /\ bill.total = bill.subtotal + bill.tip
        BY <1>2, <1>4, <2>3
      <4> HIDE DEF seen, c, n
      <4>3. /\ c.subtotal = n
            /\ c.tip = bill.tip
            /\ c.total = c.subtotal + c.tip
            /\ Paid(c) = Paid(bill)
        BY <4>1, <4>2, SubtotalRewritten
      <4> QED
        BY <4>3 DEF n
    <3> HIDE DEF c, seen, amount, tip
    <3>4. ~AmountsDiffer(c, c)
      BY <3>2 DEF AmountsDiffer, Bills
    <3>5. /\ b.subtotal = c.subtotal
          /\ b.tip = c.tip + tip
          /\ b.total = b.subtotal + b.tip
          /\ Paid(b) = Paid(c) + amount
          /\ b.remaining >= 0
      BY <1>2, <2>1, <3>2, <3>3, <3>4, PaymentApplied DEF tip
    <3> HIDE DEF b
    <3> QED
      BY <1>2, <1>4, <1>5, <2>2, <2>3, <3>1, <3>3, <3>5
  <2> HIDE DEF b, c, seen, tip, amount
  <2>4. HookLedgerIdentity'
    BY <2>1, <2>3 DEF HookLedgerIdentity
  <2> QED
    BY <2>2, <2>4 DEF Books
<1>7. CASE \E seen \in Bills, tip \in Nat, who \in {"handler", "hook"} : BillPaid(a, seen, tip, who)
  <2>1. PICK seen \in Bills, tip \in Nat, who \in {"handler", "hook"} : BillPaid(a, seen, tip, who)
    BY <1>7
  <2> DEFINE b == ApplyPayment(bill, seen, amount, tip)
  <2>2. /\ bill' = b /\ PaymentFits(seen, amount, tip)
        /\ overwritten' = (overwritten \/ AmountsDiffer(seen, bill))
        /\ FinalizePayment(a, who)
        /\ ~(who = "handler" /\ attempt[a].order \in Orders)
        /\ tip = IF who = "handler" THEN attempt[a].tip ELSE 0
    BY <2>1 DEF BillPaid, NoteRewrite
  <2>3. /\ IsFiniteSet(Recorded)'
        /\ RecordedAmounts' = RecordedAmounts + amount
        /\ RecordedTips' = RecordedTips + tip
        /\ RecordedPrices' = RecordedPrices
    <3>1. /\ IsFiniteSet(Recorded)'
          /\ RecordedAmounts' = RecordedAmounts + amount
          /\ RecordedTips' = RecordedTips + (IF who = "handler" THEN attempt[a].tip ELSE 0)
          /\ RecordedPrices' =
                RecordedPrices +
                   (IF who = "handler" /\ attempt[a].order \in Orders THEN Price ELSE 0)
      BY <1>1, <1>3, <2>2, PaymentAddsToSums
    <3> QED
      BY <1>5, <2>2, <3>1
  <2>4. ASSUME ~overwritten, ~AmountsDiffer(seen, bill)
        PROVE  /\ b.total = b.subtotal + b.tip
               /\ b.subtotal = Charged + RecordedPrices'
               /\ b.tip = RecordedTips'
               /\ Paid(b) = RecordedAmounts'
               /\ b.remaining >= 0
    <3> HIDE DEF amount
    <3>1. /\ b.subtotal = bill.subtotal
          /\ b.tip = bill.tip + tip
          /\ b.total = b.subtotal + b.tip
          /\ Paid(b) = Paid(bill) + amount
          /\ b.remaining >= 0
      BY <1>2, <1>4, <2>2, <2>4, PaymentApplied
    <3> HIDE DEF b
    <3> QED
      BY <1>4, <2>3, <2>4, <3>1
  <2> HIDE DEF b, amount
  <2>5. HookLedgerIdentity'
    BY <2>2, <2>4 DEF HookLedgerIdentity
  <2> QED
    BY <2>3, <2>5 DEF Books
<1> QED
  BY <1>1, <1>6, <1>7

LEMMA BooksInit == Init => Books
<1> SUFFICES ASSUME Init
             PROVE  Books
  OBVIOUS
<1>1. Recorded = {} /\ ByHandler = {} /\ OfOrders = {}
  BY DEF Init, Recorded, ByHandler, OfOrders
<1>2. IsFiniteSet(Recorded)
  <2>1. IsFiniteSet({})
    BY FS_EmptySet
  <2> QED
    BY <1>1, <2>1, Zenon
<1>3. \A f : /\ SumFunctionOnSet(f, OfOrders) = 0
             /\ SumFunctionOnSet(f, ByHandler) = 0
             /\ SumFunctionOnSet(f, Recorded) = 0
  BY <1>1, SumEmpty, Zenon
<1>4. RecordedPrices = 0 /\ RecordedTips = 0 /\ RecordedAmounts = 0
  BY <1>3, Zenon DEF RecordedPrices, RecordedTips, RecordedAmounts
<1>5. /\ bill.total = bill.subtotal + bill.tip
      /\ bill.subtotal = Charged
      /\ bill.tip = 0
      /\ Paid(bill) = 0
      /\ bill.remaining >= 0
  <2>1. EmptyBill \in Bills /\ EmptyBill.total = 0 /\ EmptyBill.subtotal = 0
        /\ EmptyBill.tip = 0 /\ EmptyBill.remaining = 0
    BY DEF EmptyBill, Bills, BillStatuses
  <2>2. ~AmountsDiffer(EmptyBill, EmptyBill) /\ Paid(EmptyBill) = 0
    BY <2>1 DEF AmountsDiffer, Bills, Paid
  <2>3. bill = WithSubtotal(EmptyBill, EmptyBill, Charged)
    <3>1. EmptyBill.subtotal + Charged = Charged
      BY <2>1
    <3> QED
      BY <3>1 DEF Init, ApplyOrderCharge
  <2> QED
    BY <2>1, <2>2, <2>3, SubtotalRewritten
<1> QED
  BY <1>2, <1>4, <1>5 DEF Books, HookLedgerIdentity

LEMMA BooksStep == Inv /\ Books /\ [Next]_vars => Books'
<1> SUFFICES ASSUME Inv, Books, [Next]_vars
             PROVE  Books'
  OBVIOUS
<1>1. CASE LedgerRests
  <2>1. bill' = bill /\ overwritten' = overwritten
    BY <1>1 DEF LedgerRests
  <2>2. /\ IsFiniteSet(Recorded)'
        /\ RecordedPrices' = RecordedPrices
        /\ RecordedTips' = RecordedTips
        /\ RecordedAmounts' = RecordedAmounts
    BY <1>1, RestsKeepsSums DEF Books
  <2>3. HookLedgerIdentity'
    BY <2>1, <2>2 DEF Books, HookLedgerIdentity, Paid
  <2> QED
    BY <2>2, <2>3 DEF Books
<1> QED
  BY <1>1, LedgerSteps, MovesKeepBooks

\* The books of a bill that handlers and notifications pay at the same time balance,
\* unless a transaction overwrote an amount another had just written.
THEOREM HookAddsUp == Spec => []HookLedgerIdentity
<1>1. Inv /\ Books /\ [Next]_vars => Books'
  BY BooksStep
<1>2. Books => HookLedgerIdentity
  BY DEF Books
<1> QED
  BY <1>1, <1>2, BooksInit, Invariance, PTL DEF Spec

-----------------------------------------------------------------------------
(* The refinement                                                          *)

StatusOf == [a \in Attempts |-> attempt[a].status]
PaymentsOf == [a \in Attempts |-> attempt[a].payments]

LEMMA PromiseStep == Inv /\ [Next]_vars => [Promise!Next]_(Promise!vars)
<1> SUFFICES ASSUME Inv, [Next]_vars
             PROVE  Promise!Next \/ UNCHANGED Promise!vars
  OBVIOUS
<1>t. TypeOK
  BY DEF Inv
<1> USE DEF StatusOf, PaymentsOf
<1>1. CASE Decided
  <2>1. UNCHANGED <<StatusOf, PaymentsOf>>
    BY <1>1 DEF Decided
  <2>2. CASE UNCHANGED captured
    BY <2>1, <2>2 DEF Promise!vars
  <2>3. CASE \E a \in Attempts : attempt[a].status # "NONE" /\ captured' = captured \cup {a}
    BY <2>1, <2>3 DEF Promise!Next, Promise!Capture
  <2> QED
    BY <1>1, <2>2, <2>3 DEF Decided
<1>2. ASSUME NEW a \in Attempts, Opens(a)
      PROVE  Promise!Open(a)
  <2>1. /\ attempt'[a].status = "PENDING" /\ attempt'[a].payments = attempt[a].payments
        /\ \A b \in Attempts \ {a} : attempt'[b] = attempt[b]
    BY <1>t, <1>2 DEF Opens, TypeOK, Inv, AttemptInv
  <2>2. StatusOf' = [StatusOf EXCEPT ![a] = "PENDING"] /\ PaymentsOf' = PaymentsOf
    BY <2>1
  <2> QED
    BY <1>2, <2>2 DEF Opens, Promise!Open
<1>3. ASSUME NEW a \in Attempts, NEW who \in {"handler", "hook"}, Succeeds(a, who)
      PROVE  Promise!Succeed(a)
  <2>1. /\ attempt'[a].status = "SUCCEEDED"
        /\ attempt'[a].payments = attempt[a].payments + 1
        /\ \A b \in Attempts \ {a} : attempt'[b] = attempt[b]
    BY <1>t, <1>3 DEF Succeeds, Resolve, TypeOK, AttemptRecords
  <2>2. StatusOf' = [StatusOf EXCEPT ![a] = "SUCCEEDED"]
    BY <2>1
  <2>3. PaymentsOf' = [PaymentsOf EXCEPT ![a] = @ + 1]
    BY <2>1
  <2> QED
    BY <1>3, <2>2, <2>3 DEF Succeeds, Promise!Succeed
<1>4. ASSUME NEW a \in Attempts, NEW who \in {"handler", "hook"}, Fails(a, who)
      PROVE  Promise!Fail(a)
  <2>1. /\ attempt'[a].status = "FAILED"
        /\ attempt'[a].payments = attempt[a].payments
        /\ \A b \in Attempts \ {a} : attempt'[b] = attempt[b]
    <3>1. attempt[a].payments + 0 = attempt[a].payments
      BY <1>t DEF TypeOK, AttemptRecords
    <3> QED
      BY <1>t, <1>4, <3>1 DEF Fails, Resolve, TypeOK, AttemptRecords
  <2>2. StatusOf' = [StatusOf EXCEPT ![a] = "FAILED"] /\ PaymentsOf' = PaymentsOf
    BY <2>1
  <2> QED
    BY <1>4, <2>2 DEF Fails, Promise!Fail
<1> QED
  BY <1>1, <1>2, <1>3, <1>4, AttemptSteps DEF Promise!Next

\* A handler and any number of notifications, on any interleaving and with any of them
\* dying, keep the payments module's promise about every attempt.
THEOREM NotificationsKeepPromise == Spec => AttemptPromise
<1>1. Init => Promise!Init
  BY DEF Init, Promise!Init
<1> QED
  BY <1>1, PromiseStep, Invariance, PTL DEF Spec, AttemptPromise, Promise!Spec
=============================================================================
