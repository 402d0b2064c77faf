--------------------------- MODULE BillSplitProofs ---------------------------
(***************************************************************************)
(* Proofs about BillSplit, for any sets of splits, parts, attempts and     *)
(* creators, and any amounts: its types, and what the payments of the      *)
(* parts leave behind, on the parts and on the bill, however they overlap, *)
(* fail, abort or die.                                                     *)
(***************************************************************************)
EXTENDS BillSplit, BillLedgerTheorems, FiniteSetTheorems

USE PartsAssumption, ChargedAssumption, TipsAssumption, NoPartAssumption
USE DEF NoticeSide

-----------------------------------------------------------------------------
(* The inductive invariant                                                 *)

AllParts == Splits \X Parts

\* What a participant has paid is nothing or all, and a recorded payment says so.
PartInv(p) ==
    /\ split[p[1]] # "NONE" => part[p].allocated > 0
    /\ part[p].paid > 0 => part[p].paid >= part[p].allocated
    /\ part[p].status = "PAID" => part[p].paid >= part[p].allocated
    /\ part[p].status # "PARTIALLY_PAID"
    /\ part[p].paid > 0 => part[p].status # "PENDING"
    /\ part[p].paid > 0 <=> Recorded(p) # {}

\* A card request that has not looked at its attempt since it opened it.
Awaits(a) == Embedded(a) /\ req[a].step \in {"charging", "approved", "rejected"}

\* What a request that awaits, and a notification, may rely on: they exclude each other.
AttemptInv(a) ==
    /\ req[a].step = "none" <=> attempt[a].status = "NONE"
    /\ req[a].step \notin {"none", "ended"} => attempt[a].status = "PENDING" \/ Awaits(a)
    /\ attempt[a].status # "NONE" => /\ attempt[a].of \in AllParts
                                     /\ split[attempt[a].of[1]] # "NONE"
                                     /\ attempt[a].share = PartOf(a).allocated
    /\ Embedded(a) => req[a].paid = 0
    /\ At(a, "claimed") => Embedded(a) /\ PartOf(a).paid = 0
    /\ req[a].step \in {"away", "read", "billed"} => ~Embedded(a)
    /\ notice[a].open => Embedded(a) /\ attempt[a].status = "PENDING" /\ ~At(a, "claimed")
    /\ a \in unapplied => Embedded(a) /\ attempt[a].status = "SUCCEEDED"

\* A part is claimed by one transaction, and one card payment names it.
OneClaim ==
    \A a, b \in Attempts :
        At(a, "claimed") /\ At(b, "claimed") /\ attempt[a].of = attempt[b].of => a = b

OneCardPayment ==
    \A a, b \in Attempts \ unapplied :
        /\ attempt[a].status = "SUCCEEDED" /\ attempt[b].status = "SUCCEEDED"
        /\ Embedded(a) /\ Embedded(b) /\ attempt[a].of = attempt[b].of
        => a = b

Inv ==
    /\ TypeOK
    /\ \A p \in AllParts : PartInv(p)
    /\ \A a \in Attempts : AttemptInv(a)
    /\ OneClaim
    /\ OneCardPayment
    /\ SplitFollowsParts

\* A step takes nothing back: it may pay a part, and the splits there are stay.
PartsKept ==
    /\ \A p \in AllParts : /\ part'[p].allocated = part[p].allocated
                           /\ part'[p].paid = part[p].paid \/ part'[p].paid > 0
    /\ \A s \in Splits : split'[s] = "NONE" <=> split[s] = "NONE"

-----------------------------------------------------------------------------
(* Types                                                                   *)

LEMMA SomeParts == \E i : i \in Parts
<1> SUFFICES ASSUME Parts = {} PROVE FALSE
  OBVIOUS
<1> QED
  BY FS_EmptySet

LEMMA EmptyBillType == EmptyBill \in Bills
BY DEF EmptyBill, Bills, BillStatuses

LEMMA TypeInit == Init => TypeOK
<1> SUFFICES ASSUME Init
             PROVE  TypeOK
  OBVIOUS
<1>1. bill \in Bills
  <2>1. Charged \in Int /\ 0 \in Int
    BY ChargedAssumption
  <2>2. ApplyOrderCharge(EmptyBill, EmptyBill, Charged) \in Bills
    BY <2>1, EmptyBillType, BillRewriteType
  <2> QED
    BY <2>2 DEF Init
<1>2. part \in [Splits \X Parts -> PartRecords]
  BY DEF Init, NewPart, PartRecords, PartStatuses
<1>3. attempt \in [Attempts -> AttemptRecords] /\ req \in [Attempts -> RequestRecords]
  BY EmptyBillType DEF Init, AttemptRecords, RequestRecords, RequestSteps
<1>4. creator \in [Creators -> CreatorRecords]
  BY EmptyBillType DEF Init, IdleCreator, CreatorRecords
<1>5. notice \in [Attempts -> NoticeRecords]
  BY EmptyBillType DEF Init, NoNotice, NoticeRecords
<1> QED
  BY <1>1, <1>2, <1>3, <1>4, <1>5 DEF Init, TypeOK, SplitStatuses

\* The request of an attempt, whatever becomes of it.
LEMMA RequestType ==
    ASSUME TypeOK, NEW a \in Attempts,
           (\E step \in RequestSteps : Goto(a, step)) \/ Rest(a) \/ Over(a)
    PROVE  req' \in [Attempts -> RequestRecords]
<1>1. CASE \E step \in RequestSteps : Goto(a, step)
  BY <1>1 DEF Goto, TypeOK, RequestRecords
<1>2. ASSUME NEW step \in {"away", "ended"}
      PROVE  [step |-> step, paid |-> 0, bill |-> EmptyBill] \in RequestRecords
  BY EmptyBillType DEF RequestRecords, RequestSteps
<1>3. CASE Rest(a) \/ Over(a)
  BY <1>2, <1>3 DEF Rest, Over, TypeOK
<1> QED
  BY <1>1, <1>3

LEMMA WithPaidType ==
    ASSUME NEW r \in PartRecords, NEW paid \in Nat
    PROVE  /\ WithPaid(r, paid) \in PartRecords
           /\ WithPaid(r, paid).paid = paid
           /\ WithPaid(r, paid).allocated = r.allocated
           /\ WithPaid(r, paid).status = IF paid >= r.allocated THEN "PAID" ELSE "PARTIALLY_PAID"
BY DEF WithPaid, StatusOfPaid, PartRecords, PartStatuses

LEMMA RecordType ==
    ASSUME TypeOK, NEW a \in Attempts, attempt[a].of \in AllParts,
           NEW updated \in PartRecords, Record(a, updated)
    PROVE  TypeOK'
<1>1. bill' \in Bills
  <2>1. /\ bill \in Bills /\ req[a].bill \in Bills
        /\ attempt[a].tip \in Int /\ Amount(a) \in Int
    BY DEF TypeOK, RequestRecords, AttemptRecords, Amount
  <2> QED
    BY <2>1, BillRewriteType DEF Record
<1>2. attempt' \in [Attempts -> AttemptRecords]
  <2> DEFINE record == [attempt[a] EXCEPT !.status = "SUCCEEDED"]
  <2>1. record \in AttemptRecords
    BY DEF TypeOK, AttemptRecords
  <2>2. attempt' = [attempt EXCEPT ![a] = record]
    BY DEF Record
  <2> HIDE DEF record
  <2> QED
    BY <2>1, <2>2 DEF TypeOK
<1>3. part' \in [Splits \X Parts -> PartRecords]
  BY DEF Record, TypeOK, AllParts
<1>4. split' \in [Splits -> SplitStatuses]
  <2>1. \A s, parts : UpdatedSplitStatus(s, parts) \in SplitStatuses
    BY DEF UpdatedSplitStatus, SplitStatuses
  <2> QED
    BY <2>1 DEF Record, TypeOK
<1>5. req' \in [Attempts -> RequestRecords]
  BY RequestType DEF Record
<1> QED
  BY <1>1, <1>2, <1>3, <1>4, <1>5 DEF Record, TypeOK

LEMMA CreatorStepType ==
    ASSUME TypeOK, NEW c \in Creators, CreatorStep(c)
    PROVE  TypeOK'
<1> USE DEF BillRows, SplitRows
<1>i. IdleCreator \in CreatorRecords
  BY EmptyBillType DEF IdleCreator, CreatorRecords
<1>1. CASE LoadBill(c)
  <2>1. [step |-> "loaded", bill |-> bill] \in CreatorRecords
    BY DEF TypeOK, CreatorRecords
  <2> QED
    BY <1>1, <2>1 DEF LoadBill, TypeOK
<1>2. CASE CheckNoSplit(c)
  <2> DEFINE record == [creator[c] EXCEPT !.step = "checked"]
  <2>1. record \in CreatorRecords
    BY DEF TypeOK, CreatorRecords
  <2>2. creator' = [creator EXCEPT ![c] = IdleCreator] \/ creator' = [creator EXCEPT ![c] = record]
    BY <1>2 DEF CheckNoSplit, TypeOK
  <2> HIDE DEF record
  <2>3. creator' \in [Creators -> CreatorRecords]
    BY <1>i, <2>1, <2>2 DEF TypeOK
  <2> QED
    BY <1>2, <2>3 DEF CheckNoSplit, TypeOK
<1>3. ASSUME NEW s \in Splits, NEW amounts \in [Parts -> 1..creator[c].bill.remaining],
             CreateSplit(c, s, amounts)
      PROVE  TypeOK'
  <2>1. creator' \in [Creators -> CreatorRecords]
    BY <1>3, <1>i DEF CreateSplit, TypeOK
  <2>2. \A i \in Parts : NewPart(amounts[i]) \in PartRecords
    <3> SUFFICES ASSUME NEW i \in Parts PROVE NewPart(amounts[i]) \in PartRecords
      OBVIOUS
    <3>1. creator[c].bill.remaining \in Int
      BY DEF TypeOK, CreatorRecords, Bills
    <3>2. amounts[i] \in Nat
      BY <3>1
    <3> QED
      BY <3>2 DEF NewPart, PartRecords, PartStatuses
  <2>3. \A p \in Splits \X Parts : p[2] \in Parts /\ part[p] \in PartRecords
    BY DEF TypeOK
  <2>4. part' \in [Splits \X Parts -> PartRecords]
    BY <1>3, <2>2, <2>3 DEF CreateSplit
  <2>5. split' \in [Splits -> SplitStatuses] /\ raced' \in BOOLEAN
    BY <1>3 DEF CreateSplit, TypeOK, SplitStatuses
  <2> QED
    BY <1>3, <2>1, <2>4, <2>5 DEF CreateSplit, TypeOK
<1> QED
  BY <1>1, <1>2, <1>3 DEF CreatorStep

LEMMA OpenType ==
    ASSUME TypeOK, NEW a \in Attempts, NEW p \in AllParts, NEW tip \in Tips,
           NEW channel \in {"embedded", "redirect"}, NEW step \in RequestSteps,
           OpenAttempt(a, p, tip, channel, step)
    PROVE  /\ TypeOK'
           /\ attempt'[a].status = "PENDING" /\ attempt'[a].of = p
           /\ attempt'[a].share = part[p].allocated - part[p].paid
           /\ attempt'[a].channel = channel
           /\ req'[a].step = step /\ req'[a].paid = part[p].paid
           /\ \A b \in Attempts \ {a} : attempt'[b] = attempt[b] /\ req'[b] = req[b]
<1> DEFINE row == [status |-> "PENDING", channel |-> channel, of |-> p,
                   share |-> part[p].allocated - part[p].paid, tip |-> tip]
           request == [req[a] EXCEPT !.step = step, !.paid = part[p].paid]
<1>1. part[p].allocated \in Nat /\ part[p].paid \in Nat /\ req[a] \in RequestRecords
  BY DEF TypeOK, AllParts, PartRecords
<1>2. row \in AttemptRecords
  <2>1. part[p].allocated - part[p].paid \in Nat
    BY <1>1 DEF OpenAttempt
  <2> QED
    BY <2>1 DEF AttemptRecords, AllParts
<1>3. /\ request \in RequestRecords
      /\ request.step = step /\ request.paid = part[p].paid
  BY <1>1 DEF RequestRecords
<1>4. attempt' = [attempt EXCEPT ![a] = row] /\ req' = [req EXCEPT ![a] = request]
  BY DEF OpenAttempt, TypeOK
<1> HIDE DEF row, request
<1>5. /\ attempt' \in [Attempts -> AttemptRecords] /\ req' \in [Attempts -> RequestRecords]
      /\ attempt'[a] = row /\ req'[a] = request
      /\ \A b \in Attempts \ {a} : attempt'[b] = attempt[b] /\ req'[b] = req[b]
  BY <1>2, <1>3, <1>4 DEF TypeOK
<1>6. TypeOK'
  BY <1>5 DEF OpenAttempt, TypeOK, BillRows, SplitRows
<1> QED
  BY <1>3, <1>5, <1>6 DEF row

\* An attempt that fails takes its request with it.
LEMMA FailedType ==
    ASSUME TypeOK, NEW a \in Attempts, attempt' = [attempt EXCEPT ![a].status = "FAILED"]
    PROVE  /\ attempt' \in [Attempts -> AttemptRecords]
           /\ attempt'[a] = [attempt[a] EXCEPT !.status = "FAILED"]
           /\ \A b \in Attempts \ {a} : attempt'[b] = attempt[b]
<1> DEFINE record == [attempt[a] EXCEPT !.status = "FAILED"]
<1>1. record \in AttemptRecords
  BY DEF TypeOK, AttemptRecords
<1>2. attempt' = [attempt EXCEPT ![a] = record]
  OBVIOUS
<1> HIDE DEF record
<1>3. attempt' \in [Attempts -> AttemptRecords] /\ attempt'[a] = record
      /\ \A b \in Attempts \ {a} : attempt'[b] = attempt[b]
  BY <1>1, <1>2 DEF TypeOK
<1> QED
  BY <1>3 DEF record

\* Its participant may become FAILED, with what it paid.
LEMMA FailedPartType ==
    ASSUME TypeOK, NEW q \in AllParts,
           \/ part' = [part EXCEPT ![q].status = "FAILED"]
           \/ part' = [part EXCEPT ![q].status = IF @ = "PAID" THEN @ ELSE "FAILED"]
    PROVE  /\ part' \in [Splits \X Parts -> PartRecords]
           /\ \A p \in AllParts : /\ part'[p].paid = part[p].paid
                                  /\ part'[p].allocated = part[p].allocated
                                  /\ part'[p].status \in {part[p].status, "FAILED"}
<1>1. part[q] \in PartRecords
  BY DEF TypeOK, AllParts
<1>2. PICK status \in {part[q].status, "FAILED"} : part' = [part EXCEPT ![q].status = status]
  BY DEF TypeOK, AllParts
<1> DEFINE record == [part[q] EXCEPT !.status = status]
<1>3. /\ record \in PartRecords /\ record.paid = part[q].paid
      /\ record.allocated = part[q].allocated /\ record.status = status
  BY <1>1 DEF PartRecords, PartStatuses
<1>4. part' = [part EXCEPT ![q] = record]
  BY <1>2
<1> HIDE DEF record
<1> QED
  BY <1>2, <1>3, <1>4 DEF TypeOK, AllParts

-----------------------------------------------------------------------------
(* Steps that write no participant                                         *)

LEMMA InvInit == Init => Inv
<1> SUFFICES ASSUME Init
             PROVE  Inv
  OBVIOUS
<1>1. \A p \in AllParts : PartInv(p)
  BY DEF Init, AllParts, PartInv, NewPart, Recorded
<1>2. \A a \in Attempts : AttemptInv(a)
  BY DEF Init, AttemptInv, Embedded, At, NoNotice
<1>3. OneClaim /\ OneCardPayment
  BY DEF Init, OneClaim, OneCardPayment, At
<1>4. SplitFollowsParts
  BY DEF Init, SplitFollowsParts
<1> QED
  BY <1>1, <1>2, <1>3, <1>4, TypeInit DEF Inv

LEMMA RowsUntouched ==
    ASSUME Inv, UNCHANGED <<split, part, attempt, unapplied>>
    PROVE  /\ \A p \in AllParts : PartInv(p)'
           /\ OneCardPayment'
           /\ SplitFollowsParts'
<1>1. \A p \in AllParts : PartInv(p)'
  BY DEF Inv, PartInv, Recorded
<1>2. OneCardPayment'
  BY DEF Inv, OneCardPayment, Embedded
<1>3. SplitFollowsParts'
  BY DEF Inv, SplitFollowsParts
<1> QED
  BY <1>1, <1>2, <1>3

\* Nothing of an attempt and its part changed.
LEMMA AttemptUntouched ==
    ASSUME NEW a \in Attempts, AttemptInv(a), attempt'[a] = attempt[a], req'[a] = req[a],
           notice'[a] = notice[a], a \in unapplied' <=> a \in unapplied,
           attempt[a].status # "NONE" =>
               /\ split'[attempt[a].of[1]] # "NONE"
               /\ part'[attempt[a].of].allocated = part[attempt[a].of].allocated
               /\ At(a, "claimed") => part'[attempt[a].of].paid = part[attempt[a].of].paid
    PROVE  AttemptInv(a)'
BY DEF AttemptInv, Awaits, Embedded, At, PartOf

\* A request that goes on, stops or claims its part, with every row as it was.
LEMMA RequestGoesOn ==
    ASSUME Inv, NEW a \in Attempts, UNCHANGED <<split, part, attempt, notice, unapplied>>,
           req' \in [Attempts -> RequestRecords],
           \A b \in Attempts \ {a} : req'[b] = req[b],
           req[a].step # "none", req'[a].step # "none",
           \/ req'[a].step = "ended" \/ attempt[a].status = "PENDING"
           \/ Embedded(a) /\ req'[a].step \in {"approved", "rejected"},
           Embedded(a) => req'[a].paid = 0,
           req'[a].step = "claimed" => /\ Embedded(a) /\ PartOf(a).paid = 0
                                       /\ ~PartLocked(attempt[a].of) /\ ~notice[a].open,
           req'[a].step \in {"away", "read", "billed"} => ~Embedded(a)
    PROVE  /\ \A b \in Attempts : AttemptInv(b)'
           /\ OneClaim'
<1>1. AttemptInv(a)'
  BY DEF Inv, AttemptInv, Awaits, Embedded, At, PartOf
<1>2. \A b \in Attempts \ {a} : AttemptInv(b)'
  BY AttemptUntouched DEF Inv, AttemptInv
<1>3. OneClaim'
  BY DEF Inv, OneClaim, At, PartLocked
<1> QED
  BY <1>1, <1>2, <1>3

\* What Goto, Rest and Over make of a request.
LEMMA RequestRow ==
    ASSUME TypeOK, NEW a \in Attempts
    PROVE  /\ \A step \in RequestSteps : Goto(a, step) =>
                 /\ req'[a].step = step /\ req'[a].paid = req[a].paid
                 /\ \A b \in Attempts \ {a} : req'[b] = req[b]
           /\ Rest(a) => /\ req'[a].step = IF Embedded(a) THEN "ended" ELSE "away"
                         /\ req'[a].paid = 0
                         /\ \A b \in Attempts \ {a} : req'[b] = req[b]
           /\ Over(a) => /\ req'[a].step = "ended" /\ req'[a].paid = 0
                         /\ \A b \in Attempts \ {a} : req'[b] = req[b]
<1>1. \A step \in RequestSteps : Goto(a, step) =>
         /\ req'[a].step = step /\ req'[a].paid = req[a].paid
         /\ \A b \in Attempts \ {a} : req'[b] = req[b]
  BY DEF Goto, TypeOK, RequestRecords
<1>2. attempt[a].channel \in {"embedded", "redirect"}
  BY DEF TypeOK, AttemptRecords
<1>3. Rest(a) => /\ req'[a].step = IF Embedded(a) THEN "ended" ELSE "away"
                 /\ req'[a].paid = 0
                 /\ \A b \in Attempts \ {a} : req'[b] = req[b]
  BY <1>2 DEF Rest, TypeOK, Embedded
<1>4. Over(a) => /\ req'[a].step = "ended" /\ req'[a].paid = 0
                 /\ \A b \in Attempts \ {a} : req'[b] = req[b]
  BY DEF Over, TypeOK
<1> QED
  BY <1>1, <1>3, <1>4

LEMMA WaitStep ==
    ASSUME Inv, NEW a \in Attempts,
           \/ Answered(a) \/ ClaimPart(a) \/ ReadPart(a) \/ UpdateBill(a) \/ Crash(a)
           \/ RejectPart(a) /\ ~Unresolved(a)
           \/ CommitPart(a) /\ UNCHANGED <<BillRows, SplitRows, attempt, creator, raced, NoticeSide>>
    PROVE  Inv'
<1> USE DEF BillRows, SplitRows
<1>t. TypeOK /\ AttemptInv(a)
  BY DEF Inv
<1>u. UNCHANGED <<bill, split, part, attempt, notice, unapplied, creator, other,
                  overwritten, raced>>
  BY DEF Answered, RejectPart, ClaimPart, ReadPart, UpdateBill, Crash
<1>s. {"approved", "rejected", "billed"} \subseteq RequestSteps
  BY DEF RequestSteps
<1>1. ASSUME req' \in [Attempts -> RequestRecords],
             \A b \in Attempts : AttemptInv(b)', OneClaim'
      PROVE  Inv'
  <2>1. TypeOK'
    BY <1>t, <1>u, <1>1 DEF TypeOK
  <2> QED
    BY <1>1, <1>u, <2>1, RowsUntouched DEF Inv
<1>o. ASSUME Over(a) \/ Rest(a), req[a].step \notin {"none", "away", "ended"}
      PROVE  Inv'
  <2>1. req' \in [Attempts -> RequestRecords]
    BY <1>o, <1>t, RequestType
  <2>2. /\ req'[a].step = "ended" \/ (req'[a].step = "away" /\ ~Embedded(a))
        /\ req'[a].paid = 0
        /\ \A b \in Attempts \ {a} : req'[b] = req[b]
    BY <1>o, <1>t, RequestRow
  <2>3. attempt[a].status = "PENDING" \/ Embedded(a)
    BY <1>o, <1>t DEF AttemptInv, Awaits
  <2> QED
    BY <1>1, <1>o, <1>u, <2>1, <2>2, <2>3, RequestGoesOn
<1>2. CASE Answered(a)
  <2>1. PICK answer \in {"approved", "rejected"} : Goto(a, answer)
    BY <1>2 DEF Answered
  <2>2. req' \in [Attempts -> RequestRecords]
    BY <1>s, <1>t, <2>1, RequestType
  <2>3. /\ req'[a].step = answer /\ req'[a].paid = req[a].paid
        /\ \A b \in Attempts \ {a} : req'[b] = req[b]
    BY <1>s, <1>t, <2>1, RequestRow
  <2>4. /\ req[a].step \in {"charging", "away"}
        /\ attempt[a].status = "PENDING" \/ Embedded(a)
        /\ Embedded(a) => req[a].paid = 0
    BY <1>2, <1>t DEF Answered, AttemptInv, Awaits
  <2> QED
    BY <1>1, <1>u, <2>2, <2>3, <2>4, RequestGoesOn
<1>3. CASE ClaimPart(a)
  <2>1. /\ req[a].step = "approved" /\ Embedded(a) /\ req[a].paid = 0
        /\ ~PartLocked(attempt[a].of) /\ ~notice[a].open
    BY <1>3, <1>t DEF ClaimPart, At, AttemptInv
  <2>2. CASE Over(a)
    BY <1>o, <2>1, <2>2
  <2>3. CASE PartOf(a).paid = req[a].paid /\ attempt[a].status = "PENDING"
             /\ req' = [req EXCEPT ![a].step = "claimed", ![a].bill = bill]
    <3> DEFINE record == [req[a] EXCEPT !.step = "claimed", !.bill = bill]
    <3>1. record \in RequestRecords /\ record.step = "claimed" /\ record.paid = req[a].paid
      BY <1>t DEF TypeOK, RequestRecords, RequestSteps
    <3>2. req' = [req EXCEPT ![a] = record]
      BY <1>t, <2>3 DEF TypeOK
    <3> HIDE DEF record
    <3>3. /\ req' \in [Attempts -> RequestRecords]
          /\ req'[a].step = "claimed" /\ req'[a].paid = 0
          /\ \A b \in Attempts \ {a} : req'[b] = req[b]
      BY <1>t, <2>1, <3>1, <3>2 DEF TypeOK
    <3> QED
      BY <1>1, <1>u, <2>1, <2>3, <3>3, RequestGoesOn
  <2> QED
    BY <1>3, <2>2, <2>3 DEF ClaimPart, AsRead, Unresolved
<1>4. CASE ReadPart(a)
  <2>1. req[a].step = "approved" /\ ~Embedded(a) /\ attempt[a].status = "PENDING"
        /\ attempt[a].of \in AllParts
    BY <1>4, <1>t DEF ReadPart, At, AttemptInv, Awaits
  <2> DEFINE record == [step |-> "read", paid |-> PartOf(a).paid, bill |-> bill]
  <2>2. record \in RequestRecords /\ record.step = "read"
    BY <1>t, <2>1 DEF TypeOK, PartOf, AllParts, PartRecords, RequestRecords, RequestSteps
  <2>3. req' = [req EXCEPT ![a] = record]
    BY <1>4 DEF ReadPart
  <2> HIDE DEF record
  <2>4. /\ req' \in [Attempts -> RequestRecords] /\ req'[a].step = "read"
        /\ \A b \in Attempts \ {a} : req'[b] = req[b]
    BY <1>t, <2>2, <2>3 DEF TypeOK
  <2> QED
    BY <1>1, <1>u, <2>1, <2>4, RequestGoesOn
<1>5. CASE UpdateBill(a)
  <2>1. req[a].step = "read" /\ ~Embedded(a) /\ attempt[a].status = "PENDING"
    BY <1>5, <1>t DEF UpdateBill, At, AttemptInv, Awaits
  <2>2. CASE Rest(a)
    BY <1>o, <2>1, <2>2
  <2>3. CASE Goto(a, "billed")
    <3>1. req' \in [Attempts -> RequestRecords]
      BY <1>s, <1>t, <2>3, RequestType
    <3>2. req'[a].step = "billed" /\ \A b \in Attempts \ {a} : req'[b] = req[b]
      BY <1>s, <1>t, <2>3, RequestRow
    <3> QED
      BY <1>1, <1>u, <2>1, <3>1, <3>2, RequestGoesOn
  <2> QED
    BY <1>5, <2>2, <2>3 DEF UpdateBill
<1>6. CASE Crash(a)
  BY <1>6, <1>o DEF Crash
<1>7. CASE CommitPart(a) /\ UNCHANGED <<BillRows, SplitRows, attempt, creator, raced, NoticeSide>>
  <2>1. req[a].step = "claimed" /\ Over(a)
    BY <1>7 DEF CommitPart, Record, At
  <2> QED
    BY <1>o, <2>1
<1>8. CASE RejectPart(a)
  BY <1>8, <1>o DEF RejectPart, At
<1> QED
  BY <1>2, <1>3, <1>4, <1>5, <1>6, <1>7, <1>8

\* The victim of a deadlock rests; nothing of its transaction stays.
LEMMA VictimStep ==
    ASSUME Inv, NEW a \in Attempts, NEW b \in Attempts, DeadlockVictim(a, b)
    PROVE  Inv'
<1>1. PICK victim \in {a, b} : Rest(victim)
  BY DEF DeadlockVictim
<1>2. TypeOK /\ AttemptInv(victim) /\ victim \in Attempts
  BY DEF Inv
<1>3. UNCHANGED <<bill, split, part, attempt, notice, unapplied, creator, other,
                  overwritten, raced>>
  BY DEF DeadlockVictim, BillRows, SplitRows
<1>4. req' \in [Attempts -> RequestRecords]
  BY <1>1, <1>2, RequestType
<1>5. /\ req'[victim].step = "ended" \/ (req'[victim].step = "away" /\ ~Embedded(victim))
      /\ req'[victim].paid = 0
      /\ \A c \in Attempts \ {victim} : req'[c] = req[c]
  BY <1>1, <1>2, RequestRow
<1>6. req[victim].step \in {"claimed", "billed"} /\ attempt[victim].status = "PENDING"
  BY <1>2 DEF DeadlockVictim, At, AttemptInv, Awaits
<1>7. (\A c \in Attempts : AttemptInv(c)') /\ OneClaim'
  BY <1>2, <1>3, <1>4, <1>5, <1>6, RequestGoesOn
<1>8. TypeOK'
  BY <1>2, <1>3, <1>4 DEF TypeOK
<1> QED
  BY <1>3, <1>7, <1>8, RowsUntouched DEF Inv

LEMMA OtherStep == ASSUME Inv, ChargeOther \/ PayOther PROVE Inv'
<1>1. UNCHANGED <<split, part, attempt, req, notice, unapplied, creator, overwritten, raced>>
  BY DEF ChargeOther, PayOther, OtherTraffic, SplitRows
<1>2. bill' \in Bills
  <2>1. ApplyOrderCharge(bill, bill, 1) \in Bills /\ ApplyPayment(bill, bill, 1, 0) \in Bills
    BY BillRewriteType DEF Inv, TypeOK
  <2> QED
    BY <2>1 DEF ChargeOther, PayOther, OtherTraffic
<1>3. other' \in Nat
  BY DEF ChargeOther, PayOther, OtherTraffic, Inv, TypeOK
<1>4. TypeOK'
  BY <1>1, <1>2, <1>3 DEF Inv, TypeOK
<1>5. (\A a \in Attempts : AttemptInv(a)') /\ OneClaim'
  BY <1>1 DEF Inv, AttemptInv, Awaits, OneClaim, At, Embedded, PartOf
<1> QED
  BY <1>1, <1>4, <1>5, RowsUntouched DEF Inv

-----------------------------------------------------------------------------
(* Splits and attempts are created                                         *)

\* A split nobody could pay a part of yet.
LEMMA CreateStep ==
    ASSUME Inv, NEW c \in Creators, NEW s \in Splits,
           NEW amounts \in [Parts -> 1..creator[c].bill.remaining], CreateSplit(c, s, amounts)
    PROVE  /\ \A p \in AllParts : PartInv(p)'
           /\ \A a \in Attempts : AttemptInv(a)'
           /\ OneClaim' /\ OneCardPayment' /\ SplitFollowsParts'
<1>t. TypeOK
  BY DEF Inv
<1>u. UNCHANGED <<attempt, req, notice, unapplied>> /\ split[s] = "NONE"
  BY DEF CreateSplit
<1>1. split'[s] = "OPEN" /\ \A t \in Splits \ {s} : split'[t] = split[t]
  BY <1>t DEF CreateSplit, TypeOK
<1>2. \A p \in AllParts : part'[p] = IF p[1] = s THEN NewPart(amounts[p[2]]) ELSE part[p]
  BY DEF CreateSplit, AllParts
<1>3. \A i \in Parts : amounts[i] \in Nat /\ amounts[i] > 0
  <2>1. creator[c].bill.remaining \in Int
    BY <1>t DEF TypeOK, CreatorRecords, Bills
  <2> QED
    BY <2>1
<1>4. \A p \in AllParts : p[1] = s => Recorded(p) = {}
  BY <1>u DEF Recorded, Inv, AttemptInv
<1>r. \A p \in AllParts : Recorded(p)' = Recorded(p)
  BY <1>u DEF Recorded
<1>5. \A p \in AllParts : PartInv(p)'
  <2> SUFFICES ASSUME NEW p \in AllParts PROVE PartInv(p)'
    OBVIOUS
  <2>1. p[1] \in Splits /\ p[2] \in Parts
    BY DEF AllParts
  <2>2. CASE p[1] = s
    <3>0. part'[p] = NewPart(amounts[p[2]])
      BY <1>2, <2>2
    <3>1. part'[p].allocated = amounts[p[2]] /\ part'[p].paid = 0 /\ part'[p].status = "PENDING"
      BY <3>0 DEF NewPart
    <3> QED
      BY <1>3, <1>4, <1>r, <2>1, <2>2, <3>1 DEF PartInv
  <2>3. CASE p[1] # s
    <3>1. part'[p] = part[p] /\ split'[p[1]] = split[p[1]] /\ PartInv(p)
      BY <1>1, <1>2, <2>1, <2>3 DEF Inv
    <3> QED
      BY <1>r, <3>1 DEF PartInv
  <2> QED
    BY <2>2, <2>3
<1>6. \A a \in Attempts : AttemptInv(a)'
  <2> SUFFICES ASSUME NEW a \in Attempts PROVE AttemptInv(a)'
    OBVIOUS
  <2>1. AttemptInv(a)
    BY DEF Inv
  <2>2. attempt[a].status # "NONE" =>
           /\ attempt[a].of \in AllParts /\ attempt[a].of[1] \in Splits \ {s}
           /\ split[attempt[a].of[1]] # "NONE"
    BY <1>u, <2>1 DEF AttemptInv, AllParts
  <2>3. attempt[a].status # "NONE" =>
           part'[attempt[a].of] = part[attempt[a].of] /\ split'[attempt[a].of[1]] # "NONE"
    BY <1>1, <1>2, <2>2
  <2> QED
    BY <1>u, <2>1, <2>3, AttemptUntouched
<1>7. OneClaim' /\ OneCardPayment'
  BY <1>u DEF Inv, OneClaim, OneCardPayment, At, Embedded
<1>8. SplitFollowsParts'
  <2> SUFFICES ASSUME NEW t \in Splits
               PROVE  /\ split'[t] # "NONE" /\ (\A i \in Parts : part'[<<t, i>>].status = "PAID")
                             => split'[t] = "PAID"
                      /\ split'[t] = "PAID" =>
                             \A i \in Parts : part'[<<t, i>>].paid >= part'[<<t, i>>].allocated
    BY DEF SplitFollowsParts
  <2>1. CASE t = s
    <3>1. PICK i \in Parts : TRUE
      BY SomeParts
    <3>2. part'[<<s, i>>] = NewPart(amounts[i])
      BY <1>2 DEF AllParts
    <3>3. part'[<<s, i>>].status = "PENDING"
      BY <3>2 DEF NewPart
    <3> QED
      BY <1>1, <2>1, <3>3
  <2>2. CASE t # s
    <3>1. split'[t] = split[t] /\ \A i \in Parts : part'[<<t, i>>] = part[<<t, i>>]
      BY <1>1, <1>2, <2>2 DEF AllParts
    <3> QED
      BY <3>1 DEF Inv, SplitFollowsParts
  <2> QED
    BY <2>1, <2>2
<1> QED
  BY <1>5, <1>6, <1>7, <1>8

LEMMA InvCreator == ASSUME Inv, NEW c \in Creators, CreatorStep(c) PROVE Inv'
<1>1. TypeOK'
  BY CreatorStepType DEF Inv
<1>2. CASE LoadBill(c) \/ CheckNoSplit(c)
  <2>1. UNCHANGED <<split, part, attempt, req, notice, unapplied>>
    BY <1>2 DEF LoadBill, CheckNoSplit, SplitRows
  <2>2. (\A a \in Attempts : AttemptInv(a)') /\ OneClaim'
    BY <2>1 DEF Inv, AttemptInv, Awaits, OneClaim, At, Embedded, PartOf
  <2> QED
    BY <1>1, <2>1, <2>2, RowsUntouched DEF Inv
<1>3. ASSUME NEW s \in Splits, NEW amounts \in [Parts -> 1..creator[c].bill.remaining],
             CreateSplit(c, s, amounts)
      PROVE  Inv'
  BY <1>1, <1>3, CreateStep DEF Inv
<1> QED
  BY <1>2, <1>3 DEF CreatorStep

\* Whoever is asked for a part is asked for all of it: nothing of it was paid.
LEMMA OpenStep ==
    ASSUME Inv, NEW a \in Attempts, NEW p \in AllParts, NEW tip \in Tips,
           \/ OpenAttempt(a, p, tip, "embedded", "charging")
           \/ OpenAttempt(a, p, tip, "redirect", "away")
    PROVE  Inv'
<1>1. PICK channel \in {"embedded", "redirect"}, step \in {"charging", "away"} :
          /\ OpenAttempt(a, p, tip, channel, step)
          /\ channel = "embedded" <=> step = "charging"
  OBVIOUS
<1>2. step \in RequestSteps
  BY DEF RequestSteps
<1>t. TypeOK /\ PartInv(p)
  BY DEF Inv
<1>3. /\ TypeOK'
      /\ attempt'[a].status = "PENDING" /\ attempt'[a].of = p
      /\ attempt'[a].share = part[p].allocated - part[p].paid
      /\ attempt'[a].channel = channel
      /\ req'[a].step = step /\ req'[a].paid = part[p].paid
      /\ \A b \in Attempts \ {a} : attempt'[b] = attempt[b] /\ req'[b] = req[b]
  BY <1>1, <1>2, <1>t, OpenType
<1>4. /\ attempt[a].status = "NONE" /\ split[p[1]] # "NONE"
      /\ part[p].paid < part[p].allocated /\ UNCHANGED <<split, part, notice, unapplied>>
  BY <1>1 DEF OpenAttempt, SplitRows
<1>5. part[p].paid = 0 /\ part[p].allocated \in Nat
  <2>1. part[p].paid \in Nat /\ part[p].allocated \in Nat
    BY <1>t DEF TypeOK, PartRecords, AllParts
  <2> QED
    BY <1>t, <1>4, <2>1 DEF PartInv
<1>6. \A q \in AllParts : Recorded(q)' = Recorded(q)
  BY <1>3, <1>4 DEF Recorded
<1>7. \A q \in AllParts : PartInv(q)'
  BY <1>4, <1>6 DEF Inv, PartInv
<1>8. \A b \in Attempts : AttemptInv(b)'
  <2>1. AttemptInv(a)'
    <3>1. attempt'[a].share = part[p].allocated
      BY <1>3, <1>5
    <3>2. ~notice[a].open /\ a \notin unapplied
      BY <1>4 DEF Inv, AttemptInv
    <3> QED
      BY <1>1, <1>3, <1>4, <1>5, <3>1, <3>2 DEF AttemptInv, At, PartOf, Embedded
  <2>2. \A b \in Attempts \ {a} : AttemptInv(b)'
    BY <1>3, <1>4, AttemptUntouched DEF Inv, AttemptInv
  <2> QED
    BY <2>1, <2>2
<1>9. OneClaim' /\ OneCardPayment' /\ SplitFollowsParts'
  <2>1. OneClaim'
    BY <1>3 DEF Inv, OneClaim, At
  <2>2. OneCardPayment'
    BY <1>3, <1>4 DEF Inv, OneCardPayment, Embedded
  <2>3. SplitFollowsParts'
    BY <1>4 DEF Inv, SplitFollowsParts
  <2> QED
    BY <2>1, <2>2, <2>3
<1> QED
  BY <1>3, <1>7, <1>8, <1>9 DEF Inv

-----------------------------------------------------------------------------
(* Attempts fail                                                           *)

LEMMA FailStep ==
    ASSUME Inv, NEW a \in Attempts,
           (RejectPart(a) /\ Unresolved(a)) \/ FailRedirect(a) \/ RedirectNotCreated(a)
    PROVE  Inv' /\ PartsKept
<1>t. TypeOK /\ AttemptInv(a)
  BY DEF Inv
<1> DEFINE q == attempt[a].of
<1>1. /\ attempt[a].status = "PENDING" /\ q \in AllParts
      /\ ~notice[a].open /\ a \notin unapplied
  BY <1>t DEF RejectPart, Unresolved, FailRedirect, RedirectNotCreated, At, AttemptInv, Awaits
<1>2. /\ attempt' = [attempt EXCEPT ![a].status = "FAILED"] /\ Over(a)
      /\ UNCHANGED <<bill, split, notice, unapplied, creator, other, overwritten, raced>>
  BY DEF RejectPart, FailRedirect, RedirectNotCreated, BillRows, SplitRows
<1>3. /\ attempt' \in [Attempts -> AttemptRecords]
      /\ attempt'[a] = [attempt[a] EXCEPT !.status = "FAILED"]
      /\ \A b \in Attempts \ {a} : attempt'[b] = attempt[b]
  BY <1>2, <1>t, FailedType
<1>4. /\ attempt'[a].status = "FAILED" /\ attempt'[a].of = q
      /\ attempt'[a].share = attempt[a].share /\ attempt'[a].channel = attempt[a].channel
  BY <1>3, <1>t DEF TypeOK, AttemptRecords
<1>5. /\ req' \in [Attempts -> RequestRecords]
      /\ req'[a].step = "ended" /\ req'[a].paid = 0
      /\ \A b \in Attempts \ {a} : req'[b] = req[b]
  BY <1>2, <1>t, RequestType, RequestRow
<1>6. /\ part' \in [Splits \X Parts -> PartRecords]
      /\ \A p \in AllParts : /\ part'[p].paid = part[p].paid
                             /\ part'[p].allocated = part[p].allocated
                             /\ part'[p].status \in {part[p].status, "FAILED"}
  <2>1. CASE RedirectNotCreated(a)
    BY <1>t, <2>1 DEF RedirectNotCreated, SplitRows, TypeOK
  <2>2. CASE RejectPart(a)
    <3>1. part' = [part EXCEPT ![q].status = "FAILED"]
      BY <1>1, <2>2 DEF RejectPart, Unresolved
    <3> QED
      BY <1>1, <1>t, <3>1, FailedPartType
  <2>3. CASE FailRedirect(a)
    <3>1. part' = [part EXCEPT ![q].status = IF @ = "PAID" THEN @ ELSE "FAILED"]
      BY <2>3 DEF FailRedirect
    <3> QED
      BY <1>1, <1>t, <3>1, FailedPartType
  <2> QED
    BY <2>1, <2>2, <2>3
<1> HIDE DEF q
<1>7. TypeOK'
  BY <1>2, <1>3, <1>5, <1>6, <1>t DEF TypeOK
<1>8. \A p \in AllParts : Recorded(p)' = Recorded(p)
  <2>1. \A b \in Attempts : /\ attempt'[b].of = attempt[b].of
                            /\ attempt'[b].status = "SUCCEEDED" <=> attempt[b].status = "SUCCEEDED"
    BY <1>1, <1>3, <1>4 DEF q
  <2> QED
    BY <1>2, <2>1 DEF Recorded
<1>9. \A p \in AllParts : PartInv(p)'
  <2> SUFFICES ASSUME NEW p \in AllParts PROVE PartInv(p)'
    OBVIOUS
  <2>1. PartInv(p)
    BY DEF Inv
  <2> QED
    BY <1>2, <1>6, <1>8, <2>1 DEF PartInv
<1>10. AttemptInv(a)'
  BY <1>1, <1>2, <1>4, <1>5, <1>6, <1>t DEF AttemptInv, At, PartOf, Embedded, q
<1>11. \A b \in Attempts \ {a} : AttemptInv(b)'
  <2> SUFFICES ASSUME NEW b \in Attempts \ {a} PROVE AttemptInv(b)'
    OBVIOUS
  <2>1. AttemptInv(b)
    BY DEF Inv
  <2>2. attempt[b].status # "NONE" => attempt[b].of \in AllParts /\ split[attempt[b].of[1]] # "NONE"
    BY <2>1 DEF AttemptInv
  <2> QED
    BY <1>2, <1>3, <1>5, <1>6, <2>1, <2>2, AttemptUntouched
<1>12. OneClaim' /\ OneCardPayment'
  <2>1. OneClaim'
    BY <1>3, <1>5 DEF Inv, OneClaim, At
  <2>2. OneCardPayment'
    <3>1. \A b \in Attempts : attempt'[b].status = "SUCCEEDED" => attempt'[b] = attempt[b]
      BY <1>3, <1>4
    <3>2. OneCardPayment
      BY DEF Inv
    <3> QED
      BY <1>2, <3>1, <3>2 DEF OneCardPayment, Embedded
  <2> QED
    BY <2>1, <2>2
<1>13. SplitFollowsParts'
  <2>1. \A s \in Splits, i \in Parts :
           /\ part'[<<s, i>>].paid = part[<<s, i>>].paid
           /\ part'[<<s, i>>].allocated = part[<<s, i>>].allocated
           /\ part'[<<s, i>>].status = "PAID" => part[<<s, i>>].status = "PAID"
    BY <1>6 DEF AllParts
  <2> QED
    BY <1>2, <2>1 DEF Inv, SplitFollowsParts
<1>14. PartsKept
  BY <1>2, <1>6 DEF PartsKept
<1> QED
  BY <1>7, <1>9, <1>10, <1>11, <1>12, <1>13, <1>14 DEF Inv

-----------------------------------------------------------------------------
(* Payments are recorded                                                   *)

\* A payment pays what its part was allocated, or more when redirects overlap.
LEMMA RecordStep ==
    ASSUME Inv, NEW a \in Attempts, attempt[a].status = "PENDING", ~notice[a].open,
           NEW paid \in Nat, paid >= PartOf(a).allocated,
           Record(a, WithPaid(PartOf(a), paid)),
           Embedded(a) => PartOf(a).paid = 0,
           \A b \in Attempts \ {a} : At(b, "claimed") => attempt[b].of # attempt[a].of
    PROVE  Inv' /\ PartsKept
<1>t. TypeOK /\ AttemptInv(a)
  BY DEF Inv
<1> DEFINE q == attempt[a].of
           updated == WithPaid(PartOf(a), paid)
<1>1. q \in AllParts /\ split[q[1]] # "NONE" /\ PartOf(a) = part[q] /\ q[1] \in Splits
  BY <1>t DEF AttemptInv, PartOf, AllParts
<1>2. part[q] \in PartRecords /\ part[q].allocated > 0
  BY <1>1, <1>t DEF TypeOK, AllParts, Inv, PartInv
<1>3. /\ updated \in PartRecords /\ updated.paid = paid
      /\ updated.allocated = part[q].allocated /\ updated.status = "PAID" /\ paid > 0
  <2>1. paid > 0
    BY <1>1, <1>2 DEF PartRecords
  <2>2. updated = WithPaid(part[q], paid) /\ paid >= part[q].allocated
    BY <1>1
  <2> HIDE DEF updated
  <2> QED
    BY <1>2, <2>1, <2>2, WithPaidType
<1>4. Record(a, updated)
  OBVIOUS
<1> HIDE DEF updated
<1>5. TypeOK'
  BY <1>1, <1>3, <1>4, <1>t, RecordType
<1>6. /\ attempt'[a].status = "SUCCEEDED" /\ attempt'[a].of = q
      /\ attempt'[a].share = attempt[a].share /\ attempt'[a].channel = attempt[a].channel
      /\ \A b \in Attempts \ {a} : attempt'[b] = attempt[b]
      /\ notice' = notice /\ unapplied' = unapplied /\ a \notin unapplied
  BY <1>4, <1>t DEF Record, TypeOK, AttemptRecords, AttemptInv
<1>7. /\ req'[a].step = "ended" /\ req'[a].paid = 0
      /\ \A b \in Attempts \ {a} : req'[b] = req[b]
  BY <1>4, <1>t, RequestRow DEF Record
<1>8. part'[q] = updated /\ \A p \in AllParts \ {q} : part'[p] = part[p]
  BY <1>1, <1>4, <1>t DEF Record, TypeOK, AllParts
<1>9. /\ split'[q[1]] = UpdatedSplitStatus(q[1], part')
      /\ \A s \in Splits \ {q[1]} : split'[s] = split[s]
  BY <1>1, <1>4, <1>t DEF Record, TypeOK
<1>10. \A s, parts : UpdatedSplitStatus(s, parts) # "NONE"
                     /\ (UpdatedSplitStatus(s, parts) = "PAID" <=>
                             \A i \in Parts : parts[<<s, i>>].status = "PAID")
  BY DEF UpdatedSplitStatus
<1>11. \A p \in AllParts \ {q} : Recorded(p)' = Recorded(p)
  BY <1>6 DEF Recorded
<1> HIDE DEF q
<1>12. \A p \in AllParts : split[p[1]] = "NONE" <=> split'[p[1]] = "NONE"
  BY <1>1, <1>9, <1>10 DEF AllParts
<1>13. \A p \in AllParts : PartInv(p)'
  <2> SUFFICES ASSUME NEW p \in AllParts PROVE PartInv(p)'
    OBVIOUS
  <2>1. PartInv(p)
    BY DEF Inv
  <2>2. CASE p = q
    <3>1. /\ part'[q].paid = paid /\ part'[q].allocated = part[q].allocated
          /\ part'[q].status = "PAID"
      BY <1>3, <1>8
    <3>2. paid > 0 /\ paid >= part[q].allocated /\ part[q].allocated > 0
      BY <1>1, <1>2, <1>3
    <3>3. Recorded(p)' # {}
      BY <1>6, <2>2 DEF Recorded
    <3> QED
      BY <2>2, <3>1, <3>2, <3>3 DEF PartInv
  <2>3. CASE p # q
    BY <1>8, <1>11, <1>12, <2>1, <2>3 DEF PartInv
  <2> QED
    BY <2>2, <2>3
<1>14. AttemptInv(a)'
  BY <1>1, <1>3, <1>6, <1>7, <1>8, <1>12, <1>t DEF AttemptInv, At, PartOf, Embedded
<1>15. \A b \in Attempts \ {a} : AttemptInv(b)'
  <2> SUFFICES ASSUME NEW b \in Attempts \ {a} PROVE AttemptInv(b)'
    OBVIOUS
  <2>1. AttemptInv(b)
    BY DEF Inv
  <2>2. attempt[b].status # "NONE" => attempt[b].of \in AllParts /\ split[attempt[b].of[1]] # "NONE"
    BY <2>1 DEF AttemptInv
  <2>3. At(b, "claimed") => attempt[b].of # q
    BY DEF q
  <2> QED
    BY <1>3, <1>6, <1>7, <1>8, <1>12, <2>1, <2>2, <2>3, AttemptUntouched
<1>16. OneClaim'
  BY <1>6, <1>7 DEF Inv, OneClaim, At
<1>17. OneCardPayment'
  <2>1. Embedded(a) => Recorded(q) = {}
    BY <1>1 DEF Inv, PartInv
  <2>2. Embedded(a) => \A b \in Attempts \ unapplied : attempt[b].status = "SUCCEEDED" => attempt[b].of # q
    BY <2>1 DEF Recorded
  <2> QED
    BY <1>6, <2>2 DEF Inv, OneCardPayment, Embedded
<1>18. SplitFollowsParts'
  <2> SUFFICES ASSUME NEW s \in Splits
               PROVE  /\ split'[s] # "NONE" /\ (\A i \in Parts : part'[<<s, i>>].status = "PAID")
                             => split'[s] = "PAID"
                      /\ split'[s] = "PAID" =>
                             \A i \in Parts : part'[<<s, i>>].paid >= part'[<<s, i>>].allocated
    BY DEF SplitFollowsParts
  <2>1. CASE s = q[1]
    <3>1. split'[s] = "PAID" <=> \A i \in Parts : part'[<<s, i>>].status = "PAID"
      BY <1>9, <1>10, <2>1
    <3>2. \A i \in Parts : part'[<<s, i>>].status = "PAID"
                              => part'[<<s, i>>].paid >= part'[<<s, i>>].allocated
      BY <1>13 DEF PartInv, AllParts
    <3> QED
      BY <3>1, <3>2
  <2>2. CASE s # q[1]
    <3>1. split'[s] = split[s] /\ \A i \in Parts : part'[<<s, i>>] = part[<<s, i>>]
      BY <1>8, <1>9, <2>2 DEF AllParts
    <3> QED
      BY <3>1 DEF Inv, SplitFollowsParts
  <2> QED
    BY <2>1, <2>2
<1>19. PartsKept
  <2>1. \A s \in Splits : split'[s] = "NONE" <=> split[s] = "NONE"
    BY <1>1, <1>9, <1>10
  <2> QED
    BY <1>3, <1>8, <2>1 DEF PartsKept
<1> QED
  BY <1>5, <1>13, <1>14, <1>15, <1>16, <1>17, <1>18, <1>19 DEF Inv

LEMMA CommitStep ==
    ASSUME Inv, NEW a \in Attempts, CommitPart(a) \/ UpdatePart(a)
    PROVE  Inv' /\ PartsKept
<1>t. TypeOK /\ AttemptInv(a)
  BY DEF Inv
<1>1. CASE CommitPart(a) /\ UNCHANGED <<BillRows, SplitRows, attempt, creator, raced, NoticeSide>>
  <2>1. PartsKept
    BY <1>1 DEF PartsKept, SplitRows
  <2> QED
    BY <1>1, <2>1, WaitStep
<1>2. CASE At(a, "claimed") /\ Record(a, WithPaid(PartOf(a), req[a].paid + attempt[a].share))
  <2>1. /\ attempt[a].status = "PENDING" /\ Embedded(a) /\ req[a].paid = 0
        /\ PartOf(a).paid = 0 /\ attempt[a].share = PartOf(a).allocated /\ ~notice[a].open
    BY <1>2, <1>t DEF At, AttemptInv, Awaits
  <2>2. attempt[a].share \in Nat /\ req[a].paid + attempt[a].share = attempt[a].share
    BY <1>t, <2>1 DEF TypeOK, AttemptRecords
  <2>3. \A b \in Attempts \ {a} : At(b, "claimed") => attempt[b].of # attempt[a].of
    BY <1>2 DEF Inv, OneClaim
  <2>4. attempt[a].share >= PartOf(a).allocated
    BY <2>1, <2>2
  <2> QED
    BY <1>2, <2>1, <2>2, <2>3, <2>4, RecordStep
<1>3. CASE UpdatePart(a)
  <2>1. /\ attempt[a].status = "PENDING" /\ ~Embedded(a)
        /\ attempt[a].share = PartOf(a).allocated /\ ~notice[a].open
    BY <1>3, <1>t DEF UpdatePart, At, AttemptInv, Awaits
  <2>2. req[a].paid \in Nat /\ attempt[a].share \in Nat /\ attempt[a].tip \in Nat
    BY <1>t DEF TypeOK, RequestRecords, AttemptRecords
  <2>3. ConfirmedShare(a) = attempt[a].share
    BY <2>2 DEF ConfirmedShare, Amount
  <2>4. /\ req[a].paid + ConfirmedShare(a) \in Nat
        /\ req[a].paid + ConfirmedShare(a) >= PartOf(a).allocated
    BY <2>1, <2>2, <2>3
  <2>5. \A b \in Attempts \ {a} : At(b, "claimed") => attempt[b].of # attempt[a].of
    BY <1>3 DEF UpdatePart, PartLocked
  <2>6. Record(a, WithPaid(PartOf(a), req[a].paid + ConfirmedShare(a)))
    BY <1>3 DEF UpdatePart
  <2> QED
    BY <2>1, <2>4, <2>5, <2>6, RecordStep
<1> QED
  BY <1>1, <1>2, <1>3 DEF CommitPart

-----------------------------------------------------------------------------
(* Notifications                                                           *)

\* A notification that resolves an attempt leaves the parts alone.
LEMMA NoticeStep ==
    ASSUME Inv, NEW a \in Attempts, Notify(a)
    PROVE  Inv'
<1> USE DEF BillRows, SplitRows
<1>t. TypeOK /\ AttemptInv(a)
  BY DEF Inv
<1>u. UNCHANGED <<split, part, req, creator, other, raced>>
  BY DEF Notify, NoticeRead, NoticeCommit, NoticeFails, NoticeDies
<1>1. /\ notice' \in [Attempts -> NoticeRecords]
      /\ \A b \in Attempts \ {a} : notice'[b] = notice[b]
      /\ notice'[a].open => NoticeRead(a)
  <2>1. NoNotice \in NoticeRecords /\ [open |-> TRUE, bill |-> bill] \in NoticeRecords
    BY <1>t, EmptyBillType DEF NoNotice, NoticeRecords, TypeOK
  <2>2. /\ NoticeRead(a) => notice' = [notice EXCEPT ![a] = [open |-> TRUE, bill |-> bill]]
        /\ NoticeCommit(a) \/ NoticeDies(a) => notice' = [notice EXCEPT ![a] = NoNotice]
        /\ NoticeFails(a) => notice' = notice /\ ~notice[a].open
    BY DEF NoticeRead, NoticeCommit, NoticeDies, NoticeFails
  <2>3. ~NoNotice.open
    BY DEF NoNotice
  <2> QED
    BY <1>t, <2>1, <2>2, <2>3 DEF Notify, TypeOK
<1>2. CASE UNCHANGED <<bill, attempt, unapplied, overwritten>>
  <2>1. notice'[a].open => Embedded(a) /\ attempt[a].status = "PENDING" /\ ~At(a, "claimed")
    BY <1>1 DEF NoticeRead, Unresolved
  <2>2. AttemptInv(a)'
    BY <1>2, <1>t, <1>u, <2>1 DEF AttemptInv, Awaits, Embedded, At, PartOf
  <2>3. \A b \in Attempts \ {a} : AttemptInv(b)'
    BY <1>1, <1>2, <1>u, AttemptUntouched DEF Inv, AttemptInv
  <2>4. OneClaim'
    BY <1>2, <1>u DEF Inv, OneClaim, At
  <2>5. TypeOK'
    BY <1>1, <1>2, <1>t, <1>u DEF TypeOK
  <2> QED
    BY <1>2, <1>u, <2>2, <2>3, <2>4, <2>5, RowsUntouched DEF Inv
<1>3. ASSUME NEW status \in {"SUCCEEDED", "FAILED"},
             attempt' = [attempt EXCEPT ![a].status = status],
             unapplied' = IF status = "SUCCEEDED" THEN unapplied \cup {a} ELSE unapplied,
             bill' \in Bills, overwritten' \in BOOLEAN,
             attempt[a].status = "PENDING", Embedded(a), ~At(a, "claimed"), ~notice'[a].open
      PROVE  Inv'
  <2> DEFINE record == [attempt[a] EXCEPT !.status = status]
  <2>1. /\ record \in AttemptRecords /\ record.status = status
        /\ record.of = attempt[a].of /\ record.share = attempt[a].share
        /\ record.channel = attempt[a].channel
    <3>1. attempt[a] \in AttemptRecords
      BY <1>t DEF TypeOK
    <3>2. status \in {"NONE", "PENDING", "SUCCEEDED", "FAILED"}
      OBVIOUS
    <3> QED
      BY <3>1, <3>2 DEF AttemptRecords
  <2>2. attempt' = [attempt EXCEPT ![a] = record]
    BY <1>3
  <2> HIDE DEF record
  <2>3. /\ attempt' \in [Attempts -> AttemptRecords] /\ attempt'[a] = record
        /\ \A b \in Attempts \ {a} : attempt'[b] = attempt[b]
    BY <1>t, <2>1, <2>2 DEF TypeOK
  <2>4. TypeOK'
    BY <1>1, <1>3, <1>t, <1>u, <2>3 DEF TypeOK
  <2>5. \A p : Recorded(p)' = Recorded(p)
    BY <1>3, <2>1, <2>3 DEF Recorded
  <2>6. \A p \in AllParts : PartInv(p)'
    BY <1>u, <2>5 DEF Inv, PartInv
  <2>7. AttemptInv(a)'
    <3>1. /\ attempt'[a].of = attempt[a].of /\ attempt'[a].share = attempt[a].share
          /\ attempt'[a].channel = attempt[a].channel /\ attempt'[a].status = status
          /\ status # "NONE"
      BY <2>1, <2>3
    <3>2. a \in unapplied' => status = "SUCCEEDED"
      BY <1>3, <1>t DEF AttemptInv
    <3>3. /\ Embedded(a)' /\ req'[a] = req[a] /\ req[a].step # "claimed"
          /\ req[a].step \notin {"away", "read", "billed"} /\ req[a].step # "none"
          /\ req[a].paid = 0
      BY <1>3, <1>t, <1>u, <3>1 DEF Embedded, At, AttemptInv
    <3>4. /\ attempt[a].of \in AllParts /\ split'[attempt[a].of[1]] # "NONE"
          /\ attempt[a].share = part'[attempt[a].of].allocated
      BY <1>3, <1>t, <1>u DEF AttemptInv, PartOf
    <3>5. req[a].step \in {"charging", "approved", "rejected", "ended"}
      BY <1>t, <3>3 DEF TypeOK, RequestRecords, RequestSteps
    <3> QED
      BY <1>3, <3>1, <3>2, <3>3, <3>4, <3>5 DEF AttemptInv, Awaits, At, PartOf
  <2>8. \A b \in Attempts \ {a} : AttemptInv(b)'
    <3>1. \A b \in Attempts \ {a} : b \in unapplied' <=> b \in unapplied
      BY <1>3
    <3> QED
      BY <1>1, <1>u, <2>3, <3>1, AttemptUntouched DEF Inv, AttemptInv
  <2>9. OneClaim'
    BY <1>u, <2>1, <2>3 DEF Inv, OneClaim, At
  <2>10. OneCardPayment'
    BY <1>3, <2>1, <2>3 DEF Inv, OneCardPayment, Embedded
  <2>11. SplitFollowsParts'
    BY <1>u DEF Inv, SplitFollowsParts
  <2> QED
    BY <2>4, <2>6, <2>7, <2>8, <2>9, <2>10, <2>11 DEF Inv
<1>4. CASE NoticeCommit(a) /\ ~UNCHANGED <<bill, attempt, unapplied, overwritten>>
  <2>1. /\ attempt' = [attempt EXCEPT ![a].status = "SUCCEEDED"]
        /\ unapplied' = unapplied \cup {a}
        /\ bill' = ApplyPayment(bill, notice[a].bill, Amount(a), 0)
        /\ overwritten' = (overwritten \/ AmountsDiffer(notice[a].bill, bill))
        /\ notice[a].open
    BY <1>4 DEF NoticeCommit
  <2>2. bill \in Bills /\ notice[a].bill \in Bills /\ Amount(a) \in Int
    <3>1. notice[a] \in NoticeRecords /\ attempt[a] \in AttemptRecords /\ bill \in Bills
      BY <1>t DEF TypeOK
    <3> QED
      BY <3>1 DEF NoticeRecords, AttemptRecords, Amount
  <2>3. bill' \in Bills
    <3>1. 0 \in Int
      OBVIOUS
    <3>2. ApplyPayment(bill, notice[a].bill, Amount(a), 0) \in Bills
      BY <2>2, <3>1, BillRewriteType
    <3> QED
      BY <2>1, <3>2
  <2>4. overwritten' \in BOOLEAN
    BY <2>1, <1>t DEF TypeOK
  <2>5. attempt[a].status = "PENDING" /\ Embedded(a) /\ ~At(a, "claimed")
    BY <1>t, <2>1 DEF AttemptInv
  <2>6. ~notice'[a].open
    BY <1>4, <1>t DEF NoticeCommit, NoNotice, TypeOK
  <2> QED
    BY <1>3, <2>1, <2>3, <2>4, <2>5, <2>6
<1>5. CASE NoticeFails(a)
  <2>1. /\ attempt' = [attempt EXCEPT ![a].status = "FAILED"] /\ unapplied' = unapplied
        /\ bill' = bill /\ overwritten' = overwritten
        /\ attempt[a].status = "PENDING" /\ Embedded(a) /\ ~At(a, "claimed")
        /\ ~notice'[a].open
    BY <1>5 DEF NoticeFails, Unresolved
  <2>2. bill' \in Bills /\ overwritten' \in BOOLEAN
    BY <1>t, <2>1 DEF TypeOK
  <2> QED
    BY <1>3, <2>1, <2>2
<1>6. CASE NoticeRead(a) \/ NoticeDies(a)
  BY <1>2, <1>6 DEF NoticeRead, NoticeDies
<1> QED
  BY <1>2, <1>4, <1>5, <1>6 DEF Notify

LEMMA InvStep == Inv /\ [Next]_vars => Inv'
<1> SUFFICES ASSUME Inv, [Next]_vars
             PROVE  Inv'
  OBVIOUS
<1>1. ASSUME NEW a \in Attempts, Open(a)
      PROVE  Inv'
  <2>1. PICK p \in AllParts, tip \in Tips : PayPart(a, p, tip) \/ StartRedirect(a, p, tip)
    BY <1>1 DEF Open, AllParts
  <2> QED
    BY <2>1, OpenStep DEF PayPart, StartRedirect
<1>2. ASSUME NEW a \in Attempts, Work(a)
      PROVE  Inv'
  BY <1>2, WaitStep, FailStep, CommitStep DEF Work
<1>n. ASSUME NEW a \in Attempts, Notify(a)
      PROVE  Inv'
  BY <1>n, NoticeStep
<1>3. CASE UNCHANGED vars
  <2>1. TypeOK'
    BY <1>3 DEF vars, Inv, TypeOK
  <2>2. (\A a \in Attempts : AttemptInv(a)') /\ OneClaim'
    BY <1>3 DEF vars, Inv, AttemptInv, Awaits, OneClaim, At, Embedded, PartOf
  <2> QED
    BY <1>3, <2>1, <2>2, RowsUntouched DEF vars, Inv
<1> QED
  BY <1>1, <1>2, <1>n, <1>3, InvCreator, VictimStep, OtherStep DEF Next

\* The invariant holds in every state: what a request that awaits relies on stays true.
THEOREM Invariance == Spec => []Inv
BY InvInit, InvStep, PTL DEF Spec

-----------------------------------------------------------------------------
(* What follows                                                            *)

\* Types, in every state the program can reach.
THEOREM SplitTypes == Spec => []TypeOK
<1>1. Inv => TypeOK
  BY DEF Inv
<1> QED
  BY <1>1, Invariance, PTL

\* Whoever pays the last part closes the split, and nobody closes it sooner.
THEOREM SplitsClose == Spec => []SplitFollowsParts
<1>1. Inv => SplitFollowsParts
  BY DEF Inv
<1> QED
  BY <1>1, Invariance, PTL

\* A part has something paid exactly when a payment names it, and then all: what a
\* notification credits to the bill pays nothing of any part.
THEOREM PartsArePaidInFull == Spec => []PartPaidInFull
<1>1. Inv => PartPaidInFull
  BY DEF Inv, PartInv, PartPaidInFull, AllParts
<1> QED
  BY <1>1, Invariance, PTL

\* One card payment at most names a part, however many cards were charged for it and
\* whatever the notifications of the charges resolve meanwhile.
THEOREM CardPaysPartOnce == Spec => []EmbeddedPaysPartOnce
<1>1. ASSUME Inv, NEW p \in AllParts
      PROVE  Cardinality({a \in Recorded(p) : Embedded(a)}) <= 1
  <2> DEFINE paying == {a \in Recorded(p) : Embedded(a)}
  <2>1. CASE paying = {}
    BY <2>1, FS_EmptySet
  <2>2. CASE paying # {}
    <3>1. PICK a \in paying : paying = {a}
      BY <1>1, <2>2 DEF Inv, OneCardPayment, Recorded
    <3> QED
      BY <3>1, FS_Singleton
  <2> QED
    BY <2>1, <2>2
<1>2. Inv => EmbeddedPaysPartOnce
  BY <1>1 DEF EmbeddedPaysPartOnce, AllParts
<1> QED
  BY <1>2, Invariance, PTL

-----------------------------------------------------------------------------
(* One active split                                                        *)

\* A split that somebody still has to pay a part of.
Unpaid(s) ==
    /\ split[s] # "NONE"
    /\ \E i \in Parts : part[<<s, i>>].paid < part[<<s, i>>].allocated

\* Unless creations overlapped there is one, and none once a creator has checked.
OneUnpaid ==
    ~raced => /\ \A s, t \in Splits : Unpaid(s) /\ Unpaid(t) => s = t
              /\ \A c \in Creators :
                     creator[c].step = "checked" => \A s \in Splits : ~Unpaid(s)

LEMMA ActiveIsUnpaid ==
    ASSUME Inv, NEW s \in Splits, Active(s),
           \A p \in AllParts : part[p].status = "FAILED" => part[p].paid < part[p].allocated
    PROVE  Unpaid(s)
<1> SUFFICES ASSUME \A i \in Parts : ~(part[<<s, i>>].paid < part[<<s, i>>].allocated)
             PROVE  FALSE
  BY DEF Unpaid, Active, ActiveSplitStatuses
<1>1. ASSUME NEW i \in Parts
      PROVE  part[<<s, i>>].status = "PAID"
  <2> DEFINE p == <<s, i>>
  <2>1. p \in AllParts /\ p[1] = s
    BY DEF AllParts
  <2>2. PartInv(p) /\ part[p] \in PartRecords
    BY <2>1 DEF Inv, TypeOK, AllParts
  <2>3. split[p[1]] # "NONE"
    BY <2>1 DEF Active, ActiveSplitStatuses
  <2>4. part[p].paid > 0 /\ part[p].status # "FAILED"
    BY <2>1, <2>2, <2>3 DEF PartInv, PartRecords
  <2> QED
    BY <2>2, <2>4 DEF PartInv, PartRecords, PartStatuses
<1> QED
  BY <1>1 DEF Inv, SplitFollowsParts, Active, ActiveSplitStatuses

\* A split that is not active has nothing left to pay.
LEMMA UnpaidIsActive == ASSUME Inv, NEW s \in Splits, Unpaid(s) PROVE Active(s)
<1>1. split[s] # "PAID"
  <2> SUFFICES ASSUME split[s] = "PAID"
               PROVE  FALSE
    OBVIOUS
  <2>1. PICK i \in Parts : part[<<s, i>>].paid < part[<<s, i>>].allocated
    BY DEF Unpaid
  <2>2. part[<<s, i>>].paid >= part[<<s, i>>].allocated
    BY DEF Inv, SplitFollowsParts
  <2>3. part[<<s, i>>].paid \in Nat /\ part[<<s, i>>].allocated \in Nat
    BY DEF Inv, TypeOK, PartRecords
  <2> QED
    BY <2>1, <2>2, <2>3
<1> QED
  BY <1>1 DEF Inv, TypeOK, Unpaid, SplitStatuses, Active, ActiveSplitStatuses

LEMMA UnpaidInit == Init => OneUnpaid
BY DEF Init, OneUnpaid, Unpaid, IdleCreator

LEMMA KeptStep ==
    ASSUME Inv, Inv', OneUnpaid, PartsKept, UNCHANGED raced,
           \A c \in Creators : creator'[c].step = "checked" => creator[c].step = "checked"
    PROVE  OneUnpaid'
<1>1. ASSUME NEW s \in Splits, split'[s] # "NONE",
             NEW i \in Parts, part'[<<s, i>>].paid < part'[<<s, i>>].allocated
      PROVE  Unpaid(s)
  <2>1. <<s, i>> \in AllParts
    BY DEF AllParts
  <2>2. /\ part'[<<s, i>>].paid > 0 => part'[<<s, i>>].paid >= part'[<<s, i>>].allocated
        /\ part'[<<s, i>>].paid \in Nat /\ part'[<<s, i>>].allocated \in Nat
    BY <2>1 DEF Inv, PartInv, TypeOK, PartRecords, AllParts
  <2>3. part[<<s, i>>].paid < part[<<s, i>>].allocated /\ split[s] # "NONE"
    BY <1>1, <2>1, <2>2 DEF PartsKept
  <2> QED
    BY <2>3 DEF Unpaid
<1>2. ASSUME NEW s \in Splits, Unpaid(s)'
      PROVE  Unpaid(s)
  BY <1>1, <1>2 DEF Unpaid
<1> QED
  BY <1>2 DEF OneUnpaid

LEMMA CheckStep ==
    ASSUME Inv, OneUnpaid, NEW c \in Creators, CheckNoSplit(c)
    PROVE  OneUnpaid'
<1>1. UNCHANGED <<split, part, raced>>
  BY DEF CheckNoSplit, SplitRows
<1>2. \A d \in Creators \ {c} : creator'[d] = creator[d]
  BY DEF CheckNoSplit, Inv, TypeOK
<1>3. creator'[c].step = "checked" => \A s \in Splits : ~Unpaid(s)
  <2>1. CASE \E s \in Splits : Active(s)
    BY <2>1 DEF CheckNoSplit, Inv, TypeOK, IdleCreator
  <2>2. CASE ~\E s \in Splits : Active(s)
    BY <2>2, UnpaidIsActive
  <2> QED
    BY <2>1, <2>2
<1> QED
  BY <1>1, <1>2, <1>3 DEF OneUnpaid, Unpaid

LEMMA CreateOne ==
    ASSUME Inv, OneUnpaid, NEW c \in Creators, NEW s \in Splits,
           NEW amounts \in [Parts -> 1..creator[c].bill.remaining], CreateSplit(c, s, amounts)
    PROVE  OneUnpaid'
<1> SUFFICES ASSUME ~raced'
             PROVE  OneUnpaid'
  BY DEF OneUnpaid
<1>1. /\ ~raced /\ creator[c].step = "checked"
      /\ \A d \in Creators \ {c} : creator[d].step # "checked"
  BY DEF CreateSplit
<1>2. \A t \in Splits : ~Unpaid(t)
  BY <1>1 DEF OneUnpaid
<1>3. \A d \in Creators : creator'[d].step # "checked"
  BY <1>1 DEF CreateSplit, Inv, TypeOK, IdleCreator
<1>4. \A t \in Splits \ {s} : /\ split'[t] = split[t]
                              /\ \A i \in Parts : part'[<<t, i>>] = part[<<t, i>>]
  BY DEF CreateSplit, Inv, TypeOK
<1>5. \A t \in Splits \ {s} : ~Unpaid(t)'
  BY <1>2, <1>4 DEF Unpaid
<1> QED
  BY <1>3, <1>5 DEF OneUnpaid

LEMMA UnpaidStep == Inv /\ Inv' /\ OneUnpaid /\ [Next]_vars => OneUnpaid'
<1> SUFFICES ASSUME Inv, Inv', OneUnpaid, [Next]_vars
             PROVE  OneUnpaid'
  OBVIOUS
<1> USE DEF BillRows, SplitRows
<1>1. ASSUME UNCHANGED <<split, part, raced>>,
             \A c \in Creators : creator'[c].step = "checked" => creator[c].step = "checked"
      PROVE  OneUnpaid'
  <2>1. PartsKept
    BY <1>1 DEF PartsKept
  <2> QED
    BY <1>1, <2>1, KeptStep
<1>2. ASSUME NEW c \in Creators, CreatorStep(c)
      PROVE  OneUnpaid'
  <2>1. CASE LoadBill(c)
    <3>1. creator'[c].step = "loaded" /\ \A d \in Creators \ {c} : creator'[d] = creator[d]
      BY <2>1 DEF LoadBill, Inv, TypeOK
    <3> QED
      BY <1>1, <2>1, <3>1 DEF LoadBill
  <2> QED
    BY <1>2, <2>1, CheckStep, CreateOne DEF CreatorStep
<1>3. ASSUME NEW a \in Attempts, Open(a)
      PROVE  OneUnpaid'
  BY <1>1, <1>3 DEF Open, PayPart, StartRedirect, OpenAttempt
<1>4. ASSUME NEW a \in Attempts, Work(a)
      PROVE  OneUnpaid'
  <2>1. UNCHANGED <<creator, raced>>
    BY <1>4 DEF Work, RedirectNotCreated, Answered, RejectPart, ClaimPart, CommitPart,
                FailRedirect, ReadPart, UpdateBill, UpdatePart, Crash, Record
  <2>2. CASE RedirectNotCreated(a) \/ (RejectPart(a) /\ Unresolved(a)) \/ FailRedirect(a)
    BY <2>1, <2>2, FailStep, KeptStep
  <2>3. CASE CommitPart(a) \/ UpdatePart(a)
    BY <2>1, <2>3, CommitStep, KeptStep
  <2>4. CASE \/ Answered(a) \/ (RejectPart(a) /\ ~Unresolved(a)) \/ ClaimPart(a)
             \/ ReadPart(a) \/ UpdateBill(a) \/ Crash(a)
    BY <1>1, <2>1, <2>4 DEF Answered, RejectPart, ClaimPart, ReadPart, UpdateBill, Crash
  <2> QED
    BY <1>4, <2>2, <2>3, <2>4 DEF Work
<1>5. ASSUME NEW a \in Attempts, NEW b \in Attempts, DeadlockVictim(a, b)
      PROVE  OneUnpaid'
  BY <1>1, <1>5 DEF DeadlockVictim
<1>6. CASE ChargeOther \/ PayOther
  BY <1>1, <1>6 DEF ChargeOther, PayOther, OtherTraffic
<1>7. CASE UNCHANGED vars
  BY <1>1, <1>7 DEF vars
<1>8. ASSUME NEW a \in Attempts, Notify(a)
      PROVE  OneUnpaid'
  BY <1>1, <1>8 DEF Notify, NoticeRead, NoticeCommit, NoticeFails, NoticeDies
<1> QED
  BY <1>2, <1>3, <1>4, <1>5, <1>6, <1>7, <1>8 DEF Next

\* A bill has one active split, unless two requests created theirs at the same time or
\* a late rejection undid the status of a part that was paid.
THEOREM OneActive == Spec => []OneActiveSplit
<1>1. Inv /\ OneUnpaid => OneActiveSplit
  <2> SUFFICES ASSUME Inv, OneUnpaid, NEW s \in Splits, NEW t \in Splits, s # t,
                      Active(s), Active(t), ~raced,
                      \A p \in AllParts :
                          ~(part[p].status = "FAILED" /\ part[p].paid >= part[p].allocated)
               PROVE  FALSE
    BY DEF OneActiveSplit, AllParts
  <2>1. \A p \in AllParts : part[p].status = "FAILED" => part[p].paid < part[p].allocated
    BY DEF Inv, TypeOK, AllParts, PartRecords
  <2>2. Unpaid(s) /\ Unpaid(t)
    BY <2>1, ActiveIsUnpaid
  <2> QED
    BY <2>2 DEF OneUnpaid
<1> QED
  BY <1>1, UnpaidInit, UnpaidStep, Invariance, PTL DEF Spec

-----------------------------------------------------------------------------
(* What the parts still have to pay                                        *)

Count(p) == Cardinality(Recorded(p))

\* Nothing that excuses the books has happened.
Undisturbed == other = 0 /\ ~overwritten /\ ~raced

\* What each part still has to pay when every payment recorded for it counts, also one
\* whose update of the part another payment's lost.
LeftOf(s) == [i \in Parts |-> part[<<s, i>>].allocated * (1 - Count(<<s, i>>))]

PaidAsRecorded ==
    /\ \A p \in AllParts : /\ IsFiniteSet(Recorded(p))
                           /\ Count(p) = 1 => part[p].paid = part[p].allocated
    /\ \A a \in Attempts : req[a].paid > 0 => Recorded(attempt[a].of) # {}

\* What the notifications credited to the bill.
AttemptAmounts == [a \in Attempts |-> Amount(a)]
Credited == SumFunctionOnSet(AttemptAmounts, unapplied)

\* The bill has what its only split has, but for what was credited to it alone.  Every
\* payment that names a part lowers both by the same amount: that is what PartsCoverRemaining, which gives up on a part that was paid
\* twice, does not say, and what shows that no second split is created.
SplitCovers ==
    Undisturbed => \A s \in Splits : split[s] # "NONE" =>
        /\ bill.remaining = SumFunctionOnSet(LeftOf(s), Parts) - Credited
        /\ \A t \in Splits : split[t] # "NONE" => s = t

Books ==
    /\ PaidAsRecorded
    /\ IsFiniteSet(unapplied)
    /\ ~overwritten => bill.total = bill.subtotal + bill.tip
    /\ SplitCovers

LEMMA BooksInit == Init => Books
<1> SUFFICES ASSUME Init
             PROVE  Books
  OBVIOUS
<1>1. PaidAsRecorded
  <2>1. \A p \in AllParts : Recorded(p) = {} /\ part[p].paid = 0 /\ part[p].allocated = 0
    BY DEF Init, Recorded, AllParts, NewPart
  <2>2. \A p \in AllParts : IsFiniteSet(Recorded(p))
    <3>1. IsFiniteSet({})
      BY FS_EmptySet
    <3> QED
      BY <2>1, <3>1, Zenon
  <2>3. \A a \in Attempts : req[a].paid = 0
    BY DEF Init
  <2> QED
    BY <2>1, <2>2, <2>3 DEF PaidAsRecorded
<1>2. bill.total = bill.subtotal + bill.tip
  <2>1. EmptyBill.total = EmptyBill.subtotal + EmptyBill.tip /\ Charged \in Int
    BY DEF EmptyBill
  <2>2. ApplyOrderCharge(EmptyBill, EmptyBill, Charged).total =
           ApplyOrderCharge(EmptyBill, EmptyBill, Charged).subtotal
              + ApplyOrderCharge(EmptyBill, EmptyBill, Charged).tip
    BY <2>1, EmptyBillType, ChargeKeepsPaid
  <2> QED
    BY <2>2 DEF Init
<1>3. SplitCovers
  BY DEF Init, SplitCovers
<1>4. IsFiniteSet(unapplied)
  BY FS_EmptySet DEF Init
<1> QED
  BY <1>1, <1>2, <1>3, <1>4 DEF Books

LEMMA AmountsType ==
    ASSUME Inv
    PROVE  /\ unapplied \subseteq Attempts
           /\ \A a \in Attempts : Amount(a) \in Nat /\ AttemptAmounts[a] = Amount(a)
<1>1. \A a \in Attempts : attempt[a].share \in Nat /\ attempt[a].tip \in Nat
  BY DEF Inv, TypeOK, AttemptRecords
<1> QED
  BY <1>1 DEF Inv, TypeOK, Amount, AttemptAmounts

\* What was credited is nothing negative.
LEMMA CreditedType ==
    ASSUME Inv, IsFiniteSet(unapplied)
    PROVE  Credited \in Nat
BY AmountsType, SumNat DEF Credited

\* No attempt that was credited changed what it pays.
LEMMA CreditedKept ==
    ASSUME Inv, IsFiniteSet(unapplied), unapplied' = unapplied,
           \A a \in unapplied : Amount(a)' = Amount(a)
    PROVE  IsFiniteSet(unapplied)' /\ Credited' = Credited
<1> DEFINE f == AttemptAmounts
           g == AttemptAmounts'
<1>1. \A a \in unapplied : a \in Attempts /\ f[a] \in Int /\ f[a] = Amount(a)
  BY AmountsType
<1>2. \A a \in unapplied : g[a] = f[a]
  BY <1>1 DEF AttemptAmounts
<1> HIDE DEF f, g
<1>3. SumFunctionOnSet(g, unapplied) = SumFunctionOnSet(f, unapplied)
  BY <1>2, SumSame
<1> QED
  BY <1>3 DEF Credited, f, g

\* The payments recorded for a part are a natural number.
LEMMA CountType ==
    ASSUME PaidAsRecorded, NEW p \in AllParts
    PROVE  Count(p) \in Nat /\ (Count(p) = 0 <=> Recorded(p) = {})
BY FS_CardinalityType, FS_EmptySet DEF PaidAsRecorded, Count

LEMMA LeftOfType ==
    ASSUME Inv, PaidAsRecorded, NEW s \in Splits
    PROVE  \A i \in Parts : LeftOf(s)[i] \in Int
<1> SUFFICES ASSUME NEW i \in Parts
             PROVE  LeftOf(s)[i] \in Int
  OBVIOUS
<1>1. <<s, i>> \in AllParts
  BY DEF AllParts
<1>2. part[<<s, i>>] \in PartRecords /\ Count(<<s, i>>) \in Nat
  BY <1>1, CountType DEF Inv, TypeOK, AllParts
<1>3. part[<<s, i>>].allocated \in Nat
  BY <1>2 DEF PartRecords
<1>4. \A m, n \in Int : m * n \in Int
  OBVIOUS
<1>5. part[<<s, i>>].allocated \in Int /\ 1 - Count(<<s, i>>) \in Int
  BY <1>2, <1>3
<1>6. part[<<s, i>>].allocated * (1 - Count(<<s, i>>)) \in Int
  BY <1>4, <1>5, Zenon
<1> QED
  BY <1>6 DEF LeftOf

\* A step that records no payment and charges nothing.
RowsRest ==
    /\ UNCHANGED <<bill, split, other, overwritten, raced, unapplied>>
    /\ \A a \in unapplied : Amount(a)' = Amount(a)
    /\ \A p \in AllParts : /\ Recorded(p)' = Recorded(p)
                           /\ part'[p].paid = part[p].paid
                           /\ part'[p].allocated = part[p].allocated
    /\ \A a \in Attempts : req'[a].paid > 0 => Recorded(attempt[a].of)' # {}

LEMMA RestsKeepBooks ==
    ASSUME Inv, Books, RowsRest
    PROVE  Books'
<1>1. \A p \in AllParts : Count(p)' = Count(p) /\ IsFiniteSet(Recorded(p))'
  <2>1. \A p \in AllParts : Recorded(p)' = Recorded(p) /\ IsFiniteSet(Recorded(p))
    BY DEF RowsRest, Books, PaidAsRecorded
  <2> QED
    BY <2>1, Zenon DEF Count
<1>2. PaidAsRecorded'
  <2>1. \A p \in AllParts : Count(p) = 1 => part[p].paid = part[p].allocated
    BY DEF Books, PaidAsRecorded
  <2>2. \A p \in AllParts : Count(p)' = 1 => part'[p].paid = part'[p].allocated
    BY <1>1, <2>1 DEF RowsRest
  <2>3. \A a \in Attempts : req'[a].paid > 0 => Recorded(attempt[a].of)' # {}
    BY DEF RowsRest
  <2> QED
    BY <1>1, <2>2, <2>3 DEF PaidAsRecorded
<1>3. ASSUME NEW s \in Splits
      PROVE  SumFunctionOnSet(LeftOf(s), Parts)' = SumFunctionOnSet(LeftOf(s), Parts)
  <2>1. \A i \in Parts : LeftOf(s)'[i] = LeftOf(s)[i]
    <3> SUFFICES ASSUME NEW i \in Parts
                 PROVE  LeftOf(s)'[i] = LeftOf(s)[i]
      OBVIOUS
    <3>1. <<s, i>> \in AllParts
      BY DEF AllParts
    <3>2. /\ Count(<<s, i>>)' = Count(<<s, i>>)
          /\ part'[<<s, i>>].allocated = part[<<s, i>>].allocated
      BY <1>1, <3>1 DEF RowsRest
    <3> QED
      BY <3>2 DEF LeftOf
  <2> QED
    BY <2>1, SumSame
<1>4. IsFiniteSet(unapplied)' /\ Credited' = Credited
  BY CreditedKept DEF Books, RowsRest
<1>5. SplitCovers'
  BY <1>3, <1>4 DEF Books, SplitCovers, Undisturbed, RowsRest
<1> QED
  BY <1>2, <1>4, <1>5 DEF Books, RowsRest

\* A step of the requests alone: what they read of a part was recorded.
LEMMA RequestsRest ==
    ASSUME Books, UNCHANGED <<bill, split, part, attempt, unapplied, other, overwritten,
                              raced>>,
           \A a \in Attempts : \/ req'[a].paid \in {0, req[a].paid}
                               \/ Recorded(attempt[a].of) # {}
    PROVE  RowsRest
<1>1. \A p : Recorded(p)' = Recorded(p)
  BY DEF Recorded
<1>2. \A a \in Attempts : req'[a].paid > 0 => Recorded(attempt[a].of)' # {}
  <2> SUFFICES ASSUME NEW a \in Attempts, req'[a].paid > 0
               PROVE  Recorded(attempt[a].of)' # {}
    OBVIOUS
  <2>1. Recorded(attempt[a].of) # {}
    BY DEF Books, PaidAsRecorded
  <2> QED
    BY <2>1 DEF Recorded
<1> QED
  BY <1>1, <1>2 DEF RowsRest, Amount

LEMMA WaitRests ==
    ASSUME Inv, Books, NEW a \in Attempts,
           \/ Answered(a) \/ ClaimPart(a) \/ ReadPart(a) \/ UpdateBill(a) \/ Crash(a)
           \/ RejectPart(a) /\ ~Unresolved(a)
           \/ CommitPart(a) /\ UNCHANGED <<BillRows, SplitRows, attempt, creator, raced, NoticeSide>>
           \/ \E b \in Attempts : DeadlockVictim(a, b) \/ DeadlockVictim(b, a)
    PROVE  RowsRest
<1>t. TypeOK /\ \A b \in Attempts : AttemptInv(b)
  BY DEF Inv
<1>1. UNCHANGED <<bill, split, part, attempt, unapplied, other, overwritten, raced>>
  BY DEF Answered, RejectPart, ClaimPart, ReadPart, UpdateBill, Crash, DeadlockVictim, BillRows, SplitRows
<1>2. ASSUME NEW b \in Attempts, (\E step \in RequestSteps : Goto(b, step)) \/ Rest(b) \/ Over(b)
      PROVE  RowsRest
  <2>1. \A c \in Attempts : req'[c].paid \in {0, req[c].paid}
    BY <1>2, <1>t, RequestRow
  <2> QED
    BY <1>1, <2>1, RequestsRest
<1>3. CASE Answered(a) \/ UpdateBill(a) \/ Crash(a) \/ RejectPart(a)
  <2>1. {"approved", "rejected", "billed"} \subseteq RequestSteps
    BY DEF RequestSteps
  <2> QED
    BY <1>2, <1>3, <2>1 DEF Answered, UpdateBill, Crash, RejectPart
<1>4. CASE ClaimPart(a)
  <2>1. Over(a) \/ req' = [req EXCEPT ![a].step = "claimed", ![a].bill = bill]
    BY <1>4 DEF ClaimPart
  <2>2. ASSUME req' = [req EXCEPT ![a].step = "claimed", ![a].bill = bill]
        PROVE  RowsRest
    <3>1. \A c \in Attempts : req[c] \in RequestRecords
      BY <1>t DEF TypeOK
    <3>2. req'[a].paid = req[a].paid /\ \A c \in Attempts \ {a} : req'[c] = req[c]
      BY <1>t, <2>2, <3>1 DEF TypeOK, RequestRecords
    <3> QED
      BY <1>1, <3>2, RequestsRest
  <2> QED
    BY <1>2, <2>1, <2>2
<1>5. CASE ReadPart(a)
  <2>1. /\ req'[a].paid = PartOf(a).paid
        /\ \A c \in Attempts \ {a} : req'[c] = req[c]
    BY <1>5, <1>t DEF ReadPart, TypeOK
  <2>2. attempt[a].of \in AllParts
    BY <1>5, <1>t DEF ReadPart, At, AttemptInv
  <2>3. PartOf(a).paid \in Nat /\ (PartOf(a).paid > 0 => Recorded(attempt[a].of) # {})
    BY <1>t, <2>2 DEF Inv, PartInv, PartOf, TypeOK, PartRecords, AllParts
  <2> QED
    BY <1>1, <2>1, <2>3, RequestsRest
<1>6. CASE CommitPart(a) /\ UNCHANGED <<BillRows, SplitRows, attempt, creator, raced, NoticeSide>>
  <2>1. CASE Over(a)
    BY <1>2, <2>1
  <2>2. CASE Record(a, WithPaid(PartOf(a), req[a].paid + attempt[a].share))
    <3>1. Over(a)
      BY <2>2 DEF Record
    <3> QED
      BY <1>2, <3>1
  <2> QED
    BY <1>6, <2>1, <2>2 DEF CommitPart
<1>7. CASE \E b \in Attempts : DeadlockVictim(a, b) \/ DeadlockVictim(b, a)
  <2>1. PICK b \in Attempts : Rest(a) \/ Rest(b)
    BY <1>7 DEF DeadlockVictim
  <2> QED
    BY <1>2, <2>1
<1> QED
  BY <1>3, <1>4, <1>5, <1>6, <1>7

LEMMA FailRests ==
    ASSUME Inv, Books, NEW a \in Attempts,
           (RejectPart(a) /\ Unresolved(a)) \/ FailRedirect(a) \/ RedirectNotCreated(a)
    PROVE  RowsRest
<1>t. TypeOK /\ AttemptInv(a)
  BY DEF Inv
<1> DEFINE q == attempt[a].of
<1>1. attempt[a].status = "PENDING" /\ q \in AllParts /\ a \notin unapplied
  BY <1>t DEF RejectPart, Unresolved, FailRedirect, RedirectNotCreated, At, AttemptInv, Awaits
<1>2. /\ attempt' = [attempt EXCEPT ![a].status = "FAILED"] /\ Over(a)
      /\ UNCHANGED <<bill, split, other, overwritten, raced, unapplied>>
  BY DEF RejectPart, FailRedirect, RedirectNotCreated, BillRows, SplitRows
<1>3. /\ attempt'[a].status = "FAILED" /\ attempt'[a].of = q
      /\ \A b \in Attempts \ {a} : attempt'[b] = attempt[b]
  BY <1>2, <1>t, FailedType DEF TypeOK, AttemptRecords
<1>4. \A p \in AllParts : part'[p].paid = part[p].paid /\ part'[p].allocated = part[p].allocated
  <2>1. \/ UNCHANGED part
        \/ part' = [part EXCEPT ![q].status = "FAILED"]
        \/ part' = [part EXCEPT ![q].status = IF @ = "PAID" THEN @ ELSE "FAILED"]
    BY DEF RejectPart, FailRedirect, RedirectNotCreated, SplitRows
  <2> HIDE DEF q
  <2> QED
    BY <1>1, <1>t, <2>1, FailedPartType
<1>5. \A p : Recorded(p)' = Recorded(p)
  BY <1>1, <1>2, <1>3 DEF Recorded
<1>6. ASSUME NEW b \in Attempts, req'[b].paid > 0
      PROVE  Recorded(attempt[b].of)' # {}
  <2>1. req'[a].paid = 0 /\ \A c \in Attempts \ {a} : req'[c] = req[c]
    BY <1>2, <1>t, RequestRow
  <2>2. b # a /\ req[b].paid > 0
    BY <1>6, <2>1
  <2>3. attempt'[b] = attempt[b] /\ Recorded(attempt[b].of) # {}
    BY <1>3, <2>2 DEF Books, PaidAsRecorded
  <2>4. PICK c \in Recorded(attempt[b].of) : TRUE
    BY <2>3
  <2>5. /\ c \in Attempts \ unapplied /\ attempt[c].status = "SUCCEEDED"
        /\ attempt[c].of = attempt[b].of /\ c # a
    BY <1>1, <2>4 DEF Recorded
  <2>6. attempt'[c].status = "SUCCEEDED" /\ attempt'[c].of = attempt'[b].of
    BY <1>3, <2>3, <2>5
  <2> QED
    BY <1>2, <2>5, <2>6 DEF Recorded
<1>7. \A b \in unapplied : Amount(b)' = Amount(b)
  BY <1>1, <1>3, <1>t DEF TypeOK, Amount
<1> QED
  BY <1>2, <1>4, <1>5, <1>6, <1>7 DEF RowsRest

LEMMA OpenRests ==
    ASSUME Inv, Books, NEW a \in Attempts, Open(a)
    PROVE  RowsRest
<1>t. TypeOK
  BY DEF Inv
<1>1. PICK p \in AllParts, tip \in Tips, channel \in {"embedded", "redirect"},
           step \in {"charging", "away"} : OpenAttempt(a, p, tip, channel, step)
  BY DEF Open, AllParts, PayPart, StartRedirect
<1>2. step \in RequestSteps
  BY DEF RequestSteps
<1>3. /\ attempt'[a].status = "PENDING" /\ req'[a].paid = part[p].paid
      /\ \A b \in Attempts \ {a} : attempt'[b] = attempt[b] /\ req'[b] = req[b]
  BY <1>1, <1>2, <1>t, OpenType
<1>4. /\ attempt[a].status = "NONE" /\ part[p].paid < part[p].allocated
      /\ UNCHANGED <<bill, other, overwritten, split, part, raced, unapplied>>
  BY <1>1 DEF OpenAttempt, SplitRows, BillRows
<1>5. part[p].paid = 0
  <2>1. part[p].paid \in Nat /\ part[p].allocated \in Nat /\ PartInv(p)
    BY <1>t DEF Inv, TypeOK, PartRecords, AllParts
  <2> QED
    BY <1>4, <2>1 DEF PartInv
<1>6. \A q : Recorded(q)' = Recorded(q)
  BY <1>3, <1>4 DEF Recorded
<1>7. ASSUME NEW b \in Attempts, req'[b].paid > 0
      PROVE  Recorded(attempt[b].of)' # {}
  <2>1. b # a /\ req[b].paid > 0
    BY <1>3, <1>5, <1>7
  <2>2. attempt'[b] = attempt[b] /\ Recorded(attempt[b].of) # {}
    BY <1>3, <2>1 DEF Books, PaidAsRecorded
  <2>3. PICK c \in Recorded(attempt[b].of) : TRUE
    BY <2>2
  <2>4. /\ c \in Attempts \ unapplied /\ attempt[c].status = "SUCCEEDED"
        /\ attempt[c].of = attempt[b].of /\ c # a
    BY <1>4, <2>3 DEF Recorded
  <2>5. attempt'[c].status = "SUCCEEDED" /\ attempt'[c].of = attempt'[b].of
    BY <1>3, <2>2, <2>4
  <2> QED
    BY <1>4, <2>4, <2>5 DEF Recorded
<1>8. \A b \in unapplied : Amount(b)' = Amount(b)
  <2>1. \A b \in unapplied : b \in Attempts /\ b # a
    BY <1>4 DEF Inv, TypeOK, AttemptInv
  <2> QED
    BY <1>3, <2>1 DEF Amount
<1> QED
  BY <1>4, <1>6, <1>7, <1>8 DEF RowsRest

\* One payment more is recorded, for the part its attempt is of.
LEMMA RecordedOneMore ==
    ASSUME Inv, PaidAsRecorded, NEW a \in Attempts, attempt[a].status = "PENDING",
           attempt' = [attempt EXCEPT ![a].status = "SUCCEEDED"], unapplied' = unapplied,
           NEW q, q = attempt[a].of
    PROVE  /\ q \in AllParts
           /\ \A p \in AllParts : IsFiniteSet(Recorded(p))'
           /\ Count(q)' = Count(q) + 1
           /\ \A p \in AllParts \ {q} : Count(p)' = Count(p)
           /\ \A b \in Attempts : attempt'[b].of = attempt[b].of
           /\ \A p : Recorded(p) \subseteq Recorded(p)'
           /\ Recorded(q)' # {}
<1>t. TypeOK /\ AttemptInv(a)
  BY DEF Inv
<1>1. q \in AllParts
  BY <1>t DEF AttemptInv
<1>2. /\ attempt'[a].status = "SUCCEEDED" /\ attempt'[a].of = q
      /\ \A b \in Attempts \ {a} : attempt'[b] = attempt[b]
  BY <1>t DEF TypeOK, AttemptRecords
<1>3. a \notin Recorded(q) /\ a \notin unapplied
  BY <1>t DEF Recorded, AttemptInv
<1>4. Recorded(q)' = Recorded(q) \cup {a} /\ \A p : p # q => Recorded(p)' = Recorded(p)
  BY <1>2, <1>3 DEF Recorded
<1>5. IsFiniteSet(Recorded(q))' /\ Count(q)' = Count(q) + 1
  <2>1. IsFiniteSet(Recorded(q))
    BY <1>1 DEF PaidAsRecorded
  <2>2. /\ IsFiniteSet(Recorded(q) \cup {a})
        /\ Cardinality(Recorded(q) \cup {a}) = Cardinality(Recorded(q)) + 1
    BY <1>3, <2>1, FS_AddElement
  <2>3. IsFiniteSet(Recorded(q)') /\ Cardinality(Recorded(q)') = Cardinality(Recorded(q)) + 1
    BY <1>4, <2>2, Zenon
  <2> QED
    BY <2>3 DEF Count
<1>6. ASSUME NEW p \in AllParts \ {q}
      PROVE  IsFiniteSet(Recorded(p))' /\ Count(p)' = Count(p)
  <2>1. IsFiniteSet(Recorded(p)) /\ Recorded(p)' = Recorded(p)
    BY <1>4 DEF PaidAsRecorded
  <2>2. IsFiniteSet(Recorded(p)') /\ Cardinality(Recorded(p)') = Cardinality(Recorded(p))
    BY <2>1, Zenon
  <2> QED
    BY <2>2 DEF Count
<1>7. \A p \in AllParts : IsFiniteSet(Recorded(p))'
  BY <1>5, <1>6, Zenon
<1>8. \A p : Recorded(p) \subseteq Recorded(p)'
  BY <1>4
<1>9. \A b \in Attempts : attempt'[b].of = attempt[b].of
  BY <1>2
<1> QED
  BY <1>1, <1>4, <1>5, <1>6, <1>7, <1>8, <1>9

\* A payment lowers what the bill and what the parts of its split have left by the same
\* amount, whatever the update of the part overwrites.
LEMMA RecordBooks ==
    ASSUME Inv, Books, NEW a \in Attempts, attempt[a].status = "PENDING",
           Record(a, WithPaid(PartOf(a), req[a].paid + attempt[a].share)), PartsKept,
           NEW q, q = attempt[a].of
    PROVE  Books'
<1> DEFINE paid    == req[a].paid + attempt[a].share
           updated == WithPaid(PartOf(a), paid)
           seen    == req[a].bill
           b       == ApplyPayment(bill, seen, Amount(a), attempt[a].tip)
<1>t. TypeOK /\ AttemptInv(a) /\ PaidAsRecorded
  BY DEF Inv, Books
<1>1. /\ attempt' = [attempt EXCEPT ![a].status = "SUCCEEDED"]
      /\ bill' = b
      /\ overwritten' = (overwritten \/ AmountsDiffer(seen, bill))
      /\ part' = [part EXCEPT ![q] = updated]
      /\ Over(a)
      /\ other' = other /\ raced' = raced /\ unapplied' = unapplied
  BY DEF Record
<1>2. /\ q \in AllParts /\ q[1] \in Splits /\ q[2] \in Parts /\ q = <<q[1], q[2]>>
      /\ split[q[1]] # "NONE"
      /\ attempt[a].share = part[q].allocated
  BY <1>t DEF AttemptInv, AllParts, PartOf
<1>3. /\ \A p \in AllParts :
            IsFiniteSet(Recorded(p))' /\ (p # q => Count(p)' = Count(p))
      /\ Count(q)' = Count(q) + 1
      /\ \A c \in Attempts : attempt'[c].of = attempt[c].of
      /\ \A p : Recorded(p) \subseteq Recorded(p)'
      /\ Recorded(q)' # {}
  BY <1>1, <1>t, RecordedOneMore
<1>4. /\ part[q].allocated \in Nat /\ req[a].paid \in Nat
      /\ bill \in Bills /\ seen \in Bills
      /\ attempt[a].tip \in Nat /\ attempt[a].share \in Nat
  <2>1. part[q] \in PartRecords /\ req[a] \in RequestRecords /\ attempt[a] \in AttemptRecords
        /\ bill \in Bills
    BY <1>2, <1>t DEF TypeOK, AllParts
  <2> QED
    BY <2>1 DEF PartRecords, RequestRecords, AttemptRecords
<1>5. part'[q].paid = paid /\ \A p \in AllParts \ {q} : part'[p] = part[p]
  <2>1. paid \in Nat /\ part[q] \in PartRecords /\ PartOf(a) = part[q]
    BY <1>2, <1>4, <1>t DEF TypeOK, AllParts, PartOf
  <2>2. updated.paid = paid
    <3> HIDE DEF paid
    <3> QED
      BY <2>1, WithPaidType
  <2>3. part'[q] = updated /\ \A p \in AllParts \ {q} : part'[p] = part[p]
    BY <1>1, <1>2, <1>t DEF TypeOK, AllParts
  <2> QED
    BY <2>2, <2>3
<1>6. \A p \in AllParts : part'[p].allocated = part[p].allocated
  BY DEF PartsKept
<1>7. \A s \in Splits : split'[s] = "NONE" <=> split[s] = "NONE"
  BY DEF PartsKept
<1> HIDE DEF updated
<1>8. PaidAsRecorded'
  <2>1. ASSUME NEW p \in AllParts, Count(p)' = 1
        PROVE  part'[p].paid = part'[p].allocated
    <3>1. CASE p = q
      <4>0. Count(q)' = 1 /\ Count(q) \in Nat
        BY <1>2, <1>t, <2>1, <3>1, CountType, Zenon
      <4>1. Count(q) = 0
        BY <1>3, <4>0
      <4>2. Recorded(q) = {}
        BY <1>2, <1>t, <4>1, CountType
      <4>3. req[a].paid = 0
        BY <1>4, <1>t, <4>2 DEF PaidAsRecorded
      <4> QED
        BY <1>2, <1>4, <1>5, <1>6, <3>1, <4>3
    <3>2. CASE p # q
      <4>1. Count(p) = 1 /\ part'[p] = part[p]
        BY <1>3, <1>5, <2>1, <3>2
      <4> QED
        BY <1>t, <4>1 DEF PaidAsRecorded
    <3> QED
      BY <3>1, <3>2
  <2>2. ASSUME NEW c \in Attempts, req'[c].paid > 0
        PROVE  Recorded(attempt[c].of)' # {}
    <3>1. req'[a].paid = 0 /\ \A d \in Attempts \ {a} : req'[d] = req[d]
      BY <1>1, <1>t, RequestRow
    <3>2. req[c].paid > 0
      BY <2>2, <3>1
    <3>3. PICK d \in Recorded(attempt[c].of) : TRUE
      BY <1>t, <3>2 DEF PaidAsRecorded
    <3>4. /\ d \in Attempts \ unapplied /\ attempt[d].status = "SUCCEEDED"
          /\ attempt[d].of = attempt[c].of /\ d # a
      BY <3>3 DEF Recorded
    <3>5. attempt'[d] = attempt[d]
      BY <1>1, <3>4, <1>t DEF TypeOK
    <3> QED
      BY <1>1, <1>3, <3>4, <3>5 DEF Recorded
  <2> QED
    BY <1>3, <2>1, <2>2 DEF PaidAsRecorded
<1>9. ASSUME ~overwritten'
      PROVE  /\ b.total = b.subtotal + b.tip
             /\ b.remaining = bill.remaining - part[q].allocated
  <2>1. ~AmountsDiffer(seen, bill) /\ bill.total = bill.subtotal + bill.tip
    BY <1>1, <1>9 DEF Books
  <2>2. Amount(a) \in Int /\ attempt[a].tip \in Int
    BY <1>4 DEF Amount
  <2> HIDE DEF seen
  <2>3. /\ b.total = b.subtotal + b.tip
        /\ b.remaining = bill.remaining + attempt[a].tip - Amount(a)
    BY <1>4, <2>1, <2>2, PaymentTaken
  <2>4. bill.remaining \in Int
    BY <1>4 DEF Bills
  <2> HIDE DEF b
  <2> QED
    BY <1>2, <1>4, <2>3, <2>4 DEF Amount
<1> HIDE DEF b, seen, paid
<1>c. IsFiniteSet(unapplied)' /\ Credited' = Credited /\ Credited \in Int
  <2>1. IsFiniteSet(unapplied)
    BY DEF Books
  <2>2. \A c \in Attempts : attempt'[c].share = attempt[c].share /\ attempt'[c].tip = attempt[c].tip
    BY <1>1, <1>t DEF TypeOK, AttemptRecords
  <2>3. \A c \in unapplied : Amount(c)' = Amount(c)
    BY <1>t, <2>2 DEF Amount, TypeOK
  <2> QED
    BY <1>1, <2>1, <2>3, CreditedKept, CreditedType
<1>10. SplitCovers'
  <2> SUFFICES ASSUME Undisturbed', NEW s \in Splits, split'[s] # "NONE"
               PROVE  /\ bill'.remaining = SumFunctionOnSet(LeftOf(s), Parts)' - Credited'
                      /\ \A t \in Splits : split'[t] # "NONE" => s = t
    BY DEF SplitCovers
  <2>1. Undisturbed /\ ~overwritten'
    BY <1>1 DEF Undisturbed
  <2>2. \A t \in Splits : split'[t] # "NONE" => s = t
    BY <1>7, <2>1 DEF Books, SplitCovers
  <2>3. bill.remaining = SumFunctionOnSet(LeftOf(s), Parts) - Credited /\ s = q[1]
    BY <1>2, <1>7, <2>1, <2>2 DEF Books, SplitCovers
  <2> DEFINE i == q[2]
             n == Count(q)
  <2>4. <<s, i>> = q /\ i \in Parts
    BY <1>2, <2>3
  <2>5. /\ LeftOf(s)[i] = part[q].allocated * (1 - n)
        /\ LeftOf(s)'[i] = part[q].allocated * (1 - (n + 1))
        /\ \A j \in Parts \ {i} : LeftOf(s)'[j] = LeftOf(s)[j]
    <3>1. LeftOf(s)[i] = part[q].allocated * (1 - n)
      <4>1. LeftOf(s)[i] = part[<<s, i>>].allocated * (1 - Count(<<s, i>>))
        BY <2>4 DEF LeftOf
      <4> QED
        BY <2>4, <4>1, Zenon
    <3>2. LeftOf(s)'[i] = part'[q].allocated * (1 - Count(q)')
      <4>1. LeftOf(s)'[i] = part'[<<s, q[2]>>].allocated * (1 - Count(<<s, q[2]>>)')
        BY <2>4 DEF LeftOf
      <4>2. <<s, q[2]>> = q
        BY <2>4
      <4> QED
        BY <4>1, <4>2, Zenon
    <3>3. Count(q)' = n + 1 /\ part'[q].allocated = part[q].allocated
      BY <1>2, <1>3, <1>6
    <3>4. ASSUME NEW j \in Parts \ {i}
          PROVE  LeftOf(s)'[j] = LeftOf(s)[j]
      <4>1. <<s, j>> \in AllParts /\ <<s, j>> # q
        BY <2>4 DEF AllParts
      <4>2. Count(<<s, j>>)' = Count(<<s, j>>) /\ part'[<<s, j>>].allocated = part[<<s, j>>].allocated
        BY <1>3, <1>6, <4>1
      <4> QED
        BY <4>2 DEF LeftOf
    <3> QED
      BY <3>1, <3>2, <3>3, <3>4
  <2>6. n \in Nat /\ part[q].allocated * (1 - (n + 1)) =
                        part[q].allocated * (1 - n) - part[q].allocated
    <3>1. n \in Nat
      BY <1>2, <1>t, CountType
    <3>2. \A x, y \in Int : x * (1 - (y + 1)) = x * (1 - y) - x
      OBVIOUS
    <3> QED
      BY <1>4, <3>1, <3>2
  <2>7. \A j \in Parts : LeftOf(s)[j] \in Int
    BY <1>t, LeftOfType
  <2> DEFINE f == LeftOf(s)
             g == LeftOf(s)'
  <2>8. g[i] \in Int /\ g[i] = f[i] - part[q].allocated
    BY <1>4, <2>4, <2>5, <2>6, <2>7
  <2> HIDE DEF f, g, i, n
  <2>9. SumFunctionOnSet(g, Parts) = SumFunctionOnSet(f, Parts) - f[i] + g[i]
    <3>1. (\A j \in Parts : f[j] \in Int) /\ (\A j \in Parts \ {i} : g[j] = f[j])
      BY <2>5, <2>7 DEF f, g
    <3> QED
      BY <2>4, <2>8, <3>1, SumUpdate
  <2>10. SumFunctionOnSet(f, Parts) \in Int /\ f[i] \in Int
    BY <2>4, <2>7, SumType DEF f
  <2>11. SumFunctionOnSet(g, Parts) = SumFunctionOnSet(f, Parts) - part[q].allocated
    BY <1>4, <2>8, <2>9, <2>10
  <2>12. bill'.remaining = bill.remaining - part[q].allocated
    BY <1>1, <1>9, <2>1
  <2>13. bill'.remaining = SumFunctionOnSet(g, Parts) - Credited
    BY <1>4, <1>c, <2>3, <2>10, <2>11, <2>12 DEF f
  <2> QED
    BY <1>c, <2>2, <2>13 DEF g
<1> QED
  BY <1>1, <1>8, <1>9, <1>10, <1>c DEF Books

\* A notification lowers what the bill has left by the amount it credits to it.
LEMMA NoticeBooks ==
    ASSUME Inv, Books, NEW a \in Attempts, Notify(a)
    PROVE  Books'
<1> USE DEF BillRows, SplitRows
<1>t. TypeOK /\ AttemptInv(a) /\ PaidAsRecorded /\ IsFiniteSet(unapplied)
  BY DEF Inv, Books
<1>u. UNCHANGED <<split, part, req, other, raced>>
  BY DEF Notify, NoticeRead, NoticeCommit, NoticeFails, NoticeDies
<1>1. CASE UNCHANGED <<bill, overwritten, attempt, unapplied>>
  <2>1. \A b \in Attempts : req'[b].paid \in {0, req[b].paid}
    BY <1>u
  <2> QED
    BY <1>1, <1>u, <2>1, RequestsRest, RestsKeepBooks
<1>2. ASSUME NEW status \in {"SUCCEEDED", "FAILED"}, attempt[a].status = "PENDING",
             attempt' = [attempt EXCEPT ![a].status = status],
             unapplied' = IF status = "SUCCEEDED" THEN unapplied \cup {a} ELSE unapplied
      PROVE  /\ \A p : Recorded(p)' = Recorded(p)
             /\ \A b \in Attempts : Amount(b)' = Amount(b) /\ attempt'[b].of = attempt[b].of
             /\ a \notin unapplied
  <2> DEFINE record == [attempt[a] EXCEPT !.status = status]
  <2>1. /\ record.status = status /\ record.of = attempt[a].of
        /\ record.share = attempt[a].share /\ record.tip = attempt[a].tip
    BY <1>t DEF TypeOK, AttemptRecords
  <2>2. attempt' = [attempt EXCEPT ![a] = record]
    BY <1>2
  <2> HIDE DEF record
  <2>3. attempt'[a] = record /\ \A b \in Attempts \ {a} : attempt'[b] = attempt[b]
    BY <1>t, <2>2 DEF TypeOK
  <2>4. a \notin unapplied
    BY <1>2, <1>t DEF AttemptInv
  <2>5. \A p : Recorded(p)' = Recorded(p)
    BY <1>2, <2>1, <2>3 DEF Recorded
  <2>6. \A b \in Attempts : Amount(b)' = Amount(b) /\ attempt'[b].of = attempt[b].of
    BY <2>1, <2>3 DEF Amount
  <2> QED
    BY <2>4, <2>5, <2>6
<1>3. CASE NoticeFails(a)
  <2>1. /\ attempt' = [attempt EXCEPT ![a].status = "FAILED"] /\ unapplied' = unapplied
        /\ attempt[a].status = "PENDING" /\ bill' = bill /\ overwritten' = overwritten
    BY <1>3 DEF NoticeFails, Unresolved
  <2>2. /\ \A p : Recorded(p)' = Recorded(p)
        /\ \A b \in Attempts : Amount(b)' = Amount(b) /\ attempt'[b].of = attempt[b].of
    BY <1>2, <2>1
  <2>3. \A b \in unapplied : Amount(b)' = Amount(b)
    BY <1>t, <2>2 DEF TypeOK
  <2>4. \A b \in Attempts : req'[b].paid > 0 => Recorded(attempt[b].of)' # {}
    BY <1>t, <1>u, <2>2 DEF PaidAsRecorded
  <2>5. RowsRest
    BY <1>u, <2>1, <2>2, <2>3, <2>4 DEF RowsRest
  <2> QED
    BY <2>5, RestsKeepBooks
<1>4. CASE NoticeCommit(a) /\ ~UNCHANGED <<bill, overwritten, attempt, unapplied>>
  <2> DEFINE seen == notice[a].bill
             b    == ApplyPayment(bill, seen, Amount(a), 0)
  <2>1. /\ attempt' = [attempt EXCEPT ![a].status = "SUCCEEDED"]
        /\ unapplied' = unapplied \cup {a}
        /\ bill' = b
        /\ overwritten' = (overwritten \/ AmountsDiffer(seen, bill))
        /\ attempt[a].status = "PENDING"
    BY <1>4, <1>t DEF NoticeCommit, AttemptInv
  <2>2. /\ \A p : Recorded(p)' = Recorded(p)
        /\ \A c \in Attempts : Amount(c)' = Amount(c) /\ attempt'[c].of = attempt[c].of
        /\ a \notin unapplied
    BY <1>2, <2>1
  <2>3. PaidAsRecorded'
    <3>1. \A p \in AllParts : IsFiniteSet(Recorded(p))' /\ Count(p)' = Count(p)
      <4>1. \A p \in AllParts : IsFiniteSet(Recorded(p)')
                                 /\ Cardinality(Recorded(p)') = Cardinality(Recorded(p))
        BY <1>t, <2>2, Zenon DEF PaidAsRecorded
      <4> QED
        BY <4>1 DEF Count
    <3>2. ASSUME NEW c \in Attempts, req'[c].paid > 0
          PROVE  Recorded(attempt[c].of)' # {}
      <4>1. PICK d \in Recorded(attempt[c].of) : TRUE
        BY <1>t, <1>u, <3>2 DEF PaidAsRecorded
      <4>2. PICK q : q = attempt[c].of
        OBVIOUS
      <4>3. d \in Recorded(q)' /\ attempt'[c].of = q
        BY <2>2, <4>1, <4>2
      <4> QED
        BY <4>3 DEF Recorded
    <3> QED
      BY <1>t, <1>u, <2>2, <3>1, <3>2 DEF PaidAsRecorded
  <2>4. bill \in Bills /\ seen \in Bills /\ Amount(a) \in Int /\ 0 \in Int
    <3>1. notice[a] \in NoticeRecords /\ bill \in Bills
      BY <1>t DEF TypeOK
    <3> QED
      BY <3>1, AmountsType DEF NoticeRecords
  <2>5. ASSUME ~overwritten'
        PROVE  b.total = b.subtotal + b.tip /\ b.remaining = bill.remaining - Amount(a)
    <3>1. ~AmountsDiffer(seen, bill) /\ bill.total = bill.subtotal + bill.tip
      BY <2>1, <2>5 DEF Books
    <3> HIDE DEF seen
    <3>2. b.total = b.subtotal + b.tip /\ b.remaining = bill.remaining + 0 - Amount(a)
      BY <2>4, <3>1, PaymentTaken
    <3>3. bill.remaining \in Int
      BY <2>4 DEF Bills
    <3> HIDE DEF b
    <3> QED
      BY <2>4, <3>2, <3>3
  <2> HIDE DEF seen, b
  <2>6. IsFiniteSet(unapplied') /\ Credited' = Credited + Amount(a) /\ Credited \in Int
    <3> DEFINE f == AttemptAmounts
               g == AttemptAmounts'
    <3>1. \A c \in unapplied : f[c] \in Int /\ f[c] = Amount(c) /\ c \in Attempts
      BY AmountsType
    <3>2. g[a] = Amount(a) /\ \A c \in unapplied : g[c] = f[c]
      BY <2>2, <3>1 DEF AttemptAmounts
    <3> HIDE DEF f, g
    <3>3. /\ IsFiniteSet(unapplied')
          /\ SumFunctionOnSet(g, unapplied') = SumFunctionOnSet(f, unapplied) + g[a]
      BY <1>t, <2>1, <2>2, <2>4, <3>1, <3>2, SumGrown
    <3> QED
      BY <1>t, <3>2, <3>3, CreditedType DEF Credited, f, g
  <2>7. SplitCovers'
    <3> SUFFICES ASSUME Undisturbed', NEW s \in Splits, split'[s] # "NONE"
                 PROVE  /\ bill'.remaining = SumFunctionOnSet(LeftOf(s), Parts)' - Credited'
                        /\ \A t \in Splits : split'[t] # "NONE" => s = t
      BY DEF SplitCovers
    <3>1. Undisturbed /\ ~overwritten'
      BY <1>u, <2>1 DEF Undisturbed
    <3>2. /\ bill.remaining = SumFunctionOnSet(LeftOf(s), Parts) - Credited
          /\ \A t \in Splits : split'[t] # "NONE" => s = t
      BY <1>u, <3>1 DEF Books, SplitCovers
    <3> DEFINE f == LeftOf(s)
               g == LeftOf(s)'
    <3>3. \A i \in Parts : f[i] \in Int /\ g[i] = f[i]
      <4> SUFFICES ASSUME NEW i \in Parts PROVE f[i] \in Int /\ g[i] = f[i]
        OBVIOUS
      <4>1. f[i] \in Int
        BY <1>t, LeftOfType
      <4>2. Count(<<s, i>>)' = Count(<<s, i>>)
        <5>1. Recorded(<<s, i>>)' = Recorded(<<s, i>>)
          BY <2>2
        <5> QED
          BY <5>1, Zenon DEF Count
      <4> QED
        BY <1>u, <4>1, <4>2 DEF LeftOf
    <3> HIDE DEF f, g
    <3>4. SumFunctionOnSet(g, Parts) = SumFunctionOnSet(f, Parts)
          /\ SumFunctionOnSet(f, Parts) \in Int
      BY <3>3, SumSame, SumType
    <3>5. bill'.remaining = bill.remaining - Amount(a)
      BY <2>1, <2>5, <3>1
    <3>6. bill.remaining = SumFunctionOnSet(f, Parts) - Credited
      BY <3>2 DEF f
    <3>7. bill'.remaining = SumFunctionOnSet(g, Parts) - Credited'
      BY <2>4, <2>6, <3>4, <3>5, <3>6
    <3> QED
      BY <3>2, <3>7 DEF g
  <2> QED
    BY <2>1, <2>3, <2>5, <2>6, <2>7 DEF Books
<1>5. CASE NoticeRead(a) \/ NoticeDies(a)
  BY <1>1, <1>5 DEF NoticeRead, NoticeDies
<1> QED
  BY <1>1, <1>3, <1>4, <1>5 DEF Notify

\* A split none of whose parts has anything left leaves the bill nothing either.
LEMMA PaidSplitLeavesNothing ==
    ASSUME Inv, PaidAsRecorded, NEW s \in Splits, split[s] # "NONE", ~Unpaid(s)
    PROVE  SumFunctionOnSet(LeftOf(s), Parts) <= 0
<1>1. ASSUME NEW i \in Parts
      PROVE  LeftOf(s)[i] <= 0
  <2> DEFINE p == <<s, i>>
  <2>1. p \in AllParts /\ p[1] = s
    BY DEF AllParts
  <2>2. part[p] \in PartRecords /\ PartInv(p) /\ ~(part[p].paid < part[p].allocated)
    BY <2>1 DEF Inv, TypeOK, AllParts, Unpaid
  <2>3. part[p].paid \in Nat /\ part[p].allocated \in Nat
    BY <2>2 DEF PartRecords
  <2>4. part[p].allocated > 0 /\ part[p].paid > 0
    BY <2>1, <2>2, <2>3 DEF PartInv
  <2>5. Recorded(p) # {}
    BY <2>2, <2>4 DEF PartInv
  <2>6. Count(p) \in Nat /\ Count(p) # 0
    BY <2>1, <2>5, CountType
  <2>7. LeftOf(s)[i] = part[p].allocated * (1 - Count(p))
    BY DEF LeftOf
  <2>8. \A m, n \in Nat : n # 0 => m * (1 - n) <= 0
    OBVIOUS
  <2>9. part[p].allocated * (1 - Count(p)) <= 0
    BY <2>3, <2>6, <2>8
  <2> QED
    BY <2>7, <2>9
<1>2. \A i \in Parts : LeftOf(s)[i] \in Int
  BY LeftOfType
<1> HIDE DEF LeftOf
<1> QED
  BY <1>1, <1>2, SumAtMostZero

\* A split is created for what the bill has left, and takes the place of none.
LEMMA CreateBooks ==
    ASSUME Inv, OneUnpaid, Books, NEW c \in Creators, NEW s \in Splits,
           NEW amounts \in [Parts -> 1..creator[c].bill.remaining], CreateSplit(c, s, amounts)
    PROVE  Books'
<1>t. TypeOK /\ PaidAsRecorded
  BY DEF Inv, Books
<1>1. UNCHANGED <<bill, other, overwritten, attempt, req, unapplied>> /\ split[s] = "NONE"
  BY DEF CreateSplit, BillRows
<1>f. IsFiniteSet(unapplied) /\ Credited' = Credited /\ Credited \in Nat
  <2>1. IsFiniteSet(unapplied)
    BY DEF Books
  <2>2. \A a \in unapplied : Amount(a)' = Amount(a)
    BY <1>1 DEF Amount
  <2> QED
    BY <1>1, <2>1, <2>2, CreditedKept, CreditedType
<1>2. split'[s] = "OPEN" /\ \A t \in Splits \ {s} : split'[t] = split[t]
  BY <1>t DEF CreateSplit, TypeOK
<1>3. /\ \A p \in AllParts : p[1] # s => part'[p] = part[p]
      /\ \A i \in Parts : part'[<<s, i>>] = NewPart(amounts[i])
  BY DEF CreateSplit, AllParts
<1>4. \A p : Recorded(p)' = Recorded(p)
  BY <1>1 DEF Recorded
<1>5. \A i \in Parts : Recorded(<<s, i>>) = {}
  <2> SUFFICES ASSUME NEW i \in Parts, NEW a \in Recorded(<<s, i>>)
               PROVE  FALSE
    OBVIOUS
  <2>1. a \in Attempts /\ attempt[a].of = <<s, i>> /\ attempt[a].status = "SUCCEEDED"
    BY DEF Recorded
  <2> QED
    BY <1>1, <2>1 DEF Inv, AttemptInv
<1>6. \A p \in AllParts : IsFiniteSet(Recorded(p))' /\ Count(p)' = Count(p)
  <2>1. \A p \in AllParts : IsFiniteSet(Recorded(p))
    BY <1>t DEF PaidAsRecorded
  <2>2. \A p \in AllParts : IsFiniteSet(Recorded(p)') /\ Cardinality(Recorded(p)') = Cardinality(Recorded(p))
    BY <1>4, <2>1, Zenon
  <2> QED
    BY <2>2 DEF Count
<1>7. \A i \in Parts : <<s, i>> \in AllParts /\ Count(<<s, i>>) = 0
  <2>1. \A i \in Parts : <<s, i>> \in AllParts
    BY DEF AllParts
  <2> QED
    BY <1>t, <1>5, <2>1, CountType
<1>8. PaidAsRecorded'
  <2>1. ASSUME NEW p \in AllParts, Count(p)' = 1
        PROVE  part'[p].paid = part'[p].allocated
    <3>1. Count(p) = 1
      BY <1>6, <2>1
    <3>2. p[1] # s
      <4>1. p[2] \in Parts /\ (p[1] = s => p = <<s, p[2]>>)
        BY DEF AllParts
      <4>2. p[1] = s => Count(p) = 0
        BY <1>7, <4>1, Zenon
      <4> QED
        BY <3>1, <4>2
    <3> QED
      BY <1>3, <1>t, <3>1, <3>2 DEF PaidAsRecorded
  <2>2. \A a \in Attempts : req'[a].paid > 0 => Recorded(attempt[a].of)' # {}
    <3>1. \A a \in Attempts : req[a].paid > 0 => Recorded(attempt[a].of) # {}
      BY <1>t DEF PaidAsRecorded
    <3> QED
      BY <1>1, <3>1 DEF Recorded
  <2> QED
    BY <1>6, <2>1, <2>2 DEF PaidAsRecorded
<1>9. \A i \in Parts : amounts[i] \in Nat /\ amounts[i] > 0
  <2>1. creator[c].bill.remaining \in Int
    BY <1>t DEF TypeOK, CreatorRecords, Bills
  <2> QED
    BY <2>1
<1>10. SplitCovers'
  <2> SUFFICES ASSUME Undisturbed'
               PROVE  \A t \in Splits : split'[t] # "NONE" =>
                          /\ bill'.remaining = SumFunctionOnSet(LeftOf(t), Parts)' - Credited'
                          /\ \A u \in Splits : split'[u] # "NONE" => t = u
    BY DEF SplitCovers
  <2>1. /\ Undisturbed /\ ~raced /\ creator[c].step = "checked"
        /\ bill.remaining = SumFunctionOnSet(amounts, Parts)
    BY <1>1 DEF CreateSplit, Undisturbed
  <2>2. bill.remaining > 0
    <3>1. PICK i \in Parts : TRUE
      BY SomeParts
    <3>2. IsFiniteSet(Parts) /\ IsFiniteSet(Parts \ {i}) /\ \A x \in Parts : amounts[x] \in Int
      BY <1>9, FS_RemoveElement
    <3>3. SumFunctionOnSet(amounts, Parts) = amounts[i] + SumFunctionOnSet(amounts, Parts \ {i})
      BY <3>2, SumRemove
    <3>4. SumFunctionOnSet(amounts, Parts \ {i}) \in Nat
      BY <1>9, <3>2, SumNat
    <3> QED
      BY <1>9, <2>1, <3>3, <3>4
  <2>3. \A t \in Splits : split[t] = "NONE"
    <3> SUFFICES ASSUME NEW t \in Splits, split[t] # "NONE"
                 PROVE  FALSE
      OBVIOUS
    <3>1. ~Unpaid(t)
      BY <2>1 DEF OneUnpaid
    <3>2. SumFunctionOnSet(LeftOf(t), Parts) <= 0
      BY <1>t, <3>1, PaidSplitLeavesNothing
    <3>3. bill.remaining = SumFunctionOnSet(LeftOf(t), Parts) - Credited
      BY <2>1 DEF Books, SplitCovers
    <3>4. bill.remaining \in Int /\ SumFunctionOnSet(LeftOf(t), Parts) \in Int
      BY <1>t, LeftOfType, SumType DEF TypeOK, Bills
    <3> HIDE DEF LeftOf
    <3> QED
      BY <1>f, <2>2, <3>2, <3>3, <3>4
  <2>4. \A t \in Splits : split'[t] # "NONE" => t = s
    BY <1>2, <2>3
  <2>5. \A i \in Parts : LeftOf(s)'[i] = amounts[i]
    <3> SUFFICES ASSUME NEW i \in Parts
                 PROVE  LeftOf(s)'[i] = amounts[i]
      OBVIOUS
    <3>0. part'[<<s, i>>] = NewPart(amounts[i])
      BY <1>3
    <3>1. part'[<<s, i>>].allocated = amounts[i]
      BY <3>0 DEF NewPart
    <3>2. Count(<<s, i>>)' = 0
      BY <1>6, <1>7
    <3>3. LeftOf(s)'[i] = part'[<<s, i>>].allocated * (1 - Count(<<s, i>>)')
      BY DEF LeftOf
    <3> QED
      BY <1>9, <3>1, <3>2, <3>3
  <2>6. SumFunctionOnSet(LeftOf(s)', Parts) = SumFunctionOnSet(amounts, Parts)
    <3> DEFINE f == LeftOf(s)'
    <3>1. \A i \in Parts : f[i] = amounts[i]
      BY <2>5
    <3> HIDE DEF f
    <3>2. SumFunctionOnSet(f, Parts) = SumFunctionOnSet(amounts, Parts)
      BY <3>1, SumSame
    <3> QED
      BY <3>2 DEF f
  <2>c. Credited = 0
    <3>1. \A a \in Attempts : a \notin unapplied
      BY <2>3 DEF Inv, AttemptInv, AllParts
    <3>2. unapplied = {}
      BY <1>t, <3>1 DEF TypeOK
    <3>3. SumFunctionOnSet(AttemptAmounts, {}) = 0
      BY SumEmpty
    <3> QED
      BY <3>2, <3>3, Zenon DEF Credited
  <2>7. bill'.remaining = SumFunctionOnSet(LeftOf(s), Parts)' - Credited'
    <3>1. bill'.remaining = SumFunctionOnSet(LeftOf(s)', Parts) /\ bill'.remaining \in Int
      BY <1>1, <1>t, <2>1, <2>6 DEF TypeOK, Bills
    <3> HIDE DEF LeftOf
    <3> QED
      BY <1>f, <2>c, <3>1
  <2> QED
    BY <2>4, <2>7
<1> QED
  BY <1>1, <1>8, <1>10, <1>f DEF Books

\* A charge and a payment that are not of a part are told by `other`.
LEMMA OtherBooks == ASSUME Inv, Books, ChargeOther \/ PayOther PROVE Books'
<1>t. TypeOK /\ PaidAsRecorded
  BY DEF Inv, Books
<1>1. UNCHANGED <<split, part, attempt, req, unapplied, creator, overwritten, raced>>
      /\ other' = other + 1
  BY DEF ChargeOther, PayOther, OtherTraffic, SplitRows
<1>2. PaidAsRecorded'
  BY <1>1, <1>t DEF PaidAsRecorded, Count, Recorded
<1>3. ~Undisturbed'
  BY <1>1, <1>t DEF Undisturbed, TypeOK
<1>4. ASSUME ~overwritten'
      PROVE  bill'.total = bill'.subtotal + bill'.tip
  <2>1. bill \in Bills /\ bill.total = bill.subtotal + bill.tip
    BY <1>1, <1>4, <1>t DEF Books, TypeOK
  <2>2. ~AmountsDiffer(bill, bill)
    BY <2>1 DEF AmountsDiffer, Bills
  <2>3. CASE ChargeOther
    <3>1. bill' = ApplyOrderCharge(bill, bill, 1)
      BY <2>3 DEF ChargeOther, OtherTraffic
    <3> QED
      BY <2>1, <3>1, ChargeKeepsPaid
  <2>4. CASE PayOther
    <3>1. bill' = ApplyPayment(bill, bill, 1, 0)
      BY <2>4 DEF PayOther, OtherTraffic
    <3> QED
      BY <2>1, <2>2, <3>1, PaymentTaken
  <2> QED
    BY <2>3, <2>4
<1> QED
  BY <1>1, <1>2, <1>3, <1>4 DEF Books, SplitCovers

LEMMA BooksStep == Inv /\ OneUnpaid /\ Books /\ [Next]_vars => Books'
<1> SUFFICES ASSUME Inv, OneUnpaid, Books, [Next]_vars
             PROVE  Books'
  OBVIOUS
<1>1. ASSUME NEW c \in Creators, CreatorStep(c)
      PROVE  Books'
  <2>1. CASE LoadBill(c) \/ CheckNoSplit(c)
    <3>1. UNCHANGED <<bill, split, part, attempt, req, unapplied, other, overwritten, raced>>
      BY <2>1 DEF LoadBill, CheckNoSplit, BillRows, SplitRows
    <3>2. \A a \in Attempts : req'[a].paid \in {0, req[a].paid}
      BY <3>1
    <3> QED
      BY <3>1, <3>2, RequestsRest, RestsKeepBooks
  <2> QED
    BY <1>1, <2>1, CreateBooks DEF CreatorStep
<1>2. ASSUME NEW a \in Attempts, Open(a)
      PROVE  Books'
  BY <1>2, OpenRests, RestsKeepBooks
<1>3. ASSUME NEW a \in Attempts, Work(a)
      PROVE  Books'
  <2>1. CASE (RejectPart(a) /\ Unresolved(a)) \/ FailRedirect(a) \/ RedirectNotCreated(a)
    BY <2>1, FailRests, RestsKeepBooks
  <2>2. CASE \/ Answered(a) \/ (RejectPart(a) /\ ~Unresolved(a)) \/ ClaimPart(a)
             \/ ReadPart(a) \/ UpdateBill(a) \/ Crash(a)
    BY <2>2, WaitRests, RestsKeepBooks
  <2>3. CASE CommitPart(a) \/ UpdatePart(a)
    <3>1. PartsKept /\ TypeOK /\ AttemptInv(a)
      BY <2>3, CommitStep DEF Inv
    <3>2. attempt[a].status = "PENDING"
      BY <2>3, <3>1 DEF CommitPart, UpdatePart, At, AttemptInv, Awaits
    <3>3. CASE CommitPart(a) /\ UNCHANGED <<BillRows, SplitRows, attempt, creator, raced, NoticeSide>>
      BY <3>3, WaitRests, RestsKeepBooks
    <3>4. CASE Record(a, WithPaid(PartOf(a), req[a].paid + attempt[a].share))
      BY <3>1, <3>2, <3>4, RecordBooks
    <3>5. CASE UpdatePart(a)
      <4>1. attempt[a].share \in Nat /\ attempt[a].tip \in Nat
        BY <3>1 DEF TypeOK, AttemptRecords
      <4>2. ConfirmedShare(a) = attempt[a].share
        BY <4>1 DEF ConfirmedShare, Amount
      <4> QED
        BY <3>4, <3>5, <4>2 DEF UpdatePart
    <3> QED
      BY <2>3, <3>3, <3>4, <3>5 DEF CommitPart
  <2> QED
    BY <1>3, <2>1, <2>2, <2>3 DEF Work
<1>4. ASSUME NEW a \in Attempts, NEW b \in Attempts, DeadlockVictim(a, b)
      PROVE  Books'
  BY <1>4, WaitRests, RestsKeepBooks
<1>5. CASE ChargeOther \/ PayOther
  BY <1>5, OtherBooks
<1>6. CASE UNCHANGED vars
  <2>1. UNCHANGED <<bill, split, part, attempt, req, unapplied, other, overwritten, raced>>
    BY <1>6 DEF vars
  <2>2. \A a \in Attempts : req'[a].paid \in {0, req[a].paid}
    BY <2>1
  <2> QED
    BY <2>1, <2>2, RequestsRest, RestsKeepBooks
<1>7. ASSUME NEW a \in Attempts, Notify(a)
      PROVE  Books'
  BY <1>7, NoticeBooks
<1> QED
  BY <1>1, <1>2, <1>3, <1>4, <1>5, <1>6, <1>7 DEF Next

\* While no part is paid twice, what the payments leave is what the parts say.
LEMMA BooksCover == Inv /\ Books => PartsCoverRemaining
<1> SUFFICES ASSUME Inv, Books, NEW s \in Splits, split[s] # "NONE", Undisturbed,
                    \A i \in Parts : Cardinality(Recorded(<<s, i>>)) <= 1
             PROVE  bill.remaining = SumFunctionOnSet(
                        [i \in Parts |-> part[<<s, i>>].allocated - part[<<s, i>>].paid], Parts)
                        - Credited
  BY DEF PartsCoverRemaining, Undisturbed, Credited, AttemptAmounts
<1> DEFINE left == [i \in Parts |-> part[<<s, i>>].allocated - part[<<s, i>>].paid]
<1>1. \A i \in Parts : LeftOf(s)[i] = left[i]
  <2> SUFFICES ASSUME NEW i \in Parts
               PROVE  LeftOf(s)[i] = left[i]
    OBVIOUS
  <2> DEFINE p == <<s, i>>
  <2>1. p \in AllParts /\ PaidAsRecorded
    BY DEF AllParts, Books
  <2>2. part[p] \in PartRecords /\ PartInv(p)
    BY <2>1 DEF Inv, TypeOK, AllParts
  <2>3. part[p].paid \in Nat /\ part[p].allocated \in Nat
    BY <2>2 DEF PartRecords
  <2>4. Count(p) \in Nat /\ Count(p) <= 1
    BY <2>1, CountType DEF Count
  <2>5. LeftOf(s)[i] = part[p].allocated * (1 - Count(p))
    BY DEF LeftOf
  <2>6. CASE Count(p) = 0
    <3>1. Recorded(p) = {}
      BY <2>1, <2>6, CountType
    <3>2. part[p].paid = 0
      BY <2>2, <2>3, <3>1 DEF PartInv
    <3> QED
      BY <2>3, <2>5, <2>6, <3>2
  <2>7. CASE Count(p) = 1
    <3>1. part[p].paid = part[p].allocated
      BY <2>1, <2>7 DEF PaidAsRecorded
    <3> QED
      BY <2>3, <2>5, <2>7, <3>1
  <2> QED
    BY <2>4, <2>6, <2>7
<1> HIDE DEF left
<1>2. SumFunctionOnSet(LeftOf(s), Parts) = SumFunctionOnSet(left, Parts)
  BY <1>1, SumSame
<1>3. bill.remaining = SumFunctionOnSet(LeftOf(s), Parts) - Credited
  BY DEF Books, SplitCovers
<1> QED
  BY <1>2, <1>3 DEF left

\* What the parts of a split still have to pay is what the bill has, but for the charges
\* that notifications credited to the bill alone, for any split in any number of parts,
\* however the payments of the parts overlap: unless the bill was used otherwise, a rewrite lost an amount, splits were created at the same time, or a
\* part was paid by card and by redirect.
THEOREM PartsCover == Spec => []PartsCoverRemaining
<1>1. Inv /\ Inv' /\ OneUnpaid /\ Books /\ [Next]_vars => OneUnpaid' /\ Books'
  BY UnpaidStep, BooksStep
<1> QED
  BY <1>1, UnpaidInit, BooksInit, BooksCover, Invariance, PTL DEF Spec
=============================================================================
