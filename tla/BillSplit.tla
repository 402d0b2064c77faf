------------------------------- MODULE BillSplit -------------------------------
(***************************************************************************)
(* A bill that is split: guests or staff create the split, the guests pay  *)
(* their parts with a card (the request waits for the charge) or through a *)
(* gateway that redirects them, and waiters and other guests go on         *)
(* charging and paying the same bill.                                      *)
(*                                                                         *)
(* Every attempt is worked on by one request at a time, named by it.  The  *)
(* two channels update the same rows in opposite orders, so the rows an    *)
(* uncommitted transaction holds are explicit: the embedded one holds the  *)
(* part and then needs the bill, the redirect one holds the bill and then  *)
(* needs the part.  PostgreSQL breaks the cycle by aborting one of them.   *)
(*                                                                         *)
(* A card is charged through Mercado Pago, which notifies what became of   *)
(* it.  A notification that finds the attempt PENDING resolves it before   *)
(* its request does, or instead of it: it knows the bill, not the part.    *)
(* Which notifications come, and how they are stored and correlated, is in *)
(* MercadoPagoWebhook; here any may come while the attempt is PENDING.     *)
(***************************************************************************)
EXTENDS BillLedger, Functions

CONSTANTS Splits,     \* ids of the splits created for the bill
          Parts,      \* the participants of every split
          Attempts,   \* ids of the attempts to pay a part
          Creators,   \* requests that create a split
          Charged,    \* what the bill has to be paid at first
          Tips,       \* the tips a guest may add
          MaxOther,   \* bound: charges and payments that are not of a part
          NoPart

ASSUME PartsAssumption == IsFiniteSet(Parts) /\ Cardinality(Parts) >= 2
ASSUME ChargedAssumption == Charged \in Nat /\ MaxOther \in Nat
ASSUME TipsAssumption == Tips \subseteq Nat
ASSUME NoPartAssumption == NoPart \notin Splits \X Parts

VARIABLES
    bill,        \* the bill of the session
    split,       \* the status of each split
    part,        \* each participant of each split
    attempt,     \* each payment attempt and what it pays
    req,         \* the request that works on each attempt, with what it read
    notice,      \* whether a notification's transaction that finalizes each attempt
                 \* is open, with the bill it read
    unapplied,   \* the attempts a notification finalized: their Payment names no
                 \* participant
    creator,     \* the requests that create a split, with the bill they read
    other,       \* charges and payments of the bill that are not of a part
    overwritten, \* ghost: an amount of the bill was rewritten from a stale read
    raced        \* ghost: a split was created from a stale bill, or next to another

vars == <<bill, split, part, attempt, req, notice, unapplied, creator, other,
          overwritten, raced>>

SplitStatuses == {"NONE", "OPEN", "PARTIALLY_PAID", "PAID"}
PartStatuses == {"PENDING", "PARTIALLY_PAID", "PAID", "FAILED"}
ActiveSplitStatuses == {"OPEN", "PARTIALLY_PAID"}
PayablePartStatuses == {"PENDING", "PARTIALLY_PAID", "FAILED"}

PartRecords == [allocated : Nat, paid : Nat, status : PartStatuses]
AttemptRecords == [status : {"NONE", "PENDING", "SUCCEEDED", "FAILED"},
                   channel : {"embedded", "redirect"},
                   of : (Splits \X Parts) \cup {NoPart}, share : Nat, tip : Nat]

\* "away": the guest is at the gateway, nobody works on the attempt.
RequestSteps == {"none", "charging", "away", "approved", "rejected", "claimed",
                 "read", "billed", "ended"}
RequestRecords == [step : RequestSteps, paid : Nat, bill : Bills]
NoticeRecords == [open : BOOLEAN, bill : Bills]
CreatorRecords == [step : {"idle", "loaded", "checked"}, bill : Bills]

NoNotice == [open |-> FALSE, bill |-> EmptyBill]
IdleCreator == [step |-> "idle", bill |-> EmptyBill]
NewPart(amount) == [allocated |-> amount, paid |-> 0, status |-> "PENDING"]

Init ==
    /\ bill = ApplyOrderCharge(EmptyBill, EmptyBill, Charged)
    /\ split = [s \in Splits |-> "NONE"]
    /\ part = [p \in Splits \X Parts |-> NewPart(0)]
    /\ attempt = [a \in Attempts |-> [status |-> "NONE", channel |-> "embedded",
                                      of |-> NoPart, share |-> 0, tip |-> 0]]
    /\ req = [a \in Attempts |-> [step |-> "none", paid |-> 0, bill |-> EmptyBill]]
    /\ notice = [a \in Attempts |-> NoNotice]
    /\ unapplied = {}
    /\ creator = [c \in Creators |-> IdleCreator]
    /\ other = 0
    /\ overwritten = FALSE
    /\ raced = FALSE

-----------------------------------------------------------------------------
(* Helpers                                                                 *)

At(a, step) == req[a].step = step
Goto(a, step) == req' = [req EXCEPT ![a].step = step]

\* The request is over; the attempt of a redirect is confirmed again while PENDING.
Rest(a) == req' = [req EXCEPT ![a] = [step |-> IF attempt[a].channel = "redirect"
                                               THEN "away" ELSE "ended",
                                      paid |-> 0, bill |-> EmptyBill]]
Over(a) == req' = [req EXCEPT ![a] = [step |-> "ended", paid |-> 0, bill |-> EmptyBill]]

Amount(a) == attempt[a].share + attempt[a].tip
PartOf(a) == part[attempt[a].of]
Active(s) == split[s] \in ActiveSplitStatuses

\* The rows held by transactions that are not committed.
PartLocked(p) == \E a \in Attempts : At(a, "claimed") /\ attempt[a].of = p
BillLocked == \E a \in Attempts : At(a, "billed")

\* What a payment leaves of a participant.
StatusOfPaid(p) == IF p.paid >= p.allocated THEN "PAID" ELSE "PARTIALLY_PAID"
WithPaid(p, paid) ==
    LET updated == [p EXCEPT !.paid = paid]
    IN  [updated EXCEPT !.status = StatusOfPaid(updated)]

\* Plausible regression: one part that is paid is enough.
SomePaid(s, parts) ==
    IF \E i \in Parts : parts[<<s, i>>].status = "PAID" THEN "PAID" ELSE "OPEN"

\* updateBillSplitStatus
UpdatedSplitStatus(s, parts) ==
    LET With(statuses) == {i \in Parts : parts[<<s, i>>].status \in statuses}
    IN  IF With({"PAID"}) = Parts THEN "PAID"
        ELSE IF With({"PAID", "PARTIALLY_PAID"}) # {} THEN "PARTIALLY_PAID"
        ELSE "OPEN"

BillRows == <<bill, other, overwritten>>
SplitRows == <<split, part>>
NoticeSide == <<notice, unapplied>>

\* A payment of a part: what a transaction of either channel writes at last.
Record(a, updated) ==
    LET s == attempt[a].of[1]
        parts == [part EXCEPT ![attempt[a].of] = updated]
    IN  /\ bill' = ApplyPayment(bill, req[a].bill, Amount(a), attempt[a].tip)
        /\ overwritten' = (overwritten \/ AmountsDiffer(req[a].bill, bill))
        /\ attempt' = [attempt EXCEPT ![a].status = "SUCCEEDED"]
        /\ part' = parts
        /\ split' = [split EXCEPT ![s] = UpdatedSplitStatus(s, parts)]
        /\ Over(a)
        /\ UNCHANGED <<creator, other, raced, NoticeSide>>

-----------------------------------------------------------------------------
(* create-bill-split                                                       *)

LoadBill(c) ==
    /\ creator[c].step = "idle"
    /\ bill.status \in PayableBillStatuses
    /\ bill.remaining > 0
    /\ creator' = [creator EXCEPT ![c] = [step |-> "loaded", bill |-> bill]]
    /\ UNCHANGED <<BillRows, SplitRows, attempt, req, raced, NoticeSide>>

\* Plausible regression: a split that was partly paid does not count as active.
CheckOpenOnly(c) ==
    /\ creator[c].step = "loaded"
    /\ creator' = [creator EXCEPT ![c] =
           IF \E s \in Splits : split[s] = "OPEN" THEN IdleCreator
           ELSE [@ EXCEPT !.step = "checked"]]
    /\ UNCHANGED <<BillRows, SplitRows, attempt, req, raced, NoticeSide>>

\* A bill has one active split: the request fails when it finds one.
CheckNoSplit(c) ==
    /\ creator[c].step = "loaded"
    /\ creator' = [creator EXCEPT ![c] =
           IF \E s \in Splits : Active(s) THEN IdleCreator
           ELSE [@ EXCEPT !.step = "checked"]]
    /\ UNCHANGED <<BillRows, SplitRows, attempt, req, raced, NoticeSide>>

\* The parts add up to what was left to pay when the bill was read.
CreateSplit(c, s, amounts) ==
    /\ creator[c].step = "checked"
    /\ split[s] = "NONE"
    /\ \A i \in Parts : amounts[i] > 0
    /\ SumFunctionOnSet(amounts, Parts) = creator[c].bill.remaining
    /\ split' = [split EXCEPT ![s] = "OPEN"]
    /\ part' = [p \in Splits \X Parts |-> IF p[1] = s THEN NewPart(amounts[p[2]])
                                          ELSE part[p]]
    /\ raced' = (raced \/ creator[c].bill.remaining # bill.remaining
                       \/ \E d \in Creators \ {c} : creator[d].step = "checked")
    /\ creator' = [creator EXCEPT ![c] = IdleCreator]
    /\ UNCHANGED <<BillRows, attempt, req, NoticeSide>>

-----------------------------------------------------------------------------
(* An attempt to pay a part is opened                                      *)

\* Both channels check the bill and the participant, and ask for the whole of what
\* the participant has left to pay.  A split that is not active is not looked at.
OpenAttempt(a, p, tip, channel, step) ==
    /\ attempt[a].status = "NONE"
    /\ split[p[1]] # "NONE"
    /\ bill.status \in PayableBillStatuses
    /\ part[p].status \in PayablePartStatuses
    /\ part[p].paid < part[p].allocated
    /\ attempt' = [attempt EXCEPT ![a] =
           [status |-> "PENDING", channel |-> channel, of |-> p,
            share |-> part[p].allocated - part[p].paid, tip |-> tip]]
    /\ req' = [req EXCEPT ![a].step = step, ![a].paid = part[p].paid]
    /\ UNCHANGED <<BillRows, SplitRows, creator, raced, NoticeSide>>

PayPart(a, p, tip) == OpenAttempt(a, p, tip, "embedded", "charging")
StartRedirect(a, p, tip) == OpenAttempt(a, p, tip, "redirect", "away")

\* The gateway has no transaction for the guest: the attempt fails.
RedirectNotCreated(a) ==
    /\ At(a, "away")
    /\ attempt[a].status = "PENDING"
    /\ attempt' = [attempt EXCEPT ![a].status = "FAILED"]
    /\ Over(a)
    /\ UNCHANGED <<BillRows, SplitRows, creator, raced, NoticeSide>>

\* What the provider of either channel answers, or the handler takes for an answer: a
\* card that is not charged through a gateway is approved at once (TableService), and
\* what the gateway of a redirect answers is in RedirectPayment.
Answered(a) ==
    /\ req[a].step \in {"charging", "away"}
    /\ \E answer \in {"approved", "rejected"} : Goto(a, answer)
    /\ UNCHANGED <<BillRows, SplitRows, attempt, creator, raced, NoticeSide>>

-----------------------------------------------------------------------------
(* pay-bill-split-participant: after the charge                            *)

Embedded(a) == attempt[a].channel = "embedded"

\* The WHERE of finalize-payment and fail-payment; the row is held by an open
\* transaction of a notification.
Unresolved(a) == attempt[a].status = "PENDING"

\* The participant fails whatever became of it in the meantime, unless a notification
\* resolved the attempt: then the transaction rolls back.
RejectPart(a) ==
    /\ At(a, "rejected")
    /\ Embedded(a)
    /\ ~notice[a].open
    /\ IF Unresolved(a)
       THEN /\ ~PartLocked(attempt[a].of)
            /\ attempt' = [attempt EXCEPT ![a].status = "FAILED"]
            /\ part' = [part EXCEPT ![attempt[a].of].status = "FAILED"]
       ELSE UNCHANGED <<attempt, part>>
    /\ Over(a)
    /\ UNCHANGED <<BillRows, split, creator, raced, NoticeSide>>

\* Whether the participant is as the request read it.
AsRead(a) == PartOf(a).status \in PayablePartStatuses /\ PartOf(a).paid = req[a].paid

\* Plausible regression: the claim only looks at the participant's status.
ClaimPayable(a) ==
    /\ At(a, "approved")
    /\ Embedded(a)
    /\ ~PartLocked(attempt[a].of) /\ ~notice[a].open
    /\ IF PartOf(a).status \in PayablePartStatuses /\ Unresolved(a)
       THEN req' = [req EXCEPT ![a].step = "claimed", ![a].bill = bill]
       ELSE Over(a)
    /\ UNCHANGED <<BillRows, SplitRows, attempt, creator, raced, NoticeSide>>

\* Plausible regression: the transaction does not look at the attempt's status.
ClaimResolved(a) ==
    /\ At(a, "approved")
    /\ Embedded(a)
    /\ ~PartLocked(attempt[a].of) /\ ~notice[a].open
    /\ IF AsRead(a)
       THEN req' = [req EXCEPT ![a].step = "claimed", ![a].bill = bill]
       ELSE Over(a)
    /\ UNCHANGED <<BillRows, SplitRows, attempt, creator, raced, NoticeSide>>

\* The participant is claimed if it is as it was read; then the attempt is finalized,
\* unless a notification resolved it, and the bill read.
ClaimPart(a) ==
    /\ At(a, "approved")
    /\ Embedded(a)
    /\ ~PartLocked(attempt[a].of) /\ ~notice[a].open
    /\ IF AsRead(a) /\ Unresolved(a)
       THEN req' = [req EXCEPT ![a].step = "claimed", ![a].bill = bill]
       ELSE Over(a)
    /\ UNCHANGED <<BillRows, SplitRows, attempt, creator, raced, NoticeSide>>

\* The bill, the status of the split and the end of the transaction.
CommitPart(a) ==
    /\ At(a, "claimed")
    /\ ~BillLocked
    /\ IF PaymentFits(req[a].bill, Amount(a), attempt[a].tip)
       THEN Record(a, WithPaid(PartOf(a), req[a].paid + attempt[a].share))
       ELSE /\ Over(a)
            /\ UNCHANGED <<BillRows, SplitRows, attempt, creator, raced, NoticeSide>>

-----------------------------------------------------------------------------
(* handle-mercado-pago-webhook, when the attempt pays a part               *)

\* The transaction that finalizes the attempt, whose row it holds, reads the bill.
\* It waits for the transaction of the request.
NoticeRead(a) ==
    /\ Embedded(a) /\ Unresolved(a)
    /\ ~At(a, "claimed") /\ ~notice[a].open
    /\ notice' = [notice EXCEPT ![a] = [open |-> TRUE, bill |-> bill]]
    /\ UNCHANGED <<BillRows, SplitRows, attempt, req, unapplied, creator, raced>>

\* Plausible regression: the Payment is created although the bill cannot take it.
NoticeUnchecked(a) ==
    /\ notice[a].open
    /\ ~BillLocked
    /\ notice' = [notice EXCEPT ![a] = NoNotice]
    /\ attempt' = [attempt EXCEPT ![a].status = "SUCCEEDED"]
    /\ unapplied' = unapplied \cup {a}
    /\ UNCHANGED <<BillRows, SplitRows, req, creator, raced>>

\* The bill is credited with the whole amount, as if it had no tip; the participant and
\* the split are not touched.
NoticeCommit(a) ==
    /\ notice[a].open
    /\ ~BillLocked
    /\ notice' = [notice EXCEPT ![a] = NoNotice]
    /\ IF PaymentFits(notice[a].bill, Amount(a), 0)
       THEN /\ bill' = ApplyPayment(bill, notice[a].bill, Amount(a), 0)
            /\ overwritten' = (overwritten \/ AmountsDiffer(notice[a].bill, bill))
            /\ attempt' = [attempt EXCEPT ![a].status = "SUCCEEDED"]
            /\ unapplied' = unapplied \cup {a}
       ELSE UNCHANGED <<bill, overwritten, attempt, unapplied>>
    /\ UNCHANGED <<other, SplitRows, req, creator, raced>>

\* A notification of a rejection fails the attempt, and leaves the participant alone.
NoticeFails(a) ==
    /\ Embedded(a) /\ Unresolved(a)
    /\ ~At(a, "claimed") /\ ~notice[a].open
    /\ attempt' = [attempt EXCEPT ![a].status = "FAILED"]
    /\ UNCHANGED <<BillRows, SplitRows, req, creator, raced, NoticeSide>>

\* The process crashes, or the database aborts the transaction.
NoticeDies(a) ==
    /\ notice[a].open
    /\ notice' = [notice EXCEPT ![a] = NoNotice]
    /\ UNCHANGED <<BillRows, SplitRows, attempt, req, unapplied, creator, raced>>

-----------------------------------------------------------------------------
(* confirm-redirect-payment: the attempt pays a part                       *)

\* A participant that is PAID is left alone.
FailRedirect(a) ==
    /\ At(a, "rejected")
    /\ ~Embedded(a)
    /\ ~PartLocked(attempt[a].of)
    /\ attempt' = [attempt EXCEPT ![a].status = "FAILED"]
    /\ part' = [part EXCEPT ![attempt[a].of].status = IF @ = "PAID" THEN @ ELSE "FAILED"]
    /\ Over(a)
    /\ UNCHANGED <<BillRows, split, creator, raced, NoticeSide>>

\* The participant is read, whatever its status; the attempt is finalized and the
\* bill read.
ReadPart(a) ==
    /\ At(a, "approved")
    /\ ~Embedded(a)
    /\ req' = [req EXCEPT ![a] = [step |-> "read", paid |-> PartOf(a).paid, bill |-> bill]]
    /\ UNCHANGED <<BillRows, SplitRows, attempt, creator, raced, NoticeSide>>

\* The bill is updated first: its row is held until the transaction ends.
UpdateBill(a) ==
    /\ At(a, "read")
    /\ ~BillLocked
    /\ IF PaymentFits(req[a].bill, Amount(a), attempt[a].tip)
       THEN Goto(a, "billed")
       ELSE Rest(a)
    /\ UNCHANGED <<BillRows, SplitRows, attempt, creator, raced, NoticeSide>>

\* What a confirmed payment adds to the participant.
ConfirmedShare(a) == Amount(a) - attempt[a].tip

\* Then the participant, from what was read, and the split.
UpdatePart(a) ==
    /\ At(a, "billed")
    /\ ~PartLocked(attempt[a].of)
    /\ Record(a, WithPaid(PartOf(a), req[a].paid + ConfirmedShare(a)))

-----------------------------------------------------------------------------
(* Aborted transactions, crashes, and the rest of the bill                 *)

\* Two transactions wait for each other, and either is aborted.
DeadlockVictim(a, b) ==
    /\ At(a, "claimed") /\ At(b, "billed")
    /\ attempt[a].of = attempt[b].of
    /\ \E victim \in {a, b} : Rest(victim)
    /\ UNCHANGED <<BillRows, SplitRows, attempt, creator, raced, NoticeSide>>

Crash(a) ==
    /\ req[a].step \notin {"none", "away", "ended"}
    /\ Rest(a)
    /\ UNCHANGED <<BillRows, SplitRows, attempt, creator, raced, NoticeSide>>

OtherTraffic(rewritten) ==
    /\ ~BillLocked
    /\ other < MaxOther
    /\ other' = other + 1
    /\ bill' = rewritten
    /\ UNCHANGED <<SplitRows, attempt, req, creator, overwritten, raced,
                   NoticeSide>>

ChargeOther == OtherTraffic(ApplyOrderCharge(bill, bill, 1))
PayOther ==
    /\ bill.status \in PayableBillStatuses
    /\ PaymentFits(bill, 1, 0)
    /\ OtherTraffic(ApplyPayment(bill, bill, 1, 0))

CreatorStep(c) ==
    \/ LoadBill(c)
    \/ CheckNoSplit(c)
    \/ \E s \in Splits, amounts \in [Parts -> 1..creator[c].bill.remaining] :
          CreateSplit(c, s, amounts)

Open(a) ==
    \E p \in Splits \X Parts, tip \in Tips : PayPart(a, p, tip) \/ StartRedirect(a, p, tip)

Work(a) ==
    \/ RedirectNotCreated(a)
    \/ Answered(a)
    \/ RejectPart(a)
    \/ ClaimPart(a)
    \/ CommitPart(a)
    \/ FailRedirect(a)
    \/ ReadPart(a)
    \/ UpdateBill(a)
    \/ UpdatePart(a)
    \/ Crash(a)

Notify(a) ==
    \/ NoticeRead(a)
    \/ NoticeCommit(a)
    \/ NoticeFails(a)
    \/ NoticeDies(a)

Next ==
    \/ \E c \in Creators : CreatorStep(c)
    \/ \E a \in Attempts : Open(a) \/ Work(a) \/ Notify(a)
    \/ \E a, b \in Attempts : DeadlockVictim(a, b)
    \/ ChargeOther
    \/ PayOther

Spec == Init /\ [][Next]_vars

-----------------------------------------------------------------------------
(* Properties                                                              *)

\* The payments that name a part.
Recorded(p) ==
    {a \in Attempts \ unapplied : attempt[a].of = p /\ attempt[a].status = "SUCCEEDED"}

\* Every variable keeps its type.
TypeOK ==
    /\ bill \in Bills
    /\ split \in [Splits -> SplitStatuses]
    /\ part \in [Splits \X Parts -> PartRecords]
    /\ attempt \in [Attempts -> AttemptRecords]
    /\ req \in [Attempts -> RequestRecords]
    /\ notice \in [Attempts -> NoticeRecords]
    /\ unapplied \subseteq Attempts
    /\ creator \in [Creators -> CreatorRecords]
    /\ other \in Nat
    /\ overwritten \in BOOLEAN
    /\ raced \in BOOLEAN

\* Whoever pays last closes the split: when every part is PAID the split is too, and a
\* split that is PAID has every part paid, although the payments of its parts read each
\* other's rows while both are under way.
SplitFollowsParts ==
    \A s \in Splits :
        /\ split[s] # "NONE" /\ (\A i \in Parts : part[<<s, i>>].status = "PAID")
               => split[s] = "PAID"
        /\ split[s] = "PAID" =>
               \A i \in Parts : part[<<s, i>>].paid >= part[<<s, i>>].allocated

\* At most one of the payments that name a part is by card, however many guests charge
\* their cards for it at the same time and whatever a late rejection or a notification
\* does meanwhile.  (A card charge that a notification records names no part, and the
\* guest may pay the part with another one.)
EmbeddedPaysPartOnce ==
    \A p \in Splits \X Parts : Cardinality({a \in Recorded(p) : Embedded(a)}) <= 1

\* A part has something paid exactly when a payment names it, and then it is paid in
\* full: nothing of an aborted transaction stays, and PARTIALLY_PAID is never
\* the status of a participant.
PartPaidInFull ==
    \A p \in Splits \X Parts :
        /\ part[p].paid > 0 <=> Recorded(p) # {}
        /\ part[p].paid > 0 => part[p].paid >= part[p].allocated
        /\ part[p].status # "PARTIALLY_PAID"

\* What the parts of a split still have to pay is what the bill has, but for the charges
\* that notifications credited to the bill alone: unless the bill was used otherwise, a
\* rewrite lost an amount, or a part was paid by card and by redirect.
PartsCoverRemaining ==
    \A s \in Splits :
        /\ split[s] # "NONE" /\ other = 0 /\ ~overwritten /\ ~raced
        /\ \A i \in Parts : Cardinality(Recorded(<<s, i>>)) <= 1
        => bill.remaining =
               SumFunctionOnSet([i \in Parts |-> part[<<s, i>>].allocated
                                                   - part[<<s, i>>].paid], Parts)
               - SumFunctionOnSet([a \in Attempts |-> Amount(a)], unapplied)

\* A bill has one active split, unless two requests created theirs at the same time or
\* a late rejection undid the status of a part that was paid.
OneActiveSplit ==
    \A s, t \in Splits : s # t /\ Active(s) /\ Active(t) =>
        raced \/ \E p \in Splits \X Parts :
                     part[p].status = "FAILED" /\ part[p].paid >= part[p].allocated
=============================================================================
