-------------------------- MODULE BillLedgerTheorems --------------------------
(***************************************************************************)
(* What the rewrites of a bill return, for any amounts, and what becomes   *)
(* of the sum of a function over a finite set.  The proofs about the       *)
(* modules that rewrite bills build on these.                              *)
(***************************************************************************)
EXTENDS BillLedger, Functions, FiniteSetTheorems, TLAPS

\* A bill that is charged, paid or voided is a bill again, whatever the row has
\* become since it was read.
LEMMA BillRewriteType ==
    ASSUME NEW row \in Bills, NEW seen \in Bills, NEW n \in Int, NEW tip \in Int
    PROVE  /\ WithSubtotal(row, seen, n) \in Bills
           /\ ApplyOrderCharge(row, seen, n) \in Bills
           /\ ApplyPayment(row, seen, n, tip) \in Bills
           /\ EmptyBill \in Bills
<1>1. \A bill_ \in Bills : bill_.subtotal \in Int /\ bill_.tip \in Int
                              /\ bill_.total \in Int /\ bill_.remaining \in Int
  BY DEF Bills
<1>2. \A paid, remaining \in Int : BalanceStatus(paid, remaining) \in BillStatuses
  BY DEF BalanceStatus, BillStatuses
<1>3. \A subtotal \in Int : WithSubtotal(row, seen, subtotal) \in Bills
  <2> SUFFICES ASSUME NEW subtotal \in Int PROVE WithSubtotal(row, seen, subtotal) \in Bills
    OBVIOUS
  <2> DEFINE total == ComputeBillTotals(subtotal, seen.tip)
             remaining == total - Paid(seen)
  <2>1. total \in Int /\ Paid(seen) \in Int /\ remaining \in Int
    BY <1>1 DEF ComputeBillTotals, Paid
  <2>2. BalanceStatus(Paid(seen), remaining) \in BillStatuses
    BY <1>2, <2>1
  <2>3. WithSubtotal(row, seen, subtotal) =
           [row EXCEPT !.subtotal = subtotal, !.total = total,
                       !.remaining = remaining,
                       !.status = BalanceStatus(Paid(seen), remaining)]
    BY DEF WithSubtotal
  <2> HIDE DEF total, remaining
  <2> QED
    BY <2>1, <2>2, <2>3 DEF Bills
<1>4. ApplyOrderCharge(row, seen, n) \in Bills
  BY <1>1, <1>3 DEF ApplyOrderCharge
<1>5. ApplyPayment(row, seen, n, tip) \in Bills
  <2> DEFINE remaining == RemainingAfterPayment(seen, n, tip)
             total == ComputeBillTotals(seen.subtotal, seen.tip + tip)
             status == IF remaining <= 0 THEN "PAID" ELSE "PARTIALLY_PAID"
  <2>1. remaining \in Int /\ total \in Int /\ seen.tip + tip \in Int
    BY <1>1 DEF RemainingAfterPayment, ComputeBillTotals, Paid
  <2>2. status \in BillStatuses
    BY DEF BillStatuses
  <2>3. ApplyPayment(row, seen, n, tip) =
           [row EXCEPT !.tip = seen.tip + tip, !.total = total,
                       !.remaining = remaining, !.status = status]
    BY DEF ApplyPayment
  <2> HIDE DEF remaining, total, status
  <2> QED
    BY <2>1, <2>2, <2>3 DEF Bills
<1>6. EmptyBill \in Bills
  BY DEF EmptyBill, Bills, BillStatuses
<1> QED
  BY <1>3, <1>4, <1>5, <1>6

\* A charge computed from the row itself adds its price to what is left to pay,
\* and leaves what was paid as it was.
LEMMA ChargeKeepsPaid ==
    ASSUME NEW bill_ \in Bills, NEW price \in Int,
           bill_.total = bill_.subtotal + bill_.tip
    PROVE  LET charged == ApplyOrderCharge(bill_, bill_, price)
           IN  /\ Paid(charged) = Paid(bill_)
               /\ charged.remaining = bill_.remaining + price
               /\ charged.total = charged.subtotal + charged.tip
BY DEF Bills, WithSubtotal, ApplyOrderCharge, ComputeBillTotals, Paid

\* A payment computed from the row itself adds exactly its amount to what was
\* paid, and leaves nothing negative when it fits.
LEMMA PaymentAddsUp ==
    ASSUME NEW bill_ \in Bills, NEW amount \in Int, NEW tip \in Int,
           bill_.total = bill_.subtotal + bill_.tip,
           PaymentFits(bill_, amount, tip)
    PROVE  LET paid == ApplyPayment(bill_, bill_, amount, tip)
           IN  /\ Paid(paid) = Paid(bill_) + amount
               /\ paid.remaining = bill_.remaining + tip - amount
               /\ paid.remaining >= 0
               /\ paid.total = paid.subtotal + paid.tip
BY DEF Bills, ApplyPayment, ComputeBillTotals, Paid, RemainingAfterPayment, PaymentFits

-----------------------------------------------------------------------------
(* Rewrites from a read that is still current                              *)

\* When the row read and the row updated agree, every amount does.
LEMMA AmountsAgree ==
    ASSUME NEW seen \in Bills, NEW row \in Bills, ~AmountsDiffer(seen, row)
    PROVE  /\ seen.subtotal = row.subtotal
           /\ seen.tip = row.tip
           /\ seen.total = row.total
           /\ seen.remaining = row.remaining
           /\ Paid(seen) = Paid(row)
<1>1. [seen EXCEPT !.status = row.status] = row
  BY DEF AmountsDiffer
<1>2. /\ seen.subtotal = row.subtotal
      /\ seen.tip = row.tip
      /\ seen.total = row.total
      /\ seen.remaining = row.remaining
  BY <1>1 DEF Bills
<1> QED
  BY <1>2 DEF Paid

\* The status of a bill says what was paid and what is left.
StatusTells(bill_) ==
    /\ bill_.status = "PAID" <=> Paid(bill_) > 0 /\ bill_.remaining = 0
    /\ bill_.status = "OPEN" <=> Paid(bill_) = 0

\* A charge or a void based on a current read keeps what was paid, moves what is
\* left by as much as the subtotal, and sets a status that tells the balance.
LEMMA SubtotalRewritten ==
    ASSUME NEW row \in Bills, NEW seen \in Bills, ~AmountsDiffer(seen, row),
           row.total = row.subtotal + row.tip, NEW n \in Int
    PROVE  LET b == WithSubtotal(row, seen, n)
           IN  /\ b.subtotal = n
               /\ b.tip = row.tip
               /\ b.total = b.subtotal + b.tip
               /\ Paid(b) = Paid(row)
               /\ b.remaining = row.remaining + n - row.subtotal
               /\ Paid(row) >= 0 /\ b.remaining >= 0 => StatusTells(b)
<1> DEFINE total == ComputeBillTotals(n, seen.tip)
           left  == total - Paid(seen)
           b     == WithSubtotal(row, seen, n)
<1>1. /\ seen.subtotal = row.subtotal /\ seen.tip = row.tip
      /\ seen.total = row.total /\ seen.remaining = row.remaining
      /\ Paid(seen) = Paid(row)
  BY AmountsAgree
<1>2. /\ row.subtotal \in Int /\ row.tip \in Int /\ row.total \in Int
      /\ row.remaining \in Int
  BY DEF Bills
<1>3. /\ b.subtotal = n
      /\ b.tip = row.tip
      /\ b.total = n + seen.tip
      /\ b.remaining = left
      /\ b.status = BalanceStatus(Paid(seen), left)
  <2> DEFINE status == BalanceStatus(Paid(seen), left)
  <2>1. b = [row EXCEPT !.subtotal = n, !.total = total, !.remaining = left,
                        !.status = status]
    BY DEF WithSubtotal
  <2> HIDE DEF b, left, status, total
  <2>2. /\ b.subtotal = n /\ b.tip = row.tip /\ b.total = total
        /\ b.remaining = left /\ b.status = status
    BY <2>1 DEF Bills
  <2> QED
    BY <2>2 DEF status, total, ComputeBillTotals
<1>4. left = row.remaining + n - row.subtotal
  BY <1>1, <1>2 DEF Paid, ComputeBillTotals
<1>5. Paid(b) = Paid(row)
  BY <1>1, <1>2, <1>3, <1>4 DEF Paid
<1>6. ASSUME Paid(row) >= 0, left >= 0
      PROVE  StatusTells(b)
  <2>1. Paid(row) \in Int /\ left \in Int
    BY <1>2, <1>4 DEF Paid
  <2> HIDE DEF left, total, b
  <2> QED
    BY <1>1, <1>3, <1>5, <1>6, <2>1 DEF StatusTells, BalanceStatus
<1> HIDE DEF b, left, total
<1> QED
  BY <1>1, <1>3, <1>4, <1>5, <1>6 DEF b

\* A payment based on a current read leaves so much less to pay, whether or not that
\* is negative.
LEMMA PaymentTaken ==
    ASSUME NEW row \in Bills, NEW seen \in Bills, ~AmountsDiffer(seen, row),
           row.total = row.subtotal + row.tip, NEW amount \in Int, NEW tip \in Int
    PROVE  LET b == ApplyPayment(row, seen, amount, tip)
           IN  /\ b.total = b.subtotal + b.tip
               /\ b.remaining = row.remaining + tip - amount
<1> DEFINE left == RemainingAfterPayment(seen, amount, tip)
           b    == ApplyPayment(row, seen, amount, tip)
<1>1. /\ seen.subtotal = row.subtotal /\ seen.tip = row.tip
      /\ seen.total = row.total /\ seen.remaining = row.remaining
  BY AmountsAgree
<1>2. /\ row.subtotal \in Int /\ row.tip \in Int /\ row.total \in Int
      /\ row.remaining \in Int
  BY DEF Bills
<1>3. /\ b.subtotal = row.subtotal
      /\ b.tip = seen.tip + tip
      /\ b.total = seen.subtotal + (seen.tip + tip)
      /\ b.remaining = left
  BY DEF ApplyPayment, ComputeBillTotals, Bills
<1>4. left = row.remaining + tip - amount
  BY <1>1, <1>2 DEF RemainingAfterPayment, ComputeBillTotals, Paid
<1> HIDE DEF b, left
<1> QED
  BY <1>1, <1>2, <1>3, <1>4 DEF b

\* A payment that fits, based on a current read, adds exactly its amount to what
\* was paid, leaves nothing negative, and sets a status that tells the balance.
LEMMA PaymentApplied ==
    ASSUME NEW row \in Bills, NEW seen \in Bills, ~AmountsDiffer(seen, row),
           row.total = row.subtotal + row.tip,
           NEW amount \in Int, NEW tip \in Int, PaymentFits(seen, amount, tip)
    PROVE  LET b == ApplyPayment(row, seen, amount, tip)
           IN  /\ b.subtotal = row.subtotal
               /\ b.tip = row.tip + tip
               /\ b.total = b.subtotal + b.tip
               /\ Paid(b) = Paid(row) + amount
               /\ b.remaining = row.remaining + tip - amount
               /\ b.remaining >= 0
               /\ Paid(row) >= 0 /\ amount > 0 => StatusTells(b)
<1> DEFINE left == RemainingAfterPayment(seen, amount, tip)
           b    == ApplyPayment(row, seen, amount, tip)
<1>1. /\ seen.subtotal = row.subtotal /\ seen.tip = row.tip
      /\ seen.total = row.total /\ seen.remaining = row.remaining
      /\ Paid(seen) = Paid(row)
  BY AmountsAgree
<1>2. /\ row.subtotal \in Int /\ row.tip \in Int /\ row.total \in Int
      /\ row.remaining \in Int
  BY DEF Bills
<1>3. /\ b.subtotal = row.subtotal
      /\ b.tip = seen.tip + tip
      /\ b.total = seen.subtotal + (seen.tip + tip)
      /\ b.remaining = left
      /\ b.status = IF left <= 0 THEN "PAID" ELSE "PARTIALLY_PAID"
  BY DEF ApplyPayment, ComputeBillTotals, Bills
<1>4. left = row.remaining + tip - amount /\ left >= 0
  BY <1>1, <1>2 DEF RemainingAfterPayment, PaymentFits, ComputeBillTotals, Paid
<1>5. Paid(b) = Paid(row) + amount
  BY <1>1, <1>2, <1>3, <1>4 DEF Paid
<1>6. ASSUME Paid(row) >= 0, amount > 0
      PROVE  StatusTells(b)
  <2>1. Paid(row) \in Int /\ left \in Int
    BY <1>2, <1>4 DEF Paid
  <2> HIDE DEF left, b
  <2> QED
    BY <1>3, <1>4, <1>5, <1>6, <2>1 DEF StatusTells
<1> HIDE DEF b, left
<1> QED
  BY <1>1, <1>3, <1>4, <1>5, <1>6 DEF b

-----------------------------------------------------------------------------
(* Sums over a finite set, as the ledgers' properties add payments up      *)

Pick(s) == CHOOSE x \in s : TRUE

\* What s adds up to, given the sums of its subsets.
AddedUp(f, sums, s) == IF s = {} THEN 0 ELSE f[Pick(s)] + sums[s \ {Pick(s)}]

SubsetSums(sums, f, S) == sums = [s \in SUBSET S |-> AddedUp(f, sums, s)]

SumsOf(f, S) == CHOOSE sums : SubsetSums(sums, f, S)

\* A set of subsets of a finite set has one with no smaller one in it: what stands
\* for induction over finite sets in the proofs below.
LEMMA SmallestSubset ==
    ASSUME NEW S, IsFiniteSet(S), NEW T \in SUBSET SUBSET S, T # {}
    PROVE  \E U \in T : \A V \in T : V \subseteq U => V = U
<1>1. IsWellFoundedOn(StrictSubsetOrdering(S), SUBSET S)
  BY FS_StrictSubsetOrderingWellFounded, FS_FiniteSubsetsOfFinite
<1>2. PICK U \in T : \A V \in T : <<V, U>> \notin StrictSubsetOrdering(S)
  BY <1>1, WFMin
<1> QED
  BY <1>2 DEF StrictSubsetOrdering

\* The library's sum looks a set up in the sums of all subsets.
LEMMA SumIsLookedUp == ASSUME NEW f, NEW S PROVE SumFunctionOnSet(f, S) = SumsOf(f, S)[S]
BY DEF SumFunctionOnSet, FoldFunctionOnSet, MapThenFoldSet, SumsOf, SubsetSums, AddedUp, Pick

\* The element a sum adds next is one of the set.
LEMMA PickIn == ASSUME NEW s, s # {} PROVE Pick(s) \in s
BY DEF Pick

\* If some function gives the sums of the subsets, the one the library chooses does.
LEMMA SubsetSumsExist ==
    ASSUME NEW f, NEW S, NEW g, SubsetSums(g, f, S)
    PROVE  SubsetSums(SumsOf(f, S), f, S)
BY DEF SumsOf

\* A sum is one element's value plus the sum over the other elements.
LEMMA SumUnfolds ==
    ASSUME NEW f, NEW S, IsFiniteSet(S)
    PROVE  SumFunctionOnSet(f, S) =
              IF S = {} THEN 0 ELSE f[Pick(S)] + SumFunctionOnSet(f, S \ {Pick(S)})
<1> DEFINE Unfolds(s) ==
              SumFunctionOnSet(f, s) =
                 IF s = {} THEN 0 ELSE f[Pick(s)] + SumFunctionOnSet(f, s \ {Pick(s)})
           T == {s \in SUBSET S : ~Unfolds(s)}
<1> SUFFICES ASSUME ~Unfolds(S)
             PROVE  FALSE
  OBVIOUS
<1>1. T \in SUBSET SUBSET S /\ T # {}
  OBVIOUS
<1>2. PICK U \in T : \A V \in T : V \subseteq U => V = U
  <2> HIDE DEF T
  <2> QED
    BY <1>1, SmallestSubset
<1>3. U \in SUBSET S /\ ~Unfolds(U) /\ \A V \in SUBSET U : V # U => Unfolds(V)
  BY <1>2
<1> HIDE DEF T
<1> DEFINE value == IF U = {} THEN 0 ELSE f[Pick(U)] + SumFunctionOnSet(f, U \ {Pick(U)})
           g == [s \in SUBSET U |-> IF s = U THEN value ELSE SumFunctionOnSet(f, s)]
           h == SumsOf(f, U)
<1>4. \A s \in SUBSET U : g[s] = AddedUp(f, g, s)
  <2> SUFFICES ASSUME NEW s \in SUBSET U PROVE g[s] = AddedUp(f, g, s)
    OBVIOUS
  <2>1. CASE s = {}
    <3>1. CASE U = {}
      BY <2>1, <3>1 DEF AddedUp
    <3>2. CASE U # {}
      <4>1. g[s] = SumFunctionOnSet(f, s)
        BY <2>1, <3>2
      <4>2. Unfolds(s)
        BY <1>3, <2>1, <3>2
      <4> QED
        BY <2>1, <4>1, <4>2 DEF AddedUp
    <3> QED
      BY <3>1, <3>2
  <2>2. CASE s # {}
    <3>1. Pick(s) \in s /\ s \ {Pick(s)} \in SUBSET U /\ s \ {Pick(s)} # U
      BY <2>2, PickIn
    <3>2. g[s \ {Pick(s)}] = SumFunctionOnSet(f, s \ {Pick(s)})
      BY <3>1
    <3>3. g[s] = f[Pick(s)] + SumFunctionOnSet(f, s \ {Pick(s)})
      <4>1. CASE s = U
        BY <2>2, <4>1
      <4>2. CASE s # U
        <5>1. g[s] = SumFunctionOnSet(f, s)
          BY <4>2
        <5>2. Unfolds(s)
          BY <1>3, <4>2
        <5> QED
          BY <2>2, <5>1, <5>2
      <4> QED
        BY <4>1, <4>2
    <3> QED
      BY <2>2, <3>2, <3>3 DEF AddedUp
  <2> QED
    BY <2>1, <2>2
<1>5. g = [s \in SUBSET U |-> AddedUp(f, g, s)]
  <2>1. g = [s \in SUBSET U |-> g[s]]
    OBVIOUS
  <2> HIDE DEF g
  <2> QED
    BY <1>4, <2>1
<1>g. g[U] = value
  OBVIOUS
<1>k. \A s \in SUBSET U : s # U => g[s] = SumFunctionOnSet(f, s)
  OBVIOUS
<1> HIDE DEF g
<1>6. h = [s \in SUBSET U |-> AddedUp(f, h, s)]
  <2>1. SubsetSums(g, f, U)
    BY <1>5 DEF SubsetSums
  <2>2. SubsetSums(h, f, U)
    BY <2>1, SubsetSumsExist
  <2> QED
    BY <2>2 DEF SubsetSums
<1> HIDE DEF h
<1>7. \A s \in SUBSET U : h[s] = g[s]
  <2> DEFINE D == {s \in SUBSET U : h[s] # g[s]}
  <2> SUFFICES ASSUME D # {}
               PROVE  FALSE
    OBVIOUS
  <2>1. IsFiniteSet(U)
    BY <1>3, FS_Subset
  <2>2. PICK V \in D : \A W \in D : W \subseteq V => W = V
    <3>1. D \in SUBSET SUBSET U
      OBVIOUS
    <3> HIDE DEF D
    <3> QED
      BY <2>1, <3>1, SmallestSubset
  <2>3. CASE V = {}
    <3>1. h[V] = 0 /\ g[V] = 0
      BY <1>5, <1>6, <2>2, <2>3 DEF AddedUp
    <3> QED
      BY <2>2, <3>1
  <2>4. CASE V # {}
    <3>1. Pick(V) \in V /\ V \ {Pick(V)} \in SUBSET U
      BY <2>2, <2>4, PickIn
    <3>2. h[V \ {Pick(V)}] = g[V \ {Pick(V)}]
      BY <2>2, <3>1
    <3>3. h[V] = AddedUp(f, h, V) /\ g[V] = AddedUp(f, g, V)
      BY <1>4, <1>6, <2>2
    <3>4. AddedUp(f, h, V) = AddedUp(f, g, V)
      BY <2>4, <3>2 DEF AddedUp
    <3> QED
      BY <2>2, <3>3, <3>4
  <2> QED
    BY <2>3, <2>4
<1>8. SumFunctionOnSet(f, U) = value
  BY <1>7, <1>g, SumIsLookedUp DEF h
<1> QED
  BY <1>3, <1>8

\* Nothing adds up to zero.
LEMMA SumEmpty == ASSUME NEW f PROVE SumFunctionOnSet(f, {}) = 0
BY SumUnfolds, FS_EmptySet

\* A sum of integers is an integer.
LEMMA SumType ==
    ASSUME NEW S, IsFiniteSet(S), NEW f, \A x \in S : f[x] \in Int
    PROVE  SumFunctionOnSet(f, S) \in Int
<1> DEFINE T == {s \in SUBSET S : SumFunctionOnSet(f, s) \notin Int}
<1> SUFFICES ASSUME T # {}
             PROVE  FALSE
  OBVIOUS
<1>1. PICK U \in T : \A V \in T : V \subseteq U => V = U
  <2>1. T \in SUBSET SUBSET S
    OBVIOUS
  <2> HIDE DEF T
  <2> QED
    BY <2>1, SmallestSubset
<1>2. IsFiniteSet(U) /\ U \subseteq S
  BY FS_Subset
<1>3. U # {}
  <2>1. SumFunctionOnSet(f, U) \notin Int
    BY <1>1
  <2>2. SumFunctionOnSet(f, {}) = 0
    BY SumEmpty
  <2> QED
    BY <2>1, <2>2
<1>4. /\ Pick(U) \in U
      /\ SumFunctionOnSet(f, U) = f[Pick(U)] + SumFunctionOnSet(f, U \ {Pick(U)})
  BY <1>2, <1>3, PickIn, SumUnfolds
<1>5. SumFunctionOnSet(f, U \ {Pick(U)}) \in Int
  BY <1>1, <1>2, <1>4
<1> QED
  BY <1>1, <1>2, <1>4, <1>5

\* Any element can be taken out of a sum.
LEMMA SumRemove ==
    ASSUME NEW S, IsFiniteSet(S), NEW f, \A x \in S : f[x] \in Int, NEW x \in S
    PROVE  SumFunctionOnSet(f, S) = f[x] + SumFunctionOnSet(f, S \ {x})
<1> DEFINE Removes(s) ==
              \A y \in s : SumFunctionOnSet(f, s) = f[y] + SumFunctionOnSet(f, s \ {y})
           T == {s \in SUBSET S : ~Removes(s)}
<1> SUFFICES ASSUME T # {}
             PROVE  FALSE
  OBVIOUS
<1>1. PICK U \in T : \A V \in T : V \subseteq U => V = U
  <2>1. T \in SUBSET SUBSET S
    OBVIOUS
  <2> HIDE DEF T
  <2> QED
    BY <2>1, SmallestSubset
<1>2. IsFiniteSet(U) /\ U \subseteq S
  BY FS_Subset
<1>3. PICK y \in U : SumFunctionOnSet(f, U) # f[y] + SumFunctionOnSet(f, U \ {y})
  BY <1>1
<1>4. /\ Pick(U) \in U
      /\ SumFunctionOnSet(f, U) = f[Pick(U)] + SumFunctionOnSet(f, U \ {Pick(U)})
  BY <1>2, <1>3, PickIn, SumUnfolds
<1>5. y # Pick(U)
  BY <1>3, <1>4
<1> DEFINE p == Pick(U)
           R == (U \ {p}) \ {y}
<1>6. Removes(U \ {p}) /\ Removes(U \ {y})
  <2>1. U \ {p} \in SUBSET S /\ U \ {p} # U /\ U \ {y} \in SUBSET S /\ U \ {y} # U
    BY <1>2, <1>3, <1>4
  <2> QED
    BY <1>1, <2>1
<1>7. SumFunctionOnSet(f, U \ {p}) = f[y] + SumFunctionOnSet(f, R)
  BY <1>3, <1>5, <1>6
<1>8. SumFunctionOnSet(f, U \ {y}) = f[p] + SumFunctionOnSet(f, R)
  <2>1. R = (U \ {y}) \ {p} /\ p \in U \ {y}
    BY <1>4, <1>5
  <2> QED
    BY <1>6, <2>1
<1>9. SumFunctionOnSet(f, R) \in Int /\ f[p] \in Int /\ f[y] \in Int
  <2>1. IsFiniteSet(R) /\ R \subseteq S
    BY <1>2, FS_Subset
  <2>2. SumFunctionOnSet(f, R) \in Int
    BY <2>1, SumType
  <2> QED
    BY <1>2, <1>4, <2>2
<1> HIDE DEF p, R
<1>10. SumFunctionOnSet(f, U) = f[p] + SumFunctionOnSet(f, U \ {p})
  BY <1>4 DEF p
<1> QED
  BY <1>3, <1>7, <1>8, <1>9, <1>10

\* A sum depends on the values of the elements added, and on nothing else.
LEMMA SumSame ==
    ASSUME NEW S, IsFiniteSet(S), NEW f, NEW g, \A x \in S : f[x] = g[x]
    PROVE  SumFunctionOnSet(f, S) = SumFunctionOnSet(g, S)
<1> DEFINE T == {s \in SUBSET S : SumFunctionOnSet(f, s) # SumFunctionOnSet(g, s)}
<1> SUFFICES ASSUME T # {}
             PROVE  FALSE
  OBVIOUS
<1>1. PICK U \in T : \A V \in T : V \subseteq U => V = U
  <2>1. T \in SUBSET SUBSET S
    OBVIOUS
  <2> HIDE DEF T
  <2> QED
    BY <2>1, SmallestSubset
<1>2. IsFiniteSet(U) /\ U \subseteq S
  BY FS_Subset
<1>3. U # {}
  <2>1. SumFunctionOnSet(f, U) # SumFunctionOnSet(g, U)
    BY <1>1
  <2>2. SumFunctionOnSet(f, {}) = 0 /\ SumFunctionOnSet(g, {}) = 0
    BY SumEmpty
  <2> QED
    BY <2>1, <2>2
<1>4. /\ Pick(U) \in U
      /\ SumFunctionOnSet(f, U) = f[Pick(U)] + SumFunctionOnSet(f, U \ {Pick(U)})
      /\ SumFunctionOnSet(g, U) = g[Pick(U)] + SumFunctionOnSet(g, U \ {Pick(U)})
  BY <1>2, <1>3, PickIn, SumUnfolds
<1>5. SumFunctionOnSet(f, U \ {Pick(U)}) = SumFunctionOnSet(g, U \ {Pick(U)})
  BY <1>1, <1>2, <1>4
<1> QED
  BY <1>1, <1>2, <1>4, <1>5

\* Changing the value of one element changes the sum by the difference.
LEMMA SumUpdate ==
    ASSUME NEW S, IsFiniteSet(S), NEW f, \A x \in S : f[x] \in Int,
           NEW g, NEW a \in S, \A x \in S \ {a} : g[x] = f[x], g[a] \in Int
    PROVE  SumFunctionOnSet(g, S) = SumFunctionOnSet(f, S) - f[a] + g[a]
<1>1. IsFiniteSet(S \ {a})
  BY FS_Subset
<1>2. SumFunctionOnSet(f, S) = f[a] + SumFunctionOnSet(f, S \ {a})
  BY SumRemove
<1>3. SumFunctionOnSet(g, S) = g[a] + SumFunctionOnSet(g, S \ {a})
  <2>1. \A x \in S : g[x] \in Int
    OBVIOUS
  <2> QED
    BY <2>1, SumRemove
<1>4. SumFunctionOnSet(g, S \ {a}) = SumFunctionOnSet(f, S \ {a})
  BY <1>1, SumSame
<1>5. SumFunctionOnSet(f, S \ {a}) \in Int
  BY <1>1, SumType
<1> QED
  BY <1>2, <1>3, <1>4, <1>5

\* A sum of naturals is a natural.
LEMMA SumNat ==
    ASSUME NEW S, IsFiniteSet(S), NEW f, \A x \in S : f[x] \in Nat
    PROVE  SumFunctionOnSet(f, S) \in Nat
<1> DEFINE T == {s \in SUBSET S : SumFunctionOnSet(f, s) \notin Nat}
<1> SUFFICES ASSUME T # {}
             PROVE  FALSE
  OBVIOUS
<1>1. PICK U \in T : \A V \in T : V \subseteq U => V = U
  <2>1. T \in SUBSET SUBSET S
    OBVIOUS
  <2> HIDE DEF T
  <2> QED
    BY <2>1, SmallestSubset
<1>2. IsFiniteSet(U) /\ U \subseteq S
  BY FS_Subset
<1>3. U # {}
  <2>1. SumFunctionOnSet(f, U) \notin Nat
    BY <1>1
  <2>2. SumFunctionOnSet(f, {}) = 0
    BY SumEmpty
  <2> QED
    BY <2>1, <2>2
<1>4. /\ Pick(U) \in U
      /\ SumFunctionOnSet(f, U) = f[Pick(U)] + SumFunctionOnSet(f, U \ {Pick(U)})
  BY <1>2, <1>3, PickIn, SumUnfolds
<1>5. SumFunctionOnSet(f, U \ {Pick(U)}) \in Nat
  BY <1>1, <1>2, <1>4
<1> QED
  BY <1>1, <1>2, <1>4, <1>5

\* An element more adds its value.
LEMMA SumAdd ==
    ASSUME NEW S, IsFiniteSet(S), NEW f, NEW a, a \notin S,
           \A x \in S \cup {a} : f[x] \in Int
    PROVE  SumFunctionOnSet(f, S \cup {a}) = SumFunctionOnSet(f, S) + f[a]
<1>1. PICK R : R = S \cup {a}
  OBVIOUS
<1>2. IsFiniteSet(R) /\ a \in R /\ (\A x \in R : f[x] \in Int)
  BY <1>1, FS_AddElement
<1>3. SumFunctionOnSet(f, R) = f[a] + SumFunctionOnSet(f, R \ {a})
  BY <1>2, SumRemove
<1>4. SumFunctionOnSet(f, R \ {a}) = SumFunctionOnSet(f, S)
  <2>1. R \ {a} = S
    BY <1>1
  <2> QED
    BY <2>1, Zenon
<1>5. SumFunctionOnSet(f, S) \in Int /\ f[a] \in Int
  BY SumType
<1>6. SumFunctionOnSet(f, R) = SumFunctionOnSet(f, S) + f[a]
  BY <1>3, <1>4, <1>5
<1> QED
  BY <1>1, <1>6

\* A sum stays when neither the set nor the values on it change.
LEMMA SumCarried ==
    ASSUME NEW S, IsFiniteSet(S), NEW f, NEW g, \A x \in S : f[x] \in Int /\ g[x] = f[x],
           NEW T, T = S
    PROVE  IsFiniteSet(T) /\ SumFunctionOnSet(g, T) = SumFunctionOnSet(f, S)
<1>1. SumFunctionOnSet(g, S) = SumFunctionOnSet(f, S)
  BY SumSame
<1> QED
  BY <1>1, Zenon

\* A set that grew by one element, of which the others kept their values, adds up to
\* as much more as that element's value.
LEMMA SumGrown ==
    ASSUME NEW S, IsFiniteSet(S), NEW f, NEW g, \A x \in S : f[x] \in Int /\ g[x] = f[x],
           NEW a, a \notin S, g[a] \in Int, NEW T, T = S \cup {a}
    PROVE  IsFiniteSet(T) /\ SumFunctionOnSet(g, T) = SumFunctionOnSet(f, S) + g[a]
<1>1. SumFunctionOnSet(g, S) = SumFunctionOnSet(f, S)
  BY SumSame
<1>2. SumFunctionOnSet(g, S \cup {a}) = SumFunctionOnSet(g, S) + g[a]
  <2>1. \A x \in S \cup {a} : g[x] \in Int
    OBVIOUS
  <2> QED
    BY <2>1, SumAdd
<1>3. IsFiniteSet(S \cup {a})
  BY FS_AddElement
<1>4. SumFunctionOnSet(g, S \cup {a}) = SumFunctionOnSet(f, S) + g[a]
  BY <1>1, <1>2
<1> QED
  BY <1>3, <1>4, Zenon

\* Nothing that is added is positive, so what it adds up to is not.
LEMMA SumAtMostZero ==
    ASSUME NEW S, IsFiniteSet(S), NEW f, \A x \in S : f[x] \in Int /\ f[x] <= 0
    PROVE  SumFunctionOnSet(f, S) \in Int /\ SumFunctionOnSet(f, S) <= 0
<1> DEFINE Fits(s) == SumFunctionOnSet(f, s) \in Int /\ SumFunctionOnSet(f, s) <= 0
           T == {s \in SUBSET S : ~Fits(s)}
<1> SUFFICES ASSUME T # {}
             PROVE  FALSE
  OBVIOUS
<1>1. PICK U \in T : \A V \in T : V \subseteq U => V = U
  <2>1. T \in SUBSET SUBSET S
    OBVIOUS
  <2> HIDE DEF T
  <2> QED
    BY <2>1, SmallestSubset
<1>2. IsFiniteSet(U) /\ U \subseteq S
  BY FS_Subset
<1>3. U # {}
  <2>1. SumFunctionOnSet(f, {}) = 0
    BY SumEmpty
  <2>2. ~(SumFunctionOnSet(f, U) \in Int /\ SumFunctionOnSet(f, U) <= 0)
    BY <1>1
  <2> QED
    BY <2>1, <2>2
<1>4. /\ Pick(U) \in U
      /\ SumFunctionOnSet(f, U) = f[Pick(U)] + SumFunctionOnSet(f, U \ {Pick(U)})
  BY <1>2, <1>3, PickIn, SumUnfolds
<1>5. Fits(U \ {Pick(U)})
  BY <1>1, <1>2, <1>4
<1> QED
  BY <1>1, <1>2, <1>4, <1>5
=============================================================================
