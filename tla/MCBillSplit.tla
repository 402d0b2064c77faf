----------------------------- MODULE MCBillSplit -----------------------------
(***************************************************************************)
(* BillSplit on a small instance: all ids are interchangeable.             *)
(***************************************************************************)
EXTENDS BillSplit, TLC

Symmetry == Permutations(Splits) \cup Permutations(Parts)
            \cup Permutations(Attempts) \cup Permutations(Creators)

\* Bound: a third attempt is followed only while the one split there is has the bill to
\* itself; the creations of splits and other uses of the bill meet two attempts.
ThirdAttemptAlone ==
    Cardinality({a \in Attempts : attempt[a].status # "NONE"}) > 2 =>
        /\ other = 0
        /\ \A c \in Creators : creator[c] = IdleCreator
        /\ \A s, t \in Splits : split[s] # "NONE" /\ split[t] # "NONE" => s = t
=============================================================================
