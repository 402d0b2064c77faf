------------------------- MODULE MCRedirectPayment -------------------------
(***************************************************************************)
(* RedirectPayment on a small instance.  Attempts are numbered in the      *)
(* order they are created, so only guests and orders are interchangeable.  *)
(* The safety run leaves the fairness out, which safety does not need.     *)
(***************************************************************************)
EXTENDS RedirectPayment, TLC

Symmetry == Permutations(Guests) \cup Permutations(Orders)

SafetySpec == Init /\ [][Next]_vars
=============================================================================
