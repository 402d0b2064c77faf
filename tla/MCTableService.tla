--------------------------- MODULE MCTableService ---------------------------
(***************************************************************************)
(* TableService on a small instance: the ids are model values and          *)
(* interchangeable.                                                        *)
(***************************************************************************)
EXTENDS TableService, TLC

Symmetry == Permutations(Sessions) \cup Permutations(Orders)
            \cup Permutations(Attempts) \cup Permutations(Requests)
=============================================================================
