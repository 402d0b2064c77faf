------------------------------ MODULE MCKitchen ------------------------------
(***************************************************************************)
(* Kitchen on a small instance: orders, stations and requests are          *)
(* interchangeable.                                                        *)
(***************************************************************************)
EXTENDS Kitchen, TLC

Symmetry == Permutations(Orders) \cup Permutations(Stations)
            \cup Permutations(Requests)
=============================================================================
