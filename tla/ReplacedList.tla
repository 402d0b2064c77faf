------------------------------ MODULE ReplacedList ------------------------------
(***************************************************************************)
(* A list of rows that a request replaces as a whole, by one transaction   *)
(* of two statements: delete what is there, insert what was sent.  The     *)
(* rows have a unique key.                                                 *)
(*                                                                         *)
(* A delete sees the rows that were committed when it began: "fresh" tells *)
(* that nobody has replaced them since.  Otherwise it has waited for rows  *)
(* that are gone and does not see the ones that came instead: they stay.   *)
(***************************************************************************)

\* The rows after the transaction, and whether its insert is refused.
Replaced(rows, fresh, new) == (IF fresh THEN {} ELSE rows) \cup new
Refused(rows, fresh, new) == ~fresh /\ rows \cap new # {}
=============================================================================
