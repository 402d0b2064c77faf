----------------------------- MODULE MCBackOffice -----------------------------
(***************************************************************************)
(* BackOffice on a small instance.  The parts rest while one of them       *)
(* moves, so the same model values serve each of them: one name for the    *)
(* requests, one for the restaurants, the menus, the authorizations and    *)
(* the zones, one for the branches and the staff on the floor, one for the *)
(* e-mails and the names of zones.                                         *)
(* The identities differ: one of them belongs to a platform administrator. *)
(***************************************************************************)
EXTENDS BackOffice, TLC

ASSUME SharedAssumption == /\ {AccountRequests, PinRequests, MenuRequests, ModifierRequests,
                                FloorRequests} = {StaffRequests}
                           /\ {Menus, OAuthStates, Zones} = {Restaurants}
                           /\ FloorStaff = Branches
                           /\ ZoneNames = Emails

Symmetry == Permutations(StaffRequests) \cup Permutations(Restaurants)
            \cup Permutations(Branches) \cup Permutations(Emails)
=============================================================================
