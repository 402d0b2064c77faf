------------------------------- MODULE BackOffice -------------------------------
(***************************************************************************)
(* The back office of a restaurant: merchant accounts, staff, sign-in,     *)
(* menus, their modifiers and the floor plan.  These parts keep rows of    *)
(* their own and never wait for one another, so an interleaving of two of  *)
(* them shows nothing that the parts do not show one by one: a behaviour   *)
(* has one of them in focus, and the others rest.  What a part reads of    *)
(* another one moves under it (StaffMoves, RoleMoves, SessionMoves).  The  *)
(* staff are hired under the plan that grants one branch, and the other    *)
(* plans are in the focus on the places.                                   *)
(***************************************************************************)
EXTENDS PaymentAccounts, SignIn, MenuCatalogue, OrderableItems, FloorPlan

VARIABLE focus \* the part that moves

adminVars == <<focus, accountsVars, staffVars, signInVars, menuVars,
               modifierVars, floorVars>>

AdminInit ==
    /\ focus \in {"accounts", "places", "staff", "signIn", "menus",
                  "pictures", "limits", "itemGroups", "zones", "assignments"}
    /\ AccountsInit /\ StaffInit /\ SignInInit /\ MenusInit /\ ModifiersInit /\ FloorInit

AccountsFocus == focus = "accounts" /\ AccountsNext
PeopleFocus ==
    \/ focus = "places" /\ PlacesNext(1..MaxQuota)
    \/ focus = "staff" /\ (PlacesNext({1}) \/ PeopleNext)
SignInFocus ==
    /\ focus = "signIn"
    /\ \/ SignInNext /\ UNCHANGED staffVars
       \/ StaffMoves /\ UNCHANGED signInVars
MenusFocus ==
    \/ focus = "menus" /\ PublishingNext
    \/ focus = "pictures" /\ PicturesNext
ModifiersFocus ==
    \/ focus = "limits" /\ LimitsNext
    \/ focus = "itemGroups" /\ ItemGroupsNext
FloorFocus ==
    \/ focus = "zones" /\ ZonesNext
    \/ focus = "assignments" /\ AssignmentsNext

AdminNext ==
    /\ UNCHANGED focus
    /\ \/ /\ AccountsFocus
          /\ UNCHANGED <<staffVars, signInVars, menuVars, modifierVars, floorVars>>
       \/ /\ PeopleFocus
          /\ UNCHANGED <<accountsVars, signInVars, menuVars, modifierVars, floorVars>>
       \/ /\ SignInFocus
          /\ UNCHANGED <<accountsVars, menuVars, modifierVars, floorVars>>
       \/ /\ MenusFocus
          /\ UNCHANGED <<accountsVars, staffVars, signInVars, modifierVars, floorVars>>
       \/ /\ ModifiersFocus
          /\ UNCHANGED <<accountsVars, staffVars, signInVars, menuVars, floorVars>>
       \/ /\ FloorFocus
          /\ UNCHANGED <<accountsVars, staffVars, signInVars, menuVars, modifierVars>>

AdminSpec == AdminInit /\ [][AdminNext]_adminVars

\* Every variable of the back office keeps its type.
AdminTypeOK ==
    /\ AccountsTypeOK /\ StaffTypeOK /\ SignInTypeOK /\ MenusTypeOK
    /\ ModifiersTypeOK /\ FloorTypeOK

\* A list that requests replace as a whole, the groups of an item or the staff of a
\* zone, is the list of the last request, unless two overlapped: then the rows of both
\* may stay.
ListsAreWhole == ItemGroupsAsSent /\ ZoneStaffAsSent
=============================================================================
