-------------------------- MODULE StaffAdministration --------------------------
(***************************************************************************)
(* Restaurants, their branches and the people who work in them.  A person  *)
(* has one identity at the authentication service and at most one staff    *)
(* profile in each restaurant, with roles in its branches.  Creating an    *)
(* identity and creating the profile that needs it are two systems: the    *)
(* code undoes the first when the second fails.  A profile refers to its   *)
(* identity by a foreign key, which keeps the identity.                    *)
(***************************************************************************)
EXTENDS Naturals, FiniteSets, Functions

CONSTANTS Emails,        \* the people, named by their e-mail
          Identities,    \* ids the authentication service may give out
          Restaurants, Branches,
          StaffRequests, \* concurrent requests of administrators
          MaxQuota,      \* bound: the branches a plan may grant
          MaxRoles,      \* bound: the assignments of one request
          MaxStaff,      \* bound: the staff profiles there may be
          MaxFields,     \* bound: of status and roles, what one update changes
          Nobody         \* no e-mail, no profile, no restaurant

ASSUME NobodyAssumption == /\ Nobody \notin Emails \cup Restaurants
                           /\ Nobody \notin Identities \X Restaurants
ASSUME StaffBoundsAssumption == /\ MaxQuota \in Nat /\ MaxRoles \in Nat 
                         /\ MaxFields \in Nat /\ MaxStaff \in Nat

VARIABLES
    emailOf,    \* the e-mail of each identity the authentication service keeps
    restaurant, \* the plan of each restaurant
    branchOf,   \* the restaurant of each branch
    profile,    \* the staff profile of an identity in a restaurant
    staffReq,   \* the administrators' requests, with what they read
    abandoned,  \* ghost: the identities whose request died before using or undoing them
    adminRaced, \* ghost: restaurants in which two updates of staff overlapped
    quotaRaced  \* ghost: restaurants whose quota was lowered, or checked twice at once

staffVars == <<emailOf, restaurant, branchOf, profile, staffReq,
               abandoned, adminRaced, quotaRaced>>

Profiles == Identities \X Restaurants
Assignments == SUBSET (Branches \X {"ADMIN", "WAITER"})
ProfileRecords == [status : {"NONE", "ACTIVE", "DISABLED"}, roles : Assignments]

StaffSteps == {"idle", "hiring", "naming", "identified", "hire", "undo",
               "bootstrap", "updating", "update", "building"}
StaffRequestRecords ==
    [step : StaffSteps, by : Profiles \cup {Nobody}, of : Profiles \cup {Nobody},
     email : Emails \cup {Nobody}, created : BOOLEAN,
     status : {"NONE", "ACTIVE", "DISABLED"}, roles : Assignments,
     remains : BOOLEAN]

NoProfile == [status |-> "NONE", roles |-> {}]
IdleStaffRequest ==
    [step |-> "idle", by |-> Nobody, of |-> Nobody, email |-> Nobody, created |-> FALSE,
     status |-> "NONE", roles |-> {}, remains |-> FALSE]

StaffInit ==
    /\ emailOf = [i \in Identities |-> Nobody]
    /\ restaurant = [r \in Restaurants |-> [exists |-> FALSE, quota |-> 0]]
    /\ branchOf = [b \in Branches |-> Nobody]
    /\ profile = [p \in Profiles |-> NoProfile]
    /\ staffReq = [q \in StaffRequests |-> IdleStaffRequest]
    /\ abandoned = {}
    /\ adminRaced = {}
    /\ quotaRaced = {}

-----------------------------------------------------------------------------
(* Helpers                                                                 *)

People == <<emailOf, abandoned>>
Places == <<restaurant, branchOf, quotaRaced>>

StaffReqAt(q, step) == staffReq[q].step = step
StaffGoto(q, step) == staffReq' = [staffReq EXCEPT ![q].step = step]
StaffReqEnds(q) == staffReq' = [staffReq EXCEPT ![q] = IdleStaffRequest]

IdentitiesOf(e) == {i \in Identities : emailOf[i] = e}
RestaurantOf(p) == p[2]

\* Ids are not given out again.
Unused(i) ==
    /\ emailOf[i] = Nobody
    /\ \A r \in Restaurants : /\ profile[<<i, r>>] = NoProfile
                             /\ \A q \in StaffRequests : staffReq[q].of # <<i, r>>

\* The foreign key staff_users_auth_user_id_fkey, which restricts deletion.
IdentityExists(p) == emailOf[p[1]] # Nobody
HasProfile(i) == \E r \in Restaurants : profile[<<i, r>>].status # "NONE"

\* The request created the identity, and will use it or remove it.
OwnerSteps == {"identified", "hire", "undo", "bootstrap"}
Owns(q, i) == /\ staffReq[q].step \in OwnerSteps
              /\ staffReq[q].created /\ staffReq[q].of[1] = i

\* getStaffContext: the branches where an active profile is ADMIN.
AdminBranchIds(p) ==
    IF profile[p].status = "ACTIVE"
    THEN {b \in Branches : <<b, "ADMIN">> \in profile[p].roles} ELSE {}

\* assertAssignableBranches, and the branches that must belong to the restaurant.
Assignable(p, roles) ==
    /\ roles # {}
    /\ \A a \in roles : a[1] \in AdminBranchIds(p) /\ branchOf[a[1]] = RestaurantOf(p)

IsActiveAdmin(rec) == rec.status = "ACTIVE" /\ \E a \in rec.roles : a[2] = "ADMIN"
ActiveAdmins(r) == {i \in Identities : IsActiveAdmin(profile[<<i, r>>])}
Crowded == Cardinality({p \in Profiles : profile[p].status # "NONE"}) >= MaxStaff
BranchesOf(r) == {b \in Branches : branchOf[b] = r}

Updating(r) == {q \in StaffRequests : /\ staffReq[q].step \in {"updating", "update"}
                                      /\ RestaurantOf(staffReq[q].of) = r}
Building(r) == {q \in StaffRequests : /\ StaffReqAt(q, "building")
                                      /\ RestaurantOf(staffReq[q].by) = r}

-----------------------------------------------------------------------------
(* Restaurants and branches                                                *)

\* The platform makes the identity of the founder: the authentication service
\* refuses an e-mail it knows.
BootstrapIdentity(q, r, i, e) ==
    /\ StaffReqAt(q, "idle")
    /\ ~restaurant[r].exists
    /\ IdentitiesOf(e) = {} /\ Unused(i)
    /\ emailOf' = [emailOf EXCEPT ![i] = e]
    /\ staffReq' = [staffReq EXCEPT ![q] =
           [IdleStaffRequest EXCEPT !.step = "bootstrap", !.of = <<i, r>>,
                                    !.email = e, !.created = TRUE]]
    /\ UNCHANGED <<abandoned, Places, profile, adminRaced>>

\* One transaction creates the restaurant and the founder, who has no role yet.  It
\* fails when the slug was taken meanwhile, and the identity is removed.
BootstrapRestaurant(q, quota) ==
    LET p == staffReq[q].of  r == RestaurantOf(p) IN
    /\ StaffReqAt(q, "bootstrap")
    /\ \/ /\ ~restaurant[r].exists /\ IdentityExists(p) /\ ~Crowded
          /\ restaurant' = [restaurant EXCEPT ![r] = [exists |-> TRUE, quota |-> quota]]
          /\ profile' = [profile EXCEPT ![p] = [status |-> "ACTIVE", roles |-> {}]]
          /\ StaffReqEnds(q)
       \/ /\ StaffGoto(q, "undo")
          /\ UNCHANGED <<restaurant, profile>>
    /\ UNCHANGED <<People, branchOf, quotaRaced, adminRaced>>

\* The platform changes the quota, also below what the restaurant already has.
UpdateRestaurant(r, quota) ==
    /\ restaurant[r].exists
    /\ restaurant' = [restaurant EXCEPT ![r].quota = quota]
    /\ quotaRaced' = IF quota < restaurant[r].quota THEN quotaRaced \cup {r} ELSE quotaRaced
    /\ UNCHANGED <<People, branchOf, profile, staffReq, adminRaced>>

\* Who has no role at all may create a branch: the founder needs a first one.
MayCreateBranch(p) ==
    /\ profile[p].status = "ACTIVE"
    /\ profile[p].roles = {} \/ \E a \in profile[p].roles : a[2] = "ADMIN"

\* Plausible regression: one branch more than the plan grants.
UpToQuota(r) == Cardinality(BranchesOf(r)) <= restaurant[r].quota

BelowQuota(r) == Cardinality(BranchesOf(r)) < restaurant[r].quota

\* The quota is compared before the transaction that creates the branch.
CheckQuota(q, p) ==
    LET r == RestaurantOf(p) IN
    /\ StaffReqAt(q, "idle")
    /\ MayCreateBranch(p)
    /\ BelowQuota(r)
    /\ staffReq' = [staffReq EXCEPT ![q] =
           [IdleStaffRequest EXCEPT !.step = "building", !.by = p]]
    /\ quotaRaced' = IF Building(r) # {} THEN quotaRaced \cup {r} ELSE quotaRaced
    /\ UNCHANGED <<People, restaurant, branchOf, profile, adminRaced>>

CreateBranch(q, b) ==
    LET p == staffReq[q].by IN
    /\ StaffReqAt(q, "building")
    /\ branchOf[b] = Nobody
    /\ branchOf' = [branchOf EXCEPT ![b] = RestaurantOf(p)]
    /\ profile' = [profile EXCEPT ![p].roles = @ \cup {<<b, "ADMIN">>}]
    /\ StaffReqEnds(q)
    /\ UNCHANGED <<People, restaurant, adminRaced, quotaRaced>>

-----------------------------------------------------------------------------
(* Creating a staff profile                                                *)

CreateStaffUser(q, p, e, roles) ==
    /\ StaffReqAt(q, "idle")
    /\ Assignable(p, roles)
    /\ staffReq' = [staffReq EXCEPT ![q] =
           [IdleStaffRequest EXCEPT !.step = "hiring", !.by = p, !.email = e, !.roles = roles]]
    /\ UNCHANGED <<People, Places, profile, adminRaced>>

\* findUserByEmail: who is not known yet needs a password, or the request ends.
FindUserByEmail(q) ==
    LET r == RestaurantOf(staffReq[q].by)  known == IdentitiesOf(staffReq[q].email) IN
    /\ StaffReqAt(q, "hiring")
    /\ \/ \E i \in known :
              staffReq' = [staffReq EXCEPT ![q].step = "identified", ![q].of = <<i, r>>,
                                              ![q].by = Nobody]
       \/ known = {} /\ (StaffGoto(q, "naming") \/ StaffReqEnds(q))
    /\ UNCHANGED <<People, Places, profile, adminRaced>>

\* The authentication service refuses an e-mail that was registered meanwhile.
CreateIdentity(q, i) ==
    LET e == staffReq[q].email  r == RestaurantOf(staffReq[q].by) IN
    /\ StaffReqAt(q, "naming")
    /\ IF IdentitiesOf(e) = {}
       THEN /\ Unused(i)
            /\ emailOf' = [emailOf EXCEPT ![i] = e]
            /\ staffReq' = [staffReq EXCEPT ![q].step = "identified", ![q].of = <<i, r>>,
                                            ![q].by = Nobody, ![q].created = TRUE]
       ELSE /\ StaffReqEnds(q)
            /\ UNCHANGED emailOf
    /\ UNCHANGED <<abandoned, Places, profile, adminRaced>>

\* A profile that exists already refuses the request, which then undoes nothing: who
\* created that profile found the identity before this request could use it.
CheckExistingStaff(q) ==
    /\ StaffReqAt(q, "identified")
    /\ IF profile[staffReq[q].of].status = "NONE" THEN StaffGoto(q, "hire") ELSE StaffReqEnds(q)
    /\ UNCHANGED <<People, Places, profile, adminRaced>>

\* Plausible regression: nothing is undone.
StaffJustFails(q) == StaffReqEnds(q)

\* The transaction failed: only an identity this request created is deleted.
StaffFails(q) ==
    IF staffReq[q].created
    THEN staffReq' = [staffReq EXCEPT ![q].step = "undo", ![q].roles = {}]
    ELSE StaffReqEnds(q)

\* One transaction; the profile is unique per identity and restaurant, its identity may
\* have been removed by the request that created it, and any statement may fail.
InsertStaffUser(q) ==
    LET p == staffReq[q].of IN
    /\ StaffReqAt(q, "hire")
    /\ \/ /\ profile[p].status = "NONE" /\ IdentityExists(p) /\ ~Crowded
          /\ profile' = [profile EXCEPT ![p] = [status |-> "ACTIVE", roles |-> staffReq[q].roles]]
          /\ StaffReqEnds(q)
       \/ /\ StaffFails(q)
          /\ UNCHANGED profile
    /\ UNCHANGED <<People, Places, adminRaced>>

\* Refused when another request has made a profile of the identity meanwhile.
DeleteIdentity(q) ==
    LET i == staffReq[q].of[1] IN
    /\ StaffReqAt(q, "undo")
    /\ emailOf' = IF HasProfile(i) THEN emailOf ELSE [emailOf EXCEPT ![i] = Nobody]
    /\ StaffReqEnds(q)
    /\ UNCHANGED <<abandoned, Places, profile, adminRaced>>

-----------------------------------------------------------------------------
(* Updating a staff profile: its status, its roles, or both                *)

\* "NONE" keeps the status, {} keeps the roles: a request never names no role.
Fields(status, roles) == (IF status = "NONE" THEN 0 ELSE 1) + (IF roles = {} THEN 0 ELSE 1)

Self(p, target, status, roles) ==
    p = target => /\ status # "DISABLED"
                  /\ roles # {} => \E a \in roles : a[2] = "ADMIN"

\* What the update makes of a profile.
StaffUpdated(rec, status, roles) ==
    [status |-> IF status = "NONE" THEN rec.status ELSE status,
     roles |-> IF roles = {} THEN rec.roles ELSE roles]

UpdateStaffUser(q, p, target, status, roles) ==
    LET r == RestaurantOf(p) IN
    /\ StaffReqAt(q, "idle")
    /\ AdminBranchIds(p) # {}
    /\ Fields(status, roles) \in 1..MaxFields
    /\ RestaurantOf(target) = r /\ profile[target].status # "NONE"
    /\ roles # {} => Assignable(p, roles)
    /\ Self(p, target, status, roles)
    /\ staffReq' = [staffReq EXCEPT ![q] =
           [IdleStaffRequest EXCEPT !.step = "updating", !.of = target, !.status = status,
                                    !.roles = roles,
               !.remains = IsActiveAdmin(StaffUpdated(profile[target], status, roles))]]
    /\ adminRaced' = IF Updating(r) # {} THEN adminRaced \cup {r} ELSE adminRaced
    /\ UNCHANGED <<People, Places, profile>>

\* assertRestaurantKeepsActiveAdmin, before the transaction: "remains" tells what the
\* update would make of the target as it was read.
KeepsAnAdmin(q) ==
    LET target == staffReq[q].of IN
    staffReq[q].remains \/ ActiveAdmins(RestaurantOf(target)) \ {target[1]} # {}

CheckAdmins(q) ==
    /\ StaffReqAt(q, "updating")
    /\ IF KeepsAnAdmin(q)
       THEN staffReq' = [staffReq EXCEPT ![q].step = "update", ![q].remains = FALSE]
       ELSE StaffReqEnds(q)
    /\ UNCHANGED <<People, Places, profile, adminRaced>>

\* Plausible regression: the roles are replaced also when the request names none.
CommitAllFields(q) ==
    LET target == staffReq[q].of IN
    /\ StaffReqAt(q, "update")
    /\ profile' = [profile EXCEPT ![target] =
           [StaffUpdated(@, staffReq[q].status, {}) EXCEPT !.roles = staffReq[q].roles]]
    /\ StaffReqEnds(q)
    /\ UNCHANGED <<People, Places, adminRaced>>

CommitStaffUpdate(q) ==
    LET target == staffReq[q].of IN
    /\ StaffReqAt(q, "update")
    /\ profile' = [profile EXCEPT ![target] = StaffUpdated(@, staffReq[q].status, staffReq[q].roles)]
    /\ StaffReqEnds(q)
    /\ UNCHANGED <<People, Places, adminRaced>>

\* The process dies, or a call fails outside of what the code undoes, as the removal of
\* the identity itself may.
StaffRequestDies(q) ==
    /\ ~StaffReqAt(q, "idle")
    /\ StaffReqEnds(q)
    /\ abandoned' = abandoned \cup {i \in Identities : Owns(q, i)}
    /\ UNCHANGED <<emailOf, Places, profile, adminRaced>>

\* The validated input of a request names at least one assignment.
RoleSets == {S \in Assignments : Cardinality(S) \in 1..MaxRoles}

\* Restaurants and branches, under plans of the given quotas.
PlacesNext(quotas) ==
    \/ \E q \in StaffRequests, r \in Restaurants, i \in Identities, e \in Emails :
           BootstrapIdentity(q, r, i, e)
    \/ \E q \in StaffRequests, quota \in quotas : BootstrapRestaurant(q, quota)
    \/ \E r \in Restaurants, quota \in quotas : UpdateRestaurant(r, quota)
    \/ \E q \in StaffRequests, p \in Profiles : CheckQuota(q, p)
    \/ \E q \in StaffRequests, b \in Branches : CreateBranch(q, b)
    \/ \E q \in StaffRequests : DeleteIdentity(q) \/ StaffRequestDies(q)

\* The people who work there.
PeopleNext ==
    \/ \E q \in StaffRequests, p \in Profiles :
           \/ \E e \in Emails, roles \in RoleSets : CreateStaffUser(q, p, e, roles)
           \/ \E target \in Profiles, status \in {"NONE", "ACTIVE", "DISABLED"},
                 roles \in RoleSets \cup {{}} : UpdateStaffUser(q, p, target, status, roles)
    \/ \E q \in StaffRequests, i \in Identities : CreateIdentity(q, i)
    \/ \E q \in StaffRequests :
           \/ FindUserByEmail(q) \/ CheckExistingStaff(q) \/ InsertStaffUser(q)
           \/ CheckAdmins(q) \/ CommitStaffUpdate(q)

StaffNext == PlacesNext(1..MaxQuota) \/ PeopleNext

StaffSpec == StaffInit /\ [][StaffNext]_staffVars

-----------------------------------------------------------------------------
(* Properties                                                              *)

\* Every variable of the staff administration keeps its type.
StaffTypeOK ==
    /\ emailOf \in [Identities -> Emails \cup {Nobody}]
    /\ restaurant \in [Restaurants -> [exists : BOOLEAN, quota : Nat]]
    /\ branchOf \in [Branches -> Restaurants \cup {Nobody}]
    /\ profile \in [Profiles -> ProfileRecords]
    /\ staffReq \in [StaffRequests -> StaffRequestRecords]
    /\ abandoned \subseteq Identities
    /\ adminRaced \subseteq Restaurants /\ quotaRaced \subseteq Restaurants

\* A restaurant that has a branch keeps an active administrator, whatever updates
\* and branches follow each other, unless two updates of its staff overlapped.
KeepsActiveAdmin ==
    \A r \in Restaurants : BranchesOf(r) # {} /\ r \notin adminRaced => ActiveAdmins(r) # {}

\* No e-mail is taken by an identity that nobody can work with: however the requests
\* that hire one person overlap, whichever of them fails, and whatever the foreign key
\* refuses, an identity has a profile or a request that created it and will give it one
\* or remove it, unless that request died.  (Nothing else removes it, and the bootstrap of
\* a restaurant refuses its e-mail.)
NoStrayIdentity ==
    \A i \in Identities \ abandoned :
        emailOf[i] # Nobody => HasProfile(i) \/ \E q \in StaffRequests : Owns(q, i)

\* A restaurant has no more branches than its plan grants, unless its quota was
\* lowered or two branches were being created at once.
BranchesWithinQuota ==
    \A r \in Restaurants \ quotaRaced :
        Cardinality(BranchesOf(r)) <= restaurant[r].quota
=============================================================================
