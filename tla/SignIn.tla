--------------------------------- MODULE SignIn ---------------------------------
(***************************************************************************)
(* Signing in: by password or by PIN, and renewing what was signed.  A     *)
(* token is never stored: it names an identity, a kind of profile, the     *)
(* profile and its restaurant, and each renewal resolves the profile again *)
(* from the rows of the moment.  Those rows change under it: StaffMoves    *)
(* stands for whatever StaffAdministration commits, one row at a time.     *)
(***************************************************************************)
EXTENDS StaffAdministration

CONSTANTS PlatformAdmins, \* the identities with an active platform profile
          PinRequests,    \* concurrent attempts to enter with a PIN
          MaxPin,         \* PIN_MAX_FAILED_ATTEMPTS
          MaxTokens       \* bound: the different payloads signed

ASSUME PlatformAssumption == PlatformAdmins \subseteq Identities
ASSUME PinAssumption == MaxPin \in Nat \ {0} /\ MaxTokens \in Nat

VARIABLES
    tokens,  \* the payloads that were signed
    pin,     \* the PIN columns of each staff profile
    pinReq,  \* the attempts under way, with what they read
    misses,  \* ghost: wrong PINs in a row since a right one, a new one or a lock
    pinRaced \* ghost: profiles on which two attempts overlapped

signInVars == <<tokens, pin, pinReq, misses, pinRaced>>

ProfileTypes == {"platform_admin", "staff"}
\* A platform profile belongs to no restaurant.
Payloads ==
    [sub : Identities, type : {"staff"}, profile : Profiles, restaurant : Restaurants]
    \cup [sub : PlatformAdmins, type : {"platform_admin"},
          profile : PlatformAdmins \X {Nobody}, restaurant : {Nobody}]
PinRecords == [set : BOOLEAN, failed : Nat, locked : BOOLEAN]
PinRequestRecords == [step : {"idle", "comparing", "right"},
                      of : Profiles \cup {Nobody}, failed : Nat]

NoPin == [set |-> FALSE, failed |-> 0, locked |-> FALSE]
IdlePinRequest == [step |-> "idle", of |-> Nobody, failed |-> 0]

SignInInit ==
    /\ tokens = {}
    /\ pin = [p \in Profiles |-> NoPin]
    /\ pinReq = [q \in PinRequests |-> IdlePinRequest]
    /\ misses = [p \in Profiles |-> 0]
    /\ pinRaced = {}

-----------------------------------------------------------------------------
(* Which profile an identity signs in with                                 *)

ActiveStaffOf(i) == {p \in {i} \X Restaurants : profile[p].status = "ACTIVE"}
PlatformOf(i) == {<<i, Nobody>> : j \in PlatformAdmins \cap {i}}

\* With a restaurant, the profile there; without one, the only profile.
ResolveStaff(i, r) ==
    IF r # Nobody THEN {p \in ActiveStaffOf(i) : RestaurantOf(p) = r}
    ELSE IF Cardinality(ActiveStaffOf(i)) = 1 THEN ActiveStaffOf(i) ELSE {}

\* At most one profile; none when the request is refused.  "any": no profileType.
ResolveProfile(i, type, r) ==
    IF type = "any" /\ PlatformOf(i) # {}
    THEN IF ActiveStaffOf(i) = {} THEN PlatformOf(i) ELSE {}
    ELSE IF type = "platform_admin" THEN PlatformOf(i) ELSE ResolveStaff(i, r)

\* Plausible regression: whoever signs in is signed as staff.
PayloadOfStaff(p) ==
    [sub |-> p[1], type |-> "staff", profile |-> p, restaurant |-> RestaurantOf(p)]

Payload(p) ==
    [sub |-> p[1], type |-> IF RestaurantOf(p) = Nobody THEN "platform_admin" ELSE "staff",
     profile |-> p, restaurant |-> RestaurantOf(p)]

\* Plausible regression: the restaurant of the token is not looked at.
CurrentUserAnywhere(t) ==
    IF emailOf[t.sub] = Nobody THEN {} ELSE ResolveProfile(t.sub, t.type, Nobody)

\* The profile a renewal or a request about oneself answers with.
CurrentUser(t) ==
    IF emailOf[t.sub] = Nobody THEN {} ELSE ResolveProfile(t.sub, t.type, t.restaurant)

Sign(p) ==
    /\ Payload(p) \in tokens \/ Cardinality(tokens) < MaxTokens
    /\ tokens' = tokens \cup {Payload(p)}

\* The password was right; a restaurant is named by its slug.
LogIn(i, type, r) ==
    /\ emailOf[i] # Nobody
    /\ r # Nobody => restaurant[r].exists
    /\ \E p \in ResolveProfile(i, type, r) : Sign(p)
    /\ UNCHANGED <<pin, pinReq, misses, pinRaced>>

-----------------------------------------------------------------------------
(* The PIN of a staff profile                                              *)

PinReqAt(q, step) == pinReq[q].step = step
PinReqEnds(q) == pinReq' = [pinReq EXCEPT ![q] = IdlePinRequest]

\* Whatever the status of the profile: the token is believed.
SetPin(t) ==
    /\ t.type = "staff"
    /\ pin' = [pin EXCEPT ![t.profile] = [NoPin EXCEPT !.set = TRUE]]
    /\ misses' = [misses EXCEPT ![t.profile] = 0]
    /\ UNCHANGED <<tokens, pinReq, pinRaced>>

\* The hash is compared between reading the columns and writing them.
ReadPin(q, p) ==
    /\ PinReqAt(q, "idle")
    /\ profile[p].status = "ACTIVE"
    /\ pin[p].set /\ ~pin[p].locked
    /\ pinReq' = [pinReq EXCEPT ![q] =
           [step |-> "comparing", of |-> p, failed |-> pin[p].failed]]
    /\ pinRaced' = IF \E o \in PinRequests : PinReqAt(o, "comparing") /\ pinReq[o].of = p
                   THEN pinRaced \cup {p} ELSE pinRaced
    /\ UNCHANGED <<tokens, pin, misses>>

\* Plausible regression: one attempt more than allowed.
LocksLater(failed) == failed > MaxPin

ShouldLock(failed) == failed >= MaxPin

\* registerFailedPinAttempt: one more than was read, whatever the row holds by now.
WrongPin(q) ==
    LET p == pinReq[q].of  failed == pinReq[q].failed + 1  lock == ShouldLock(failed) IN
    /\ PinReqAt(q, "comparing")
    /\ pin' = [pin EXCEPT ![p].failed = IF lock THEN 0 ELSE failed,
                          ![p].locked = lock \/ @]
    /\ misses' = [misses EXCEPT ![p] = IF lock THEN 0 ELSE @ + 1]
    /\ PinReqEnds(q)
    /\ UNCHANGED <<tokens, pinRaced>>

\* Also a lock that another attempt set in the meantime is lifted.
RightPin(q) ==
    LET p == pinReq[q].of IN
    /\ PinReqAt(q, "comparing")
    /\ pin' = [pin EXCEPT ![p].failed = 0, ![p].locked = FALSE]
    /\ misses' = [misses EXCEPT ![p] = 0]
    /\ pinReq' = [pinReq EXCEPT ![q].step = "right", ![q].failed = 0]
    /\ UNCHANGED <<tokens, pinRaced>>

\* The profile that was read at first is signed, if its identity still exists.
SignInByPin(q) ==
    LET p == pinReq[q].of IN
    /\ PinReqAt(q, "right")
    /\ IF emailOf[p[1]] # Nobody THEN Sign(p) ELSE UNCHANGED tokens
    /\ PinReqEnds(q)
    /\ UNCHANGED <<pin, misses, pinRaced>>

\* PIN_LOCKOUT_DURATION_MS passes.
LockExpires(p) ==
    /\ pin[p].locked
    /\ pin' = [pin EXCEPT ![p].locked = FALSE]
    /\ UNCHANGED <<tokens, pinReq, misses, pinRaced>>

SignInNext ==
    \/ \E i \in Identities, type \in ProfileTypes \cup {"any"},
          r \in Restaurants \cup {Nobody} : LogIn(i, type, r)
    \/ \E t \in tokens : SetPin(t)
    \/ \E q \in PinRequests, p \in Profiles : ReadPin(q, p)
    \/ \E q \in PinRequests : WrongPin(q) \/ RightPin(q) \/ SignInByPin(q)
    \/ \E p \in Profiles : LockExpires(p)

\* A profile appears, is disabled or enabled; an identity appears (which request makes it
\* is not told here), or is deleted while no profile needs it.
StaffMoves ==
    /\ \/ /\ \E p \in Profiles, status \in {"ACTIVE", "DISABLED"} :
                 /\ IdentityExists(p)
                 /\ profile' = [profile EXCEPT ![p].status = status]
                 /\ restaurant' = [restaurant EXCEPT ![RestaurantOf(p)] =
                                      [exists |-> TRUE, quota |-> MaxQuota]]
          /\ UNCHANGED People
       \/ /\ \E i \in Identities, e \in Emails :
                 \/ /\ Unused(i) /\ IdentitiesOf(e) = {}
                    /\ emailOf' = [emailOf EXCEPT ![i] = e]
                    /\ abandoned' = abandoned \cup {i}
                 \/ /\ emailOf[i] = e /\ ~HasProfile(i)
                    /\ emailOf' = [emailOf EXCEPT ![i] = Nobody]
                    /\ abandoned' = abandoned \ {i}
          /\ UNCHANGED <<profile, restaurant>>
    /\ UNCHANGED <<branchOf, staffReq, adminRaced, quotaRaced>>

SignInSpec ==
    /\ StaffInit /\ SignInInit
    /\ [][ \/ SignInNext /\ UNCHANGED staffVars
           \/ StaffMoves /\ UNCHANGED signInVars ]_<<staffVars, signInVars>>

-----------------------------------------------------------------------------
(* Properties                                                              *)

\* Every variable of the sign-in keeps its type.
SignInTypeOK ==
    /\ tokens \subseteq Payloads
    /\ pin \in [Profiles -> PinRecords]
    /\ pinReq \in [PinRequests -> PinRequestRecords]
    /\ misses \in [Profiles -> Nat]
    /\ pinRaced \subseteq Profiles

\* Whatever became of the profiles of a person since a token was signed, renewing it
\* answers with the profile it names or not at all, never with another one.
TokensNameTheirProfile == \A t \in tokens : CurrentUser(t) \subseteq {t.profile}

\* A profile is locked at the MaxPin-th wrong PIN in a row at the latest, unless two
\* attempts on it overlapped.
PinLockout == \A p \in Profiles \ pinRaced : misses[p] < MaxPin
=============================================================================
