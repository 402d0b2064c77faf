--------------------------------- MODULE FloorPlan ---------------------------------
(***************************************************************************)
(* The floor of one branch: its zones, the tables in them, the staff who   *)
(* serve each zone and the one who is assigned to the session of a table.  *)
(* Every operation reads what it refers to first and writes later; foreign *)
(* keys refuse a write about a zone that was deleted meanwhile, and        *)
(* deleting a zone takes its staff along and leaves its tables without it. *)
(***************************************************************************)
EXTENDS FiniteSets, ReplacedList

CONSTANTS Tables, Zones, ZoneNames,
          FloorStaff,    \* profiles of the restaurant's staff
          FloorRequests, \* concurrent requests of supervisors and waiters
          NoZone         \* no name, no zone, no table, nobody

ASSUME NoZoneAssumption == NoZone \notin ZoneNames \cup Zones \cup Tables \cup FloorStaff

VARIABLES
    zone,       \* the name of each zone that exists
    table,      \* which tables exist, and their zones
    zoneStaff,  \* the staff of each zone
    sentStaff,  \* ghost: the staff of the last request that replaced a zone's
    role,       \* what each profile may do on the floor now
    session,    \* the session of each table, and whom it is assigned to
    assignment, \* tableAssignmentEnabled of the branch
    floorReq,   \* the requests under way, with what they were sent
    zoneRaced   \* ghost: zones whose staff two requests replaced at once

floorVars == <<zone, table, zoneStaff, sentStaff, role, session, assignment,
               floorReq, zoneRaced>>

\* "waiter": one of FLOOR_ASSIGN_ROLES that is not in FLOOR_REASSIGN_ANYONE_ROLES.
FloorRoles == {"none", "waiter", "supervisor"}
TableRecords == [exists : BOOLEAN, zone : Zones \cup {NoZone}]
TableSessionRecords == [status : {"none", "active", "inactive"},
                        assigned : FloorStaff \cup {NoZone}]
FloorRequestRecords ==
    [step : {"idle", "move", "replace", "assign"}, zone : Zones \cup {NoZone},
     table : Tables \cup {NoZone}, staff : SUBSET FloorStaff, fresh : BOOLEAN]

IdleFloorRequest ==
    [step |-> "idle", zone |-> NoZone, table |-> NoZone, staff |-> {}, fresh |-> FALSE]

FloorInit ==
    /\ zone = [z \in Zones |-> NoZone]
    /\ table = [t \in Tables |-> [exists |-> FALSE, zone |-> NoZone]]
    /\ zoneStaff = [z \in Zones |-> {}]
    /\ sentStaff = [z \in Zones |-> {}]
    /\ role = [s \in FloorStaff |-> "none"]
    /\ session = [t \in Tables |-> [status |-> "none", assigned |-> NoZone]]
    /\ assignment = FALSE
    /\ floorReq = [q \in FloorRequests |-> IdleFloorRequest]
    /\ zoneRaced = {}

ZoneExists(z) == z # NoZone /\ zone[z] # NoZone
FloorReqAt(q, step) == floorReq[q].step = step
FloorReqEnds(q) == floorReq' = [floorReq EXCEPT ![q] = IdleFloorRequest]
StaffRows == <<zoneStaff, sentStaff, zoneRaced>>
Sessions == <<session, assignment>>

-----------------------------------------------------------------------------
(* Tables and zones                                                        *)

\* The code of a table and the name of a zone are unique in the branch.
CreateTable(t) ==
    /\ ~table[t].exists
    /\ table' = [table EXCEPT ![t].exists = TRUE]
    /\ UNCHANGED <<zone, StaffRows, role, Sessions, floorReq>>

NameZone(z, name) ==
    /\ \A other \in Zones : zone[other] # name
    /\ zone' = [zone EXCEPT ![z] = name]
    /\ UNCHANGED <<table, StaffRows, role, Sessions, floorReq>>

\* Ids are not given out again: no request knows the one of a new zone.
CreateTableZone(z, name) ==
    /\ ~ZoneExists(z)
    /\ \A q \in FloorRequests : floorReq[q].zone # z
    /\ NameZone(z, name)
RenameTableZone(z, name) == ZoneExists(z) /\ NameZone(z, name)

\* Plausible regression: the rows of its staff are kept.
DeleteZoneOnly(z) ==
    /\ ZoneExists(z)
    /\ zone' = [zone EXCEPT ![z] = NoZone]
    /\ table' = [t \in Tables |-> IF table[t].zone = z THEN [table[t] EXCEPT !.zone = NoZone]
                                  ELSE table[t]]
    /\ UNCHANGED <<StaffRows, role, Sessions, floorReq>>

\* Cascade to the staff of the zone, null for its tables.
DeleteTableZone(z) ==
    /\ ZoneExists(z)
    /\ zone' = [zone EXCEPT ![z] = NoZone]
    /\ table' = [t \in Tables |-> IF table[t].zone = z THEN [table[t] EXCEPT !.zone = NoZone]
                                  ELSE table[t]]
    /\ zoneStaff' = [zoneStaff EXCEPT ![z] = {}]
    /\ sentStaff' = [sentStaff EXCEPT ![z] = {}]
    /\ UNCHANGED <<zoneRaced, role, Sessions, floorReq>>

SetTableZone(q, t, z) ==
    /\ FloorReqAt(q, "idle")
    /\ table[t].exists
    /\ z # NoZone => ZoneExists(z)
    /\ floorReq' = [floorReq EXCEPT ![q] =
           [IdleFloorRequest EXCEPT !.step = "move", !.table = t, !.zone = z]]
    /\ UNCHANGED <<zone, table, StaffRows, role, Sessions>>

CommitTableZone(q) ==
    LET z == floorReq[q].zone IN
    /\ FloorReqAt(q, "move")
    /\ table' = IF z = NoZone \/ ZoneExists(z)
                THEN [table EXCEPT ![floorReq[q].table].zone = z] ELSE table
    /\ FloorReqEnds(q)
    /\ UNCHANGED <<zone, StaffRows, role, Sessions>>

-----------------------------------------------------------------------------
(* The staff of a zone                                                     *)

\* All of them have a role in the branch; then the transaction's delete begins.
SetZoneStaff(q, z, staff) ==
    /\ FloorReqAt(q, "idle")
    /\ ZoneExists(z)
    /\ \A s \in staff : role[s] # "none"
    /\ floorReq' = [floorReq EXCEPT ![q] =
           [IdleFloorRequest EXCEPT !.step = "replace", !.zone = z, !.staff = staff,
                                    !.fresh = TRUE]]
    /\ zoneRaced' = IF \E o \in FloorRequests : FloorReqAt(o, "replace") /\ floorReq[o].zone = z
                    THEN zoneRaced \cup {z} ELSE zoneRaced
    /\ UNCHANGED <<zone, table, zoneStaff, sentStaff, role, Sessions>>

CommitZoneStaff(q) ==
    LET z == floorReq[q].zone  fresh == floorReq[q].fresh  new == floorReq[q].staff
        done == /\ ZoneExists(z) \/ new = {}
                /\ ~Refused(zoneStaff[z], fresh, new)
    IN  /\ FloorReqAt(q, "replace")
        /\ zoneStaff' = IF done THEN [zoneStaff EXCEPT ![z] = Replaced(@, fresh, new)]
                        ELSE zoneStaff
        /\ sentStaff' = IF done THEN [sentStaff EXCEPT ![z] = new] ELSE sentStaff
        /\ floorReq' = [o \in FloorRequests |->
               IF o = q THEN IdleFloorRequest
               ELSE IF done /\ FloorReqAt(o, "replace") /\ floorReq[o].zone = z
                    THEN [floorReq[o] EXCEPT !.fresh = FALSE]
               ELSE floorReq[o]]
        /\ UNCHANGED <<zone, table, zoneRaced, role, Sessions>>

-----------------------------------------------------------------------------
(* Who serves the session of a table                                       *)

\* A waiter may only take a table for himself.
AssignTableSession(q, t, by, target) ==
    /\ FloorReqAt(q, "idle")
    /\ session[t].status = "active"
    /\ role[by] # "none"
    /\ assignment
    /\ target # by => role[by] = "supervisor" /\ role[target] # "none"
    /\ floorReq' = [floorReq EXCEPT ![q] =
           [IdleFloorRequest EXCEPT !.step = "assign", !.table = t, !.staff = {target}]]
    /\ UNCHANGED <<zone, table, StaffRows, role, Sessions>>

\* Whatever the session, the setting and the roles are by now.
CommitAssignment(q) ==
    /\ FloorReqAt(q, "assign")
    /\ \E target \in floorReq[q].staff :
           session' = [session EXCEPT ![floorReq[q].table].assigned = target]
    /\ FloorReqEnds(q)
    /\ UNCHANGED <<zone, table, StaffRows, role, assignment>>

\* TableService has the sessions: here one opens and ends.
SessionMoves(t, status) ==
    /\ session[t].status = IF status = "active" THEN "none" ELSE "active"
    /\ table[t].exists
    /\ session' = [session EXCEPT ![t].status = status]
    /\ UNCHANGED <<zone, table, StaffRows, role, assignment, floorReq>>

\* The settings of a branch; only this one matters here.
UpdateBranch ==
    /\ assignment' = ~assignment
    /\ UNCHANGED <<zone, table, StaffRows, role, session, floorReq>>

\* StaffAdministration has the profiles and their roles: here they change.
RoleMoves(s, r) ==
    /\ role' = [role EXCEPT ![s] = r]
    /\ UNCHANGED <<zone, table, StaffRows, Sessions, floorReq>>

FloorRequestDies(q) ==
    /\ ~FloorReqAt(q, "idle")
    /\ FloorReqEnds(q)
    /\ UNCHANGED <<zone, table, StaffRows, role, Sessions>>

\* Tables, zones and the staff of zones.
ZonesNext ==
    \/ \E t \in Tables : CreateTable(t)
    \/ \E z \in Zones, name \in ZoneNames : CreateTableZone(z, name) \/ RenameTableZone(z, name)
    \/ \E z \in Zones : DeleteTableZone(z)
    \/ \E q \in FloorRequests, t \in Tables, z \in Zones \cup {NoZone} : SetTableZone(q, t, z)
    \/ \E q \in FloorRequests, z \in Zones, staff \in SUBSET FloorStaff :
           SetZoneStaff(q, z, staff)
    \/ \E q \in FloorRequests : CommitTableZone(q) \/ CommitZoneStaff(q) \/ FloorRequestDies(q)
    \/ \E s \in FloorStaff, r \in FloorRoles \ {"supervisor"} : RoleMoves(s, r)

\* Sessions and who they are assigned to.
AssignmentsNext ==
    \/ \E t \in Tables : \/ CreateTable(t)
                         \/ \E status \in {"active", "inactive"} : SessionMoves(t, status)
    \/ \E q \in FloorRequests, t \in Tables, by, target \in FloorStaff :
           AssignTableSession(q, t, by, target)
    \/ \E q \in FloorRequests : CommitAssignment(q) \/ FloorRequestDies(q)
    \/ \E s \in FloorStaff, r \in FloorRoles : RoleMoves(s, r)
    \/ UpdateBranch

FloorSpec == FloorInit /\ [][ZonesNext \/ AssignmentsNext]_floorVars

-----------------------------------------------------------------------------
(* Properties                                                              *)

\* Every variable of the floor keeps its type.
FloorTypeOK ==
    /\ zone \in [Zones -> ZoneNames \cup {NoZone}]
    /\ table \in [Tables -> TableRecords]
    /\ zoneStaff \in [Zones -> SUBSET FloorStaff]
    /\ sentStaff \in [Zones -> SUBSET FloorStaff]
    /\ role \in [FloorStaff -> FloorRoles]
    /\ session \in [Tables -> TableSessionRecords]
    /\ assignment \in BOOLEAN
    /\ floorReq \in [FloorRequests -> FloorRequestRecords]
    /\ zoneRaced \subseteq Zones

\* A zone has the staff of the request that replaced them last, and one that was
\* deleted while requests about it were under way leaves neither staff nor tables.
ZoneStaffAsSent ==
    /\ \A z \in Zones \ zoneRaced : zoneStaff[z] = sentStaff[z]
    /\ \A z \in Zones : zone[z] = NoZone => zoneStaff[z] = {}
    /\ \A t \in Tables : table[t].zone # NoZone => ZoneExists(table[t].zone)
=============================================================================
