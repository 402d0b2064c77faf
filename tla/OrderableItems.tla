----------------------------- MODULE OrderableItems -----------------------------
(***************************************************************************)
(* The modifiers of a branch: groups of options with limits on how many a  *)
(* guest selects, attached to the items of the menus, and the check of the *)
(* selection that an order makes for an item.  Groups are shared by items  *)
(* and may be edited at any time, whatever the status of the menu; their   *)
(* names, prices and order are left out.                                   *)
(***************************************************************************)
EXTENDS Naturals, FiniteSets, Sequences, ReplacedList

CONSTANTS Items,            \* items of menus
          Groups, Options,  \* ids of modifier groups and of their options
          EditedGroups,     \* bound: the groups whose limits and options change
          MaxSelect,        \* bound: the limits an administrator sets
          ModifierRequests, \* concurrent requests of administrators
          NoLimit,          \* maxSelect null
          Nothing           \* no group, no item

ASSUME MaxSelectAssumption == MaxSelect \in Nat /\ EditedGroups \subseteq Groups
ASSUME NothingAssumption == NoLimit \notin Nat /\ Nothing \notin Groups \cup Items

VARIABLES
    group,      \* the limits of each group
    option,     \* the group of each option, and whether it is available
    attached,   \* the groups of each item
    sentGroups, \* ghost: the groups of the last request that replaced an item's
    modReq,     \* the requests under way, with what they were sent
    groupRaced, \* ghost: groups that two requests updated at once
    listRaced   \* ghost: items whose groups two requests replaced at once

modifierVars == <<group, option, attached, sentGroups, modReq, groupRaced, listRaced>>

Limits == [min : 0..MaxSelect, max : (0..MaxSelect) \cup {NoLimit}, required : BOOLEAN]
LimitFields == {"min", "max", "required"}
ModifierRequestRecords ==
    [step : {"idle", "update", "replace"}, group : Groups \cup {Nothing},
     item : Items \cup {Nothing}, limits : Limits, fields : SUBSET LimitFields,
     groups : SUBSET Groups, fresh : BOOLEAN]

NewLimits == [min |-> 0, max |-> NoLimit, required |-> FALSE]
NoGroup == [exists |-> FALSE, limits |-> NewLimits]
IdleModifierRequest ==
    [step |-> "idle", group |-> Nothing, item |-> Nothing, limits |-> NewLimits,
     fields |-> {}, groups |-> {}, fresh |-> FALSE]

ModifiersInit ==
    /\ group = [g \in Groups |-> NoGroup]
    /\ option = [o \in Options |-> [of |-> Nothing, available |-> FALSE]]
    /\ attached = [i \in Items |-> {}]
    /\ sentGroups = [i \in Items |-> {}]
    /\ modReq = [q \in ModifierRequests |-> IdleModifierRequest]
    /\ groupRaced = {}
    /\ listRaced = {}

ItemGroups == <<attached, sentGroups>>
ModReqAt(q, step) == modReq[q].step = step
ModReqEnds(q) == modReq' = [modReq EXCEPT ![q] = IdleModifierRequest]

-----------------------------------------------------------------------------
(* The selection of an order: orderable-menu-item-resolver                 *)

EffectiveMin(limits) == IF limits.required /\ limits.min = 0 THEN 1 ELSE limits.min

CountFits(limits, n) ==
    /\ n >= EffectiveMin(limits)
    /\ limits.max # NoLimit => n <= limits.max

\* resolveModifiers, for an item with these groups: an option that is named twice
\* counts twice.
Resolves(groups, selected) ==
    /\ \A k \in DOMAIN selected : /\ option[selected[k]].of \in groups
                                  /\ option[selected[k]].available
    /\ \A g \in groups :
           CountFits(group[g].limits,
                     Cardinality({k \in DOMAIN selected : option[selected[k]].of = g}))

-----------------------------------------------------------------------------
(* Groups and options                                                      *)

LimitsOrdered(limits) == limits.max # NoLimit => limits.min <= limits.max

CreateModifierGroup(g, limits) ==
    /\ ~group[g].exists
    /\ LimitsOrdered(limits)
    /\ group' = [group EXCEPT ![g] = [exists |-> TRUE, limits |-> limits]]
    /\ UNCHANGED <<option, ItemGroups, modReq, groupRaced, listRaced>>

\* An update of some fields leaves the others as they are.
Merged(limits, sent, fields) ==
    [min |-> IF "min" \in fields THEN sent.min ELSE limits.min,
     max |-> IF "max" \in fields THEN sent.max ELSE limits.max,
     required |-> IF "required" \in fields THEN sent.required ELSE limits.required]

\* Plausible regression: only the fields that were sent are compared.
SentOrdered(limits, sent, fields) ==
    {"min", "max"} \subseteq fields => LimitsOrdered(sent)

\* The limits as they would be are compared before they are written.
NextOrdered(limits, sent, fields) == LimitsOrdered(Merged(limits, sent, fields))

UpdateModifierGroup(q, g, sent, fields) ==
    /\ ModReqAt(q, "idle")
    /\ group[g].exists
    /\ NextOrdered(group[g].limits, sent, fields)
    /\ modReq' = [modReq EXCEPT ![q] =
           [IdleModifierRequest EXCEPT !.step = "update", !.group = g, !.fields = fields,
                                       !.limits = Merged(NewLimits, sent, fields)]]
    /\ groupRaced' = IF \E o \in ModifierRequests : modReq[o].group = g
                     THEN groupRaced \cup {g} ELSE groupRaced
    /\ UNCHANGED <<group, option, ItemGroups, listRaced>>

CommitModifierGroup(q) ==
    /\ ModReqAt(q, "update")
    /\ group' = [group EXCEPT ![modReq[q].group].limits =
                    Merged(@, modReq[q].limits, modReq[q].fields)]
    /\ ModReqEnds(q)
    /\ UNCHANGED <<option, ItemGroups, groupRaced, listRaced>>

CreateModifierOption(o, g, available) ==
    /\ option[o].of = Nothing
    /\ group[g].exists
    /\ option' = [option EXCEPT ![o] = [of |-> g, available |-> available]]
    /\ UNCHANGED <<group, ItemGroups, modReq, groupRaced, listRaced>>

UpdateModifierOption(o, available) ==
    /\ option[o].of # Nothing
    /\ option' = [option EXCEPT ![o].available = available]
    /\ UNCHANGED <<group, ItemGroups, modReq, groupRaced, listRaced>>

-----------------------------------------------------------------------------
(* The groups of an item                                                   *)

\* The groups are looked up, and the transaction's delete begins.
SetMenuItemModifierGroups(q, i, groups) ==
    /\ ModReqAt(q, "idle")
    /\ \A g \in groups : group[g].exists
    /\ modReq' = [modReq EXCEPT ![q] =
           [IdleModifierRequest EXCEPT !.step = "replace", !.item = i, !.groups = groups,
                                       !.fresh = TRUE]]
    /\ listRaced' = IF \E o \in ModifierRequests : modReq[o].item = i
                    THEN listRaced \cup {i} ELSE listRaced
    /\ UNCHANGED <<group, option, ItemGroups, groupRaced>>

CommitItemGroups(q) ==
    LET i == modReq[q].item  fresh == modReq[q].fresh  new == modReq[q].groups
        done == ~Refused(attached[i], fresh, new)
    IN  /\ ModReqAt(q, "replace")
        /\ attached' = IF done THEN [attached EXCEPT ![i] = Replaced(@, fresh, new)]
                       ELSE attached
        /\ sentGroups' = IF done THEN [sentGroups EXCEPT ![i] = new] ELSE sentGroups
        /\ modReq' = [o \in ModifierRequests |->
               IF o = q THEN IdleModifierRequest
               ELSE IF done /\ modReq[o].item = i THEN [modReq[o] EXCEPT !.fresh = FALSE]
               ELSE modReq[o]]
        /\ UNCHANGED <<group, option, groupRaced, listRaced>>

ModifierRequestDies(q) ==
    /\ ~ModReqAt(q, "idle")
    /\ ModReqEnds(q)
    /\ UNCHANGED <<group, option, ItemGroups, groupRaced, listRaced>>

\* Groups, their limits and their options.
LimitsNext ==
    \/ \E g \in EditedGroups, limits \in Limits :
           \/ CreateModifierGroup(g, limits)
           \/ \E q \in ModifierRequests, fields \in SUBSET LimitFields \ {{}} :
                  UpdateModifierGroup(q, g, limits, fields)
    \/ \E o \in Options, available \in BOOLEAN :
           \/ \E g \in EditedGroups : CreateModifierOption(o, g, available)
           \/ UpdateModifierOption(o, available)
    \/ \E q \in ModifierRequests : CommitModifierGroup(q) \/ ModifierRequestDies(q)

\* The groups of the items.
ItemGroupsNext ==
    \/ \E g \in Groups : CreateModifierGroup(g, NewLimits)
    \/ \E q \in ModifierRequests, i \in Items, groups \in SUBSET Groups :
           SetMenuItemModifierGroups(q, i, groups)
    \/ \E q \in ModifierRequests : CommitItemGroups(q) \/ ModifierRequestDies(q)

ModifiersSpec == ModifiersInit /\ [][LimitsNext \/ ItemGroupsNext]_modifierVars

-----------------------------------------------------------------------------
(* Properties                                                              *)

\* Every variable of the modifiers keeps its type.
ModifiersTypeOK ==
    /\ group \in [Groups -> [exists : BOOLEAN, limits : Limits]]
    /\ option \in [Options -> [of : Groups \cup {Nothing}, available : BOOLEAN]]
    /\ attached \in [Items -> SUBSET Groups]
    /\ sentGroups \in [Items -> SUBSET Groups]
    /\ modReq \in [ModifierRequests -> ModifierRequestRecords]
    /\ groupRaced \subseteq Groups /\ listRaced \subseteq Items

\* A group never keeps guests from ordering the items it is attached to: whatever
\* partial updates follow each other, some selection passes the check of an order, as
\* long as an option is available.  Excepted are a group two updates overlapped on,
\* and one that requires a selection and allows none, which no check refuses.
SelectionPossible ==
    \A g \in Groups \ groupRaced, o \in Options :
        option[o].of = g /\ option[o].available
        => \/ group[g].limits.required /\ group[g].limits.max = 0
           \/ \E n \in 0..(MaxSelect + 1) : Resolves({g}, [k \in 1..n |-> o])

\* An item has the groups of the request that replaced them last.
ItemGroupsAsSent == \A i \in Items \ listRaced : attached[i] = sentGroups[i]
=============================================================================
