---------------------------- MODULE KitchenProofs ----------------------------
(***************************************************************************)
(* Proofs about Kitchen, for any sets of orders, stations and requests:    *)
(* types, the items of a ticket, and the status of an order that nobody    *)
(* wrote to without knowing its state.                                     *)
(*                                                                         *)
(* The last one needs to know what a request still knows of the order it   *)
(* has read (`Knows`): until somebody else writes to the order, the ticket *)
(* it moves may still be moved, and the status it has computed is the one  *)
(* the tickets give.                                                       *)
(***************************************************************************)
EXTENDS Kitchen, TLAPS

InTicket(r) == req[r].step \in {"ticket", "ticketTx"}

\* What a request at work always knows.
Accepted(r) ==
    /\ \A o \in req[r].orders : order[o] # "NONE"
    /\ InTicket(r) => /\ req[r].station \in Stations
                      /\ req[r].target \in {"IN_PROGRESS", "READY", "CANCELLED"}

LEMMA TypeInit == Init => TypeOK
BY DEF Init, TypeOK, OrderStatuses, ProductionStatuses, StationTicketStatuses,
       OrderItemStatuses, RequestRecords, Idle, Steps, Tickets

LEMMA StatusType ==
    ASSUME NEW statuses
    PROVE  StatusFromTickets(statuses) \in OrderStatuses
BY DEF StatusFromTickets, OrderStatuses, ProductionStatuses

LEMMA WrittenType ==
    ASSUME TypeOK, NEW r \in Requests, Written(r)
    PROVE  /\ req' \in [Requests -> RequestRecords]
           /\ overlapped' \subseteq Orders
<1>1. Idle \in RequestRecords
  BY DEF Idle, RequestRecords, Steps, OrderStatuses, StationTicketStatuses
<1>2. ASSUME NEW q \in Requests, NEW b \in BOOLEAN
      PROVE  [req[q] EXCEPT !.stale = b] \in RequestRecords
  BY <1>2 DEF TypeOK, RequestRecords
<1>3. \A q \in Requests : req[q].stale \in BOOLEAN /\ req[q].orders \in SUBSET Orders
  BY DEF TypeOK, RequestRecords
<1>4. \A q \in Requests :
         [req[q] EXCEPT !.stale = @ \/ req[q].orders \cap req[r].orders # {}]
            \in RequestRecords
  BY <1>2, <1>3
<1>5. req' \in [Requests -> RequestRecords]
  BY <1>1, <1>4 DEF Written
<1>6. overlapped' \subseteq Orders
  BY <1>3 DEF Written, TypeOK
<1> QED
  BY <1>5, <1>6

-----------------------------------------------------------------------------
(* The invariant without the order's status                                *)

ItemInv ==
    /\ TypeOK
    /\ ItemsFollowTicket
    /\ \A r \in Requests : Accepted(r)
    /\ \A o \in Orders : order[o] = "NONE" => TicketsOf(o) = {}

LEMMA InitItem == Init => ItemInv
BY TypeInit DEF Init, ItemInv, ItemsFollowTicket, Accepted, InTicket, Idle, TicketsOf

\* A request that ends leaves the others what they had accepted.
LEMMA WrittenAccepted ==
    ASSUME TypeOK, NEW r \in Requests, Written(r),
           NEW q \in Requests, Accepted(q),
           \A o \in Orders : order[o] # "NONE" => order'[o] # "NONE"
    PROVE  Accepted(q)'
<1>1. CASE q = r
  BY <1>1 DEF Written, Accepted, InTicket, Idle
<1>2. CASE q # r
  <2>1. /\ req'[q].step = req[q].step /\ req'[q].orders = req[q].orders
        /\ req'[q].station = req[q].station /\ req'[q].target = req[q].target
    BY <1>2 DEF Written, TypeOK, RequestRecords
  <2>2. req[q].orders \subseteq Orders
    BY DEF TypeOK, RequestRecords
  <2> QED
    BY <2>1, <2>2 DEF Accepted, InTicket
<1> QED
  BY <1>1, <1>2

LEMMA ItemRoute ==
    ASSUME ItemInv, NEW o \in Orders, NEW stations \in SUBSET Stations,
           Route(o, stations)
    PROVE  ItemInv'
<1> USE DEF ItemInv
<1>1. TypeOK'
  BY DEF Route, TypeOK, OrderStatuses, ProductionStatuses, StationTicketStatuses,
         OrderItemStatuses
<1>2. ItemsFollowTicket'
  BY DEF Route, ItemsFollowTicket
<1>3. \A r \in Requests : Accepted(r)'
  BY DEF Route, Accepted, InTicket, TypeOK
<1>4. \A p \in Orders : order'[p] = "NONE" => TicketsOf(p)' = {}
  <2> SUFFICES ASSUME NEW p \in Orders, order'[p] = "NONE", NEW t \in TicketsOf(p)'
               PROVE  FALSE
    OBVIOUS
  <2>1. p # o /\ order[p] = "NONE"
    BY DEF Route, TypeOK
  <2>2. t \in Tickets /\ t[1] = p /\ ticket'[t] # "NONE"
    BY DEF TicketsOf
  <2>3. t \notin {o} \X stations
    BY <2>1, <2>2
  <2>4. ticket'[t] = ticket[t]
    BY <2>2, <2>3 DEF Route
  <2> QED
    BY <2>1, <2>2, <2>4 DEF TicketsOf
<1> QED
  BY <1>1, <1>2, <1>3, <1>4

\* Reading changes nothing that is stored.
LEMMA ItemRead ==
    ASSUME ItemInv, NEW r \in Requests, NEW record \in RequestRecords,
           req' = [req EXCEPT ![r] = record],
           UNCHANGED <<order, ticket, item, overlapped>>,
           \A o \in record.orders : order[o] # "NONE",
           record.step \in {"ticket", "ticketTx"} =>
               /\ record.station \in Stations
               /\ record.target \in {"IN_PROGRESS", "READY", "CANCELLED"}
    PROVE  ItemInv'
<1>1. TypeOK'
  BY DEF ItemInv, TypeOK
<1>2. ItemsFollowTicket' /\ \A o \in Orders : order'[o] = "NONE" => TicketsOf(o)' = {}
  BY DEF ItemInv, ItemsFollowTicket, TicketsOf
<1>3. ASSUME NEW q \in Requests
      PROVE  Accepted(q)'
  <2>1. CASE q = r
    BY <2>1 DEF ItemInv, TypeOK, Accepted, InTicket
  <2>2. CASE q # r
    BY <2>2 DEF ItemInv, TypeOK, Accepted, InTicket
  <2> QED
    BY <2>1, <2>2
<1> QED
  BY <1>1, <1>2, <1>3 DEF ItemInv

\* A ticket that may be moved is moved to where the code moves tickets.
LEMMA Moves ==
    ASSUME NEW from \in StationTicketStatuses, NEW to \in Transitions[from]
    PROVE  /\ to \in {"IN_PROGRESS", "READY", "CANCELLED"}
           /\ from \in {"PENDING", "IN_PROGRESS"}
BY DEF Transitions, StationTicketStatuses

LEMMA ItemTicketRead ==
    ASSUME ItemInv, NEW r \in Requests, NEW o \in Orders, NEW station \in Stations,
           NEW target \in StationTicketStatuses, TicketRead(r, o, station, target)
    PROVE  ItemInv'
<1> DEFINE record == [step |-> "ticket", orders |-> {o}, station |-> station,
                      target |-> target, status |-> order[o], stale |-> FALSE]
<1>1. <<o, station>> \in Tickets /\ ticket[<<o, station>>] \in StationTicketStatuses
  BY DEF Tickets, ItemInv, TypeOK
<1>2. /\ target \in {"IN_PROGRESS", "READY", "CANCELLED"}
      /\ ticket[<<o, station>>] \in {"PENDING", "IN_PROGRESS"}
  BY <1>1, Moves DEF TicketRead
<1>3. <<o, station>> \in TicketsOf(o)
  BY <1>1, <1>2 DEF TicketsOf
<1>4. order[o] # "NONE"
  BY <1>3 DEF ItemInv
<1>5. record \in RequestRecords
  BY DEF RequestRecords, Steps, ItemInv, TypeOK
<1>6. req' = [req EXCEPT ![r] = record]
  BY DEF TicketRead
<1> QED
  BY <1>2, <1>4, <1>5, <1>6, ItemRead DEF TicketRead

LEMMA ItemTicketTx ==
    ASSUME ItemInv, NEW r \in Requests, NEW o \in Orders, TicketTx(r, o)
    PROVE  ItemInv'
<1>1. PICK status \in OrderStatuses :
         req' = [req EXCEPT ![r].step = "ticketTx", ![r].status = status]
  <2> DEFINE next == StatusFromTickets({req[r].target}
                        \cup {ticket[t] : t \in TicketsOf(o) \ {<<o, req[r].station>>}})
             status == IF req[r].status \in ProductionStatuses /\ next # req[r].status
                       THEN next ELSE "NONE"
  <2>1. status \in OrderStatuses
    BY StatusType DEF OrderStatuses
  <2>2. req' = [req EXCEPT ![r].step = "ticketTx", ![r].status = status]
    BY DEF TicketTx, ItemInv, TypeOK
  <2> QED
    BY <2>1, <2>2
<1> DEFINE record == [req[r] EXCEPT !.step = "ticketTx", !.status = status]
<1>2. record \in RequestRecords
  BY DEF ItemInv, TypeOK, RequestRecords, Steps
<1>3. req' = [req EXCEPT ![r] = record]
  BY <1>1 DEF ItemInv, TypeOK
<1>4. /\ record.orders = req[r].orders /\ record.station = req[r].station
      /\ record.target = req[r].target
  BY DEF ItemInv, TypeOK, RequestRecords
<1>5. Accepted(r) /\ InTicket(r)
  BY DEF ItemInv, TicketTx, At, InTicket
<1>6. \A p \in record.orders : order[p] # "NONE"
  BY <1>4, <1>5 DEF Accepted
<1>7. record.station \in Stations /\ record.target \in {"IN_PROGRESS", "READY", "CANCELLED"}
  BY <1>4, <1>5 DEF Accepted
<1>8. UNCHANGED <<order, ticket, item, overlapped>>
  BY DEF TicketTx
<1> HIDE DEF record
<1> QED
  BY <1>2, <1>3, <1>6, <1>7, <1>8, ItemRead

LEMMA ItemTicketCommit ==
    ASSUME ItemInv, NEW r \in Requests, NEW o \in Orders, TicketCommit(r, o)
    PROVE  ItemInv'
<1>1. PICK station \in Stations, target \in {"IN_PROGRESS", "READY", "CANCELLED"} :
         station = req[r].station /\ target = req[r].target
  BY DEF ItemInv, Accepted, InTicket, TicketCommit, At
<1> DEFINE own == <<o, station>>
<1>2. own \in Tickets /\ order[o] # "NONE"
  BY DEF Tickets, ItemInv, Accepted, TicketCommit
<1>3. /\ ticket' = [ticket EXCEPT ![own] = target]
      /\ item' = [item EXCEPT ![own] = OrderItemStatus(target)]
  BY <1>1 DEF TicketCommit
<1>4. req[r].status \in OrderStatuses
  BY DEF ItemInv, TypeOK, RequestRecords
<1>5. TypeOK'
  <2>1. OrderItemStatus(target) \in OrderItemStatuses /\ target \in StationTicketStatuses
    BY DEF OrderItemStatus, OrderItemStatuses, StationTicketStatuses
  <2>2. req' \in [Requests -> RequestRecords] /\ overlapped' \subseteq Orders
    BY WrittenType DEF ItemInv, TicketCommit
  <2>3. order' \in [Orders -> OrderStatuses]
    BY <1>4 DEF TicketCommit, ItemInv, TypeOK
  <2> QED
    BY <1>3, <2>1, <2>2, <2>3 DEF ItemInv, TypeOK
<1>6. ItemsFollowTicket'
  BY <1>2, <1>3 DEF ItemInv, TypeOK, ItemsFollowTicket, OrderItemStatus
<1>7. \A p \in Orders : order[p] # "NONE" => order'[p] # "NONE"
  BY DEF TicketCommit, ItemInv, TypeOK
<1>8. \A q \in Requests : Accepted(q)'
  BY <1>7, WrittenAccepted DEF ItemInv, TicketCommit
<1>9. \A p \in Orders : order'[p] = "NONE" => TicketsOf(p)' = {}
  <2> SUFFICES ASSUME NEW p \in Orders, order'[p] = "NONE", NEW t \in TicketsOf(p)'
               PROVE  FALSE
    OBVIOUS
  <2>1. order[p] = "NONE" /\ p # o
    BY <1>2, <1>7
  <2>2. t \in Tickets /\ t[1] = p /\ ticket'[t] = ticket[t]
    BY <1>3, <2>1 DEF TicketsOf
  <2> QED
    BY <2>1, <2>2 DEF TicketsOf, ItemInv
<1> QED
  BY <1>5, <1>6, <1>8, <1>9 DEF ItemInv

LEMMA ItemDeliverCommit ==
    ASSUME ItemInv, NEW r \in Requests, DeliverCommit(r)
    PROVE  ItemInv'
<1>1. \A t \in Tickets : item'[t] \in {item[t], DeliveredItem(item[t])}
  BY DEF DeliverCommit
<1>2. TypeOK'
  <2>1. req' \in [Requests -> RequestRecords] /\ overlapped' \subseteq Orders
    BY WrittenType DEF ItemInv, DeliverCommit
  <2>2. order' \in [Orders -> OrderStatuses]
    BY DEF DeliverCommit, ItemInv, TypeOK, OrderStatuses
  <2>3. item' \in [Tickets -> OrderItemStatuses]
    BY DEF DeliverCommit, DeliveredItem, ItemInv, TypeOK, OrderItemStatuses
  <2> QED
    BY <2>1, <2>2, <2>3 DEF ItemInv, TypeOK, DeliverCommit
<1>3. ItemsFollowTicket'
  BY <1>1 DEF DeliverCommit, DeliveredItem, ItemInv, ItemsFollowTicket
<1>4. \A p \in Orders : order[p] # "NONE" => order'[p] # "NONE"
  BY DEF DeliverCommit
<1>5. \A q \in Requests : Accepted(q)'
  BY <1>4, WrittenAccepted DEF ItemInv, DeliverCommit
<1>6. \A p \in Orders : order'[p] = "NONE" => TicketsOf(p)' = {}
  BY <1>4 DEF DeliverCommit, TicketsOf, ItemInv
<1> QED
  BY <1>2, <1>3, <1>5, <1>6 DEF ItemInv

LEMMA ItemCancelCommit ==
    ASSUME ItemInv, NEW r \in Requests, NEW o \in Orders, CancelCommit(r, o)
    PROVE  ItemInv'
<1>1. \A t \in Tickets : IF t \in TicketsOf(o)
                        THEN ticket'[t] = "CANCELLED" /\ item'[t] = "CANCELLED"
                        ELSE ticket'[t] = ticket[t] /\ item'[t] = item[t]
  BY DEF CancelCommit
<1>2. TypeOK'
  <2>1. req' \in [Requests -> RequestRecords] /\ overlapped' \subseteq Orders
    BY WrittenType DEF ItemInv, CancelCommit
  <2>2. order' \in [Orders -> OrderStatuses]
    BY DEF CancelCommit, ItemInv, TypeOK, OrderStatuses
  <2>3. /\ ticket' \in [Tickets -> StationTicketStatuses]
        /\ item' \in [Tickets -> OrderItemStatuses]
    BY DEF CancelCommit, ItemInv, TypeOK, StationTicketStatuses, OrderItemStatuses
  <2> QED
    BY <2>1, <2>2, <2>3 DEF TypeOK
<1>3. ItemsFollowTicket'
  BY <1>1 DEF ItemInv, ItemsFollowTicket
<1>4. \A p \in Orders : order[p] # "NONE" => order'[p] # "NONE"
  BY DEF CancelCommit, ItemInv, TypeOK
<1>5. \A q \in Requests : Accepted(q)'
  BY <1>4, WrittenAccepted DEF ItemInv, CancelCommit
<1>6. \A p \in Orders : TicketsOf(p)' = TicketsOf(p)
  BY <1>1 DEF TicketsOf
<1>7. \A p \in Orders : order'[p] = "NONE" => TicketsOf(p)' = {}
  BY <1>4, <1>6 DEF ItemInv
<1> QED
  BY <1>2, <1>3, <1>5, <1>7 DEF ItemInv

LEMMA ItemStep == ItemInv /\ [Next]_vars => ItemInv'
<1> SUFFICES ASSUME ItemInv, [Next]_vars
             PROVE  ItemInv'
  OBVIOUS
<1>1. /\ Idle \in RequestRecords /\ Idle.orders = {}
      /\ Idle.step \notin {"ticket", "ticketTx"}
  BY DEF Idle, RequestRecords, Steps, OrderStatuses, StationTicketStatuses
<1>2. CASE UNCHANGED vars
  BY <1>2 DEF vars, ItemInv, TypeOK, ItemsFollowTicket, Accepted, InTicket, TicketsOf
<1>3. ASSUME NEW o \in Orders, NEW stations \in SUBSET Stations, Route(o, stations)
      PROVE  ItemInv'
  BY <1>3, ItemRoute
<1>4. ASSUME NEW r \in Requests, NEW orders \in SUBSET Orders, DeliverRead(r, orders)
      PROVE  ItemInv'
  <2> DEFINE record == [Idle EXCEPT !.step = "deliver", !.orders = orders]
  <2>1. record \in RequestRecords /\ record.orders = orders /\ record.step = "deliver"
    BY DEF Idle, RequestRecords, Steps, OrderStatuses, StationTicketStatuses
  <2>2. req' = [req EXCEPT ![r] = record]
    BY <1>4 DEF DeliverRead
  <2>3. \A o \in orders : order[o] # "NONE"
    BY <1>4 DEF DeliverRead
  <2>4. UNCHANGED <<order, ticket, item, overlapped>>
    BY <1>4 DEF DeliverRead
  <2> HIDE DEF record
  <2> QED
    BY <2>1, <2>2, <2>3, <2>4, ItemRead
<1>5. ASSUME NEW r \in Requests, NEW o \in Orders, CancelRead(r, o)
      PROVE  ItemInv'
  <2> DEFINE record == [Idle EXCEPT !.step = "cancel", !.orders = {o}]
  <2>1. record \in RequestRecords /\ record.orders = {o} /\ record.step = "cancel"
    BY DEF Idle, RequestRecords, Steps, OrderStatuses, StationTicketStatuses
  <2>2. req' = [req EXCEPT ![r] = record]
    BY <1>5 DEF CancelRead
  <2>3. order[o] # "NONE"
    BY <1>5 DEF CancelRead, ProductionStatuses
  <2>4. UNCHANGED <<order, ticket, item, overlapped>>
    BY <1>5 DEF CancelRead
  <2> HIDE DEF record
  <2> QED
    BY <2>1, <2>2, <2>3, <2>4, ItemRead
<1>6. ASSUME NEW r \in Requests, Drop(r)
      PROVE  ItemInv'
  BY <1>1, <1>6, ItemRead DEF Drop
<1> QED
  BY <1>2, <1>3, <1>4, <1>5, <1>6, ItemTicketRead, ItemTicketTx, ItemTicketCommit,
     ItemDeliverCommit, ItemCancelCommit DEF Next

LEMMA ItemInvariance == Spec => []ItemInv
BY InitItem, ItemStep, PTL DEF Spec

\* Every variable of the kitchen keeps its type, whatever overlaps.
THEOREM KitchenTypes == Spec => []TypeOK
BY ItemInvariance, PTL DEF ItemInv

\* Updates of a ticket, deliveries and cancellations may overlap in any way: the
\* items of a ticket are cancelled with it and only with it, and are never behind it.
THEOREM ItemsFollow == Spec => []ItemsFollowTicket
BY ItemInvariance, PTL DEF ItemInv

-----------------------------------------------------------------------------
(* The status of an order, from the set of the statuses of its tickets     *)

StatusesOf(o) == {ticket[t] : t \in TicketsOf(o)}
OtherStatuses(o, station) == {ticket[t] : t \in TicketsOf(o) \ {<<o, station>>}}

Shows(status, statuses) ==
    LET active == statuses \ {"CANCELLED"}
    IN  /\ status \in {"READY", "DELIVERED"} <=> active = {"READY"}
        /\ status = "PARTIALLY_READY" <=> "READY" \in active /\ active # {"READY"}
        /\ status = "CANCELLED" => active = {}
        /\ status = "ROUTED" => active \subseteq {"PENDING"}

LEMMA FollowsShows ==
    ASSUME NEW o \in Orders
    PROVE  (/\ order[o] \in {"READY", "DELIVERED"} <=> Active(o) # {} /\ Active(o) = Ready(o)
            /\ order[o] = "PARTIALLY_READY" <=> Ready(o) # {} /\ Ready(o) # Active(o)
            /\ order[o] = "CANCELLED" => Active(o) = {}
            /\ order[o] = "ROUTED" => \A t \in Active(o) : ticket[t] = "PENDING")
           <=> Shows(order[o], StatusesOf(o))
<1> DEFINE active == StatusesOf(o) \ {"CANCELLED"}
<1>1. active = {ticket[t] : t \in Active(o)}
  BY DEF StatusesOf, Active
<1>2. \A t : t \in Ready(o) <=> t \in Active(o) /\ ticket[t] = "READY"
  BY DEF Ready, Active
<1>3. active = {} <=> Active(o) = {}
  BY <1>1
<1>4. "READY" \in active <=> Ready(o) # {}
  BY <1>1, <1>2
<1>5. (\A t \in Active(o) : ticket[t] = "READY") <=> Active(o) = Ready(o)
  BY <1>2
<1>6. active = {"READY"} <=> Active(o) # {} /\ Active(o) = Ready(o)
  <2>1. ASSUME active = {"READY"}
        PROVE  Active(o) # {} /\ Active(o) = Ready(o)
    BY <1>1, <1>3, <1>5, <2>1
  <2>2. ASSUME Active(o) # {}, Active(o) = Ready(o)
        PROVE  active = {"READY"}
    BY <1>1, <1>5, <2>2
  <2> QED
    BY <2>1, <2>2
<1>7. active \subseteq {"PENDING"} <=> \A t \in Active(o) : ticket[t] = "PENDING"
  BY <1>1
<1>8. Ready(o) # {} => Active(o) # {}
  BY <1>2
<1> HIDE DEF active
<1>9. Shows(order[o], StatusesOf(o)) <=>
         /\ order[o] \in {"READY", "DELIVERED"} <=> active = {"READY"}
         /\ order[o] = "PARTIALLY_READY" <=> "READY" \in active /\ active # {"READY"}
         /\ order[o] = "CANCELLED" => active = {}
         /\ order[o] = "ROUTED" => active \subseteq {"PENDING"}
  BY DEF Shows, active
<1> QED
  BY <1>3, <1>4, <1>6, <1>7, <1>8, <1>9

\* What order-status-from-tickets computes shows where the tickets are.
LEMMA ComputedShows ==
    ASSUME NEW statuses \in SUBSET (StationTicketStatuses \ {"NONE"}),
           statuses \ {"CANCELLED"} # {}
    PROVE  /\ Shows(StatusFromTickets(statuses), statuses)
           /\ StatusFromTickets(statuses) \in ProductionStatuses
BY DEF Shows, StatusFromTickets, StationTicketStatuses, ProductionStatuses

\* Moving the last ticket that was not cancelled leaves the order as it was.
LEMMA LastCancelled ==
    ASSUME NEW status \in ProductionStatuses, NEW before \in {"PENDING", "IN_PROGRESS"},
           NEW others \in SUBSET {"CANCELLED"},
           Shows(status, {before} \cup others)
    PROVE  Shows(status, {"CANCELLED"} \cup others)
<1>1. ({before} \cup others) \ {"CANCELLED"} = {before}
  OBVIOUS
<1>2. status \in {"ROUTED", "IN_PREPARATION"}
  BY <1>1 DEF Shows, ProductionStatuses
<1>3. ({"CANCELLED"} \cup others) \ {"CANCELLED"} = {}
  OBVIOUS
<1> QED
  BY <1>2, <1>3 DEF Shows

\* An order one of whose tickets may still move is in production.
LEMMA StillInProduction ==
    ASSUME NEW status \in OrderStatuses \ {"NONE"}, NEW before, NEW others,
           before \in {"PENDING", "IN_PROGRESS"}, Shows(status, {before} \cup others)
    PROVE  status \in ProductionStatuses
BY DEF Shows, OrderStatuses

-----------------------------------------------------------------------------
(* What a request knows of its orders until somebody else writes to them   *)

\* The status the transaction of a ticket writes, "NONE" for none.
ToWrite(status, target, others) ==
    LET next == StatusFromTickets({target} \cup others)
    IN  IF status \in ProductionStatuses /\ next # status THEN next ELSE "NONE"

KnowsOrder(r, o) ==
    /\ InTicket(r) => req[r].target \in Transitions[ticket[<<o, req[r].station>>]]
    /\ At(r, "ticket") => req[r].status = order[o]
    /\ At(r, "ticketTx") =>
          req[r].status = ToWrite(order[o], req[r].target, OtherStatuses(o, req[r].station))
    /\ At(r, "deliver") => order[o] = "READY"

Knows(r) == ~req[r].stale => \A o \in req[r].orders : KnowsOrder(r, o)

\* A request keeps what it knows when it does not move and nobody writes to its
\* orders.
LEMMA KnowsUntouched ==
    ASSUME TypeOK, NEW q \in Requests, Accepted(q), Knows(q),
           /\ req'[q].step = req[q].step /\ req'[q].orders = req[q].orders
           /\ req'[q].station = req[q].station /\ req'[q].target = req[q].target
           /\ req'[q].status = req[q].status,
           ~req'[q].stale => /\ ~req[q].stale
                             /\ \A o \in req[q].orders :
                                   /\ order'[o] = order[o]
                                   /\ \A t \in Tickets : t[1] = o => ticket'[t] = ticket[t]
    PROVE  Knows(q)'
<1> SUFFICES ASSUME ~req'[q].stale, NEW o \in req[q].orders
             PROVE  KnowsOrder(q, o)'
  BY DEF Knows
<1>1. KnowsOrder(q, o)
  BY DEF Knows
<1>2. o \in Orders
  BY DEF TypeOK, RequestRecords
<1>3. order'[o] = order[o] /\ \A t \in Tickets : t[1] = o => ticket'[t] = ticket[t]
  OBVIOUS
<1>4. \A station \in Stations : ticket'[<<o, station>>] = ticket[<<o, station>>]
  BY <1>2, <1>3 DEF Tickets
<1>5. TicketsOf(o)' = TicketsOf(o)
  BY <1>3 DEF TicketsOf
<1>6. \A station : OtherStatuses(o, station)' = OtherStatuses(o, station)
  BY <1>3, <1>5 DEF OtherStatuses, TicketsOf
<1>7. (InTicket(q) <=> InTicket(q)') /\ \A step : At(q, step) <=> At(q, step)'
  BY DEF InTicket, At
<1>8. InTicket(q) => req[q].station \in Stations
  BY DEF Accepted
<1>9. At(q, "ticketTx") => req[q].status =
         ToWrite(order'[o], req[q].target, OtherStatuses(o, req[q].station)')
  BY <1>1, <1>3, <1>6 DEF KnowsOrder
<1>10. InTicket(q) =>
          req[q].target \in Transitions[ticket'[<<o, req[q].station>>]]
  BY <1>1, <1>4, <1>8 DEF KnowsOrder
<1> QED
  BY <1>1, <1>3, <1>6, <1>7, <1>9, <1>10 DEF KnowsOrder, ToWrite, OtherStatuses

\* A request that ends tells the ones whose orders it wrote to.
LEMMA KnowsWritten ==
    ASSUME TypeOK, NEW r \in Requests, Written(r),
           \A o \in Orders \ req[r].orders :
              /\ order'[o] = order[o]
              /\ \A t \in Tickets : t[1] = o => ticket'[t] = ticket[t],
           NEW q \in Requests, Accepted(q), Knows(q)
    PROVE  Knows(q)'
<1>1. CASE q = r
  BY <1>1 DEF Written, Knows, Idle
<1>2. CASE q # r
  <2>1. /\ req'[q].step = req[q].step /\ req'[q].orders = req[q].orders
        /\ req'[q].station = req[q].station /\ req'[q].target = req[q].target
        /\ req'[q].status = req[q].status
        /\ req'[q].stale = (req[q].stale \/ req[q].orders \cap req[r].orders # {})
    BY <1>2 DEF Written, TypeOK, RequestRecords
  <2>2. req[q].orders \subseteq Orders
    BY DEF TypeOK, RequestRecords
  <2> QED
    BY <2>1, <2>2, KnowsUntouched
<1> QED
  BY <1>1, <1>2

KitchenInv ==
    /\ ItemInv
    /\ \A r \in Requests : Knows(r)
    /\ \A o \in Orders \ overlapped : Shows(order[o], StatusesOf(o))

\* A request that only reads leaves the others what they know.
LEMMA OthersKnow ==
    ASSUME KitchenInv, NEW r \in Requests, NEW record,
           req' = [req EXCEPT ![r] = record], UNCHANGED <<order, ticket, item, overlapped>>,
           NEW q \in Requests, q # r
    PROVE  Knows(q)'
<1>1. req'[q] = req[q]
  BY DEF KitchenInv, ItemInv, TypeOK
<1> QED
  BY <1>1, KnowsUntouched DEF KitchenInv, ItemInv

LEMMA ReadKnows ==
    ASSUME KitchenInv, NEW r \in Requests, NEW record,
           req' = [req EXCEPT ![r] = record], UNCHANGED <<order, ticket, item, overlapped>>,
           Knows(r)'
    PROVE  /\ \A q \in Requests : Knows(q)'
           /\ \A o \in Orders \ overlapped' : Shows(order'[o], StatusesOf(o)')
<1>1. \A q \in Requests : Knows(q)'
  BY OthersKnow
<1>2. \A o \in Orders \ overlapped' : Shows(order'[o], StatusesOf(o)')
  BY DEF KitchenInv, StatusesOf, TicketsOf
<1> QED
  BY <1>1, <1>2

\* The transaction of a ticket computes the status from what is committed.
LEMMA TicketTxKnows ==
    ASSUME KitchenInv, NEW r \in Requests, NEW o \in Orders, TicketTx(r, o)
    PROVE  Knows(r)'
<1> SUFFICES ASSUME ~req'[r].stale, NEW p \in req'[r].orders
             PROVE  KnowsOrder(r, p)'
  BY DEF Knows
<1> DEFINE next == StatusFromTickets({req[r].target}
                        \cup {ticket[t] : t \in TicketsOf(o) \ {<<o, req[r].station>>}})
           status == IF req[r].status \in ProductionStatuses /\ next # req[r].status
                     THEN next ELSE "NONE"
<1>1. req' = [req EXCEPT ![r].step = "ticketTx", ![r].status = status]
  BY DEF TicketTx, KitchenInv, ItemInv, TypeOK
<1>2. /\ req'[r].step = "ticketTx" /\ req'[r].status = status
      /\ req'[r].target = req[r].target /\ req'[r].station = req[r].station
      /\ req'[r].orders = {o} /\ req'[r].stale = req[r].stale
  BY <1>1 DEF TicketTx, KitchenInv, ItemInv, TypeOK, RequestRecords
<1>3. p = o /\ ~req[r].stale
  BY <1>2
<1>4. KnowsOrder(r, o)
  BY <1>3 DEF KitchenInv, Knows, TicketTx
<1>5. /\ req[r].target \in Transitions[ticket[<<o, req[r].station>>]]
      /\ req[r].status = order[o]
  BY <1>4 DEF KnowsOrder, InTicket, TicketTx, At
<1>6. status = ToWrite(order[o], req[r].target, OtherStatuses(o, req[r].station))
  BY <1>5 DEF ToWrite, OtherStatuses
<1>7. order' = order /\ ticket' = ticket
  BY DEF TicketTx
<1>8. OtherStatuses(o, req[r].station)' = OtherStatuses(o, req'[r].station)
  BY <1>7 DEF OtherStatuses, TicketsOf
<1> HIDE DEF status
<1> QED
  BY <1>2, <1>3, <1>5, <1>6, <1>7, <1>8 DEF KnowsOrder, InTicket, At

\* The status a request writes, knowing its order, shows where the tickets are.
LEMMA TicketCommitShows ==
    ASSUME KitchenInv, NEW r \in Requests, NEW o \in Orders, TicketCommit(r, o),
           ~req[r].stale, o \notin overlapped
    PROVE  Shows(order'[o], StatusesOf(o)')
<1>1. PICK station \in Stations, target \in {"IN_PROGRESS", "READY", "CANCELLED"} :
         station = req[r].station /\ target = req[r].target
  BY DEF KitchenInv, ItemInv, Accepted, InTicket, TicketCommit, At
<1> DEFINE own    == <<o, station>>
           before == ticket[own]
           others == OtherStatuses(o, station)
<1>2. own \in Tickets /\ before \in StationTicketStatuses
  BY DEF Tickets, KitchenInv, ItemInv, TypeOK
<1>3. KnowsOrder(r, o)
  BY DEF KitchenInv, Knows, TicketCommit
<1>4. target \in Transitions[before] /\ req[r].status = ToWrite(order[o], target, others)
  BY <1>1, <1>3 DEF KnowsOrder, InTicket, TicketCommit, At
<1>5. before \in {"PENDING", "IN_PROGRESS"}
  BY <1>2, <1>4, Moves
<1>6. ticket' = [ticket EXCEPT ![own] = target]
  BY <1>1 DEF TicketCommit
<1>7. StatusesOf(o) = {before} \cup others
  BY <1>2, <1>5 DEF StatusesOf, OtherStatuses, TicketsOf
<1>8. StatusesOf(o)' = {target} \cup others
  <2>1. TicketsOf(o)' = TicketsOf(o) /\ own \in TicketsOf(o)
    BY <1>2, <1>5, <1>6 DEF TicketsOf, KitchenInv, ItemInv, TypeOK
  <2>2. \A t \in TicketsOf(o) : ticket'[t] = IF t = own THEN target ELSE ticket[t]
    BY <1>6 DEF TicketsOf, KitchenInv, ItemInv, TypeOK
  <2> QED
    BY <2>1, <2>2 DEF StatusesOf, OtherStatuses
<1>9. others \in SUBSET (StationTicketStatuses \ {"NONE"})
  BY DEF OtherStatuses, TicketsOf, KitchenInv, ItemInv, TypeOK
<1>10. Shows(order[o], {before} \cup others)
  BY <1>7 DEF KitchenInv
<1>11. order[o] \in OrderStatuses \ {"NONE"}
  BY DEF KitchenInv, ItemInv, TypeOK, Accepted, TicketCommit
<1>12. order[o] \in ProductionStatuses
  BY <1>5, <1>10, <1>11, StillInProduction
<1>13. order'[o] = IF req[r].status = "NONE" THEN order[o] ELSE req[r].status
  BY DEF TicketCommit, KitchenInv, ItemInv, TypeOK
<1> HIDE DEF own, before, others
<1>14. CASE target = "CANCELLED" /\ others \subseteq {"CANCELLED"}
  <2>1. StatusFromTickets({target} \cup others) = "NONE"
    BY <1>14 DEF StatusFromTickets
  <2>2. order'[o] = order[o]
    BY <1>4, <1>13, <2>1 DEF ToWrite
  <2>3. others \in SUBSET {"CANCELLED"}
    BY <1>14
  <2>4. Shows(order[o], {"CANCELLED"} \cup others)
    BY <1>5, <1>10, <1>12, <2>3, LastCancelled
  <2> QED
    BY <1>8, <1>14, <2>2, <2>4
<1>15. CASE ~(target = "CANCELLED" /\ others \subseteq {"CANCELLED"})
  <2>1. ({target} \cup others) \ {"CANCELLED"} # {}
    BY <1>15
  <2>2. {target} \cup others \in SUBSET (StationTicketStatuses \ {"NONE"})
    BY <1>9 DEF StationTicketStatuses
  <2>3. /\ Shows(StatusFromTickets({target} \cup others), {target} \cup others)
        /\ StatusFromTickets({target} \cup others) \in ProductionStatuses
    BY <2>1, <2>2, ComputedShows
  <2>4. order'[o] = StatusFromTickets({target} \cup others)
    BY <1>4, <1>12, <1>13, <2>3 DEF ToWrite, ProductionStatuses
  <2> QED
    BY <1>8, <2>3, <2>4
<1> QED
  BY <1>14, <1>15

\* An order nobody wrote to shows what it showed.
LEMMA ShowsUntouched ==
    ASSUME KitchenInv, NEW o \in Orders, o \notin overlapped, order'[o] = order[o],
           \A t \in Tickets : t[1] = o => ticket'[t] = ticket[t]
    PROVE  Shows(order'[o], StatusesOf(o)')
<1>1. TicketsOf(o)' = TicketsOf(o)
  BY DEF TicketsOf
<1>2. StatusesOf(o)' = StatusesOf(o)
  BY <1>1 DEF StatusesOf, TicketsOf
<1> QED
  BY <1>2 DEF KitchenInv

\* A commit keeps what is known and shown, if the orders it writes to show it.
LEMMA CommitKeeps ==
    ASSUME KitchenInv, NEW r \in Requests, Written(r),
           \A o \in Orders \ req[r].orders :
              /\ order'[o] = order[o]
              /\ \A t \in Tickets : t[1] = o => ticket'[t] = ticket[t],
           \A o \in req[r].orders \ overlapped :
              ~req[r].stale => Shows(order'[o], StatusesOf(o)')
    PROVE  /\ \A q \in Requests : Knows(q)'
           /\ \A o \in Orders \ overlapped' : Shows(order'[o], StatusesOf(o)')
<1>1. \A q \in Requests : Knows(q)'
  BY KnowsWritten DEF KitchenInv, ItemInv
<1>2. ASSUME NEW o \in Orders \ overlapped'
      PROVE  Shows(order'[o], StatusesOf(o)')
  <2>1. o \notin overlapped /\ (o \in req[r].orders => ~req[r].stale)
    BY <1>2 DEF Written
  <2>2. CASE o \in req[r].orders
    BY <2>1, <2>2
  <2>3. CASE o \notin req[r].orders
    BY <2>1, <2>3, ShowsUntouched
  <2> QED
    BY <2>2, <2>3
<1> QED
  BY <1>1, <1>2

-----------------------------------------------------------------------------
(* The status of an order                                                  *)

Shown == \A o \in Orders \ overlapped : Shows(order[o], StatusesOf(o))

LEMMA RouteKeeps ==
    ASSUME KitchenInv, NEW o \in Orders, NEW stations \in SUBSET Stations, stations # {},
           Route(o, stations)
    PROVE  (\A q \in Requests : Knows(q)') /\ Shown'
<1>1. \A p \in Orders : p # o => /\ order'[p] = order[p]
                                /\ \A t \in Tickets : t[1] = p => ticket'[t] = ticket[t]
  BY DEF Route, KitchenInv, ItemInv, TypeOK
<1>2. ASSUME NEW q \in Requests
      PROVE  Knows(q)'
  <2>1. o \notin req[q].orders /\ req[q].orders \subseteq Orders
    BY DEF Route, KitchenInv, ItemInv, Accepted, TypeOK, RequestRecords
  <2>2. req' = req
    BY DEF Route
  <2> QED
    BY <1>1, <2>1, <2>2, KnowsUntouched DEF KitchenInv, ItemInv
<1>3. Shows(order'[o], StatusesOf(o)')
  <2>1. \A t \in Tickets : t[1] = o =>
           ticket'[t] = IF t \in {o} \X stations THEN "PENDING" ELSE "NONE"
    BY DEF Route, KitchenInv, ItemInv, TicketsOf
  <2>2. \A t \in TicketsOf(o)' : ticket'[t] = "PENDING"
    BY <2>1 DEF TicketsOf
  <2>3. PICK station \in stations : TRUE
    OBVIOUS
  <2>4. <<o, station>> \in TicketsOf(o)'
    BY <2>1, <2>3 DEF TicketsOf, Tickets
  <2>5. StatusesOf(o)' = {"PENDING"}
    BY <2>2, <2>4 DEF StatusesOf
  <2>6. order'[o] = "ROUTED"
    BY DEF Route, KitchenInv, ItemInv, TypeOK
  <2> QED
    BY <2>5, <2>6 DEF Shows
<1>4. Shown'
  BY <1>1, <1>3, ShowsUntouched DEF Shown, Route
<1> QED
  BY <1>2, <1>4

LEMMA DeliverKeeps ==
    ASSUME KitchenInv, NEW r \in Requests, DeliverCommit(r)
    PROVE  (\A q \in Requests : Knows(q)') /\ Shown'
<1>1. \A o \in Orders : order'[o] = IF o \in req[r].orders THEN "DELIVERED" ELSE order[o]
  BY DEF DeliverCommit
<1>2. ticket' = ticket /\ Written(r)
  BY DEF DeliverCommit
<1>3. ASSUME NEW o \in req[r].orders \ overlapped, ~req[r].stale
      PROVE  Shows(order'[o], StatusesOf(o)')
  <2>1. o \in Orders
    BY DEF KitchenInv, ItemInv, TypeOK, RequestRecords
  <2>2. order[o] = "READY" /\ Shows(order[o], StatusesOf(o))
    BY <1>3, <2>1 DEF KitchenInv, Knows, KnowsOrder, DeliverCommit
  <2>3. order'[o] = "DELIVERED" /\ StatusesOf(o)' = StatusesOf(o)
    BY <1>1, <1>2, <2>1 DEF StatusesOf, TicketsOf
  <2> QED
    BY <2>2, <2>3 DEF Shows
<1> QED
  BY <1>1, <1>2, <1>3, CommitKeeps DEF Shown

LEMMA CancelKeeps ==
    ASSUME KitchenInv, NEW r \in Requests, NEW o \in Orders, CancelCommit(r, o)
    PROVE  (\A q \in Requests : Knows(q)') /\ Shown'
<1>1. req[r].orders = {o} /\ Written(r)
  BY DEF CancelCommit
<1>2. order'[o] = "CANCELLED" /\ \A p \in Orders : p # o => order'[p] = order[p]
  BY DEF CancelCommit, KitchenInv, ItemInv, TypeOK
<1>3. \A t \in Tickets : ticket'[t] = IF t \in TicketsOf(o) THEN "CANCELLED" ELSE ticket[t]
  BY DEF CancelCommit
<1>4. \A p \in Orders \ {o} : \A t \in Tickets : t[1] = p => ticket'[t] = ticket[t]
  BY <1>3 DEF TicketsOf
<1>5. StatusesOf(o)' \subseteq {"CANCELLED"}
  BY <1>3 DEF StatusesOf, TicketsOf
<1>6. Shows(order'[o], StatusesOf(o)')
  BY <1>2, <1>5 DEF Shows
<1> QED
  BY <1>1, <1>2, <1>4, <1>6, CommitKeeps DEF Shown

LEMMA TicketKeeps ==
    ASSUME KitchenInv, NEW r \in Requests, NEW o \in Orders, TicketCommit(r, o)
    PROVE  (\A q \in Requests : Knows(q)') /\ Shown'
<1>1. req[r].orders = {o} /\ Written(r)
  BY DEF TicketCommit
<1>2. \A p \in Orders \ {o} :
         /\ order'[p] = order[p]
         /\ \A t \in Tickets : t[1] = p => ticket'[t] = ticket[t]
  BY DEF TicketCommit, KitchenInv, ItemInv, TypeOK
<1>3. o \notin overlapped /\ ~req[r].stale => Shows(order'[o], StatusesOf(o)')
  BY TicketCommitShows
<1> QED
  BY <1>1, <1>2, <1>3, CommitKeeps DEF Shown

LEMMA InitKitchen == Init => KitchenInv
<1> SUFFICES ASSUME Init PROVE KitchenInv
  OBVIOUS
<1>1. \A o \in Orders : StatusesOf(o) = {}
  BY DEF Init, StatusesOf, TicketsOf
<1>2. \A o \in Orders : Shows(order[o], StatusesOf(o))
  BY <1>1 DEF Init, Shows
<1>3. \A r \in Requests : Knows(r)
  BY DEF Init, Knows, Idle
<1> QED
  BY <1>2, <1>3, InitItem DEF KitchenInv

LEMMA KitchenStep == KitchenInv /\ [Next]_vars => KitchenInv'
<1> SUFFICES ASSUME KitchenInv, [Next]_vars
             PROVE  (\A q \in Requests : Knows(q)') /\ Shown'
  BY ItemStep DEF KitchenInv, Shown
<1>1. CASE UNCHANGED vars
  <2>1. \A o \in Orders : TicketsOf(o)' = TicketsOf(o)
    BY <1>1 DEF vars, TicketsOf
  <2>2. \A q \in Requests : Knows(q)'
    BY <1>1, KnowsUntouched DEF vars, KitchenInv, ItemInv
  <2>3. Shown'
    BY <1>1, <2>1, ShowsUntouched DEF vars, Shown
  <2> QED
    BY <2>2, <2>3
<1>2. ASSUME NEW r \in Requests, NEW o \in Orders, NEW station \in Stations,
             NEW target \in StationTicketStatuses, TicketRead(r, o, station, target)
      PROVE  (\A q \in Requests : Knows(q)') /\ Shown'
  <2> DEFINE record == [step |-> "ticket", orders |-> {o}, station |-> station,
                        target |-> target, status |-> order[o], stale |-> FALSE]
  <2>1. req' = [req EXCEPT ![r] = record] /\ UNCHANGED <<order, ticket, item, overlapped>>
    BY <1>2 DEF TicketRead
  <2>2. req'[r] = record
    BY <2>1 DEF KitchenInv, ItemInv, TypeOK
  <2>3. Knows(r)'
    BY <1>2, <2>1, <2>2 DEF TicketRead, Knows, KnowsOrder, InTicket, At
  <2> QED
    BY <2>1, <2>3, ReadKnows DEF Shown
<1>3. ASSUME NEW r \in Requests, NEW o \in Orders, TicketTx(r, o)
      PROVE  (\A q \in Requests : Knows(q)') /\ Shown'
  <2>1. PICK record : req' = [req EXCEPT ![r] = record]
    BY <1>3 DEF TicketTx, KitchenInv, ItemInv, TypeOK
  <2>2. Knows(r)'
    BY <1>3, TicketTxKnows
  <2> QED
    BY <1>3, <2>1, <2>2, ReadKnows DEF Shown, TicketTx
<1>4. ASSUME NEW r \in Requests, NEW orders \in SUBSET Orders, DeliverRead(r, orders)
      PROVE  (\A q \in Requests : Knows(q)') /\ Shown'
  <2> DEFINE record == [Idle EXCEPT !.step = "deliver", !.orders = orders]
  <2>1. req' = [req EXCEPT ![r] = record] /\ UNCHANGED <<order, ticket, item, overlapped>>
    BY <1>4 DEF DeliverRead
  <2>2. req'[r].step = "deliver" /\ req'[r].orders = orders
    BY <2>1 DEF KitchenInv, ItemInv, TypeOK, Idle
  <2>3. Knows(r)'
    BY <1>4, <2>1, <2>2 DEF DeliverRead, Knows, KnowsOrder, InTicket, At
  <2> QED
    BY <2>1, <2>3, ReadKnows DEF Shown
<1>5. ASSUME NEW r \in Requests, NEW o \in Orders, CancelRead(r, o)
      PROVE  (\A q \in Requests : Knows(q)') /\ Shown'
  <2> DEFINE record == [Idle EXCEPT !.step = "cancel", !.orders = {o}]
  <2>1. req' = [req EXCEPT ![r] = record] /\ UNCHANGED <<order, ticket, item, overlapped>>
    BY <1>5 DEF CancelRead
  <2>2. req'[r].step = "cancel"
    BY <2>1 DEF KitchenInv, ItemInv, TypeOK, Idle
  <2>3. Knows(r)'
    BY <2>2 DEF Knows, KnowsOrder, InTicket, At
  <2> QED
    BY <2>1, <2>3, ReadKnows DEF Shown
<1>6. ASSUME NEW r \in Requests, Drop(r)
      PROVE  (\A q \in Requests : Knows(q)') /\ Shown'
  <2>1. req' = [req EXCEPT ![r] = Idle] /\ UNCHANGED <<order, ticket, item, overlapped>>
    BY <1>6 DEF Drop
  <2>2. Knows(r)'
    BY <2>1 DEF KitchenInv, ItemInv, TypeOK, Knows, Idle
  <2> QED
    BY <2>1, <2>2, ReadKnows DEF Shown
<1>7. ASSUME NEW o \in Orders, NEW stations \in (SUBSET Stations) \ {{}}, Route(o, stations)
      PROVE  (\A q \in Requests : Knows(q)') /\ Shown'
  BY <1>7, RouteKeeps
<1>8. ASSUME NEW r \in Requests, NEW o \in Orders, TicketCommit(r, o) \/ CancelCommit(r, o)
      PROVE  (\A q \in Requests : Knows(q)') /\ Shown'
  BY <1>8, TicketKeeps, CancelKeeps
<1>9. ASSUME NEW r \in Requests, DeliverCommit(r)
      PROVE  (\A q \in Requests : Knows(q)') /\ Shown'
  BY <1>9, DeliverKeeps
<1> HIDE DEF KitchenInv
<1>10. CASE Next
  BY <1>2, <1>3, <1>4, <1>5, <1>6, <1>7, <1>8, <1>9, <1>10 DEF Next
<1> QED
  BY <1>1, <1>10

\* Unless two requests overlapped on it, the status of an order is the one its
\* tickets give, in whatever order they are started, finished and cancelled.
THEOREM OrderFollows == Spec => []OrderFollowsTickets
<1>1. KitchenInv => OrderFollowsTickets
  BY FollowsShows DEF KitchenInv, OrderFollowsTickets
<1> QED
  BY <1>1, InitKitchen, KitchenStep, PTL DEF Spec
=============================================================================
