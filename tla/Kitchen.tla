------------------------------- MODULE Kitchen -------------------------------
(***************************************************************************)
(* An order in production: the tickets its stations work on, the items of  *)
(* those tickets, and the commercial status of the order, which is         *)
(* computed again from the tickets whenever one of them moves.             *)
(*                                                                         *)
(* A handler reads what it needs, checks it, and then runs a transaction   *)
(* that does not look at it again.  The transaction of a ticket is two     *)
(* steps: it updates the ticket and its items, which locks their rows, and *)
(* reads the other tickets as they are committed; then it writes the       *)
(* status it has computed and commits.                                     *)
(*                                                                         *)
(* The charges of the order and its cancellation before production are in  *)
(* TableService; the push notification of a ready ticket changes nothing.  *)
(***************************************************************************)
EXTENDS Integers, FiniteSets

CONSTANTS Orders,    \* ids of orders
          Stations,  \* preparation stations
          Requests   \* how many requests are in progress at once

VARIABLES
    order,      \* status of each order, "NONE" before it is routed
    ticket,     \* status of the ticket of each order at each station, or "NONE"
    item,       \* status of the items of that ticket
    req,        \* the requests in progress
    overlapped  \* ghost: orders a request wrote to after somebody else's commit

vars == <<order, ticket, item, req, overlapped>>

Tickets == Orders \X Stations

\* CONFIRMED is never written, and an order is routed as soon as it is charged.
ProductionStatuses == {"ROUTED", "IN_PREPARATION", "PARTIALLY_READY", "READY"}
OrderStatuses == ProductionStatuses \cup {"NONE", "DELIVERED", "CANCELLED"}
StationTicketStatuses == {"NONE", "PENDING", "IN_PROGRESS", "READY", "CANCELLED"}
OrderItemStatuses == {"NONE", "PENDING", "IN_PREPARATION", "READY", "DELIVERED",
                      "CANCELLED"}

Steps == {"idle", "ticket", "ticketTx", "deliver", "cancel"}

RequestRecords ==
    [step : Steps,
     orders : SUBSET Orders,           \* the orders it is about to write to
     station : Stations \cup {"NONE"},
     target : StationTicketStatuses,   \* where the ticket is to go
     status : OrderStatuses,           \* of the order: as read, then to be written
     stale : BOOLEAN]                  \* ghost: somebody wrote to them since

Idle == [step |-> "idle", orders |-> {}, station |-> "NONE", target |-> "NONE",
         status |-> "NONE", stale |-> FALSE]

Init ==
    /\ order = [o \in Orders |-> "NONE"]
    /\ ticket = [t \in Tickets |-> "NONE"]
    /\ item = [t \in Tickets |-> "NONE"]
    /\ req = [r \in Requests |-> Idle]
    /\ overlapped = {}

-----------------------------------------------------------------------------
At(r, step) == req[r].step = step

TicketsOf(o) == {t \in Tickets : t[1] = o /\ ticket[t] # "NONE"}

\* An uncommitted transaction holds the row locks of a ticket of o and its items.
Locked(o) == \E q \in Requests : At(q, "ticketTx") /\ o \in req[q].orders

Transitions ==
    [s \in StationTicketStatuses |->
        CASE s = "PENDING"     -> {"IN_PROGRESS", "CANCELLED"}
          [] s = "IN_PROGRESS" -> {"READY", "CANCELLED"}
          [] OTHER             -> {}]

\* Plausible regression: a cancelled ticket counts as one that is not ready.
StatusOfAllTickets(statuses) ==
    IF statuses = {} THEN "NONE"
    ELSE IF statuses = {"READY"} THEN "READY"
    ELSE IF "READY" \in statuses THEN "PARTIALLY_READY"
    ELSE IF "IN_PROGRESS" \in statuses THEN "IN_PREPARATION"
    ELSE "ROUTED"

\* The order's status computed from the statuses of its tickets; "NONE" when
\* every ticket is cancelled, and the order is left as it is.
StatusFromTickets(statuses) ==
    LET active == statuses \ {"CANCELLED"}
    IN  IF active = {} THEN "NONE"
        ELSE IF active = {"READY"} THEN "READY"
        ELSE IF "READY" \in active THEN "PARTIALLY_READY"
        ELSE IF "IN_PROGRESS" \in active THEN "IN_PREPARATION"
        ELSE "ROUTED"

OrderItemStatus(target) ==
    IF target = "IN_PROGRESS" THEN "IN_PREPARATION" ELSE target

\* Plausible regression: the items of cancelled tickets are delivered as well.
DeliveredWhatever(status) == IF status = "NONE" THEN "NONE" ELSE "DELIVERED"

DeliveredItem(status) ==
    IF status \in {"NONE", "CANCELLED"} THEN status ELSE "DELIVERED"

\* A request ends with a write to its orders: the others that are about to write
\* to them no longer know their state, and this one may not have known it either.
Written(r) ==
    /\ req' = [q \in Requests |->
                  IF q = r THEN Idle
                  ELSE [req[q] EXCEPT !.stale = @ \/ req[q].orders \cap req[r].orders # {}]]
    /\ overlapped' = IF req[r].stale THEN overlapped \cup req[r].orders ELSE overlapped

-----------------------------------------------------------------------------
(* route-order-to-stations: one ticket for each station of the order       *)

Route(o, stations) ==
    /\ order[o] = "NONE"
    /\ order' = [order EXCEPT ![o] = "ROUTED"]
    /\ ticket' = [t \in Tickets |->
                     IF t \in {o} \X stations THEN "PENDING" ELSE ticket[t]]
    /\ item' = [t \in Tickets |->
                   IF t \in {o} \X stations THEN "PENDING" ELSE item[t]]
    /\ UNCHANGED <<req, overlapped>>

-----------------------------------------------------------------------------
(* update-station-ticket-status                                            *)

TicketRead(r, o, station, target) ==
    /\ At(r, "idle")
    /\ target \in Transitions[ticket[<<o, station>>]]
    /\ req' = [req EXCEPT ![r] = [step |-> "ticket", orders |-> {o},
                  station |-> station, target |-> target, status |-> order[o],
                  stale |-> FALSE]]
    /\ UNCHANGED <<order, ticket, item, overlapped>>

\* The status to write, "NONE" when it writes none, from the order as it was read
\* and the tickets as they are committed now, with its own.
TicketTx(r, o) ==
    /\ At(r, "ticket")
    /\ req[r].orders = {o}
    /\ \A q \in Requests : At(q, "ticketTx") =>
          req[q].orders # {o} \/ req[q].station # req[r].station
    /\ LET own  == <<o, req[r].station>>
           next == StatusFromTickets({req[r].target}
                       \cup {ticket[t] : t \in TicketsOf(o) \ {own}})
       IN  req' = [req EXCEPT ![r].step = "ticketTx", ![r].status =
                      IF @ \in ProductionStatuses /\ next # @ THEN next ELSE "NONE"]
    /\ UNCHANGED <<order, ticket, item, overlapped>>

TicketCommit(r, o) ==
    /\ At(r, "ticketTx")
    /\ req[r].orders = {o}
    /\ ticket' = [ticket EXCEPT ![<<o, req[r].station>>] = req[r].target]
    /\ item' = [item EXCEPT ![<<o, req[r].station>>] = OrderItemStatus(req[r].target)]
    /\ order' = IF req[r].status = "NONE" THEN order
                ELSE [order EXCEPT ![o] = req[r].status]
    /\ Written(r)

-----------------------------------------------------------------------------
(* deliver-order, one order; and the orders that have been READY for long  *)
(* enough, which reading the branch's summary delivers all at once         *)

DeliverRead(r, orders) ==
    /\ At(r, "idle")
    /\ \A o \in orders : order[o] = "READY"
    /\ req' = [req EXCEPT ![r] = [Idle EXCEPT !.step = "deliver", !.orders = orders]]
    /\ UNCHANGED <<order, ticket, item, overlapped>>

DeliverCommit(r) ==
    /\ At(r, "deliver")
    /\ \A o \in req[r].orders : ~Locked(o)
    /\ order' = [o \in Orders |->
                    IF o \in req[r].orders THEN "DELIVERED" ELSE order[o]]
    /\ item' = [t \in Tickets |->
                   IF t[1] \in req[r].orders THEN DeliveredItem(item[t]) ELSE item[t]]
    /\ Written(r)
    /\ UNCHANGED ticket

-----------------------------------------------------------------------------
(* cancel-order, of an order its guests pay for later (a prepaid one needs *)
(* a refund): a supervisor's once it is being prepared, and any cashier's  *)
(* before                                                                  *)

CancelRead(r, o) ==
    /\ At(r, "idle")
    /\ order[o] \in ProductionStatuses
    /\ req' = [req EXCEPT ![r] = [Idle EXCEPT !.step = "cancel", !.orders = {o}]]
    /\ UNCHANGED <<order, ticket, item, overlapped>>

CancelCommit(r, o) ==
    /\ At(r, "cancel")
    /\ req[r].orders = {o} /\ ~Locked(o)
    /\ order' = [order EXCEPT ![o] = "CANCELLED"]
    /\ ticket' = [t \in Tickets |->
                     IF t \in TicketsOf(o) THEN "CANCELLED" ELSE ticket[t]]
    /\ item' = [t \in Tickets |->
                   IF t \in TicketsOf(o) THEN "CANCELLED" ELSE item[t]]
    /\ Written(r)

\* The process crashes, the handler refuses or the database aborts the
\* transaction: nothing was written.
Drop(r) ==
    /\ ~At(r, "idle")
    /\ req' = [req EXCEPT ![r] = Idle]
    /\ UNCHANGED <<order, ticket, item, overlapped>>

Next ==
    \/ \E o \in Orders, stations \in (SUBSET Stations) \ {{}} : Route(o, stations)
    \/ \E r \in Requests :
          \/ \E o \in Orders, station \in Stations, target \in StationTicketStatuses :
                TicketRead(r, o, station, target)
          \/ \E o \in Orders : TicketTx(r, o) \/ TicketCommit(r, o)
          \/ \E orders \in (SUBSET Orders) \ {{}} : DeliverRead(r, orders)
          \/ DeliverCommit(r)
          \/ \E o \in Orders : CancelRead(r, o) \/ CancelCommit(r, o)
          \/ Drop(r)

Spec == Init /\ [][Next]_vars

-----------------------------------------------------------------------------
(* Properties                                                              *)

\* Every variable keeps its type.
TypeOK ==
    /\ order \in [Orders -> OrderStatuses]
    /\ ticket \in [Tickets -> StationTicketStatuses]
    /\ item \in [Tickets -> OrderItemStatuses]
    /\ req \in [Requests -> RequestRecords]
    /\ overlapped \subseteq Orders

\* However the handlers overlap, the items of a ticket are cancelled exactly when
\* the ticket is, and otherwise are where the ticket is or were already delivered.
ItemsFollowTicket ==
    \A t \in Tickets :
        /\ item[t] = "CANCELLED" <=> ticket[t] = "CANCELLED"
        /\ ticket[t] = "NONE" <=> item[t] = "NONE"
        /\ ticket[t] = "IN_PROGRESS" => item[t] \in {"IN_PREPARATION", "DELIVERED"}
        /\ ticket[t] = "READY" => item[t] \in {"READY", "DELIVERED"}

Active(o) == {t \in TicketsOf(o) : ticket[t] # "CANCELLED"}
Ready(o) == {t \in TicketsOf(o) : ticket[t] = "READY"}

\* Unless two requests overlapped on it, an order's status says where its tickets
\* are, also when some of them, or all, were cancelled one by one.
OrderFollowsTickets ==
    \A o \in Orders \ overlapped :
        /\ order[o] \in {"READY", "DELIVERED"} <=> Active(o) # {} /\ Active(o) = Ready(o)
        /\ order[o] = "PARTIALLY_READY" <=> Ready(o) # {} /\ Ready(o) # Active(o)
        /\ order[o] = "CANCELLED" => Active(o) = {}
        /\ order[o] = "ROUTED" =>
              \A t \in Active(o) : ticket[t] = "PENDING"

\* docs/11-orders-and-kitchen.md: "el estado comercial de la orden se recalcula
\* desde sus tickets: todos listos -> READY".  Two stations that finish at the same
\* time each read the other's ticket as it was, and the order stays PARTIALLY_READY.
AllReadyIsReady ==
    \A o \in Orders :
        /\ order[o] \in ProductionStatuses
        /\ Active(o) # {} /\ Active(o) = Ready(o)
        /\ \A r \in Requests : o \notin req[r].orders
        => order[o] = "READY"
=============================================================================
