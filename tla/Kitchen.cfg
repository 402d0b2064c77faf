\* Two orders at two stations: updates, deliveries and cancellations overlap.
SPECIFICATION Spec
CONSTANTS
    Orders = {o1, o2}
    Stations = {st1, st2}
    Requests = {r1, r2}
SYMMETRY Symmetry
INVARIANTS
    ItemsFollowTicket
    OrderFollowsTickets
\* Once every order is delivered or cancelled the kitchen rests.
CHECK_DEADLOCK FALSE
