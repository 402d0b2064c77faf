\* One order at two stations that finish at the same time.
SPECIFICATION Spec
CONSTANTS
    Orders = {o1}
    Stations = {st1, st2}
    Requests = {r1, r2}
SYMMETRY Symmetry
INVARIANTS
    AllReadyIsReady
CHECK_DEADLOCK FALSE
