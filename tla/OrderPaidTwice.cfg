\* Three attempts on one order: one is rejected late, and a third is approved.
SPECIFICATION Spec
CONSTANTS
    Sessions = {s1}
    Orders = {o1}
    Attempts = {a1, a2, a3}
    Requests = {r1, r2}
    Price = 2
    Tips = {0}
    Amounts = {2}
    QrGatewayRequired = FALSE
    NoSession = NoSession
    NoOrder = NoOrder
    NoAttempt = NoAttempt
SYMMETRY Symmetry
INVARIANTS
    OrderPaidOnce
CHECK_DEADLOCK FALSE
