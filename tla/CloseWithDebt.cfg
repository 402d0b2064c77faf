\* Two overlapping requests: a close reads an empty bill, a waiter's order is
\* charged, and the close goes on with what it has read.
SPECIFICATION Spec
CONSTANTS
    Sessions = {s1}
    Orders = {o1}
    Attempts = {a1}
    Requests = {r1, r2}
    Price = 2
    Tips = {0}
    Amounts = {2}
    QrGatewayRequired = FALSE
    NoSession = NoSession
    NoOrder = NoOrder
    NoAttempt = NoAttempt
SYMMETRY Symmetry
INVARIANTS
    NoCloseWithDebt
CHECK_DEADLOCK FALSE
