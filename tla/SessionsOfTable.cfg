\* Three sessions of the table one after the other, opened and ended in every order, in
\* an installation that requires a gateway for QR payments.
SPECIFICATION Spec
CONSTANTS
    Sessions = {s1, s2, s3}
    Orders = {o1, o2}
    Attempts = {a1}
    Requests = {r1, r2}
    Price = 2
    Tips = {1}
    Amounts = {2}
    QrGatewayRequired = TRUE
    NoSession = NoSession
    NoOrder = NoOrder
    NoAttempt = NoAttempt
SYMMETRY Symmetry
INVARIANTS
    OneActiveSession
    TableTracksSession
    ProductionNeedsApproval
PROPERTIES
    InactiveStaysInactive
\* The ids run out, and then the table rests.
CHECK_DEADLOCK FALSE
