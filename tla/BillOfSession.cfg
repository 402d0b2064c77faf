\* One session and its bill: every overlap of two charges, payments, voids and
\* closes, with part payments and tips.
SPECIFICATION Spec
CONSTANTS
    Sessions = {s1}
    Orders = {o1, o2}
    Attempts = {a1, a2}
    Requests = {r1, r2}
    Price = 2
    Tips = {0, 1}
    Amounts = {1, 2}
    QrGatewayRequired = FALSE
    NoSession = NoSession
    NoOrder = NoOrder
    NoAttempt = NoAttempt
SYMMETRY Symmetry
INVARIANTS
    QrOrderChargedPerPayment
    ProductionNeedsApproval
    LedgerIdentity
    StatusFollowsBalance
PROPERTIES
    AttemptPromise
\* The ids run out, and then the table rests.
CHECK_DEADLOCK FALSE
