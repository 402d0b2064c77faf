\* Two attempts, a browser that may return twice at once, and the job.
SPECIFICATION SafetySpec
CONSTANTS
    Orders = {o1}
    Attempts = {1, 2}
    Guests = {g1, g2}
    Jobs = {j1}
    Price = 2
    Tips = {1}
    Amounts = {2}
    MaxAttemptsPerRun = 2
    MaxCharges = 1
    MaxCrashes = 1
    NoOrder = NoOrder
    NoAttempt = NoAttempt
SYMMETRY Symmetry
INVARIANTS
    TypeOK
    RoutingIsPaid
    RoutedIsNotPayable
    RedirectLedgerIdentity
    ApprovalIsRecorded
PROPERTIES
    AttemptPromise
\* The attempts run out, and then everything rests.
CHECK_DEADLOCK FALSE
