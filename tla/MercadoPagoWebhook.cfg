\* Two attempts, an order and a bill to pay, two notifications handled at once.
SPECIFICATION Spec
CONSTANTS
    Orders = {o1}
    Attempts = {a1, a2}
    Events = {e1, e2}
    Hooks = {h1, h2}
    Price = 2
    Charged = 3
    Tips = {1}
    Amounts = {1}
    NoOrder = NoOrder
    NoAttempt = NoAttempt
    NoEvent = NoEvent
SYMMETRY Symmetry
INVARIANTS
    TypeOK
    OneWorkerPerEvent
    HookFailsNothingPaid
    ProductionNeedsHandler
    HookLedgerIdentity
PROPERTIES
    AttemptPromise
\* Once the attempts and notifications run out everything rests.
CHECK_DEADLOCK FALSE
