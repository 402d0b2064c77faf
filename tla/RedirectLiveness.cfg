\* Two attempts, one guest's requests and the job: what must happen in the end.
SPECIFICATION Spec
CONSTANTS
    Orders = {o1}
    Attempts = {1, 2}
    Guests = {g1}
    Jobs = {j1}
    Price = 2
    Tips = {1}
    Amounts = {2}
    MaxAttemptsPerRun = 2
    MaxCharges = 1
    MaxCrashes = 1
    NoOrder = NoOrder
    NoAttempt = NoAttempt
PROPERTIES
    ReferenceResolved
\* The attempts run out, and then everything rests.
CHECK_DEADLOCK FALSE
