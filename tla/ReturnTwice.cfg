\* The browser posts its token again after the payment was recorded.
SPECIFICATION SafetySpec
CONSTANTS
    Orders = {o1}
    Attempts = {1, 2}
    Guests = {g1}
    Jobs = {j1}
    Price = 2
    Tips = {0}
    Amounts = {2}
    MaxAttemptsPerRun = 2
    MaxCharges = 1
    MaxCrashes = 1
    NoOrder = NoOrder
    NoAttempt = NoAttempt
SYMMETRY Symmetry
INVARIANTS
    ReturnReusesResult
CHECK_DEADLOCK FALSE
