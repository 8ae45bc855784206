\* The same instance with a gateway whose answer can be lost.
CONSTANTS
    m1 = m1
    m2 = m2
    d1 = d1
    d2 = d2
    Msg = {m1, m2}
    AiMsg = {m1}
    Untenanted = {m2}
    Drainer = {d1, d2}
    MaxAttempts = 2
    BatchLimit = 1
    MaxCrashes = 1
    Ambiguous = TRUE
SPECIFICATION Spec
INVARIANT DeliveredAtMostOnce
CHECK_DEADLOCK FALSE
