\* The same bodies, one retry job.
CONSTANTS
    e1 = e1
    e2 = e2
    m1 = m1
    h1 = h1
    r1 = r1
    r2 = r2
    Event = {e1, e2}
    Offered <- Bodies
    Message = {m1}
    Handler = {h1}
    Retrier = {r1}
    MaxAttempts = 2
    BatchLimit = 1
    MaxFaults = 1
SPECIFICATION Spec
PROPERTY ReplayStores
CHECK_DEADLOCK FALSE
