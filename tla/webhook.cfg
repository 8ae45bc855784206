\* Two bodies that carry the same message, its sender readable or not, one
\* request at a time, two overlapping retry jobs, one crash or failed mark;
\* two ticks, two messages and a shift in the nudges of an enquirer.
CONSTANTS
    e1 = e1
    e2 = e2
    m1 = m1
    h1 = h1
    r1 = r1
    r2 = r2
    Event = {e1, e2}
    Offered <- Bodies
    Message = {m1}
    Handler = {h1}
    Retrier = {r1, r2}
    MaxAttempts = 2
    BatchLimit = 1
    MaxFaults = 1
    w1 = w1
    w2 = w2
    Ticker = {w1, w2}
    Rungs = 2
    MaxNudges = 1
    MaxTalk = 2
    MaxShifts = 1
SPECIFICATION IntakeSpec
INVARIANTS TypeOK AnsweredOnce ProcessedMeansStored ReplaysBounded
INVARIANTS NudgeTypeOK NudgesHeld
PROPERTY JournalSettles
\* Once every event is settled there is nothing left to do.
CHECK_DEADLOCK FALSE
