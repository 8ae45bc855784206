\* Two messages, an AI reply and one sent outside any tenant; two
\* overlapping drains; two attempts; one crash anywhere; honest failures.  Two
\* cases, an admin on the staff, two jobs and a failure in escalations.
CONSTANTS
    m1 = m1
    m2 = m2
    d1 = d1
    d2 = d2
    Msg = {m1, m2}
    AiMsg = {m1}
    Untenanted = {m2}
    Drainer = {d1, d2}
    MaxAttempts = 2
    BatchLimit = 1
    MaxCrashes = 1
    Ambiguous = FALSE
    w1 = w1
    w2 = w2
    x1 = x1
    x2 = x2
    r1 = r1
    Case = {x1, x2}
    Chief = {r1}
    OnStaff = {r1}
    Rounder = {w1, w2}
    NoCase = NoCase
    MaxFailures = 1
SPECIFICATION SendSpec
INVARIANTS TypeOK AttemptCalledOnce DeliveredAtMostOnce DuplicateSuppressionSpares
INVARIANTS EscalationTypeOK RemindedOfOnce
PROPERTIES QueuedRowEnds OwnerHears
\* Once every message has ended there is nothing left to do.
CHECK_DEADLOCK FALSE
