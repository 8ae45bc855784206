\* Two customer messages with one human reply and one trouble; four messages,
\* two summaries and a mishap in a pickup; four dictations, two at once, with
\* two drafts and a fault at the staff desk; two workers, two reminders fired
\* three times and two bad events at the scheduler.
CONSTANTS
    MaxInbound = 2
    MaxHuman = 1
    MaxTrouble = 1
    MaxMessages = 4
    MaxSummaries = 2
    MaxMishaps = 1
    MaxDictations = 4
    MaxAtOnce = 2
    MaxDrafts = 2
    MaxFaults = 1
    poster = poster
    expense = expense
    Worker = {w1, w2}
    Reminder = {poster, expense}
    Manner <- Ways
    NoOne = NoOne
    Ghost = Ghost
    MaxFires = 3
    MaxBad = 2
SPECIFICATION Spec
INVARIANTS TypeOK AnsweredOnce BookingsHeld OneOrderPerSlip RemindedOnce
PROPERTIES HeldIsAnswered FailsOver
CHECK_DEADLOCK FALSE
