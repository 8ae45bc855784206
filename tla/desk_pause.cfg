\* Two messages, one of them a bad rating or a complaint, and the owner's pause.
CONSTANTS
    MaxInbound = 2
    MaxHuman = 1
    MaxTrouble = 2
SPECIFICATION ThreadSpec
INVARIANT ManualPauseHolds
CHECK_DEADLOCK FALSE
