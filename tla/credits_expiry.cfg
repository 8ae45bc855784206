\* Two recharges, one that expires and one that does not, and a use between.
CONSTANTS
    Clerk = {c1, c2}
    Units = {1}
    MaxLots = 2
    MaxSpends = 1
    Days = 1
SPECIFICATION CreditSpec
INVARIANT ExpiryTakesUnused
CHECK_DEADLOCK FALSE
