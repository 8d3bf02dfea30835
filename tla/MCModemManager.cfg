SPECIFICATION FairSpec
CHECK_DEADLOCK FALSE
CONSTANTS
    DialAttempts = 2
    MaxEvents = 5
INVARIANTS
    ModemTypeOK
    StatusMatchesLink
PROPERTIES
    DropNoticed
