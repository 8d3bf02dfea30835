SPECIFICATION FairSpec
CONSTANT HasPlugPin = TRUE
INVARIANTS
    DetectTypeOK
    NeverDeaf
    UsbLockFollowsPower
PROPERTIES
    StayingTargetOffered
