SPECIFICATION Spec
CONSTANT HasPlugPin = FALSE
INVARIANTS
    DisconnectForgets
