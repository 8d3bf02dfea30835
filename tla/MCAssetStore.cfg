SPECIFICATION Spec
CONSTANTS
    None = None
    Name <- MCName
    JobName <- MCJobName
    Chunk = {c1, c2}
    MaxSize = 2
INVARIANTS
    StoreTypeOK
    PartIsHashed
PROPERTIES
    ReplacementReady
    ImplementsDataFiles
