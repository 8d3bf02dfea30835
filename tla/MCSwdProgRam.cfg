SPECIFICATION Spec
CONSTANTS
    Word = 128
    MAX_RAM_REGIONS = 2
    JobFile <- MCJobFile
    StackSize = 8
    Pages = 3
INVARIANTS
    PageBufferInRam
