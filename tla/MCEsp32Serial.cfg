SPECIFICATION Spec
CONSTANTS
    Word = 2
    Sector = 4
    Block = 4
    Config <- MCConfig
    Size = {8, 16}
    FlashEnd = 16
    MaxImages = 2
INVARIANTS
    EspTypeOK
    NoStaleConnection
    FinishedImagesIntact
    WritesStayInFlash
    BlockBounded
