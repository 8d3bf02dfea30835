SPECIFICATION HistorySpec
CONSTANTS
    None = None
    Name <- MCName
    JobName <- MCJobName
    Chunk = {c1, c2}
    MaxSize = 1
INVARIANT
    StoredStaysStored
