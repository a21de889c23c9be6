SPECIFICATION Spec
CONSTANTS
    NoMetadata = NoMetadata
    MaxActionCount = 2
    BulkMaxSize = 3
    Metadata <- MCMetadata
    Actions <- MCActions
INVARIANTS
    ScreenDeterminesSide
CHECK_DEADLOCK FALSE
