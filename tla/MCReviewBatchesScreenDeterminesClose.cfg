SPECIFICATION Spec
CONSTANTS
    NoMetadata = NoMetadata
    MaxActionCount = 2
    BulkMaxSize = 3
    Metadata <- MCMetadata
    Actions <- MCActions
INVARIANTS
    ScreenDeterminesClose
CHECK_DEADLOCK FALSE
