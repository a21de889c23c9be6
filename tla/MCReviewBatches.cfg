SPECIFICATION Spec
CONSTANTS
    NoMetadata = NoMetadata
    MaxActionCount = 2
    BulkMaxSize = 3
    Metadata <- MCMetadata
    Actions <- MCActions
INVARIANTS
    EveryRequestShown
    ScreenDeterminesBatch
    OnlyApprovalsAreSilent
CHECK_DEADLOCK FALSE
