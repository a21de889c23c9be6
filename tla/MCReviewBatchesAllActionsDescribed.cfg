SPECIFICATION Spec
CONSTANTS
    NoMetadata = NoMetadata
    MaxActionCount = 2
    BulkMaxSize = 3
    Metadata <- MCMetadata
    Actions <- MCActions
INVARIANTS
    AllActionsDescribed
CHECK_DEADLOCK FALSE
