CONSTANTS
    NoMetadata = NoMetadata
    OutOfRange = OutOfRange
    Absent = Absent
    MaxActionCount = 2
    BulkMaxSize = 2
    MaxActionEdits = 2
    MaxMetadataEdits = 3
    Actions <- MCActions
    Contexts <- MCContexts
    Issued <- MCIssued
SPECIFICATION Spec
INVARIANTS
    AcceptedSaysWhatWasUnderstood
    UnderstoodAsMeant
    OnlyIssuedMetadata
    IssuedIsUnderstood
CHECK_DEADLOCK FALSE
