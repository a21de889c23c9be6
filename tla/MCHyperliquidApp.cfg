SPECIFICATION Spec
CONSTANTS
    NoMetadata = NoMetadata
    Malformed = Malformed
    NoPath = NoPath
    NoSignature = NoSignature
    NoReview = NoReview
    NoHandler = NoHandler
    NoSize = NoSize
    NothingHanded = NothingHanded
    NoData = NoData
    BadPath = BadPath
    ZeroByte = ZeroByte
    CLA = CLA
    MaxActionCount = 2
    BulkMaxSize = 1
    BufferSize = 2
    Paths = {p1}
    Metadata <- MCMetadata
    Actions <- MCActions
    Chunks <- MCChunks
    Commands <- MCCommands
    Parts <- MCParts
PROPERTIES
    QueuedInItsSession
    ImplementsSession
