SPECIFICATION Spec
CONSTANTS
    Byte <- MCByte
    ZeroByte = 0
    BufferSize = 4
    Handlers = {parse_action_metadata, parse_action}
    NoHandler = NoHandler
    NoSize = NoSize
    NothingHanded = NothingHanded
    Chunks <- MCChunks
    MaxChunk = 3
INVARIANTS
    TypeOK
    IdleIsWiped
PROPERTIES
    ImplementsReassembly
