CONSTANTS
    NoMetadata = NoMetadata
    Absent = Absent
    MaxActionCount = 1
    BulkMaxSize = 5
    U32Limit = 16777216
    TextLength <- MCTextLength
    NumericTexts <- MCNumericTexts
    Cloids <- MCCloids
    Addresses <- MCAddresses
    Requests <- MCRequests
    Capacities <- MCCapacities
SPECIFICATION Spec
INVARIANTS
    AlwaysFits
    InBuffer
    RefusedOnlyIfTooLong
    OneValue
    BytesDetermineAction
    DigestDeterminesRequest
    EncodesTypedData
CHECK_DEADLOCK FALSE
