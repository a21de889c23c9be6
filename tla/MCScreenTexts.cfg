CONSTANTS
    NoMetadata = NoMetadata
    MaxActionCount = 5
    BulkMaxSize = 5
    TextLength <- MCTextLength
    Digits <- MCDigits
    Batches <- MCBatches
SPECIFICATION Spec
INVARIANTS
    NothingIsCut
    PairsKeepTheirTexts
    PairsFit
CHECK_DEADLOCK FALSE
