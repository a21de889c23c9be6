SPECIFICATION Spec
CONSTANTS
    NoMetadata = NoMetadata
    Malformed = Malformed
    NoPath = NoPath
    NoSignature = NoSignature
    NoReview = NoReview
    MaxActionCount = 3
    BulkMaxSize = 1
    Paths = {p1, p2}
    Metadata <- MCMetadata
    Actions <- MCActions
PROPERTIES
    FailedReviewLeavesNoBatch
