SPECIFICATION FairSpec
CONSTANTS
    NoMetadata = NoMetadata
    Malformed = Malformed
    NoPath = NoPath
    NoSignature = NoSignature
    NoReview = NoReview
    MaxActionCount = 3
    BulkMaxSize = 1
    Paths = {p1, p2}
    Metadata <- MCMetadata
    Actions <- MCActions
INVARIANTS
    TypeOK
    StoredActionsFitOperation
    ReviewShowsContext
    SignedAsReviewed
    OpenSessionTracksReview
PROPERTIES
    ImplementsReviewedSigning
    ReleaseNeedsConsent
    NoSubstitution
    NewSessionAlwaysPossible
