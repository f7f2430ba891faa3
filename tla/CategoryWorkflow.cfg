\* Two requests at a time, by clients that follow the case's offers.
SPECIFICATION Spec
CONSTANTS
    Handlers = {h1, h2}
    MaxRequests = 4
    Guided = TRUE
    HasAttachments = TRUE
SYMMETRY HandlerSymmetry
INVARIANTS
    StageMatchesArtifact
    ReturnedDocument
    BlockRecordedFirst
    FiltersAccountedFor
PROPERTIES
    SignaturesInOrder
    CorrectionsKept
    ImplementsStageOrder
