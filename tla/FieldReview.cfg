\* Two reviewers and a worker, on a case of two fields that was compared once.
SPECIFICATION Spec
CONSTANTS
    Fields = {"gross_weight", "shipper"}
    Findings <- MCFindings
    Handlers = {h1, h2}
    Workers = {w1}
    MaxUpdates = 4
SYMMETRY ReviewSymmetry
VIEW ReviewView
CHECK_DEADLOCK FALSE
INVARIANTS
    TypeOK
    ResolvedHasBothValues
    ApprovalStands
PROPERTIES
    IssuesKept
    ImplementsReviewContract
