\* One e-mail case, two workers, a reviewer, a crash.
SPECIFICATION Spec
CONSTANTS
    d1 = d1
    d2 = d2
    Docs = {d1, d2}
    Payloads <- SamePayload
    Ingestors = {i1}
    Submitters = {}
    Reviewers = {r1}
    Workers = {w1, w2}
    AllowAppend = FALSE
    HasRun = TRUE
    LeaseCanExpire = TRUE
    MaxDeliveries = 2
    MaxCrashes = 1
SYMMETRY HandlerSymmetry
INVARIANTS
    LeaseExclusion
    NewestAttemptWins
    DuplicatesRunOnce
    EvidenceMatchesResult
PROPERTIES
    ImplementsProcessingContract
    DecisionOnSeenResult
