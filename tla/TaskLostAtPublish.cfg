\* A task delivered before its case is marked QUEUED is lost.
SPECIFICATION FairSpec
CONSTANTS
    d1 = d1
    d2 = d2
    Docs = {d1}
    Payloads <- OneDocument
    Ingestors = {i1}
    Submitters = {}
    Reviewers = {}
    Workers = {w1}
    AllowAppend = FALSE
    HasRun = FALSE
    LeaseCanExpire = FALSE
    MaxDeliveries = 2
    MaxCrashes = 0
PROPERTY
    PublishedCaseCompletes
