\* An e-mail delivered twice, a retry, one worker, one crash: what must happen.
SPECIFICATION FairSpec
CONSTANTS
    d1 = d1
    d2 = d2
    Docs = {d1}
    Payloads <- OneDocument
    Ingestors = {i1, i2}
    Submitters = {}
    Reviewers = {r1}
    Workers = {w1}
    AllowAppend = FALSE
    HasRun = FALSE
    LeaseCanExpire = TRUE
    MaxDeliveries = 2
    MaxCrashes = 1
PROPERTIES
    ResumableIngestion
    QueuedTaskCompletes
