\* A Telegram case: two uploads, a submission, two workers.
SPECIFICATION Spec
CONSTANTS
    d1 = d1
    d2 = d2
    Docs = {d1, d2}
    Payloads <- SingleUploads
    Ingestors = {i1, i2}
    Submitters = {s1}
    Reviewers = {}
    Workers = {w1, w2}
    AllowAppend = TRUE
    HasRun = FALSE
    LeaseCanExpire = TRUE
    MaxDeliveries = 2
    MaxCrashes = 1
SYMMETRY HandlerSymmetry
PROPERTIES
    ImplementsProcessingContract
