\* An e-mail case delivered twice, the second time perhaps with other attachments.
SPECIFICATION Spec
CONSTANTS
    d1 = d1
    d2 = d2
    Docs = {d1, d2}
    Payloads <- AlteredPayload
    Ingestors = {i1, i2}
    Submitters = {}
    Reviewers = {r1}
    Workers = {w1}
    AllowAppend = FALSE
    HasRun = TRUE
    LeaseCanExpire = TRUE
    MaxDeliveries = 1
    MaxCrashes = 1
INVARIANTS
    PublishedOnlyComplete
    ResultFromFullSet
PROPERTIES
    ImmutableAttachments
    ImplementsContract
