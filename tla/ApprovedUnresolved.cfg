\* README.md:101, "Final approval ... is blocked while required fields remain unresolved."
SPECIFICATION Spec
CONSTANTS
    Fields = {"gross_weight", "shipper"}
    Findings <- MCFindings
    Handlers = {h1}
    Workers = {w1}
    MaxUpdates = 2
CHECK_DEADLOCK FALSE
INVARIANT ApprovedIsResolved
