\* Two messages, the newer perhaps too large; one push handler, one mishap.
SPECIFICATION FairSpec
CONSTANTS
    Pushes = {p1}
    NumMessages = 2
    Rejectable <- NewestTooLarge
    HourlyLimit = 1
    MaxMishaps = 1
INVARIANTS
    CursorCovers
PROPERTIES
    ImplementsMailboxContract
    EveryMessageHandled
    OutageReported
    RecoveryReported
