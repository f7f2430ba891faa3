\* Two dashboard sessions and two Telegram presses, three of which act, the first alert and
\* another one after the case is processed again, and one disturbance from outside.
SPECIFICATION Spec
CONSTANTS
    Texts = {t1, t2}
    Sessions = {s1, s2}
    Presses = {p1, p2}
    ApproveButtons = {a1, a2}
    DeclineButtons = {d1, d2}
    MaxRequests = 3
    MaxDisturbances = 1
SYMMETRY HandlerSymmetry
VIEW DeliveryView
INVARIANTS
    CopiesAgree
    MailAsApproved
    DashboardMailRecordable
    OneMailPerApproval
PROPERTIES
    ImplementsReplyContract
    ApprovalNotStale
    SentAsApproved
