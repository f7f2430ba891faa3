\* Two jobs of the scheduler and a user, over two weeks.
SPECIFICATION Spec
CONSTANTS
    w1 = w1
    w2 = w2
    c1 = c1
    c2 = c2
    x1 = x1
    x2 = x2
    Weeks = {w1, w2}
    Cases = {c1, c2}
    Assumptions = {x1, x2}
    Narratives = {"t1", "t2"}
    WeekOf <- MCWeekOf
    Assumes <- MCAssumes
    Jobs = {j1, j2}
    Publishers = {p1}
    MaxReviews = 1
SYMMETRY RequestSymmetry
INVARIANTS
    SummaryStands
CHECK_DEADLOCK FALSE
