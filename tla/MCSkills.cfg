CONSTANTS
    o1 = o1
    o2 = o2
    f1 = f1
    f2 = f2
    m1 = m1
    m2 = m2
    Origins = {o1, o2}
    Fixtures = {f1, f2}
    Promoters = {m1, m2}
    None = None
    History <- HalfPassed
    Recorded = {"desk", "spa"}
    MaxRuns = 3
    MaxChanges = 1
SPECIFICATION Spec
SYMMETRY Symmetry
INVARIANTS ListedIsBacked PromotedWasProven
CHECK_DEADLOCK FALSE
