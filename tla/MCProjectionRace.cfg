\* Two rebuilds compete while a run is ingested; one of the processes may fail or die.
SPECIFICATION Spec
CONSTANTS
    Run = {1}
    Node = {n1}
    Links <- AllNodes
    Ingester = {i1}
    Rebuilder = {b1, b2}
    Judge = {}
    Gen = {0, 1, 2}
    Live = 0
    None = None
    MaxJudgments = 0
    MaxFaults = 1
    Crashes = TRUE
    Attempts = 2
    Retries = FALSE
SYMMETRY Symmetry
INVARIANTS BuilderHoldsLease AckedVisible
PROPERTIES LiveRowsKept
