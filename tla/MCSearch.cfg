\* A search runs beside ingestions and rebuilds; two judges race on a node.
SPECIFICATION CastSpec
CONSTANTS
    Run = {1, 2}
    Node = {n1}
    Links <- AllNodes
    Ingester = {i1}
    Rebuilder = {b1}
    Judge = {j1, j2}
    Searcher = {s1}
    MaxSearchAttempts = 2
    Gen = {0, 1, 2}
    Live = 0
    None = None
    MaxJudgments = 3
    MaxFaults = 2
    Crashes = TRUE
    Attempts = 2
    Retries = FALSE
SYMMETRY Symmetry
INVARIANTS AnswerWhole JudgmentsExplainStatus
PROPERTIES StatusFollowsRules
