\* A judgment during an ingestion leaves a stale projected status.
SPECIFICATION Spec
CONSTANTS
    Run = {1}
    Node = {n1}
    Links <- AllNodes
    Ingester = {i1}
    Rebuilder = {}
    Judge = {j1}
    Gen = {0}
    Live = 0
    None = None
    MaxJudgments = 1
    MaxFaults = 0
    Crashes = FALSE
    Attempts = 1
    Retries = TRUE
INVARIANTS StatusSynced
