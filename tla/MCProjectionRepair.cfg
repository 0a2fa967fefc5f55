\* A rebuild repairs a run that its ingester abandoned.
SPECIFICATION FairSpec
CONSTANTS
    Run = {1}
    Node = {n1}
    Links <- AllNodes
    Ingester = {i1}
    Rebuilder = {b1}
    Judge = {}
    Gen = {0, 1, 2, 3}
    Live = 0
    None = None
    MaxJudgments = 0
    MaxFaults = 1
    Crashes = FALSE
    Attempts = 3
    Retries = FALSE
PROPERTIES RebuildRepairs
