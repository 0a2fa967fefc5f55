\* Two processes ingest one source, cut into chunks in two ways and read by two
\* extractors; the clock can carry each of them past its lease.
SPECIFICATION Spec
CONSTANTS
    Worker = {w1, w2}
    Source = {s1}
    Extractor = {e1, e2}
    Node = {n1}
    Layout = {l1, l2}
    Chunk = {1}
    Cut <- FullCuts
    Payload <- FullPayloads
    RunId = {r1, r2}
    None = None
    Lease = 0
    MaxTime = 1
    ReadFaults = FALSE
SYMMETRY Symmetry
INVARIANTS TypeOK OneLiveRun CommittedWhole RetriesFollowFailures
PROPERTIES RunsOnlyAdvance ImplementsLedger
