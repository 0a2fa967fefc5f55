\* Two workers check one node whose source changes.
SPECIFICATION Spec
CONSTANTS
    s1 = s1
    s2 = s2
    Node = {1}
    Source = {s1, s2}
    Profile <- HostAndDocument
    Worker = {w1, w2}
    None = None
    Lease = 1
    Ttl <- Windows
    Backoff <- OneUnit
    Attempts = 2
    Batch = 1
    MaxTime = 2
    MaxLeases = 2
    MaxChanges = 1
    MaxFaults = 1
SYMMETRY Symmetry
INVARIANTS SearchableIsProven LeaseExclusive RecordedInOrder ExhaustedEscalated
