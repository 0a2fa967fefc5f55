\* One worker goes through two nodes, one of which succeeds the other.
SPECIFICATION FairSpec
CONSTANTS
    s1 = s1
    s2 = s2
    Node = {1, 2}
    Source = {s1, s2}
    Profile <- HostAndDocument
    Worker = {w1}
    None = None
    Lease = 1
    Ttl <- Windows
    Backoff <- OneUnit
    Attempts = 2
    Batch = 1
    MaxTime = 1
    MaxLeases = 1
    MaxChanges = 2
    MaxFaults = 1
PROPERTIES EveryNodeEnrolled
