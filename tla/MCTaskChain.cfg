CONSTANTS
    g1 = g1
    g2 = g2
    Goals = {g1, g2}
    None = None
    MaxRounds = 2
    MaxCalls = 2
    MaxRows = 2
    MaxFlights = 2
    MaxFaults = 1
SPECIFICATION FairSpec
INVARIANTS OneLateCall LedgerBeforeTools HistoryHonest
PROPERTIES CancelSticks SlotFreed
CHECK_DEADLOCK FALSE
