CONSTANTS
    Missing = Missing
    Other = Other
    None = None
    Requests <- MCRequests
    MaxEdits = 2
    MaxFaults = 3
SPECIFICATION Spec
INVARIANTS PatchedOnce PatchRecoverable
PROPERTIES ReceiptsAreTrue ClosedIsFinal
CHECK_DEADLOCK FALSE
