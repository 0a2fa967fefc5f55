CONSTANTS
    o1 = o1
    o2 = o2
    Opps = {o1, o2}
    None = None
    Quantity = 2
    Share = 1
    LegCosts <- MCLegCosts
    Proceeds <- MCProceeds
    MaxPairGross = 4
    MaxTotalExposure = 4
    MaxDailyLoss = 2
    LastDay = 2
    MaxFaults = 2
    MaxFileChanges = 1
SPECIFICATION FairSpec
INVARIANTS SimulatedOnce ExposureCapped InterruptedIsLatched CostConserved LossAtRisk
PROPERTIES LatchSticks PairsSettle
