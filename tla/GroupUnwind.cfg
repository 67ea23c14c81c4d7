\* Closes of whole legs and of the group, and the cadence that ends it.
CONSTANTS
    Lots = 3
    HedgeLots = 1
    Part = 2
    Deltas = {}
    MaxReductions = 2
    MaxStops = 1
    MaxFaults = 2
SPECIFICATION FairSpec
INVARIANTS
    TypeOK
    LegBookedOnce
    GroupClosedFlat
PROPERTIES
    PrimaryFlatFirst
    ReducedOnce
    FlatGroupCloses
CHECK_DEADLOCK FALSE
