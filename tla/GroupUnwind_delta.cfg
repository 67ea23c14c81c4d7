\* The live book takes a lot off a leg of three.
CONSTANTS
    Lots = 3
    HedgeLots = 1
    Part = 4
    Deltas = {1}
    MaxReductions = 1
    MaxStops = 0
    MaxFaults = 1
SPECIFICATION Spec
INVARIANT LegBookedOnce
CHECK_DEADLOCK FALSE
