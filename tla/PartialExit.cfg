\* Two callers, an exit filled in up to three parts, a stop that fires once; a
\* close may let one lot of three or four go.
CONSTANTS
    v1 = v1
    v2 = v2
    Workers = {v1, v2}
    Lots = 4
    Part = 3
    MaxOrders = 2
    MaxStops = 1
    MaxFaults = 2
SPECIFICATION FairSpec
INVARIANTS
    TypeOK
    BookedOnce
    NoUnmanagedExposure
PROPERTIES
    ExitOnce
    PartialSettles
CHECK_DEADLOCK FALSE
