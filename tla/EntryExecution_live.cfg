\* One logical action, its recovery under fairness, while control changes, partial
\* exits and reductions at the venue interfere.
CONSTANTS
    d1 = d1
    d2 = d2
    None = None
    Decisions = {d1}
    Lots = 2
    Part = 2
    States = {"ACTIVE", "FROZEN", "HALTED"}
    MaxCloses = 2
    MaxStops = 2
    MaxOutside = 2
    MaxCrashes = 1
SPECIFICATION FairSpec
PROPERTIES
    EntryUnderItsPermission
    BookedAsFilled
    RecoverySettles
CHECK_DEADLOCK FALSE
