\* Two logical actions over every failure of the venue and one crash; a close may let one
\* lot of three go.
CONSTANTS
    d1 = d1
    d2 = d2
    None = None
    Decisions = {d1, d2}
    Lots = 3
    Part = 3
    States = {"ACTIVE", "FROZEN"}
    MaxCloses = 2
    MaxStops = 2
    MaxOutside = 1
    MaxCrashes = 1
SYMMETRY DecisionSymmetry
SPECIFICATION Spec
INVARIANTS
    TypeOK
    SentOnce
    RefusedNeverTaken
    ExposureOwned
    OneCloseAtATime
 
CHECK_DEADLOCK FALSE
