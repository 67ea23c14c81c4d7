\* Owner controls, recoveries, containments and MacroGuard, over one crash that
\* may switch the market between futures and spot.
CONSTANTS
    Markets = {"futures", "spot"}
    Risks = {"ok"}
    Requests = {"freeze", "halt", "panic", "recover", "trigger", "macro"}
    MaxRequests = 3
    MaxCrashes = 1
SPECIFICATION Spec
INVARIANTS
    TypeOK
    OwnerHoldStands
    MacroReleasesOwnFreeze
PROPERTIES
    HaltedLeftByOwner
CHECK_DEADLOCK FALSE
