\* The documented promise that an owner's FROZEN is never taken over.
CONSTANTS
    Markets = {"futures"}
    Risks = {"ok"}
    Requests = {"freeze", "trigger"}
    MaxRequests = 2
    MaxCrashes = 1
SPECIFICATION Spec
PROPERTIES
    OwnerFrozenNeverAppropriated
CHECK_DEADLOCK FALSE
