\* The documented promise that a serious fault waits for the owner.
CONSTANTS
    Markets = {"futures"}
    Risks = {"ok"}
    Requests = {"macro"}
    MaxRequests = 1
    MaxCrashes = 1
SPECIFICATION Spec
PROPERTIES
    SeriousFaultNeedsOwner
CHECK_DEADLOCK FALSE
