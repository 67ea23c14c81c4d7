\* Every request with every verdict of Risk, in one life of the process.
CONSTANTS
    Markets = {"futures"}
    Risks = {"ok", "breached", "corrupt"}
    Requests = {"freeze", "halt", "panic", "recover", "trigger", "macro", "rollback"}
    MaxRequests = 3
    MaxCrashes = 0
SPECIFICATION Spec
PROPERTIES
    TransitionsLegal
    ActivationProved
    NeedsOwnerDurable
CHECK_DEADLOCK FALSE
