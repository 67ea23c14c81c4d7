\* Progress of passes, requests and panics, under FairSpec.
CONSTANTS
    Markets = {"futures"}
    Risks = {"ok"}
    Requests = {"freeze", "panic", "recover", "trigger"}
    MaxRequests = 2
    MaxCrashes = 0
SPECIFICATION FairSpec
PROPERTIES
    PassTerminates
    RecoveryAnswered
    PanicServed
CHECK_DEADLOCK FALSE
