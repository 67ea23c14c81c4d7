\* A containment and a recovery, delivered by two threads, over two failures of the
\* journal and a restart.
CONSTANTS
    freeze = freeze
    resume = resume
    v1 = v1
    v2 = v2
    Requests = {freeze, resume}
    Recoveries = {resume}
    Deliveries = {v1, v2}
    MaxFaults = 2
    MaxCrashes = 1
SPECIFICATION Spec
INVARIANTS
    TypeOK
PROPERTIES
    RequestOnce
CHECK_DEADLOCK FALSE
