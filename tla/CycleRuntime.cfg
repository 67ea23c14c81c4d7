\* A book-keeping pass, one close request, one model update and two book changes.
CONSTANTS
    r1 = r1
    BookJobs = {"positions"}
    Requests = {r1}
    MaxModels = 1
    MaxFills = 2
SPECIFICATION FairSpec
INVARIANTS
    TypeOK
    OneBatch
    OwnModel
    RequestsKept
PROPERTIES
    ReservationEnds
    ChangesSeen
    RequestsServed
    StopEnds
