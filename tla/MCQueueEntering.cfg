\* Two users, two requests and two callers of admitNextUser at a time, one fault, no sockets.
SPECIFICATION Spec
CONSTANTS
    cron = cron
    expiry = expiry
    r1 = r1
    r2 = r2
    NoUser = NoUser
    Nobody = Nobody
    Users = {1, 2}
    Admitters <- MCAdmitters
    Cron <- MCCron
    Requests <- MCTwoRequests
    SocketUsers = {}
    Deletes = FALSE
    MaxTime = 3
    MaxJobs = 0
    MaxFaults = 1
INVARIANTS
    TypeOK
    OneListUnlessOverlap
PROPERTIES
    PlaceKept
CHECK_DEADLOCK FALSE
SYMMETRY RequestSymmetry
