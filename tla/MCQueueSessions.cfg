\* One user with two handlers at a time who disconnects and reconnects, one fault.
SPECIFICATION Spec
CONSTANTS
    cron = cron
    expiry = expiry
    r1 = r1
    r2 = r2
    NoUser = NoUser
    Nobody = Nobody
    Users = {1}
    Admitters <- MCCron
    Cron <- MCCron
    Requests <- MCTwoRequests
    SocketUsers = {1}
    Deletes = FALSE
    MaxTime = 3
    MaxJobs = 2
    MaxFaults = 1
INVARIANTS
    GraceKeyHasJob
PROPERTIES
    PlaceKept
SYMMETRY RequestSymmetry
