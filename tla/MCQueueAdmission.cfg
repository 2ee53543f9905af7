\* Three users and two callers of admitNextUser, one request at a time, one fault, no sockets.
SPECIFICATION Spec
CONSTANTS
    cron = cron
    expiry = expiry
    r1 = r1
    r2 = r2
    NoUser = NoUser
    Nobody = Nobody
    Users = {1, 2, 3}
    Admitters <- MCAdmitters
    Cron <- MCCron
    Requests <- MCOneRequest
    SocketUsers = {}
    Deletes = FALSE
    MaxTime = 3
    MaxJobs = 0
    MaxFaults = 1
INVARIANTS
    AdmittedBounded
    AdmissionOrder
