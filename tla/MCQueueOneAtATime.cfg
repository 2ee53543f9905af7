\* The admission worker and the reservation expiry worker both call admitNextUser.
SPECIFICATION Spec
CONSTANTS
    cron = cron
    expiry = expiry
    r1 = r1
    r2 = r2
    NoUser = NoUser
    Nobody = Nobody
    Users = {1, 2}
    Admitters <- MCAdmitters
    Cron <- MCCron
    Requests <- MCOneRequest
    SocketUsers = {}
    Deletes = FALSE
    MaxTime = 3
    MaxJobs = 0
    MaxFaults = 0
INVARIANTS
    OneAdmittedAtATime
