\* One user who disconnects and reconnects in time; no faults.
SPECIFICATION Spec
CONSTANTS
    cron = cron
    expiry = expiry
    r1 = r1
    r2 = r2
    NoUser = NoUser
    Nobody = Nobody
    Users = {1}
    Admitters <- MCCron
    Cron <- MCCron
    Requests <- MCOneRequest
    SocketUsers = {1}
    Deletes = FALSE
    MaxTime = 3
    MaxJobs = 1
    MaxFaults = 0
PROPERTIES
    ReconnectedStays
CHECK_DEADLOCK FALSE
