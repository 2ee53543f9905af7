\* Two users of one concert, one of them with a socket, and the admission cron, no faults.
SPECIFICATION FairSpec
CONSTANTS
    cron = cron
    expiry = expiry
    r1 = r1
    r2 = r2
    NoUser = NoUser
    Nobody = Nobody
    Users = {1, 2}
    Admitters <- MCCron
    Cron <- MCCron
    Requests <- MCOneRequest
    SocketUsers = {1}
    Deletes = TRUE
    MaxTime = 3
    MaxJobs = 1
    MaxFaults = 0
PROPERTIES
    EventuallyAdmitted
    AbandonedLeavesQueue
CHECK_DEADLOCK FALSE
