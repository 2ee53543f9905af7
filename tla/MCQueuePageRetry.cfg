\* One user whose first request to enter is refused; one handler at once, no loss of the connection.
SPECIFICATION PageSpec
CONSTANTS
    cron = cron
    r1 = r1
    r2 = r2
    NoUser = NoUser
    Nobody = Nobody
    Users = {1}
    Admitters <- MCAdmitters
    Cron <- MCAdmitters
    Requests <- MCOneRequest
    SocketUsers = {1}
    Deletes = FALSE
    MaxTime = 2
    MaxJobs = 1
    MaxFaults = 0
    Me = 1
    MaxBreaks = 0
    MaxEvents = 1
INVARIANTS
    EnteringIsAsked
CHECK_DEADLOCK FALSE
