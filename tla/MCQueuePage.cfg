\* One user and the page, two handlers at once, one load, loss or fault, one outstanding disconnect job.
SPECIFICATION PageSpec
CONSTANTS
    cron = cron
    r1 = r1
    r2 = r2
    NoUser = NoUser
    Nobody = Nobody
    Users = {1}
    Admitters <- MCAdmitters
    Cron <- MCAdmitters
    Requests <- MCTwoRequests
    SocketUsers = {1}
    Deletes = FALSE
    MaxTime = 2
    MaxJobs = 1
    MaxFaults = 1
    Me = 1
    MaxBreaks = 1
    MaxEvents = 1
INVARIANTS
    PageTypeOK
    PageTellsTruth
PROPERTIES
    AdmissionStaysShown
SYMMETRY RequestSymmetry
CHECK_DEADLOCK FALSE
