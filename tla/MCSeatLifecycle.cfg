\* One reservation, two handlers and the expiry worker, one fault.
SPECIFICATION FairSpec
CONSTANTS
    alice = alice
    z1 = z1
    a1 = a1
    a2 = a2
    h1 = h1
    h2 = h2
    worker = worker
    NoRes = NoRes
    Users <- MCUsers
    Zones <- MCZones
    Reservations <- MCOneReservation
    Owner <- MCOwner
    Zone <- MCZone
    Qty <- MCQty
    Total <- MCTotal
    Handlers <- MCTwoHandlers
    Expirer = worker
    MaxReturns = 0
    MaxFaults = 1
INVARIANTS
    TypeOK
    SeatsAccounted
    RemainMatchesConfirmed
    PendingHasTimer
    LockEndsWithReservation
PROPERTIES
    SettledStays
    PendingEnds
