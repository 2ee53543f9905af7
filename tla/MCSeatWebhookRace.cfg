\* One reservation, a webhook and the expiry worker, no faults.
SPECIFICATION Spec
CONSTANTS
    alice = alice
    z1 = z1
    a1 = a1
    a2 = a2
    h1 = h1
    h2 = h2
    worker = worker
    NoRes = NoRes
    Users <- MCUsers
    Zones <- MCZones
    Reservations <- MCOneReservation
    Owner <- MCOwner
    Zone <- MCZone
    Qty <- MCQty
    Total <- MCTotal
    Handlers <- MCOneHandler
    Expirer = worker
    MaxReturns = 0
    MaxFaults = 0
INVARIANTS
    ConfirmedKeepsSeats
