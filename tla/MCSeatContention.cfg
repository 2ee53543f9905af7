\* Two reservations of two seats in a zone of three; a handler and the expiry worker, one fault.
SPECIFICATION Spec
CONSTANTS
    alice = alice
    z1 = z1
    a1 = a1
    a2 = a2
    h1 = h1
    h2 = h2
    worker = worker
    NoRes = NoRes
    Users <- MCUsers
    Zones <- MCZones
    Reservations <- MCReservations
    Owner <- MCOwner
    Zone <- MCZone
    Qty <- MCQty
    Total <- MCTotal
    Handlers <- MCOneHandler
    Expirer = worker
    MaxReturns = 0
    MaxFaults = 1
INVARIANTS
    StockNeverNegative
    StockMatchesDB
    SeatsAccounted
PROPERTIES
    LedgerKept
