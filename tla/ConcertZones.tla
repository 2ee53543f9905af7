---------------------------- MODULE ConcertZones ----------------------------
(***************************************************************************)
(* Concerts and zones: concert.service.ts over the concerts and            *)
(* concert_zones tables and each zone's stock in Redis.                    *)
(*                                                                         *)
(* A request q is one call of the administrator's that is in progress.     *)
(* req[q].pc names the database or Redis call its handler is about to      *)
(* make.  The tickets sold meanwhile are a step of the environment;        *)
(* SeatReservation models them in detail.                                  *)
(***************************************************************************)
EXTENDS Integers

CONSTANTS
    Concerts, Zones,
    ConcertOf,   \* the concert a zone belongs to
    Quantities,  \* the numbers of seats the administrator types
    Requests     \* calls in progress at once

ZoneConstants ==
    /\ ConcertOf \in [Zones -> Concerts]
    /\ Quantities \subseteq Nat \ {0}

VARIABLES
    concertRow, \* DB: status of each concert, "none" before it is created
    zoneRow,    \* DB: each zone
    total,      \* DB: totalQuantity of each zone
    remain,     \* DB: remainQuantity of each zone
    stock,      \* Redis: zone:<z>:stock
    keys,       \* Redis: the zones whose stock key exists
    req,        \* the requests in progress
    sold,       \* history: seats of each zone that were paid for
    clash       \* history: zones whose changes overlapped or failed half way

tables == <<concertRow, zoneRow, total, remain>>
redis == <<stock, keys>>
vars == <<concertRow, zoneRow, total, remain, stock, keys, req, sold, clash>>

-----------------------------------------------------------------------------
ConcertPC == {"update.find", "update.row", "delete.find", "delete.row"}
ZonePC == {"create.find", "create.name", "create.insert", "create.stock",
           "change.find", "change.row", "change.stock",
           "remove.find", "remove.row", "remove.stock"}

\* old: totalQuantity as adminUpdateZone read it; new: as it was typed.
Idle == [pc |-> "idle"]
Request ==
    {Idle} \cup [pc : ConcertPC, c : Concerts]
           \cup [pc : ZonePC, z : Zones, old : Nat, new : Nat]

TypeOK ==
    /\ concertRow \in [Concerts -> {"none", "SCHEDULED", "ON_SALE", "deleted"}]
    /\ zoneRow \in [Zones -> {"none", "exists", "deleted"}]
    /\ total \in [Zones -> Nat]
    /\ remain \in [Zones -> Int]
    /\ stock \in [Zones -> Int]
    /\ keys \subseteq Zones
    /\ req \in [Requests -> Request]
    /\ sold \in [Zones -> Nat]
    /\ clash \subseteq Zones

Init ==
    /\ concertRow = [c \in Concerts |-> "none"]
    /\ zoneRow = [z \in Zones |-> "none"]
    /\ total = [z \in Zones |-> 0]
    /\ remain = [z \in Zones |-> 0]
    /\ stock = [z \in Zones |-> 0]
    /\ keys = {}
    /\ req = [q \in Requests |-> Idle]
    /\ sold = [z \in Zones |-> 0]
    /\ clash = {}

-----------------------------------------------------------------------------
(* Requests.                                                               *)

At(q, pc) == req[q].pc = pc

Goto(q, pc) == req' = [req EXCEPT ![q].pc = pc]

Finish(q) == req' = [req EXCEPT ![q] = Idle]

Send(q, r) ==
    /\ req[q] = Idle
    /\ req' = [req EXCEPT ![q] = r]
    /\ UNCHANGED <<tables, redis, sold, clash>>

SendConcert(q, c) ==
    \E pc \in {"update.find", "delete.find"} : Send(q, [pc |-> pc, c |-> c])

\* Bound: a zone whose changes clashed is not changed or sold any more.
SendZone(q, z, n) ==
    /\ z \notin clash
    /\ \E pc \in {"create.find", "change.find", "remove.find"} :
          Send(q, [pc |-> pc, z |-> z, old |-> 0, new |-> n])

ConcertExists(c) == concertRow[c] \in {"SCHEDULED", "ON_SALE"}

ZoneExists(z) == zoneRow[z] = "exists"

\* A find that comes back empty, an insert that meets a row, or an update or
\* delete that meets none: the handler answers with an error.
Unless(q, found, pc) == IF found THEN Goto(q, pc) ELSE Finish(q)

\* A call of the handler throws, or the process dies.
HandlerFails(q) ==
    /\ req[q] # Idle
    /\ Finish(q)
    /\ clash' = IF req[q].pc \in {"create.stock", "change.stock"}
                THEN clash \cup {req[q].z} ELSE clash
    /\ UNCHANGED <<tables, redis, sold>>

-----------------------------------------------------------------------------
(* Concerts.                                                               *)

\* adminCreateConcert
CreateConcert(c) ==
    /\ concertRow[c] = "none"
    /\ concertRow' = [concertRow EXCEPT ![c] = "SCHEDULED"]
    /\ UNCHANGED <<zoneRow, total, remain, redis, req, sold, clash>>

\* tickConcertStatus
OpenSale(c) ==
    /\ concertRow[c] = "SCHEDULED"
    /\ concertRow' = [concertRow EXCEPT ![c] = "ON_SALE"]
    /\ UNCHANGED <<zoneRow, total, remain, redis, req, sold, clash>>

\* adminUpdateConcert: no field of it is modelled.
UpdateConcert(q) ==
    /\ \/ At(q, "update.find") /\ Unless(q, ConcertExists(req[q].c), "update.row")
       \/ At(q, "update.row") /\ Finish(q)
    /\ UNCHANGED <<tables, redis, sold, clash>>

\* adminDeleteConcert
DeleteFind(q) ==
    /\ At(q, "delete.find")
    /\ Unless(q, ConcertExists(req[q].c), "delete.row")
    /\ UNCHANGED <<tables, redis, sold, clash>>

\* The zones go with the concert; their stock keys stay.
DeleteRow(q) ==
    LET gone == {z \in Zones : ConcertOf[z] = req[q].c /\ ZoneExists(z)} IN
    /\ At(q, "delete.row")
    /\ concertRow' = [concertRow EXCEPT ![req[q].c] = "deleted"]
    /\ zoneRow' = [z \in Zones |-> IF z \in gone THEN "deleted" ELSE zoneRow[z]]
    /\ Finish(q)
    /\ UNCHANGED <<total, remain, redis, sold, clash>>

-----------------------------------------------------------------------------
(* Zones.                                                                  *)

\* adminCreateZone: the concert is found and the name is not taken in it.
CreateCheck(q) ==
    LET z == req[q].z IN
    /\ \/ At(q, "create.find") /\ Unless(q, ConcertExists(ConcertOf[z]), "create.name")
       \/ At(q, "create.name") /\ Unless(q, zoneRow[z] = "none", "create.insert")
    /\ UNCHANGED <<tables, redis, sold, clash>>

\* (concertId, name) is unique, and concertId a foreign key.
CreateInsert(q) ==
    LET z == req[q].z IN
    /\ At(q, "create.insert")
    /\ IF ConcertExists(ConcertOf[z]) /\ zoneRow[z] = "none"
         THEN /\ zoneRow' = [zoneRow EXCEPT ![z] = "exists"]
              /\ total' = [total EXCEPT ![z] = req[q].new]
              /\ remain' = [remain EXCEPT ![z] = req[q].new]
              /\ Goto(q, "create.stock")
         ELSE Finish(q) /\ UNCHANGED <<zoneRow, total, remain>>
    /\ UNCHANGED <<concertRow, redis, sold, clash>>

CreateStock(q) ==
    /\ At(q, "create.stock")
    /\ stock' = [stock EXCEPT ![req[q].z] = req[q].new]
    /\ keys' = keys \cup {req[q].z}
    /\ Finish(q)
    /\ UNCHANGED <<tables, sold, clash>>

\* Requests that change z and have passed their check.
Busy(z) == {q \in Requests :
    req[q].pc \in {"create.stock", "change.row", "change.stock"} /\ req[q].z = z}

\* adminUpdateZone: the zone is read once, before it is updated.
ChangeFind(q) ==
    LET z == req[q].z IN
    /\ At(q, "change.find")
    /\ IF ZoneExists(z)
         THEN /\ req' = [req EXCEPT ![q].pc = "change.row", ![q].old = total[z]]
              /\ clash' = IF Busy(z) # {} THEN clash \cup {z} ELSE clash
         ELSE Finish(q) /\ UNCHANGED clash
    /\ UNCHANGED <<tables, redis, sold>>

\* Mutant of ChangeRow: remainQuantity moves the wrong way.
ChangeRow_WrongWay(q) ==
    LET z == req[q].z IN
    /\ At(q, "change.row")
    /\ IF ZoneExists(z)
         THEN /\ total' = [total EXCEPT ![z] = req[q].new]
              /\ remain' = [remain EXCEPT ![z] = @ + req[q].old - req[q].new]
              /\ Goto(q, "change.stock")
         ELSE Finish(q) /\ UNCHANGED <<total, remain>>
    /\ UNCHANGED <<concertRow, zoneRow, redis, sold, clash>>

\* remainQuantity becomes the new total, whatever has been sold.
ChangeRow(q) ==
    LET z == req[q].z IN
    /\ At(q, "change.row")
    /\ IF ZoneExists(z)
         THEN /\ total' = [total EXCEPT ![z] = req[q].new]
              /\ remain' = [remain EXCEPT ![z] = req[q].new]
              /\ Goto(q, "change.stock")
         ELSE Finish(q) /\ UNCHANGED <<total, remain>>
    /\ UNCHANGED <<concertRow, zoneRow, redis, sold, clash>>

\* Mutant of ChangeStock: the new total overwrites the stock.
ChangeStock_Set(q) ==
    /\ At(q, "change.stock")
    /\ stock' = [stock EXCEPT ![req[q].z] = req[q].new]
    /\ keys' = keys \cup {req[q].z}
    /\ Finish(q)
    /\ UNCHANGED <<tables, sold, clash>>

\* INCRBY makes the key if it is not there.
ChangeStock(q) ==
    LET z == req[q].z IN
    /\ At(q, "change.stock")
    /\ stock' = [stock EXCEPT ![z] = (IF z \in keys THEN @ ELSE 0) + req[q].new - req[q].old]
    /\ keys' = keys \cup {z}
    /\ Finish(q)
    /\ UNCHANGED <<tables, sold, clash>>

\* adminDeleteZone
RemoveFind(q) ==
    /\ At(q, "remove.find")
    /\ Unless(q, ZoneExists(req[q].z), "remove.row")
    /\ UNCHANGED <<tables, redis, sold, clash>>

RemoveRow(q) ==
    LET z == req[q].z IN
    /\ At(q, "remove.row")
    /\ Unless(q, ZoneExists(z), "remove.stock")
    /\ zoneRow' = [zoneRow EXCEPT ![z] = "deleted"]
    /\ UNCHANGED <<concertRow, total, remain, redis, sold, clash>>

RemoveStock(q) ==
    /\ At(q, "remove.stock")
    /\ keys' = keys \ {req[q].z}
    /\ Finish(q)
    /\ UNCHANGED <<tables, stock, sold, clash>>

\* A seat is reserved and paid for.
Sell(z) ==
    /\ ZoneExists(z) /\ concertRow[ConcertOf[z]] = "ON_SALE"
    /\ z \in keys /\ stock[z] > 0 /\ z \notin clash
    /\ stock' = [stock EXCEPT ![z] = @ - 1]
    /\ remain' = [remain EXCEPT ![z] = @ - 1]
    /\ sold' = [sold EXCEPT ![z] = @ + 1]
    /\ UNCHANGED <<concertRow, zoneRow, total, keys, req, clash>>

-----------------------------------------------------------------------------
Handler(q) ==
    \/ UpdateConcert(q) \/ DeleteFind(q) \/ DeleteRow(q)
    \/ CreateCheck(q) \/ CreateInsert(q) \/ CreateStock(q)
    \/ ChangeFind(q) \/ ChangeRow(q) \/ ChangeStock(q)
    \/ RemoveFind(q) \/ RemoveRow(q) \/ RemoveStock(q)

Next ==
    \/ \E q \in Requests : Handler(q) \/ HandlerFails(q)
    \/ \E q \in Requests, c \in Concerts : SendConcert(q, c)
    \/ \E q \in Requests, z \in Zones, n \in Quantities : SendZone(q, z, n)
    \/ \E c \in Concerts : CreateConcert(c) \/ OpenSale(c)
    \/ \E z \in Zones : Sell(z)

Spec == Init /\ [][Next]_vars

-----------------------------------------------------------------------------
(* Properties.                                                             *)

\* The comment at concert.service.ts:76: the stock of a zone follows its total
\* by the difference, so the seats that were sold stay out of it, unless two
\* changes of the zone overlap or one fails half way.
SoldSeatsStayOut ==
    \A z \in Zones \ clash :
        ZoneExists(z) /\ Busy(z) = {} => z \in keys /\ stock[z] = total[z] - sold[z]

\* The seats the page shows as remaining are never fewer than those that can
\* still be taken: a change of the total sets remainQuantity too high for the
\* seats sold before it, and never too low.
RemainCoversStock ==
    \A z \in Zones \ clash :
        ZoneExists(z) /\ Busy(z) = {} => stock[z] <= remain[z] /\ remain[z] <= total[z]

=============================================================================
