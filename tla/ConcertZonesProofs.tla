------------------------- MODULE ConcertZonesProofs -------------------------
(***************************************************************************)
(* Theorems about ConcertZones, for any number of concerts, zones and      *)
(* administrator's calls at once.                                          *)
(***************************************************************************)
EXTENDS ConcertZones, TLAPS

ConcertRequest == [pc : ConcertPC, c : Concerts]
ZoneRequest == [pc : ZonePC, z : Zones, old : Nat, new : Nat]

-----------------------------------------------------------------------------
(* Types.                                                                  *)

\* The pc of a request tells what kind of request it is.
LEMMA Kinds ==
    ASSUME TypeOK, NEW q \in Requests
    PROVE  /\ req[q].pc \in ZonePC => req[q] \in ZoneRequest
           /\ req[q].pc \in ConcertPC => req[q] \in ConcertRequest
           /\ req[q].pc \in ZonePC \cup ConcertPC \cup {"idle"}
<1>1. req[q] \in {Idle} \cup ConcertRequest \cup ZoneRequest
  BY DEF TypeOK, Request, ConcertRequest, ZoneRequest
<1>2. CASE req[q] = Idle
  BY <1>2 DEF Idle, ZonePC, ConcertPC
<1>3. CASE req[q] \in ConcertRequest
  BY <1>3 DEF ConcertRequest, ZonePC, ConcertPC
<1>4. CASE req[q] \in ZoneRequest
  BY <1>4 DEF ZoneRequest, ZonePC, ConcertPC
<1>5. QED BY <1>1, <1>2, <1>3, <1>4

\* A request that gets a new state; the others keep theirs.
LEMMA PutOK ==
    ASSUME TypeOK, NEW q \in Requests, NEW r \in Request, req' = [req EXCEPT ![q] = r]
    PROVE  /\ req' \in [Requests -> Request]
           /\ req'[q] = r
           /\ \A o \in Requests \ {q} : req'[o] = req[o]
BY DEF TypeOK

LEMMA GotoZone ==
    ASSUME TypeOK, NEW q \in Requests, req[q].pc \in ZonePC, NEW pc \in ZonePC, Goto(q, pc)
    PROVE  /\ req' \in [Requests -> Request]
           /\ req'[q].pc = pc /\ req'[q].z = req[q].z
           /\ req'[q].old = req[q].old /\ req'[q].new = req[q].new
           /\ \A o \in Requests \ {q} : req'[o] = req[o]
<1>1. req[q] \in ZoneRequest
  BY Kinds
<1>2. /\ [req[q] EXCEPT !.pc = pc] \in ZoneRequest
      /\ [req[q] EXCEPT !.pc = pc].pc = pc
      /\ [req[q] EXCEPT !.pc = pc].z = req[q].z
      /\ [req[q] EXCEPT !.pc = pc].old = req[q].old
      /\ [req[q] EXCEPT !.pc = pc].new = req[q].new
  BY <1>1 DEF ZoneRequest
<1>3. [req[q] EXCEPT !.pc = pc] \in Request
  BY <1>2 DEF Request, ZoneRequest
<1>4. req' = [req EXCEPT ![q] = [req[q] EXCEPT !.pc = pc]]
  BY DEF Goto
<1>5. QED BY <1>2, <1>3, <1>4, PutOK

LEMMA GotoConcert ==
    ASSUME TypeOK, NEW q \in Requests, req[q].pc \in ConcertPC, NEW pc \in ConcertPC, Goto(q, pc)
    PROVE  /\ req' \in [Requests -> Request]
           /\ req'[q].pc = pc
           /\ \A o \in Requests \ {q} : req'[o] = req[o]
<1>1. req[q] \in ConcertRequest
  BY Kinds
<1>2. /\ [req[q] EXCEPT !.pc = pc] \in ConcertRequest
      /\ [req[q] EXCEPT !.pc = pc].pc = pc
  BY <1>1 DEF ConcertRequest
<1>3. [req[q] EXCEPT !.pc = pc] \in Request
  BY <1>2 DEF Request, ConcertRequest
<1>4. req' = [req EXCEPT ![q] = [req[q] EXCEPT !.pc = pc]]
  BY DEF Goto
<1>5. QED BY <1>2, <1>3, <1>4, PutOK

LEMMA FinishOK ==
    ASSUME TypeOK, NEW q \in Requests, Finish(q)
    PROVE  /\ req' \in [Requests -> Request]
           /\ req'[q].pc = "idle"
           /\ \A o \in Requests \ {q} : req'[o] = req[o]
<1>1. Idle \in Request /\ Idle.pc = "idle"
  BY DEF Idle, Request
<1>2. QED BY <1>1, PutOK DEF Finish

\* The types that a handler's step leaves alone.
LEMMA Held ==
    ASSUME TypeOK, NEW z \in Zones
    PROVE  /\ total \in [Zones -> Nat] /\ remain \in [Zones -> Int] /\ stock \in [Zones -> Int]
           /\ sold \in [Zones -> Nat] /\ keys \subseteq Zones /\ clash \subseteq Zones
           /\ zoneRow \in [Zones -> {"none", "exists", "deleted"}]
           /\ total[z] \in Nat /\ remain[z] \in Int /\ stock[z] \in Int /\ sold[z] \in Nat
           /\ zoneRow[z] \in {"none", "exists", "deleted"}
BY DEF TypeOK

LEMMA ZoneOf ==
    ASSUME TypeOK, NEW q \in Requests, req[q].pc \in ZonePC
    PROVE  req[q].z \in Zones /\ req[q].old \in Nat /\ req[q].new \in Nat
BY Kinds DEF ZoneRequest

LEMMA TypeInit == Init => TypeOK
BY DEF Init, TypeOK, Request

LEMMA SendTypes ==
    ASSUME ZoneConstants, TypeOK, NEW q \in Requests,
           \/ \E c \in Concerts : SendConcert(q, c)
           \/ \E z \in Zones, n \in Quantities : SendZone(q, z, n)
    PROVE  TypeOK' /\ req' \in [Requests -> Request]
<1>1. PICK r \in Request : Send(q, r)
  <2>1. CASE \E c \in Concerts : SendConcert(q, c)
    <3>1. PICK c \in Concerts, pc \in {"update.find", "delete.find"} : Send(q, [pc |-> pc, c |-> c])
      BY <2>1 DEF SendConcert
    <3>2. [pc |-> pc, c |-> c] \in Request
      BY DEF Request, ConcertPC
    <3>3. QED BY <3>1, <3>2
  <2>2. CASE \E z \in Zones, n \in Quantities : SendZone(q, z, n)
    <3>1. PICK z \in Zones, n \in Quantities, pc \in {"create.find", "change.find", "remove.find"} :
             Send(q, [pc |-> pc, z |-> z, old |-> 0, new |-> n])
      BY <2>2 DEF SendZone
    <3>2. [pc |-> pc, z |-> z, old |-> 0, new |-> n] \in Request
      BY DEF Request, ZonePC, ZoneConstants
    <3>3. QED BY <3>1, <3>2
  <2>3. QED BY <2>1, <2>2
<1>2. req' \in [Requests -> Request]
  BY <1>1, PutOK DEF Send
<1>3. QED BY <1>1, <1>2 DEF Send, TypeOK, tables, redis

LEMMA ConcertTypes ==
    ASSUME TypeOK, NEW q \in Requests, UpdateConcert(q) \/ DeleteFind(q) \/ DeleteRow(q)
    PROVE  TypeOK'
<1>1. req' \in [Requests -> Request]
  <2>1. \/ Finish(q)
        \/ req[q].pc \in ConcertPC /\ \E pc \in ConcertPC : Goto(q, pc)
    BY DEF UpdateConcert, DeleteFind, DeleteRow, Unless, At, ConcertPC
  <2>2. QED BY <2>1, FinishOK, GotoConcert
<1>2. CASE UpdateConcert(q) \/ DeleteFind(q)
  BY <1>1, <1>2 DEF UpdateConcert, DeleteFind, TypeOK, tables, redis
<1>3. CASE DeleteRow(q)
  BY <1>1, <1>3 DEF DeleteRow, TypeOK, redis
<1>4. QED BY <1>2, <1>3

LEMMA ZoneTypes ==
    ASSUME TypeOK, NEW q \in Requests,
           \/ CreateCheck(q) \/ CreateInsert(q) \/ CreateStock(q)
           \/ ChangeRow(q) \/ ChangeStock(q)
           \/ RemoveFind(q) \/ RemoveRow(q) \/ RemoveStock(q)
    PROVE  TypeOK'
<1>1. req[q].pc \in ZonePC
  BY DEF CreateCheck, CreateInsert, CreateStock, ChangeRow, ChangeStock,
         RemoveFind, RemoveRow, RemoveStock, At, ZonePC
<1>2. req' \in [Requests -> Request]
  <2>1. Finish(q) \/ \E pc \in ZonePC : Goto(q, pc)
    BY DEF CreateCheck, CreateInsert, CreateStock, ChangeRow, ChangeStock,
           RemoveFind, RemoveRow, RemoveStock, Unless, At, ZonePC
  <2>2. QED BY <1>1, <2>1, FinishOK, GotoZone
<1>3. req[q].z \in Zones /\ req[q].old \in Nat /\ req[q].new \in Nat
  BY <1>1, ZoneOf
<1>4. CASE CreateCheck(q) \/ RemoveFind(q)
  BY <1>2, <1>4 DEF CreateCheck, RemoveFind, TypeOK, tables, redis
<1>5. CASE CreateInsert(q) \/ ChangeRow(q) \/ RemoveRow(q)
  BY <1>2, <1>3, <1>5 DEF CreateInsert, ChangeRow, RemoveRow, TypeOK, redis
<1>6. CASE CreateStock(q) \/ ChangeStock(q) \/ RemoveStock(q)
  <2>1. stock' \in [Zones -> Int]
    <3>1. req[q].new \in Int /\ req[q].old \in Int /\ stock[req[q].z] \in Int
      BY <1>3, Held
    <3>2. CASE CreateStock(q)
      BY <1>3, <3>1, <3>2, Held DEF CreateStock
    <3>3. CASE ChangeStock(q)
      <4>1. (IF req[q].z \in keys THEN stock[req[q].z] ELSE 0) + req[q].new - req[q].old \in Int
        BY <3>1
      <4>2. QED BY <1>3, <3>3, <4>1, Held DEF ChangeStock
    <3>4. CASE RemoveStock(q)
      BY <1>3, <3>4, Held DEF RemoveStock
    <3>5. QED BY <1>6, <3>2, <3>3, <3>4
  <2>2. QED BY <1>2, <1>3, <1>6, <2>1 DEF CreateStock, ChangeStock, RemoveStock, TypeOK, tables
<1>7. QED BY <1>4, <1>5, <1>6

\* The zone is read: what ChangeFind writes into the request.
LEMMA ChangeFindOK ==
    ASSUME TypeOK, NEW q \in Requests, ChangeFind(q), ZoneExists(req[q].z)
    PROVE  /\ req' \in [Requests -> Request]
           /\ req'[q].pc = "change.row" /\ req'[q].z = req[q].z
           /\ req'[q].old = total[req[q].z] /\ req'[q].new = req[q].new
           /\ \A o \in Requests \ {q} : req'[o] = req[o]
<1> DEFINE r == [[req[q] EXCEPT !.pc = "change.row"] EXCEPT !.old = total[req[q].z]]
<1>1. req[q].pc \in ZonePC
  BY DEF ChangeFind, At, ZonePC
<1>2. req[q] \in ZoneRequest /\ total[req[q].z] \in Nat
  BY <1>1, Kinds, ZoneOf, Held
<1>3. /\ r \in ZoneRequest /\ r.pc = "change.row" /\ r.z = req[q].z
      /\ r.old = total[req[q].z] /\ r.new = req[q].new
  BY <1>2 DEF ZoneRequest, ZonePC
<1>4. r \in Request
  BY <1>3 DEF Request, ZoneRequest
<1>5. req' = [req EXCEPT ![q] = r]
  BY DEF ChangeFind, TypeOK
<1> HIDE DEF r
<1>6. QED BY <1>3, <1>4, <1>5, PutOK

\* Types are correct.
LEMMA TypeStep == ASSUME ZoneConstants, TypeOK, [Next]_vars PROVE TypeOK'
<1>1. CASE UNCHANGED vars
  BY <1>1 DEF vars, tables, redis, TypeOK
<1>2. ASSUME NEW q \in Requests, ChangeFind(q) PROVE TypeOK'
  <2>1. req[q].z \in Zones
    BY <1>2, ZoneOf DEF ChangeFind, At, ZonePC
  <2>2. req' \in [Requests -> Request]
    BY <1>2, ChangeFindOK, FinishOK DEF ChangeFind
  <2>3. QED BY <1>2, <2>1, <2>2 DEF ChangeFind, TypeOK, tables, redis
<1>3. ASSUME NEW q \in Requests, HandlerFails(q) PROVE TypeOK'
  <2>1. clash' \subseteq Zones
    <3>1. req[q].pc \in {"create.stock", "change.stock"} => req[q].z \in Zones
      BY ZoneOf DEF ZonePC
    <3>2. QED BY <1>3, <3>1 DEF HandlerFails, TypeOK
  <2>2. req' \in [Requests -> Request]
    BY <1>3, FinishOK DEF HandlerFails
  <2>3. QED BY <1>3, <2>1, <2>2 DEF HandlerFails, TypeOK, tables, redis
<1>4. ASSUME NEW c \in Concerts, CreateConcert(c) \/ OpenSale(c) PROVE TypeOK'
  BY <1>4 DEF CreateConcert, OpenSale, TypeOK, redis
<1>5. ASSUME NEW z \in Zones, Sell(z) PROVE TypeOK'
  <2>1. stock[z] - 1 \in Int /\ remain[z] - 1 \in Int /\ sold[z] + 1 \in Nat
    BY Held
  <2>2. stock' \in [Zones -> Int] /\ remain' \in [Zones -> Int] /\ sold' \in [Zones -> Nat]
    BY <1>5, <2>1, Held DEF Sell
  <2>3. QED BY <1>5, <2>2 DEF Sell, TypeOK
<1>6. QED
  BY <1>1, <1>2, <1>3, <1>4, <1>5, SendTypes, ConcertTypes, ZoneTypes DEF Next, Handler

\* Tables, keys and requests keep their types.
THEOREM ZoneTypeCorrect == ASSUME ZoneConstants PROVE Spec => []TypeOK
<1>1. QED BY TypeInit, TypeStep, PTL DEF Spec

-----------------------------------------------------------------------------
(* The books of a zone.                                                    *)

Changing == {"create.stock", "change.row", "change.stock"}

\* A request that has passed its check works on a zone that was created, and a
\* stock key is deleted after its zone.
Passed ==
    \A q \in Requests :
        /\ req[q].pc \in Changing \cup {"remove.row"} => zoneRow[req[q].z] # "none"
        /\ req[q].pc = "remove.stock" => zoneRow[req[q].z] = "deleted"

\* Where the seats of z are while q changes it.
During(q, z) ==
    CASE req[q].pc = "create.stock" ->
           z \notin keys /\ sold[z] = 0 /\ total[z] = req[q].new
      [] req[q].pc = "change.row" ->
           z \in keys /\ stock[z] = total[z] - sold[z] /\ total[z] = req[q].old
      [] req[q].pc = "change.stock" ->
           z \in keys /\ stock[z] = req[q].old - sold[z] /\ total[z] = req[q].new

\* One request at a time changes z.  Nothing is sold before there is a stock; what
\* was sold is missing from the stock, counted from the total that the change in
\* progress, if any, has read; and it may be missing from remainQuantity.
Books(z) ==
    /\ \A q, o \in Busy(z) : q = o
    /\ zoneRow[z] = "none" => z \notin keys /\ sold[z] = 0
    /\ ZoneExists(z) => total[z] - sold[z] <= remain[z] /\ remain[z] <= total[z]
    /\ ZoneExists(z) /\ Busy(z) = {} => z \in keys /\ stock[z] = total[z] - sold[z]
    /\ ZoneExists(z) => \A q \in Busy(z) : During(q, z)

BooksKept == Passed /\ \A z \in Zones \ clash : Books(z)

LEMMA BooksGiveProperties == ASSUME TypeOK, BooksKept PROVE SoldSeatsStayOut /\ RemainCoversStock
<1>1. ASSUME NEW z \in Zones \ clash, ZoneExists(z), Busy(z) = {}
      PROVE  /\ z \in keys /\ stock[z] = total[z] - sold[z]
             /\ stock[z] <= remain[z] /\ remain[z] <= total[z]
  BY <1>1 DEF BooksKept, Books
<1>2. QED BY <1>1 DEF SoldSeatsStayOut, RemainCoversStock

LEMMA BooksInit == Init => BooksKept
BY DEF Init, BooksKept, Passed, Books, Busy, Idle, ZoneExists, Changing

\* The books of a zone are kept by a step that changes neither the zone nor the
\* requests at work on it.  The zone may be deleted.
LEMMA BooksFrame ==
    ASSUME NEW z \in Zones, Books(z),
           zoneRow'[z] = zoneRow[z] \/ zoneRow'[z] = "deleted",
           total'[z] = total[z], remain'[z] = remain[z], stock'[z] = stock[z],
           sold'[z] = sold[z], z \in keys' <=> z \in keys,
           \A q \in Requests : req'[q] = req[q] \/ (q \notin Busy(z) /\ q \notin Busy(z)')
    PROVE  Books(z)'
<1>1. Busy(z)' = Busy(z) /\ \A q \in Busy(z) : req'[q] = req[q]
  BY DEF Busy
<1>2. \A q \in Busy(z) : During(q, z) => During(q, z)'
  BY <1>1 DEF During
<1>3. QED BY <1>1, <1>2 DEF Books, ZoneExists

\* A step of one request is no business of a zone it has not to do with.
LEMMA OtherZones ==
    ASSUME TypeOK, BooksKept, NEW q \in Requests, NEW w \in Zones,
           Passed', clash \subseteq clash',
           \A o \in Requests \ {q} : req'[o] = req[o],
           req[q].pc \in Changing => req[q].z = w,
           req'[q].pc \in Changing => req'[q].z = w,
           \A z \in Zones \ {w} :
              /\ zoneRow'[z] = zoneRow[z] \/ zoneRow'[z] = "deleted"
              /\ total'[z] = total[z] /\ remain'[z] = remain[z]
              /\ stock'[z] = stock[z] /\ sold'[z] = sold[z] /\ (z \in keys' <=> z \in keys),
           w \notin clash' => Books(w)'
    PROVE  BooksKept'
<1>1. ASSUME NEW z \in Zones \ clash', z # w PROVE Books(z)'
  <2>1. Books(z)
    BY <1>1 DEF BooksKept
  <2>2. \A o \in Requests : req'[o] = req[o] \/ (o \notin Busy(z) /\ o \notin Busy(z)')
    BY <1>1 DEF Busy, Changing
  <2>3. QED BY <1>1, <2>1, <2>2, BooksFrame
<1>2. QED BY <1>1 DEF BooksKept

\* A step of a request that is not at work on a zone and changes none.
LEMMA QuietRequest ==
    ASSUME TypeOK, BooksKept, NEW q \in Requests,
           UNCHANGED <<total, remain, stock, keys, sold>>, clash \subseteq clash',
           \A z \in Zones : \/ zoneRow'[z] = zoneRow[z]
                            \/ zoneRow[z] # "none" /\ zoneRow'[z] = "deleted",
           \A o \in Requests \ {q} : req'[o] = req[o],
           req[q].pc \notin Changing, req'[q].pc \notin Changing,
           req'[q].pc = "remove.row" => zoneRow'[req'[q].z] # "none",
           req'[q].pc = "remove.stock" => zoneRow'[req'[q].z] = "deleted"
    PROVE  BooksKept'
<1>1. Passed'
  <2>1. ASSUME NEW o \in Requests \ {q}
        PROVE  /\ req'[o].pc \in Changing \cup {"remove.row"} => zoneRow'[req'[o].z] # "none"
               /\ req'[o].pc = "remove.stock" => zoneRow'[req'[o].z] = "deleted"
    <3>1. req'[o] = req[o]
      BY <2>1
    <3>2. req[o].pc \in Changing \cup {"remove.row", "remove.stock"} => req[o].z \in Zones
      BY ZoneOf DEF Changing, ZonePC
    <3>3. QED BY <3>1, <3>2 DEF BooksKept, Passed
  <2>2. QED BY <2>1 DEF Passed
<1>2. ASSUME NEW z \in Zones \ clash' PROVE Books(z)'
  <2>1. Books(z)
    BY <1>2 DEF BooksKept
  <2>2. \A o \in Requests : req'[o] = req[o] \/ (o \notin Busy(z) /\ o \notin Busy(z)')
    BY DEF Busy, Changing
  <2>3. QED BY <2>1, <2>2, BooksFrame
<1>3. QED BY <1>1, <1>2 DEF BooksKept

\* The only request at work on a zone is the one that is.
LEMMA AtWork ==
    ASSUME TypeOK, BooksKept, NEW q \in Requests, req[q].pc \in Changing, req[q].z \notin clash
    PROVE  /\ req[q].z \in Zones /\ Books(req[q].z) /\ Busy(req[q].z) = {q}
           /\ zoneRow[req[q].z] # "none"
           /\ ZoneExists(req[q].z) => During(q, req[q].z)
<1>1. req[q].z \in Zones
  BY ZoneOf DEF Changing, ZonePC
<1>2. Books(req[q].z) /\ q \in Busy(req[q].z)
  BY <1>1 DEF BooksKept, Busy, Changing
<1>3. Busy(req[q].z) = {q}
  BY <1>2 DEF Books
<1>4. QED BY <1>1, <1>2, <1>3 DEF Books, BooksKept, Passed

\* Created zones stay created and deleted ones deleted, so that what a request
\* has checked still holds.
LEMMA PassedStep ==
    ASSUME TypeOK, Passed, NEW q \in Requests,
           \A o \in Requests \ {q} : req'[o] = req[o],
           \A z \in Zones : /\ zoneRow[z] # "none" => zoneRow'[z] # "none"
                            /\ zoneRow[z] = "deleted" => zoneRow'[z] = "deleted",
           req'[q].pc \in Changing \cup {"remove.row"} => zoneRow'[req'[q].z] # "none",
           req'[q].pc = "remove.stock" => zoneRow'[req'[q].z] = "deleted"
    PROVE  Passed'
<1>1. ASSUME NEW o \in Requests \ {q}
      PROVE  /\ req'[o].pc \in Changing \cup {"remove.row"} => zoneRow'[req'[o].z] # "none"
             /\ req'[o].pc = "remove.stock" => zoneRow'[req'[o].z] = "deleted"
  <2>1. req'[o] = req[o]
    BY <1>1
  <2>2. req[o].pc \in Changing \cup {"remove.row", "remove.stock"} => req[o].z \in Zones
    BY ZoneOf DEF Changing, ZonePC
  <2>3. QED BY <2>1, <2>2 DEF Passed
<1>2. QED BY <1>1 DEF Passed

-----------------------------------------------------------------------------
(* One lemma for each step that touches the books.                         *)

LEMMA BooksCreateInsert ==
    ASSUME TypeOK, BooksKept, NEW q \in Requests, NEW z \in Zones, z = req[q].z, CreateInsert(q)
    PROVE  BooksKept'
<1>1. z \in Zones /\ req[q].new \in Nat /\ req[q].pc \in ZonePC
  BY ZoneOf DEF CreateInsert, At, ZonePC
<1>2. req[q].pc \notin Changing
  BY DEF CreateInsert, At, Changing
<1>3. CASE Finish(q) /\ UNCHANGED <<zoneRow, total, remain>>
  BY <1>2, <1>3, FinishOK, QuietRequest DEF CreateInsert, redis, Changing
<1>4. CASE zoneRow[z] = "none" /\ Goto(q, "create.stock")
  <2>1. /\ zoneRow' = [zoneRow EXCEPT ![z] = "exists"]
        /\ total' = [total EXCEPT ![z] = req[q].new]
        /\ remain' = [remain EXCEPT ![z] = req[q].new]
        /\ UNCHANGED <<stock, keys, sold, clash>>
    BY <1>4, FinishOK, GotoZone, <1>1 DEF CreateInsert, redis, ZonePC
  <2>2. /\ req'[q].pc = "create.stock" /\ req'[q].z = z /\ req'[q].new = req[q].new
        /\ \A o \in Requests \ {q} : req'[o] = req[o]
    BY <1>1, <1>4, GotoZone DEF ZonePC
  <2>3. /\ zoneRow'[z] = "exists" /\ total'[z] = req[q].new /\ remain'[z] = req[q].new
        /\ \A w \in Zones \ {z} : /\ zoneRow'[w] = zoneRow[w]
                                 /\ total'[w] = total[w] /\ remain'[w] = remain[w]
    BY <1>1, <2>1, Held
  <2>4. Passed'
    BY <1>4, <2>2, <2>3, PassedStep DEF BooksKept
  <2>5. Busy(z) = {}
    BY <1>4 DEF BooksKept, Passed, Busy, Changing
  <2>6. Busy(z)' = {q}
    BY <2>2, <2>5 DEF Busy
  <2>7. z \notin clash => Books(z)'
    <3>1. SUFFICES ASSUME z \notin clash PROVE Books(z)'
      OBVIOUS
    <3>2. z \notin keys' /\ sold'[z] = 0
      BY <1>1, <1>4, <2>1, <3>1 DEF BooksKept, Books
    <3>3. During(q, z)'
      BY <2>2, <2>3, <3>2 DEF During
    <3>4. total'[z] - sold'[z] <= remain'[z] /\ remain'[z] <= total'[z]
      BY <1>1, <2>3, <3>2
    <3>5. QED BY <2>3, <2>6, <3>2, <3>3, <3>4 DEF Books
  <2>8. /\ req[q].pc \in Changing => req[q].z = z
        /\ req'[q].pc \in Changing => req'[q].z = z
    BY <2>2
  <2>9. QED BY <1>1, <2>1, <2>2, <2>3, <2>4, <2>7, <2>8, OtherZones
<1>5. QED BY <1>3, <1>4 DEF CreateInsert

LEMMA BooksCreateStock ==
    ASSUME TypeOK, BooksKept, NEW q \in Requests, NEW z \in Zones, z = req[q].z, CreateStock(q)
    PROVE  BooksKept'
<1>1. z \in Zones /\ req[q].new \in Nat /\ req[q].pc = "create.stock"
  BY ZoneOf DEF CreateStock, At, ZonePC
<1>2. /\ stock' = [stock EXCEPT ![z] = req[q].new] /\ keys' = keys \cup {z}
      /\ UNCHANGED <<zoneRow, total, remain, sold, clash>>
  BY DEF CreateStock, tables
<1>3. req'[q].pc = "idle" /\ \A o \in Requests \ {q} : req'[o] = req[o]
  BY FinishOK DEF CreateStock
<1>4. stock'[z] = req[q].new /\ \A w \in Zones \ {z} : stock'[w] = stock[w]
  BY <1>1, <1>2, Held
<1>5. Passed'
  BY <1>2, <1>3, PassedStep DEF BooksKept, Changing
<1>6. z \notin clash => Books(z)'
  <2>1. SUFFICES ASSUME z \notin clash PROVE Books(z)'
    OBVIOUS
  <2>2. Books(z) /\ Busy(z) = {q} /\ zoneRow[z] # "none" /\ (ZoneExists(z) => During(q, z))
    BY <1>1, <2>1, AtWork DEF Changing
  <2>3. Busy(z)' = {}
    BY <1>3, <2>2 DEF Busy
  <2>4. ZoneExists(z) => stock'[z] = total[z] - sold[z]
    BY <1>1, <1>4, <2>2, Held DEF During
  <2>5. QED BY <1>2, <2>2, <2>3, <2>4 DEF Books, ZoneExists
<1>7. /\ req[q].pc \in Changing => req[q].z = z
      /\ req'[q].pc \in Changing => req'[q].z = z
  BY <1>3 DEF Changing
<1>8. QED BY <1>1, <1>2, <1>3, <1>4, <1>5, <1>6, <1>7, OtherZones

LEMMA BooksChangeFind ==
    ASSUME TypeOK, BooksKept, NEW q \in Requests, NEW z \in Zones, z = req[q].z, ChangeFind(q)
    PROVE  BooksKept'
<1>1. z \in Zones /\ req[q].pc = "change.find"
  BY ZoneOf DEF ChangeFind, At, ZonePC
<1>2. UNCHANGED <<zoneRow, total, remain, stock, keys, sold>> /\ clash \subseteq clash'
  BY DEF ChangeFind, tables, redis
<1>3. CASE ~ZoneExists(z)
  BY <1>1, <1>2, <1>3, FinishOK, QuietRequest DEF ChangeFind, Changing
<1>4. CASE ZoneExists(z)
  <2>1. /\ req'[q].pc = "change.row" /\ req'[q].z = z /\ req'[q].old = total[z]
        /\ \A o \in Requests \ {q} : req'[o] = req[o]
        /\ clash' = IF Busy(z) # {} THEN clash \cup {z} ELSE clash
    BY <1>4, ChangeFindOK DEF ChangeFind
  <2>2. Passed'
    BY <1>2, <1>4, <2>1, PassedStep DEF BooksKept, ZoneExists
  <2>3. z \notin clash' => Books(z)'
    <3>1. SUFFICES ASSUME z \notin clash' PROVE Books(z)'
      OBVIOUS
    <3>2. Busy(z) = {} /\ Books(z)
      BY <1>1, <2>1, <3>1 DEF BooksKept
    <3>3. Busy(z)' = {q}
      BY <2>1, <3>2 DEF Busy
    <3>4. During(q, z)'
      BY <1>2, <1>4, <2>1, <3>2 DEF During, Books
    <3>5. QED BY <1>2, <1>4, <3>2, <3>3, <3>4 DEF Books, ZoneExists
  <2>4. /\ req[q].pc \in Changing => req[q].z = z
        /\ req'[q].pc \in Changing => req'[q].z = z
    BY <2>1
  <2>5. QED BY <1>1, <1>2, <2>1, <2>2, <2>3, <2>4, OtherZones
<1>5. QED BY <1>3, <1>4

LEMMA BooksChangeRow ==
    ASSUME TypeOK, BooksKept, NEW q \in Requests, NEW z \in Zones, z = req[q].z, ChangeRow(q)
    PROVE  BooksKept'
<1>1. z \in Zones /\ req[q].new \in Nat /\ req[q].pc = "change.row" /\ req[q].pc \in ZonePC
  BY ZoneOf DEF ChangeRow, At, ZonePC
<1>2. UNCHANGED <<zoneRow, stock, keys, sold, clash>>
  BY DEF ChangeRow, redis
<1>3. /\ req'[q].pc \in {"idle", "change.stock"}
      /\ req'[q].pc # "idle" => /\ ZoneExists(z) /\ req'[q].z = z
                               /\ req'[q].old = req[q].old /\ req'[q].new = req[q].new
                               /\ total'[z] = req[q].new /\ remain'[z] = req[q].new
      /\ req'[q].pc = "idle" => ~ZoneExists(z)
      /\ \A o \in Requests \ {q} : req'[o] = req[o]
      /\ \A w \in Zones \ {z} : total'[w] = total[w] /\ remain'[w] = remain[w]
  <2>1. CASE ZoneExists(z)
    <3>1. /\ total' = [total EXCEPT ![z] = req[q].new]
          /\ remain' = [remain EXCEPT ![z] = req[q].new]
          /\ Goto(q, "change.stock")
      BY <2>1 DEF ChangeRow
    <3>2. /\ total'[z] = req[q].new /\ remain'[z] = req[q].new
          /\ \A w \in Zones \ {z} : total'[w] = total[w] /\ remain'[w] = remain[w]
      BY <1>1, <3>1, Held
    <3>3. QED BY <1>1, <2>1, <3>1, <3>2, GotoZone DEF ZonePC
  <2>2. CASE ~ZoneExists(z)
    BY <2>2, FinishOK DEF ChangeRow
  <2>3. QED BY <2>1, <2>2
<1>4. Passed'
  BY <1>2, <1>3, PassedStep DEF BooksKept, Changing, ZoneExists
<1>5. z \notin clash => Books(z)'
  <2>1. SUFFICES ASSUME z \notin clash PROVE Books(z)'
    OBVIOUS
  <2>2. Books(z) /\ Busy(z) = {q} /\ zoneRow[z] # "none" /\ (ZoneExists(z) => During(q, z))
    BY <1>1, <2>1, AtWork DEF Changing
  <2>3. Busy(z)' = IF req'[q].pc = "idle" THEN {} ELSE {q}
    BY <1>3, <2>2 DEF Busy
  <2>4. CASE ~ZoneExists(z)
    BY <1>2, <2>2, <2>3, <2>4 DEF Books, ZoneExists
  <2>5. CASE ZoneExists(z)
    <3>1. During(q, z)'
      BY <1>1, <1>2, <1>3, <2>2, <2>5 DEF During
    <3>2. total'[z] - sold'[z] <= remain'[z] /\ remain'[z] <= total'[z]
      BY <1>1, <1>2, <1>3, <2>5, Held
    <3>3. QED BY <1>2, <1>3, <2>2, <2>3, <2>5, <3>1, <3>2 DEF Books, ZoneExists
  <2>6. QED BY <2>4, <2>5
<1>6. /\ req[q].pc \in Changing => req[q].z = z
      /\ req'[q].pc \in Changing => req'[q].z = z
  BY <1>3 DEF Changing
<1>7. QED BY <1>1, <1>2, <1>3, <1>4, <1>5, <1>6, OtherZones

LEMMA BooksChangeStock ==
    ASSUME TypeOK, BooksKept, NEW q \in Requests, NEW z \in Zones, z = req[q].z, ChangeStock(q)
    PROVE  BooksKept'
<1>1. req[q].old \in Nat /\ req[q].new \in Nat /\ req[q].pc = "change.stock"
  BY ZoneOf DEF ChangeStock, At, ZonePC
<1>2. /\ stock' = [stock EXCEPT ![z] = (IF z \in keys THEN @ ELSE 0) + req[q].new - req[q].old]
      /\ keys' = keys \cup {z}
      /\ UNCHANGED <<zoneRow, total, remain, sold, clash>>
  BY DEF ChangeStock, tables
<1>3. req'[q].pc = "idle" /\ \A o \in Requests \ {q} : req'[o] = req[o]
  BY FinishOK DEF ChangeStock
<1>4. /\ stock'[z] = (IF z \in keys THEN stock[z] ELSE 0) + req[q].new - req[q].old
      /\ \A w \in Zones \ {z} : stock'[w] = stock[w]
  BY <1>2, Held
<1>5. Passed'
  BY <1>2, <1>3, PassedStep DEF BooksKept, Changing
<1>6. z \notin clash => Books(z)'
  <2>1. SUFFICES ASSUME z \notin clash PROVE Books(z)'
    OBVIOUS
  <2>2. Books(z) /\ Busy(z) = {q} /\ zoneRow[z] # "none" /\ (ZoneExists(z) => During(q, z))
    BY <1>1, <2>1, AtWork DEF Changing
  <2>3. Busy(z)' = {}
    BY <1>3, <2>2 DEF Busy
  <2>4. ZoneExists(z) => stock'[z] = total[z] - sold[z]
    <3>1. ZoneExists(z) => z \in keys /\ stock[z] = req[q].old - sold[z] /\ total[z] = req[q].new
      BY <1>1, <2>2 DEF During
    <3>2. QED BY <1>1, <1>4, <3>1, Held
  <2>5. QED BY <1>2, <2>2, <2>3, <2>4 DEF Books, ZoneExists
<1>7. req'[q].pc \notin Changing
  BY <1>3 DEF Changing
<1>8. QED BY <1>2, <1>3, <1>4, <1>5, <1>6, <1>7, OtherZones

LEMMA BooksRemove ==
    ASSUME TypeOK, BooksKept, NEW q \in Requests, NEW z \in Zones, z = req[q].z,
           RemoveRow(q) \/ RemoveStock(q)
    PROVE  BooksKept'
<1>1. CASE RemoveRow(q)
  <2>1. /\ req[q].pc = "remove.row" /\ zoneRow[z] # "none"
        /\ zoneRow' = [zoneRow EXCEPT ![z] = "deleted"]
        /\ UNCHANGED <<total, remain, stock, keys, sold, clash>>
    BY <1>1 DEF RemoveRow, At, redis, BooksKept, Passed
  <2>2. /\ req'[q].pc = "idle" \/ (req'[q].pc = "remove.stock" /\ req'[q].z = z)
        /\ \A o \in Requests \ {q} : req'[o] = req[o]
    BY <1>1, <2>1, FinishOK, GotoZone DEF RemoveRow, Unless, ZonePC
  <2>3. zoneRow'[z] = "deleted" /\ \A w \in Zones \ {z} : zoneRow'[w] = zoneRow[w]
    BY <2>1, Held
  <2>4. QED BY <2>1, <2>2, <2>3, QuietRequest DEF Changing
<1>2. CASE RemoveStock(q)
  <2>1. /\ req[q].pc = "remove.stock" /\ zoneRow[z] = "deleted"
        /\ keys' = keys \ {z}
        /\ UNCHANGED <<zoneRow, total, remain, stock, sold, clash>>
    BY <1>2 DEF RemoveStock, At, tables, BooksKept, Passed
  <2>2. req'[q].pc = "idle" /\ \A o \in Requests \ {q} : req'[o] = req[o]
    BY <1>2, FinishOK DEF RemoveStock
  <2>3. Passed'
    BY <2>1, <2>2, PassedStep DEF BooksKept, Changing
  <2>4. Busy(z)' = Busy(z)
    BY <2>1, <2>2 DEF Busy
  <2>5. z \notin clash => Books(z)'
    BY <2>1, <2>4 DEF BooksKept, Books, ZoneExists
  <2>6. QED BY <2>1, <2>2, <2>3, <2>5, OtherZones DEF Changing
<1>3. QED BY <1>1, <1>2

\* A handler that stops between two stores leaves the books wrong, and the zone in
\* clash; anywhere else it leaves them as they were.
LEMMA BooksFail ==
    ASSUME TypeOK, BooksKept, NEW q \in Requests, HandlerFails(q)
    PROVE  BooksKept'
<1>1. /\ UNCHANGED <<zoneRow, total, remain, stock, keys, sold>>
      /\ req'[q].pc = "idle" /\ \A o \in Requests \ {q} : req'[o] = req[o]
      /\ clash' = IF req[q].pc \in {"create.stock", "change.stock"}
                  THEN clash \cup {req[q].z} ELSE clash
  BY FinishOK DEF HandlerFails, tables, redis
<1>2. CASE req[q].pc \notin Changing
  BY <1>1, <1>2, QuietRequest DEF Changing
<1>3. CASE req[q].pc \in Changing
  <2>1. PICK z \in Zones : z = req[q].z
    BY <1>3, ZoneOf DEF Changing, ZonePC
  <2>2. Passed'
    BY <1>1, PassedStep DEF BooksKept, Changing
  <2>3. z \notin clash' => Books(z)'
    <3>1. SUFFICES ASSUME z \notin clash' PROVE Books(z)'
      OBVIOUS
    <3>2. z \notin clash /\ req[q].pc = "change.row"
      BY <1>1, <1>3, <2>1, <3>1 DEF Changing
    <3>3. Books(z) /\ Busy(z) = {q} /\ zoneRow[z] # "none" /\ (ZoneExists(z) => During(q, z))
      BY <1>3, <2>1, <3>2, AtWork
    <3>4. Busy(z)' = {}
      BY <1>1, <3>3 DEF Busy
    <3>5. ZoneExists(z) => z \in keys /\ stock[z] = total[z] - sold[z]
      BY <3>2, <3>3 DEF During
    <3>6. QED BY <1>1, <3>3, <3>4, <3>5 DEF Books, ZoneExists
  <2>4. req'[q].pc \notin Changing
    BY <1>1 DEF Changing
  <2>5. clash \subseteq clash'
    BY <1>1
  <2>6. QED BY <1>1, <2>1, <2>2, <2>3, <2>4, <2>5, OtherZones
<1>4. QED BY <1>2, <1>3

LEMMA BooksSell ==
    ASSUME TypeOK, BooksKept, NEW z \in Zones, Sell(z)
    PROVE  BooksKept'
<1>1. /\ stock'[z] = stock[z] - 1 /\ remain'[z] = remain[z] - 1 /\ sold'[z] = sold[z] + 1
      /\ \A w \in Zones \ {z} :
            stock'[w] = stock[w] /\ remain'[w] = remain[w] /\ sold'[w] = sold[w]
  BY Held DEF Sell
<1>2. UNCHANGED <<zoneRow, total, keys, req, clash>> /\ ZoneExists(z) /\ z \in keys /\ z \notin clash
  BY DEF Sell
<1>3. Passed'
  BY <1>2 DEF BooksKept, Passed
<1>4. ASSUME NEW w \in Zones \ clash', w # z PROVE Books(w)'
  <2>1. Books(w)
    BY <1>2, <1>4 DEF BooksKept
  <2>2. QED BY <1>1, <1>2, <1>4, <2>1, BooksFrame
<1>5. Books(z)'
  <2>1. Books(z)
    BY <1>2 DEF BooksKept
  <2>2. Busy(z)' = Busy(z)
    BY <1>2 DEF Busy
  <2>3. ASSUME NEW q \in Busy(z) PROVE During(q, z)'
    <3>1. During(q, z)
      BY <1>2, <2>1, <2>3 DEF Books
    <3>2. q \in Requests /\ req[q].pc \in Changing
      BY <2>3 DEF Busy, Changing
    <3>3. req[q].old \in Nat /\ req[q].new \in Nat
      BY <3>2, ZoneOf DEF Changing, ZonePC
    <3>4. /\ req'[q] = req[q] /\ total'[z] = total[z] /\ keys' = keys /\ z \in keys
          /\ sold'[z] = sold[z] + 1 /\ stock'[z] = stock[z] - 1
          /\ sold[z] \in Nat /\ stock[z] \in Int /\ total[z] \in Nat
      BY <1>1, <1>2, Held
    <3>5. CASE req[q].pc = "change.row"
      BY <3>1, <3>4, <3>5 DEF During
    <3>6. CASE req[q].pc = "change.stock"
      BY <3>1, <3>3, <3>4, <3>6 DEF During
    <3>7. QED BY <3>1, <3>2, <3>4, <3>5, <3>6 DEF During, Changing
  <2>4. total'[z] - sold'[z] <= remain'[z] /\ remain'[z] <= total'[z]
    BY <1>1, <1>2, <2>1, Held DEF Books
  <2>5. Busy(z) = {} => stock'[z] = total'[z] - sold'[z]
    BY <1>1, <1>2, <2>1, Held DEF Books
  <2>6. QED BY <1>2, <2>1, <2>2, <2>3, <2>4, <2>5 DEF Books, ZoneExists
<1>6. QED BY <1>2, <1>3, <1>4, <1>5 DEF BooksKept

LEMMA BooksSend ==
    ASSUME ZoneConstants, TypeOK, BooksKept, NEW q \in Requests,
           \/ \E c \in Concerts : SendConcert(q, c)
           \/ \E z \in Zones, n \in Quantities : SendZone(q, z, n)
    PROVE  BooksKept'
<1> DEFINE First == {"update.find", "delete.find", "create.find", "change.find", "remove.find"}
<1>1. PICK r : Send(q, r) /\ r.pc \in First
  <2>1. CASE \E c \in Concerts : SendConcert(q, c)
    <3>1. PICK c \in Concerts, pc \in {"update.find", "delete.find"} : Send(q, [pc |-> pc, c |-> c])
      BY <2>1 DEF SendConcert
    <3>2. QED BY <3>1
  <2>2. CASE \E z \in Zones, n \in Quantities : SendZone(q, z, n)
    <3>1. PICK z \in Zones, n \in Quantities, pc \in {"create.find", "change.find", "remove.find"} :
             Send(q, [pc |-> pc, z |-> z, old |-> 0, new |-> n])
      BY <2>2 DEF SendZone
    <3>2. QED BY <3>1
  <2>3. QED BY <2>1, <2>2
<1>2. req[q] = Idle /\ UNCHANGED <<zoneRow, total, remain, stock, keys, sold, clash>>
  BY <1>1 DEF Send, tables, redis
<1>3. req'[q] = r /\ \A o \in Requests \ {q} : req'[o] = req[o]
  BY <1>1 DEF Send, TypeOK
<1>4. QED BY <1>1, <1>2, <1>3, QuietRequest DEF Changing, Idle

LEMMA BooksConcert ==
    ASSUME TypeOK, BooksKept, NEW q \in Requests, UpdateConcert(q) \/ DeleteFind(q) \/ DeleteRow(q)
    PROVE  BooksKept'
<1>1. /\ req[q].pc \in ConcertPC
      /\ Finish(q) \/ \E pc \in ConcertPC : Goto(q, pc)
      /\ UNCHANGED <<total, remain, stock, keys, sold, clash>>
  BY DEF UpdateConcert, DeleteFind, DeleteRow, Unless, At, ConcertPC, tables, redis
<1>2. /\ req'[q].pc \in ConcertPC \cup {"idle"}
      /\ \A o \in Requests \ {q} : req'[o] = req[o]
  BY <1>1, FinishOK, GotoConcert
<1>3. \A z \in Zones : \/ zoneRow'[z] = zoneRow[z]
                       \/ zoneRow[z] # "none" /\ zoneRow'[z] = "deleted"
  BY DEF UpdateConcert, DeleteFind, DeleteRow, tables, ZoneExists
<1>4. QED BY <1>1, <1>2, <1>3, QuietRequest DEF Changing, ConcertPC

LEMMA BooksCheck ==
    ASSUME TypeOK, BooksKept, NEW q \in Requests, CreateCheck(q) \/ RemoveFind(q)
    PROVE  BooksKept'
<1>1. req[q].pc \in {"create.find", "create.name", "remove.find"} /\ req[q].pc \in ZonePC
  BY DEF CreateCheck, RemoveFind, At, ZonePC
<1>2. UNCHANGED <<zoneRow, total, remain, stock, keys, sold, clash>>
  BY DEF CreateCheck, RemoveFind, tables, redis
<1>3. \/ Finish(q)
      \/ Goto(q, "create.name") \/ Goto(q, "create.insert")
      \/ Goto(q, "remove.row") /\ ZoneExists(req[q].z)
  BY DEF CreateCheck, RemoveFind, Unless
<1>4. /\ req'[q].pc \in {"idle", "create.name", "create.insert", "remove.row"}
      /\ req'[q].pc = "remove.row" => zoneRow'[req'[q].z] # "none"
      /\ \A o \in Requests \ {q} : req'[o] = req[o]
  BY <1>1, <1>2, <1>3, FinishOK, GotoZone DEF ZonePC, ZoneExists
<1>5. QED BY <1>1, <1>2, <1>4, QuietRequest DEF Changing

LEMMA BooksStep == ASSUME ZoneConstants, TypeOK, BooksKept, [Next]_vars PROVE BooksKept'
<1>1. ASSUME UNCHANGED <<zoneRow, total, remain, stock, keys, req, sold, clash>> PROVE BooksKept'
  <2>1. Passed'
    BY <1>1 DEF BooksKept, Passed
  <2>2. ASSUME NEW z \in Zones \ clash' PROVE Books(z)'
    <3>1. Books(z)
      BY <1>1, <2>2 DEF BooksKept
    <3>2. QED BY <1>1, <3>1, BooksFrame
  <2>3. QED BY <2>1, <2>2 DEF BooksKept
<1>2. ASSUME \/ UNCHANGED vars
             \/ \E c \in Concerts : CreateConcert(c) \/ OpenSale(c)
      PROVE  BooksKept'
  BY <1>1, <1>2 DEF CreateConcert, OpenSale, vars, tables, redis
<1>3. ASSUME NEW q \in Requests,
             \/ CreateInsert(q) \/ CreateStock(q) \/ ChangeFind(q) \/ ChangeRow(q)
             \/ ChangeStock(q) \/ RemoveRow(q) \/ RemoveStock(q)
      PROVE  BooksKept'
  <2>1. PICK z \in Zones : z = req[q].z
    BY <1>3, ZoneOf DEF CreateInsert, CreateStock, ChangeFind, ChangeRow, ChangeStock,
                        RemoveRow, RemoveStock, At, ZonePC
  <2>2. QED BY <1>3, <2>1, BooksCreateInsert, BooksCreateStock, BooksChangeFind, BooksChangeRow,
               BooksChangeStock, BooksRemove
<1>4. QED
  BY <1>2, <1>3, BooksFail, BooksSell, BooksSend, BooksConcert, BooksCheck, Zenon
     DEF Next, Handler

LEMMA BooksAlways == ASSUME ZoneConstants PROVE Spec => [](TypeOK /\ BooksKept)
<1>1. Init => TypeOK /\ BooksKept
  BY TypeInit, BooksInit
<1>2. TypeOK /\ BooksKept /\ [Next]_vars => (TypeOK /\ BooksKept)'
  BY TypeStep, BooksStep
<1>3. QED BY <1>1, <1>2, PTL DEF Spec

\* The seats that were sold stay out of a zone's stock however often its total is
\* changed, whatever is sold between a change's read and its INCRBY, as long as
\* its changes do not overlap and none stops half way.
THEOREM SoldSeatsStayOutCorrect == ASSUME ZoneConstants PROVE Spec => []SoldSeatsStayOut
<1>1. TypeOK /\ BooksKept => SoldSeatsStayOut
  BY BooksGiveProperties
<1>2. QED BY <1>1, BooksAlways, PTL

\* The seats a zone shows as remaining cover those that can be taken, although a
\* change of the total writes over what the sales have subtracted.
THEOREM RemainCoversStockCorrect == ASSUME ZoneConstants PROVE Spec => []RemainCoversStock
<1>1. TypeOK /\ BooksKept => RemainCoversStock
  BY BooksGiveProperties
<1>2. QED BY <1>1, BooksAlways, PTL

=============================================================================
