--------------------------- MODULE SeatReservation ---------------------------
(***************************************************************************)
(* Taking, paying, extending, cancelling and expiring reservations:        *)
(* reservation.service.ts over PostgreSQL (reservations, payments, the     *)
(* zone's remainQuantity) and Redis (each zone's stock, the lock of a user *)
(* on a zone), with the delayed expiry jobs of reservation.worker.ts.      *)
(*                                                                         *)
(* A reservation r is one POST /reservations.  A handler h runs one        *)
(* request, one webhook, or (Expirer) the job the expiry worker is at;     *)
(* every database call, Redis call or Lua script is a step of its own, as  *)
(* the Node process interleaves its handlers at every await.               *)
(***************************************************************************)
EXTENDS Integers, FiniteSets

CONSTANTS
    Users, Zones,
    Reservations,  \* the POST /reservations the users send
    Owner, Zone,   \* the user and the zone of each of them
    Qty,           \* the number of seats of each of them
    Total,         \* totalQuantity of each zone
    Handlers,      \* the requests and webhooks that can be in progress at once
    Expirer,       \* the expiry worker (BullMQ concurrency 1)
    NoRes,         \* not a reservation
    MaxReturns,    \* bound: no handler passes the check of a reservation whose
                   \*   seats were given back that many times too often
    MaxFaults      \* bound: crashes of the process and failing calls

ASSUME SeatConstants ==
    /\ Owner \in [Reservations -> Users]
    /\ Zone \in [Reservations -> Zones]
    /\ Qty \in [Reservations -> Nat \ {0}]
    /\ Total \in [Zones -> Nat]
    /\ NoRes \notin Reservations
    /\ Expirer \notin Handlers
    /\ MaxReturns \in Nat
    /\ MaxFaults \in Nat

VARIABLES
    stock,     \* Redis: zone:<z>:stock
    lock,      \* Redis: zone:<z>:lock:<u>, the reservation stored in it or NoRes
    ending,    \* the locks with at most EXTEND_THRESHOLD seconds to live
    status,    \* DB: status of each reservation, "none" before it is created
    extended,  \* DB: the reservations whose extendedAt is set
    payment,   \* DB: status of each reservation's payment, "none" without one
    remain,    \* DB: remainQuantity of each zone
    job,       \* BullMQ: the job expiry_<r>, see JobState
    admitted,  \* Redis: users with an admitted key
    hnd,       \* the handlers in progress
    faults,    \* history: faults so far
    taken,     \* history: how many times the seats of r are out of the stock
    disturbed  \* history: see Disturb

db == <<status, extended, payment, remain>>
redis == <<stock, lock, ending, taken>>
vars == <<stock, lock, ending, status, extended, payment, remain, job, admitted,
          hnd, faults, taken, disturbed>>

-----------------------------------------------------------------------------
AllHandlers == Handlers \cup {Expirer}

Key(r) == <<Zone[r], Owner[r]>>

Settled == {"CONFIRMED", "CANCELLED", "EXPIRED"}

\* A job is delayed 300 s, as long as a lock lives from SET or EXPIRE.  Held:
\* the lock that was there when the job was added is still there and was not
\* renewed since, so the job is not due yet.  The last jobs that ended are kept.
JobState == {"none", "held", "delayed", "active", "ended"}

CreatePC == {"create.insert", "create.preempt", "create.refuse",
             "create.consumeRefused", "create.job", "create.payment",
             "create.consume", "create.undo", "create.cancel"}
CancelPC == {"cancel.release", "cancel.job", "cancel.status", "cancel.payment"}
ExtendPC == {"extend.ttl", "extend.expire", "extend.remove", "extend.add",
             "extend.status"}
DonePC == {"done.tx", "done.remain", "done.lock", "done.job"}
FailPC == {"fail.tx", "fail.release", "fail.job"}
ExpirePC == {"expire.find", "expire.status", "expire.payment", "expire.release",
             "expire.admit"}

HandlerPC == CreatePC \cup CancelPC \cup ExtendPC \cup DonePC \cup FailPC

Idle == [pc |-> "idle", r |-> NoRes]
HandlerState == {Idle} \cup [pc : HandlerPC, r : Reservations]
WorkerState == {Idle} \cup [pc : ExpirePC, r : Reservations]

TypeOK ==
    /\ stock \in [Zones -> Int]
    /\ lock \in [Zones \X Users -> Reservations \cup {NoRes}]
    /\ ending \subseteq Zones \X Users
    /\ status \in [Reservations -> {"none", "PENDING"} \cup Settled]
    /\ extended \subseteq Reservations
    /\ payment \in [Reservations -> {"none", "READY", "DONE", "CANCELLED", "FAILED"}]
    /\ remain \in [Zones -> Int]
    /\ job \in [Reservations -> JobState]
    /\ admitted \subseteq Users
    /\ hnd \in [AllHandlers -> HandlerState \cup WorkerState]
    /\ \A h \in Handlers : hnd[h] \in HandlerState
    /\ hnd[Expirer] \in WorkerState
    /\ faults \in 0..MaxFaults
    /\ taken \in [Reservations -> Int]
    /\ disturbed \subseteq Reservations

Init ==
    /\ stock = Total
    /\ lock = [k \in Zones \X Users |-> NoRes]
    /\ ending = {}
    /\ status = [r \in Reservations |-> "none"]
    /\ extended = {}
    /\ payment = [r \in Reservations |-> "none"]
    /\ remain = Total
    /\ job = [r \in Reservations |-> "none"]
    /\ admitted = {}
    /\ hnd = [h \in AllHandlers |-> Idle]
    /\ faults = 0
    /\ taken = [r \in Reservations |-> 0]
    /\ disturbed = {}

-----------------------------------------------------------------------------
(* Handlers.                                                               *)

At(h, pc) == hnd[h].pc = pc

Goto(h, pc) == hnd' = [hnd EXCEPT ![h].pc = pc]

Finish(h) == hnd' = [hnd EXCEPT ![h] = Idle]

\* Some handler of r is past its checks and not at its end.  A job that the
\* worker has only taken is not.
InProgress(r) == \E h \in AllHandlers : hnd[h].r = r /\ ~At(h, "expire.find")

\* The reservations whose handlers overlapped, or failed half way.
Disturb(r) == disturbed' = disturbed \cup {r}

\* A handler reads that r is PENDING and goes on to pc.
PassCheck(h, r, pc) ==
    /\ status[r] = "PENDING"
    /\ h # Expirer => taken[r] > -MaxReturns
    /\ hnd' = [hnd EXCEPT ![h] = [pc |-> pc, r |-> r]]
    /\ IF InProgress(r) THEN Disturb(r) ELSE UNCHANGED disturbed

(* The repository: Lua scripts, lock and job.                              *)

\* Jobs behind the lock k are due once the lock is gone or renewed.
Unhold(jobs, k) ==
    [r \in Reservations |-> IF Key(r) = k /\ jobs[r] = "held" THEN "delayed" ELSE jobs[r]]

DeleteLock(k) ==
    /\ lock' = [lock EXCEPT ![k] = NoRes]
    /\ ending' = ending \ {k}
    /\ job' = Unhold(job, k)

\* Mutant of ReleaseStock: one seat is given back whatever the quantity.
ReleaseStock_One(r) ==
    /\ stock' = [stock EXCEPT ![Zone[r]] = @ + 1]
    /\ taken' = [taken EXCEPT ![r] = @ - 1]
    /\ DeleteLock(Key(r))

\* RELEASE_SCRIPT: INCRBY and DEL, whoever holds the lock.
ReleaseStock(r) ==
    /\ stock' = [stock EXCEPT ![Zone[r]] = @ + Qty[r]]
    /\ taken' = [taken EXCEPT ![r] = @ - 1]
    /\ DeleteLock(Key(r))

\* BullMQ ignores a job whose id exists.
AddJob(r) ==
    job' = [job EXCEPT ![r] = IF @ # "none" THEN @
                              ELSE IF lock[Key(r)] # NoRes THEN "held" ELSE "delayed"]

\* job.remove() throws on a job that a worker is running.
RemoveJob(r) ==
    /\ job[r] # "active"
    /\ job' = [job EXCEPT ![r] = "none"]

-----------------------------------------------------------------------------
(* createReservation.                                                      *)

\* The zone is found and the user is admitted; otherwise 404 or 403.
CreateIsAdmitted(h, r) ==
    /\ hnd[h] = Idle
    /\ status[r] = "none" /\ ~InProgress(r)
    /\ Owner[r] \in admitted
    /\ hnd' = [hnd EXCEPT ![h] = [pc |-> "create.insert", r |-> r]]
    /\ UNCHANGED <<db, redis, job, admitted, faults, disturbed>>

CreateInsert(h) ==
    /\ At(h, "create.insert")
    /\ status' = [status EXCEPT ![hnd[h].r] = "PENDING"]
    /\ Goto(h, "create.preempt")
    /\ UNCHANGED <<extended, payment, remain, redis, job, admitted, faults, disturbed>>

\* Mutant of CreatePreempt: the stock is not compared with the quantity.
CreatePreempt_Unchecked(h) ==
    LET r == hnd[h].r IN
    /\ At(h, "create.preempt")
    /\ IF lock[Key(r)] # NoRes
         THEN /\ Goto(h, "create.refuse")
              /\ UNCHANGED redis
         ELSE /\ stock' = [stock EXCEPT ![Zone[r]] = @ - Qty[r]]
              /\ taken' = [taken EXCEPT ![r] = @ + 1]
              /\ lock' = [lock EXCEPT ![Key(r)] = r]
              /\ Goto(h, "create.job")
              /\ UNCHANGED ending
    /\ UNCHANGED <<db, job, admitted, faults, disturbed>>

\* PREEMPT_SCRIPT.
CreatePreempt(h) ==
    LET r == hnd[h].r IN
    /\ At(h, "create.preempt")
    /\ IF stock[Zone[r]] < Qty[r] \/ lock[Key(r)] # NoRes
         THEN /\ Goto(h, "create.refuse")
              /\ UNCHANGED redis
         ELSE /\ stock' = [stock EXCEPT ![Zone[r]] = @ - Qty[r]]
              /\ taken' = [taken EXCEPT ![r] = @ + 1]
              /\ lock' = [lock EXCEPT ![Key(r)] = r]
              /\ Goto(h, "create.job")
              /\ UNCHANGED ending
    /\ UNCHANGED <<db, job, admitted, faults, disturbed>>

\* Mutant of CreateRefuse: the record of a refused attempt stays PENDING.
CreateRefuse_NoRollback(h) ==
    /\ At(h, "create.refuse")
    /\ Goto(h, "create.consumeRefused")
    /\ UNCHANGED <<db, redis, job, admitted, faults, disturbed>>

CreateRefuse(h) ==
    /\ At(h, "create.refuse")
    /\ status' = [status EXCEPT ![hnd[h].r] = "CANCELLED"]
    /\ Goto(h, "create.consumeRefused")
    /\ UNCHANGED <<extended, payment, remain, redis, job, admitted, faults, disturbed>>

\* The admission is used up by a refused and by a successful attempt alike.
CreateConsume(h) ==
    /\ At(h, "create.consumeRefused") \/ At(h, "create.consume")
    /\ admitted' = admitted \ {Owner[hnd[h].r]}
    /\ Finish(h)
    /\ UNCHANGED <<db, redis, job, faults, disturbed>>

\* Mutant of CreateAddJob: no expiry job.
CreateAddJob_Forgotten(h) ==
    /\ At(h, "create.job")
    /\ Goto(h, "create.payment")
    /\ UNCHANGED <<db, redis, job, admitted, faults, disturbed>>

CreateAddJob(h) ==
    /\ At(h, "create.job")
    /\ AddJob(hnd[h].r)
    /\ Goto(h, "create.payment")
    /\ UNCHANGED <<db, redis, admitted, faults, disturbed>>

CreatePayment(h) ==
    /\ At(h, "create.payment")
    /\ payment' = [payment EXCEPT ![hnd[h].r] = "READY"]
    /\ Goto(h, "create.consume")
    /\ UNCHANGED <<status, extended, remain, redis, job, admitted, faults, disturbed>>

\* One of the three calls after the preemption throws: the catch block gives
\* the seats back and cancels.
CreateCatch(h) ==
    /\ faults < MaxFaults
    /\ hnd[h].pc \in {"create.job", "create.payment", "create.consume"}
    /\ faults' = faults + 1
    /\ Goto(h, "create.undo")
    /\ UNCHANGED <<db, redis, job, admitted, disturbed>>

CreateUndo(h) ==
    /\ At(h, "create.undo")
    /\ ReleaseStock(hnd[h].r)
    /\ Goto(h, "create.cancel")
    /\ UNCHANGED <<db, admitted, faults, disturbed>>

CreateCancel(h) ==
    /\ At(h, "create.cancel")
    /\ status' = [status EXCEPT ![hnd[h].r] = "CANCELLED"]
    /\ Finish(h)
    /\ UNCHANGED <<extended, payment, remain, redis, job, admitted, faults, disturbed>>

-----------------------------------------------------------------------------
(* cancelReservation.                                                      *)

CancelBegin(h, r) ==
    /\ hnd[h] = Idle
    /\ PassCheck(h, r, "cancel.release")
    /\ UNCHANGED <<db, redis, job, admitted, faults>>

CancelRelease(h) ==
    /\ At(h, "cancel.release")
    /\ ReleaseStock(hnd[h].r)
    /\ Goto(h, "cancel.job")
    /\ UNCHANGED <<db, admitted, faults, disturbed>>

\* If the job is active the handler ends here, its seats given back.
CancelRemoveJob(h) ==
    /\ At(h, "cancel.job")
    /\ \/ /\ RemoveJob(hnd[h].r)
          /\ Goto(h, "cancel.status")
          /\ UNCHANGED disturbed
       \/ /\ job[hnd[h].r] = "active"
          /\ Finish(h)
          /\ Disturb(hnd[h].r)
          /\ UNCHANGED job
    /\ UNCHANGED <<db, redis, admitted, faults>>

CancelStatus(h) ==
    /\ At(h, "cancel.status")
    /\ status' = [status EXCEPT ![hnd[h].r] = "CANCELLED"]
    /\ Goto(h, "cancel.payment")
    /\ UNCHANGED <<extended, payment, remain, redis, job, admitted, faults, disturbed>>

\* Updating the payment of a reservation that has none throws.
SetPayment(r, s) ==
    payment' = [payment EXCEPT ![r] = IF @ = "none" THEN @ ELSE s]

CancelPayment(h) ==
    /\ At(h, "cancel.payment")
    /\ SetPayment(hnd[h].r, "CANCELLED")
    /\ Finish(h)
    /\ UNCHANGED <<status, extended, remain, redis, job, admitted, faults, disturbed>>

-----------------------------------------------------------------------------
(* extendReservation.                                                      *)

ExtendBegin(h, r) ==
    /\ hnd[h] = Idle
    /\ r \notin extended
    /\ PassCheck(h, r, "extend.ttl")
    /\ UNCHANGED <<db, redis, job, admitted, faults>>

\* The lock has to be there and to have at most 60 s to live.
ExtendTtl(h) ==
    /\ At(h, "extend.ttl")
    /\ IF Key(hnd[h].r) \in ending THEN Goto(h, "extend.expire") ELSE Finish(h)
    /\ UNCHANGED <<db, redis, job, admitted, faults, disturbed>>

ExtendExpire(h) ==
    LET k == Key(hnd[h].r) IN
    /\ At(h, "extend.expire")
    /\ ending' = ending \ {k}
    /\ job' = Unhold(job, k)
    /\ Goto(h, "extend.remove")
    /\ UNCHANGED <<db, stock, lock, taken, admitted, faults, disturbed>>

ExtendRemoveJob(h) ==
    /\ At(h, "extend.remove")
    /\ \/ RemoveJob(hnd[h].r) /\ Goto(h, "extend.add")
       \/ job[hnd[h].r] = "active" /\ Finish(h) /\ UNCHANGED job
    /\ UNCHANGED <<db, redis, admitted, faults, disturbed>>

\* Mutant of ExtendAddJob: the old job is removed after the new one is added.
ExtendAddJob_RemovedLast(h) ==
    /\ At(h, "extend.add")
    /\ job' = [job EXCEPT ![hnd[h].r] = "none"]
    /\ Goto(h, "extend.status")
    /\ UNCHANGED <<db, redis, admitted, faults, disturbed>>

ExtendAddJob(h) ==
    /\ At(h, "extend.add")
    /\ AddJob(hnd[h].r)
    /\ Goto(h, "extend.status")
    /\ UNCHANGED <<db, redis, admitted, faults, disturbed>>

\* updateReservationStatus(id, 'PENDING', now), whatever the status is by now.
ExtendStatus(h) ==
    /\ At(h, "extend.status")
    /\ status' = [status EXCEPT ![hnd[h].r] = "PENDING"]
    /\ extended' = extended \cup {hnd[h].r}
    /\ Finish(h)
    /\ UNCHANGED <<payment, remain, redis, job, admitted, faults, disturbed>>

-----------------------------------------------------------------------------
(* handleWebhook.                                                          *)

\* Mutant of WebhookBegin: a settled reservation is processed again.
WebhookBegin_Unchecked(h, r) ==
    /\ hnd[h] = Idle
    /\ status[r] # "none"
    /\ \E pc \in {"done.tx", "fail.tx"} : hnd' = [hnd EXCEPT ![h] = [pc |-> pc, r |-> r]]
    /\ IF InProgress(r) THEN Disturb(r) ELSE UNCHANGED disturbed
    /\ UNCHANGED <<db, redis, job, admitted, faults>>

WebhookBegin(h, r) ==
    /\ hnd[h] = Idle
    /\ \E pc \in {"done.tx", "fail.tx"} : PassCheck(h, r, pc)
    /\ UNCHANGED <<db, redis, job, admitted, faults>>

\* The transaction rolls back if the reservation has no payment.
Tx(h, s, p, pc) ==
    LET r == hnd[h].r IN
    \/ /\ payment[r] # "none"
       /\ status' = [status EXCEPT ![r] = s]
       /\ payment' = [payment EXCEPT ![r] = p]
       /\ Goto(h, pc)
    \/ /\ payment[r] = "none"
       /\ Finish(h)
       /\ UNCHANGED <<status, payment>>

DoneTx(h) ==
    /\ At(h, "done.tx")
    /\ Tx(h, "CONFIRMED", "DONE", "done.remain")
    /\ UNCHANGED <<extended, remain, redis, job, admitted, faults, disturbed>>

\* Mutant of DoneRemain: the decrement ignores the quantity.
DoneRemain_One(h) ==
    LET r == hnd[h].r IN
    /\ At(h, "done.remain")
    /\ remain' = [remain EXCEPT ![Zone[r]] = @ - 1]
    /\ Goto(h, "done.lock")
    /\ UNCHANGED <<status, extended, payment, redis, job, admitted, faults, disturbed>>

DoneRemain(h) ==
    LET r == hnd[h].r IN
    /\ At(h, "done.remain")
    /\ remain' = [remain EXCEPT ![Zone[r]] = @ - Qty[r]]
    /\ Goto(h, "done.lock")
    /\ UNCHANGED <<status, extended, payment, redis, job, admitted, faults, disturbed>>

\* Mutant of DoneDeleteLock: the lock is left to its TTL.
DoneDeleteLock_Forgotten(h) ==
    /\ At(h, "done.lock")
    /\ Goto(h, "done.job")
    /\ UNCHANGED <<db, redis, job, admitted, faults, disturbed>>

DoneDeleteLock(h) ==
    /\ At(h, "done.lock")
    /\ DeleteLock(Key(hnd[h].r))
    /\ Goto(h, "done.job")
    /\ UNCHANGED <<db, stock, taken, admitted, faults, disturbed>>

\* Mutant of FailTx: the reservation gets the payment's status.
FailTx_Swapped(h) ==
    /\ At(h, "fail.tx")
    /\ \E sp \in {<<"EXPIRED", "FAILED">>, <<"CANCELLED", "CANCELLED">>,
                  <<"CANCELLED", "FAILED">>} :
         Tx(h, sp[2], sp[1], "fail.release")
    /\ UNCHANGED <<extended, remain, redis, job, admitted, faults, disturbed>>

\* The webhook's status is EXPIRED, CANCELLED or FAILED.
FailTx(h) ==
    /\ At(h, "fail.tx")
    /\ \E sp \in {<<"EXPIRED", "FAILED">>, <<"CANCELLED", "CANCELLED">>,
                  <<"CANCELLED", "FAILED">>} :
         Tx(h, sp[1], sp[2], "fail.release")
    /\ UNCHANGED <<extended, remain, redis, job, admitted, faults, disturbed>>

\* Mutant of FailRelease: a failed payment keeps the seats.
FailRelease_Forgotten(h) ==
    /\ At(h, "fail.release")
    /\ Goto(h, "fail.job")
    /\ UNCHANGED <<db, redis, job, admitted, faults, disturbed>>

FailRelease(h) ==
    /\ At(h, "fail.release")
    /\ ReleaseStock(hnd[h].r)
    /\ Goto(h, "fail.job")
    /\ UNCHANGED <<db, admitted, faults, disturbed>>

WebhookRemoveJob(h) ==
    /\ At(h, "done.job") \/ At(h, "fail.job")
    /\ \/ RemoveJob(hnd[h].r)
       \/ job[hnd[h].r] = "active" /\ UNCHANGED job
    /\ Finish(h)
    /\ UNCHANGED <<db, redis, admitted, faults, disturbed>>

-----------------------------------------------------------------------------
(* The expiry worker.                                                      *)

ExpireTake(r) ==
    /\ hnd[Expirer] = Idle
    /\ job[r] = "delayed"
    /\ job' = [job EXCEPT ![r] = "active"]
    /\ hnd' = [hnd EXCEPT ![Expirer] = [pc |-> "expire.find", r |-> r]]
    /\ UNCHANGED <<db, redis, admitted, faults, disturbed>>

EndJob == job' = [job EXCEPT ![hnd[Expirer].r] = "ended"] /\ Finish(Expirer)

\* Mutant of ExpireFind: the job of a settled reservation goes on.
ExpireFind_Unchecked ==
    /\ At(Expirer, "expire.find")
    /\ Goto(Expirer, "expire.status")
    /\ IF InProgress(hnd[Expirer].r) THEN Disturb(hnd[Expirer].r) ELSE UNCHANGED disturbed
    /\ UNCHANGED <<db, redis, job, admitted, faults>>

ExpireFind ==
    /\ At(Expirer, "expire.find")
    /\ \/ PassCheck(Expirer, hnd[Expirer].r, "expire.status") /\ UNCHANGED job
       \/ status[hnd[Expirer].r] # "PENDING" /\ EndJob /\ UNCHANGED disturbed
    /\ UNCHANGED <<db, redis, admitted, faults>>

ExpireStatus ==
    /\ At(Expirer, "expire.status")
    /\ status' = [status EXCEPT ![hnd[Expirer].r] = "EXPIRED"]
    /\ Goto(Expirer, "expire.payment")
    /\ UNCHANGED <<extended, payment, remain, redis, job, admitted, faults, disturbed>>

\* Without a payment the job fails here, its seats not given back.
ExpirePayment ==
    LET r == hnd[Expirer].r IN
    /\ At(Expirer, "expire.payment")
    /\ SetPayment(r, "FAILED")
    /\ \/ payment[r] # "none" /\ Goto(Expirer, "expire.release") /\ UNCHANGED job
       \/ payment[r] = "none" /\ EndJob
    /\ UNCHANGED <<status, extended, remain, redis, admitted, faults, disturbed>>

ExpireRelease ==
    /\ At(Expirer, "expire.release")
    /\ ReleaseStock(hnd[Expirer].r)
    /\ Goto(Expirer, "expire.admit")
    /\ UNCHANGED <<db, admitted, faults, disturbed>>

\* admitNextUser may let in a user; see WaitingQueue for what it does.
ExpireAdmit ==
    /\ At(Expirer, "expire.admit")
    /\ \E next \in {{}} \cup {{u} : u \in Users} : admitted' = admitted \cup next
    /\ EndJob
    /\ UNCHANGED <<db, redis, faults, disturbed>>

-----------------------------------------------------------------------------
(* The environment: the queue, time, faults.                               *)

Admit(u) ==
    /\ u \notin admitted
    /\ admitted' = admitted \cup {u}
    /\ UNCHANGED <<db, redis, job, hnd, faults, disturbed>>

AdmittedExpires(u) ==
    /\ u \in admitted
    /\ admitted' = admitted \ {u}
    /\ UNCHANGED <<db, redis, job, hnd, faults, disturbed>>

\* 240 of the lock's 300 s pass.
LockAges(k) ==
    /\ lock[k] # NoRes /\ k \notin ending
    /\ ending' = ending \cup {k}
    /\ UNCHANGED <<db, stock, lock, taken, job, admitted, hnd, faults, disturbed>>

LockExpires(k) ==
    /\ k \in ending
    /\ DeleteLock(k)
    /\ UNCHANGED <<db, stock, taken, admitted, hnd, faults, disturbed>>

\* A call throws and the handler ends; the worker's job fails and is not
\* retried.  For the three calls inside createReservation's try block, see
\* CreateCatch.  Before the INSERT and after the refusal nothing is left half
\* done.
HandlerFails(h) ==
    LET r == hnd[h].r IN
    /\ faults < MaxFaults
    /\ hnd[h] # Idle
    /\ hnd[h].pc \notin {"create.job", "create.payment", "create.consume"}
    /\ faults' = faults + 1
    /\ IF h = Expirer THEN EndJob ELSE Finish(h) /\ UNCHANGED job
    /\ IF hnd[h].pc \in {"create.insert", "create.consumeRefused"}
         THEN UNCHANGED disturbed ELSE Disturb(r)
    /\ UNCHANGED <<db, redis, admitted>>

\* The process dies and starts again; BullMQ runs the stalled job again.
Crash ==
    /\ faults < MaxFaults
    /\ faults' = faults + 1
    /\ hnd' = [h \in AllHandlers |-> Idle]
    /\ job' = [r \in Reservations |-> IF job[r] = "active" THEN "delayed" ELSE job[r]]
    /\ disturbed' = disturbed \cup {r \in Reservations : InProgress(r)}
    /\ UNCHANGED <<db, redis, admitted>>

-----------------------------------------------------------------------------
Begin(h, r) ==
    CreateIsAdmitted(h, r) \/ CancelBegin(h, r) \/ ExtendBegin(h, r) \/ WebhookBegin(h, r)

Continue(h) ==
    \/ CreateInsert(h) \/ CreatePreempt(h) \/ CreateRefuse(h) \/ CreateConsume(h)
    \/ CreateAddJob(h) \/ CreatePayment(h) \/ CreateUndo(h) \/ CreateCancel(h)
    \/ CancelRelease(h) \/ CancelRemoveJob(h) \/ CancelStatus(h) \/ CancelPayment(h)
    \/ ExtendTtl(h) \/ ExtendExpire(h) \/ ExtendRemoveJob(h) \/ ExtendAddJob(h)
    \/ ExtendStatus(h)
    \/ DoneTx(h) \/ DoneRemain(h) \/ DoneDeleteLock(h)
    \/ FailTx(h) \/ FailRelease(h) \/ WebhookRemoveJob(h)

ExpireStep ==
    \/ \E r \in Reservations : ExpireTake(r)
    \/ ExpireFind \/ ExpireStatus \/ ExpirePayment \/ ExpireRelease \/ ExpireAdmit

Next ==
    \/ \E h \in Handlers, r \in Reservations : Begin(h, r)
    \/ \E h \in Handlers : Continue(h) \/ CreateCatch(h)
    \/ ExpireStep
    \/ \E u \in Users : Admit(u) \/ AdmittedExpires(u)
    \/ \E k \in Zones \X Users : LockAges(k) \/ LockExpires(k)
    \/ \E h \in AllHandlers : HandlerFails(h)
    \/ Crash

Spec == Init /\ [][Next]_vars

\* Handlers and the worker go on, due jobs are run, and locks run out of time.
\* Nothing is assumed of the users or of the payment provider.
Fairness ==
    /\ \A h \in Handlers : WF_vars(Continue(h))
    /\ WF_vars(ExpireStep)
    /\ \A k \in Zones \X Users : WF_vars(LockAges(k)) /\ WF_vars(LockExpires(k))

FairSpec == Spec /\ Fairness

-----------------------------------------------------------------------------
(* Properties.                                                             *)

\* The Lua script never takes seats that are not there, and every other script
\* only gives back: no interleaving of any number of requests oversells the
\* Redis stock.
StockNeverNegative == \A z \in Zones : stock[z] >= 0

\* When the handlers of a reservation do not overlap and none fails half way,
\* its seats are out of the stock exactly while it is PENDING or CONFIRMED:
\* whichever of payment, cancellation, refusal, expiry or rollback ends it gives
\* them back once, and a payment never does.
SeatsAccounted ==
    \A r \in Reservations \ disturbed :
        ~InProgress(r) =>
            taken[r] = IF status[r] \in {"PENDING", "CONFIRMED"} THEN 1 ELSE 0

\* The seats of the reservations in S, each of which has Qty of them.
Seats(S) == Cardinality(UNION {{r} \X (1..Qty[r]) : r \in S})

In(z, s) == {r \in Reservations : Zone[r] = z /\ status[r] \in s}

\* No requests of the zone's reservations overlapped or failed half way.
Undisturbed(z) == \A r \in Reservations : Zone[r] = z => r \notin disturbed

\* The double bookkeeping of README.md:160: between requests that did not
\* overlap, a zone's Redis stock is what its reservations in the database leave.
StockMatchesDB ==
    \A z \in Zones :
        Undisturbed(z) /\ (\A r \in Reservations : Zone[r] = z => ~InProgress(r)) =>
            stock[z] = Total[z] - Seats(In(z, {"PENDING", "CONFIRMED"}))

\* The CONFIRMED reservations of z but those whose webhook has not come to the
\* decrement.
Counted(z) ==
    {r \in In(z, {"CONFIRMED"}) :
       \A h \in Handlers : hnd[h].r = r => ~At(h, "done.remain")}

\* schema.prisma:106: remainQuantity is the total without the CONFIRMED
\* reservations, at every moment of any number of webhooks in progress.
RemainMatchesConfirmed ==
    \A z \in Zones : Undisturbed(z) => remain[z] = Total[z] - Seats(Counted(z))

\* A PENDING reservation always has a job that will end it, across the removal
\* and re-adding of an extension, unless its handlers overlapped or failed.
PendingHasTimer ==
    \A r \in Reservations \ disturbed :
        status[r] = "PENDING" /\ ~InProgress(r) => job[r] \in {"held", "delayed", "active"}

\* The lock that refuses a user's next reservation in a zone does not outlive
\* the reservation that took it.
LockEndsWithReservation ==
    \A k \in Zones \X Users :
        lock[k] \in Reservations \ disturbed /\ ~InProgress(lock[k]) =>
            status[lock[k]] = "PENDING"

\* A settled reservation keeps its status: a repeated webhook, a late job or a
\* late request changes nothing, unless it passed its check while another
\* handler of the reservation was at work.
SettledStays ==
    [][\A r \in Reservations :
         status[r] \in Settled /\ r \notin disturbed' => status'[r] = status[r]]_vars

\* Every PENDING reservation is settled in the end, whatever the user and the
\* payment provider do or do not do: no seat stays preempted for ever.
PendingEnds ==
    \A r \in Reservations :
        status[r] = "PENDING" ~> status[r] # "PENDING" \/ r \in disturbed

\* README.md:166: confirming a payment leaves the stock as it is, the seats
\* stay deducted; the status checks of webhook and expiry worker are to keep the
\* other from processing the reservation too (README.md:157).  So a paid
\* reservation keeps its seats out of the stock.
ConfirmedKeepsSeats ==
    \A r \in Reservations :
        status[r] = "CONFIRMED" /\ ~InProgress(r) => taken[r] = 1

-----------------------------------------------------------------------------
Ledger == INSTANCE SeatLedger WITH
    free <- stock, held <- taken, contested <- disturbed

\* The service implements the ledger: however its handlers, the webhook, the
\* expiry worker, faults and locks interleave, seats are only taken from those
\* that are free, are given back once by a reservation that is not paid, and
\* only a reservation that holds them is paid, unless requests overlapped.
LedgerKept == Ledger!Spec

=============================================================================
