----------------------- MODULE SeatReservationProofs -----------------------
(***************************************************************************)
(* Theorems about SeatReservation, for every set of users, zones,          *)
(* reservations and handlers, every stock and every number of faults.      *)
(***************************************************************************)
EXTENDS SeatReservation, FiniteSetTheorems, TLAPS

-----------------------------------------------------------------------------
(* Types.                                                                  *)

\* The conjuncts of TypeOK about the handlers and those about the data.
HndOK ==
    /\ hnd \in [AllHandlers -> HandlerState \cup WorkerState]
    /\ \A h \in Handlers : hnd[h] \in HandlerState
    /\ hnd[Expirer] \in WorkerState

DbOK ==
    /\ status \in [Reservations -> {"none", "PENDING"} \cup Settled]
    /\ extended \subseteq Reservations
    /\ payment \in [Reservations -> {"none", "READY", "DONE", "CANCELLED", "FAILED"}]
    /\ remain \in [Zones -> Int]

RedisOK ==
    /\ stock \in [Zones -> Int]
    /\ lock \in [Zones \X Users -> Reservations \cup {NoRes}]
    /\ ending \subseteq Zones \X Users
    /\ taken \in [Reservations -> Int]

RestOK ==
    /\ job \in [Reservations -> JobState]
    /\ admitted \subseteq Users
    /\ faults \in 0..MaxFaults
    /\ disturbed \subseteq Reservations

LEMMA TypeParts == TypeOK <=> HndOK /\ DbOK /\ RedisOK /\ RestOK
BY DEF TypeOK, HndOK, DbOK, RedisOK, RestOK

LEMMA TypeNext == HndOK' /\ DbOK' /\ RedisOK' /\ RestOK' => TypeOK'
BY DEF TypeOK, HndOK, DbOK, RedisOK, RestOK

\* A handler or worker that is not idle has a reservation.
LEMMA Busy ==
    ASSUME HndOK, NEW h \in AllHandlers
    PROVE  /\ hnd[h] = Idle \/ hnd[h].r \in Reservations
           /\ hnd[h].pc = "idle" <=> hnd[h] = Idle
           /\ h \in Handlers => hnd[h].pc \in {"idle"} \cup HandlerPC
           /\ h = Expirer => hnd[h].pc \in {"idle"} \cup ExpirePC
BY DEF HndOK, AllHandlers, HandlerState, WorkerState, Idle, HandlerPC, CreatePC, CancelPC,
   ExtendPC, DonePC, FailPC, ExpirePC

\* Going on to a command of the same kind of handler keeps the type.
LEMMA GotoOK ==
    ASSUME HndOK, NEW h \in AllHandlers, hnd[h] # Idle, NEW pc, Goto(h, pc),
           h \in Handlers => pc \in HandlerPC,
           h = Expirer => pc \in ExpirePC
    PROVE  HndOK'
<1>1. CASE h \in Handlers
  <2>1. [hnd[h] EXCEPT !.pc = pc] \in HandlerState
    BY <1>1 DEF HndOK, HandlerState
  <2>2. QED BY <1>1, <2>1, SeatConstants DEF HndOK, Goto, AllHandlers
<1>2. CASE h = Expirer
  <2>1. [hnd[h] EXCEPT !.pc = pc] \in WorkerState
    BY <1>2 DEF HndOK, WorkerState
  <2>2. QED BY <1>2, <2>1, SeatConstants DEF HndOK, Goto, AllHandlers
<1>3. QED BY <1>1, <1>2 DEF AllHandlers

LEMMA FinishOK ==
    ASSUME HndOK, NEW h \in AllHandlers, Finish(h)
    PROVE  HndOK'
BY DEF HndOK, Finish, HandlerState, WorkerState, AllHandlers

LEMMA BeginOK ==
    ASSUME HndOK, NEW h \in Handlers, NEW r \in Reservations, NEW pc \in HandlerPC,
           hnd' = [hnd EXCEPT ![h] = [pc |-> pc, r |-> r]]
    PROVE  HndOK'
BY SeatConstants DEF HndOK, HandlerState, AllHandlers

LEMMA KeyOK == ASSUME NEW r \in Reservations PROVE Key(r) \in Zones \X Users
BY SeatConstants DEF Key

LEMMA DeleteLockOK ==
    ASSUME RedisOK, RestOK, NEW k \in Zones \X Users, DeleteLock(k)
    PROVE  /\ lock' \in [Zones \X Users -> Reservations \cup {NoRes}]
           /\ ending' \subseteq Zones \X Users
           /\ job' \in [Reservations -> JobState]
BY DEF DeleteLock, Unhold, RedisOK, RestOK, JobState

LEMMA ReleaseOK ==
    ASSUME RedisOK, RestOK, NEW r \in Reservations, ReleaseStock(r)
    PROVE  RedisOK' /\ job' \in [Reservations -> JobState]
<1>1. /\ stock \in [Zones -> Int] /\ taken \in [Reservations -> Int]
      /\ Zone[r] \in Zones /\ Qty[r] \in Nat
      /\ stock[Zone[r]] + Qty[r] \in Int /\ taken[r] - 1 \in Int
  BY SeatConstants DEF RedisOK
<1>2. stock' \in [Zones -> Int] /\ taken' \in [Reservations -> Int]
  BY <1>1 DEF ReleaseStock
<1>3. QED BY <1>2, KeyOK, DeleteLockOK DEF ReleaseStock, RedisOK

LEMMA JobOK ==
    ASSUME RestOK, NEW r \in Reservations, AddJob(r) \/ RemoveJob(r)
    PROVE  job' \in [Reservations -> JobState]
BY DEF AddJob, RemoveJob, RestOK, JobState

\* The commands of createReservation.
LEMMA CreateTypeStep ==
    ASSUME TypeOK, NEW h \in Handlers,
           \/ CreateInsert(h) \/ CreatePreempt(h) \/ CreateRefuse(h) \/ CreateConsume(h)
           \/ CreateAddJob(h) \/ CreatePayment(h) \/ CreateUndo(h) \/ CreateCancel(h)
    PROVE  TypeOK'
<1> DEFINE r == hnd[h].r
<1> USE DEF At
<1>1. HndOK /\ DbOK /\ RedisOK /\ RestOK /\ h \in AllHandlers /\ h # Expirer
  BY TypeParts, SeatConstants DEF AllHandlers
<1>2. hnd[h] # Idle /\ r \in Reservations
  BY <1>1, Busy DEF CreateInsert, CreatePreempt, CreateRefuse, CreateConsume, CreateAddJob,
     CreatePayment, CreateUndo, CreateCancel
<1>3. CASE CreateInsert(h)
  <2>1. HndOK'
    BY <1>1, <1>2, <1>3, GotoOK DEF CreateInsert, HandlerPC, CreatePC
  <2>2. DbOK'
    BY <1>1, <1>2, <1>3 DEF CreateInsert, DbOK
  <2>3. QED BY <1>1, <1>3, <2>1, <2>2, TypeNext DEF CreateInsert, RedisOK, RestOK, redis
<1>4. CASE CreatePreempt(h)
  <2>1. HndOK'
    BY <1>1, <1>2, <1>4, GotoOK DEF CreatePreempt, HandlerPC, CreatePC
  <2>2. RedisOK'
    <3>1. /\ stock \in [Zones -> Int] /\ taken \in [Reservations -> Int]
          /\ Zone[r] \in Zones /\ Qty[r] \in Nat
          /\ stock[Zone[r]] - Qty[r] \in Int /\ taken[r] + 1 \in Int
      BY <1>1, <1>2, SeatConstants DEF RedisOK
    <3>2. stock' \in [Zones -> Int] /\ taken' \in [Reservations -> Int]
      BY <1>4, <3>1 DEF CreatePreempt, redis
    <3>3. lock' \in [Zones \X Users -> Reservations \cup {NoRes}]
          /\ ending' \subseteq Zones \X Users
      BY <1>1, <1>2, <1>4, KeyOK DEF CreatePreempt, redis, RedisOK
    <3>4. QED BY <3>2, <3>3 DEF RedisOK
  <2>3. QED BY <1>1, <1>4, <2>1, <2>2, TypeNext DEF CreatePreempt, DbOK, RestOK, db
<1>5. CASE CreateRefuse(h) \/ CreateCancel(h)
  <2>1. HndOK'
    BY <1>1, <1>2, <1>5, GotoOK, FinishOK DEF CreateRefuse, CreateCancel, HandlerPC, CreatePC
  <2>2. DbOK'
    BY <1>1, <1>2, <1>5 DEF CreateRefuse, CreateCancel, DbOK, Settled
  <2>3. QED
    BY <1>1, <1>5, <2>1, <2>2, TypeNext DEF CreateRefuse, CreateCancel, RedisOK, RestOK, redis
<1>6. CASE CreateConsume(h)
  <2>1. HndOK'
    BY <1>1, <1>6, FinishOK DEF CreateConsume
  <2>2. QED
    BY <1>1, <1>6, <2>1, TypeNext DEF CreateConsume, DbOK, RedisOK, RestOK, db, redis
<1>7. CASE CreateAddJob(h)
  <2>1. HndOK'
    BY <1>1, <1>2, <1>7, GotoOK DEF CreateAddJob, HandlerPC, CreatePC
  <2>2. RestOK'
    BY <1>1, <1>2, <1>7, JobOK DEF CreateAddJob, RestOK
  <2>3. QED BY <1>1, <1>7, <2>1, <2>2, TypeNext DEF CreateAddJob, DbOK, RedisOK, db, redis
<1>8. CASE CreatePayment(h)
  <2>1. HndOK'
    BY <1>1, <1>2, <1>8, GotoOK DEF CreatePayment, HandlerPC, CreatePC
  <2>2. DbOK'
    BY <1>1, <1>2, <1>8 DEF CreatePayment, DbOK
  <2>3. QED BY <1>1, <1>8, <2>1, <2>2, TypeNext DEF CreatePayment, RedisOK, RestOK, redis
<1>9. CASE CreateUndo(h)
  <2>1. HndOK'
    BY <1>1, <1>2, <1>9, GotoOK DEF CreateUndo, HandlerPC, CreatePC
  <2>2. RedisOK' /\ job' \in [Reservations -> JobState]
    BY <1>1, <1>2, <1>9, ReleaseOK DEF CreateUndo
  <2>3. QED BY <1>1, <1>9, <2>1, <2>2, TypeNext DEF CreateUndo, DbOK, RestOK, db
<1>10. QED BY <1>3, <1>4, <1>5, <1>6, <1>7, <1>8, <1>9

\* The commands of cancelReservation.
LEMMA CancelTypeStep ==
    ASSUME TypeOK, NEW h \in Handlers,
           \/ CancelRelease(h) \/ CancelRemoveJob(h) \/ CancelStatus(h) \/ CancelPayment(h)
    PROVE  TypeOK'
<1> DEFINE r == hnd[h].r
<1> USE DEF At
<1>1. HndOK /\ DbOK /\ RedisOK /\ RestOK /\ h \in AllHandlers /\ h # Expirer
  BY TypeParts, SeatConstants DEF AllHandlers
<1>2. hnd[h] # Idle /\ r \in Reservations
  BY <1>1, Busy DEF CancelRelease, CancelRemoveJob, CancelStatus, CancelPayment
<1>3. CASE CancelRelease(h)
  <2>1. HndOK'
    BY <1>1, <1>2, <1>3, GotoOK DEF CancelRelease, HandlerPC, CancelPC
  <2>2. RedisOK' /\ job' \in [Reservations -> JobState]
    BY <1>1, <1>2, <1>3, ReleaseOK DEF CancelRelease
  <2>3. QED BY <1>1, <1>3, <2>1, <2>2, TypeNext DEF CancelRelease, DbOK, RestOK, db
<1>4. CASE CancelRemoveJob(h)
  <2>1. HndOK'
    BY <1>1, <1>2, <1>4, GotoOK, FinishOK DEF CancelRemoveJob, HandlerPC, CancelPC
  <2>2. job' \in [Reservations -> JobState]
    BY <1>1, <1>2, <1>4, JobOK DEF CancelRemoveJob, RestOK
  <2>3. RestOK'
    BY <1>1, <1>2, <1>4, <2>2 DEF CancelRemoveJob, Disturb, RestOK
  <2>4. QED BY <1>1, <1>4, <2>1, <2>3, TypeNext DEF CancelRemoveJob, DbOK, RedisOK, db, redis
<1>5. CASE CancelStatus(h)
  <2>1. HndOK'
    BY <1>1, <1>2, <1>5, GotoOK DEF CancelStatus, HandlerPC, CancelPC
  <2>2. DbOK'
    BY <1>1, <1>2, <1>5 DEF CancelStatus, DbOK, Settled
  <2>3. QED BY <1>1, <1>5, <2>1, <2>2, TypeNext DEF CancelStatus, RedisOK, RestOK, redis
<1>6. CASE CancelPayment(h)
  <2>1. HndOK'
    BY <1>1, <1>6, FinishOK DEF CancelPayment
  <2>2. DbOK'
    BY <1>1, <1>2, <1>6 DEF CancelPayment, SetPayment, DbOK
  <2>3. QED BY <1>1, <1>6, <2>1, <2>2, TypeNext DEF CancelPayment, RedisOK, RestOK, redis
<1>7. QED BY <1>3, <1>4, <1>5, <1>6

\* The commands of extendReservation.
LEMMA ExtendTypeStep ==
    ASSUME TypeOK, NEW h \in Handlers,
           \/ ExtendTtl(h) \/ ExtendExpire(h) \/ ExtendRemoveJob(h) \/ ExtendAddJob(h)
           \/ ExtendStatus(h)
    PROVE  TypeOK'
<1> DEFINE r == hnd[h].r
<1> USE DEF At
<1>1. HndOK /\ DbOK /\ RedisOK /\ RestOK /\ h \in AllHandlers /\ h # Expirer
  BY TypeParts, SeatConstants DEF AllHandlers
<1>2. hnd[h] # Idle /\ r \in Reservations
  BY <1>1, Busy DEF ExtendTtl, ExtendExpire, ExtendRemoveJob, ExtendAddJob, ExtendStatus
<1>3. CASE ExtendTtl(h)
  <2>1. HndOK'
    BY <1>1, <1>2, <1>3, GotoOK, FinishOK DEF ExtendTtl, HandlerPC, ExtendPC
  <2>2. QED
    BY <1>1, <1>3, <2>1, TypeNext DEF ExtendTtl, DbOK, RedisOK, RestOK, db, redis
<1>4. CASE ExtendExpire(h)
  <2>1. HndOK'
    BY <1>1, <1>2, <1>4, GotoOK DEF ExtendExpire, HandlerPC, ExtendPC
  <2>2. RedisOK' /\ job' \in [Reservations -> JobState]
    BY <1>1, <1>4 DEF ExtendExpire, RedisOK, RestOK, Unhold, JobState
  <2>3. QED BY <1>1, <1>4, <2>1, <2>2, TypeNext DEF ExtendExpire, DbOK, RestOK, db
<1>5. CASE ExtendRemoveJob(h)
  <2>1. HndOK'
    BY <1>1, <1>2, <1>5, GotoOK, FinishOK DEF ExtendRemoveJob, HandlerPC, ExtendPC
  <2>2. job' \in [Reservations -> JobState]
    BY <1>1, <1>2, <1>5, JobOK DEF ExtendRemoveJob, RestOK
  <2>3. QED
    BY <1>1, <1>5, <2>1, <2>2, TypeNext DEF ExtendRemoveJob, DbOK, RedisOK, RestOK, db, redis
<1>6. CASE ExtendAddJob(h)
  <2>1. HndOK'
    BY <1>1, <1>2, <1>6, GotoOK DEF ExtendAddJob, HandlerPC, ExtendPC
  <2>2. job' \in [Reservations -> JobState]
    BY <1>1, <1>2, <1>6, JobOK DEF ExtendAddJob
  <2>3. QED
    BY <1>1, <1>6, <2>1, <2>2, TypeNext DEF ExtendAddJob, DbOK, RedisOK, RestOK, db, redis
<1>7. CASE ExtendStatus(h)
  <2>1. HndOK'
    BY <1>1, <1>7, FinishOK DEF ExtendStatus
  <2>2. DbOK'
    BY <1>1, <1>2, <1>7 DEF ExtendStatus, DbOK
  <2>3. QED BY <1>1, <1>7, <2>1, <2>2, TypeNext DEF ExtendStatus, RedisOK, RestOK, redis
<1>8. QED BY <1>3, <1>4, <1>5, <1>6, <1>7

\* The transaction of the webhook.
LEMMA TxOK ==
    ASSUME HndOK, DbOK, NEW h \in Handlers, hnd[h] # Idle,
           NEW s \in Settled, NEW p \in {"DONE", "CANCELLED", "FAILED"},
           NEW pc \in HandlerPC, Tx(h, s, p, pc), UNCHANGED <<extended, remain>>
    PROVE  HndOK' /\ DbOK'
<1>1. h \in AllHandlers /\ h # Expirer /\ hnd[h].r \in Reservations
  BY Busy, SeatConstants DEF AllHandlers
<1>2. HndOK'
  BY <1>1, GotoOK, FinishOK DEF Tx
<1>3. DbOK'
  BY <1>1 DEF Tx, DbOK
<1>4. QED BY <1>2, <1>3

\* The commands of handleWebhook.
LEMMA WebhookTypeStep ==
    ASSUME TypeOK, NEW h \in Handlers,
           \/ DoneTx(h) \/ DoneRemain(h) \/ DoneDeleteLock(h)
           \/ FailTx(h) \/ FailRelease(h) \/ WebhookRemoveJob(h)
    PROVE  TypeOK'
<1> DEFINE r == hnd[h].r
<1> USE DEF At
<1>1. HndOK /\ DbOK /\ RedisOK /\ RestOK /\ h \in AllHandlers /\ h # Expirer
  BY TypeParts, SeatConstants DEF AllHandlers
<1>2. hnd[h] # Idle /\ r \in Reservations
  BY <1>1, Busy DEF DoneTx, DoneRemain, DoneDeleteLock, FailTx, FailRelease, WebhookRemoveJob
<1>3. CASE DoneTx(h)
  <2>1. HndOK' /\ DbOK'
    BY <1>1, <1>2, <1>3, TxOK DEF DoneTx, Settled, HandlerPC, DonePC
  <2>2. QED BY <1>1, <1>3, <2>1, TypeNext DEF DoneTx, RedisOK, RestOK, redis
<1>4. CASE FailTx(h)
  <2>1. HndOK' /\ DbOK'
    <3>1. PICK sp \in {<<"EXPIRED", "FAILED">>, <<"CANCELLED", "CANCELLED">>,
                       <<"CANCELLED", "FAILED">>} : Tx(h, sp[1], sp[2], "fail.release")
      BY <1>4 DEF FailTx
    <3>2. sp[1] \in Settled /\ sp[2] \in {"DONE", "CANCELLED", "FAILED"}
      BY <3>1 DEF Settled
    <3>3. "fail.release" \in HandlerPC
      BY DEF HandlerPC, FailPC
    <3>4. QED BY <1>1, <1>2, <1>4, <3>1, <3>2, <3>3, TxOK DEF FailTx
  <2>2. QED BY <1>1, <1>4, <2>1, TypeNext DEF FailTx, RedisOK, RestOK, redis
<1>5. CASE DoneRemain(h)
  <2>1. HndOK'
    BY <1>1, <1>2, <1>5, GotoOK DEF DoneRemain, HandlerPC, DonePC
  <2>2. /\ remain \in [Zones -> Int]
        /\ Zone[r] \in Zones
        /\ remain[Zone[r]] - Qty[r] \in Int
    BY <1>1, <1>2, SeatConstants DEF DbOK
  <2>3. DbOK'
    BY <1>1, <1>5, <2>2 DEF DoneRemain, DbOK
  <2>4. QED BY <1>1, <1>5, <2>1, <2>3, TypeNext DEF DoneRemain, RedisOK, RestOK, redis
<1>6. CASE DoneDeleteLock(h)
  <2>1. HndOK'
    BY <1>1, <1>2, <1>6, GotoOK DEF DoneDeleteLock, HandlerPC, DonePC
  <2>2. RedisOK' /\ job' \in [Reservations -> JobState]
    BY <1>1, <1>2, <1>6, KeyOK, DeleteLockOK DEF DoneDeleteLock, RedisOK
  <2>3. QED BY <1>1, <1>6, <2>1, <2>2, TypeNext DEF DoneDeleteLock, DbOK, RestOK, db
<1>7. CASE FailRelease(h)
  <2>1. HndOK'
    BY <1>1, <1>2, <1>7, GotoOK DEF FailRelease, HandlerPC, FailPC
  <2>2. RedisOK' /\ job' \in [Reservations -> JobState]
    BY <1>1, <1>2, <1>7, ReleaseOK DEF FailRelease
  <2>3. QED BY <1>1, <1>7, <2>1, <2>2, TypeNext DEF FailRelease, DbOK, RestOK, db
<1>8. CASE WebhookRemoveJob(h)
  <2>1. HndOK'
    BY <1>1, <1>8, FinishOK DEF WebhookRemoveJob
  <2>2. job' \in [Reservations -> JobState]
    BY <1>1, <1>2, <1>8, JobOK DEF WebhookRemoveJob, RestOK
  <2>3. QED
    BY <1>1, <1>8, <2>1, <2>2, TypeNext DEF WebhookRemoveJob, DbOK, RedisOK, RestOK, db, redis
<1>9. QED BY <1>3, <1>4, <1>5, <1>6, <1>7, <1>8

\* The beginnings of the requests and webhooks.
LEMMA BeginTypeStep ==
    ASSUME TypeOK, NEW h \in Handlers, NEW r \in Reservations, Begin(h, r)
    PROVE  TypeOK'
<1>1. HndOK /\ DbOK /\ RedisOK /\ RestOK
  BY TypeParts
<1>2. \E pc \in HandlerPC : hnd' = [hnd EXCEPT ![h] = [pc |-> pc, r |-> r]]
  <2> USE DEF HandlerPC, CreatePC, CancelPC, ExtendPC, DonePC, FailPC
  <2>1. CASE CreateIsAdmitted(h, r)
    BY <2>1 DEF CreateIsAdmitted
  <2>2. CASE CancelBegin(h, r)
    BY <2>2 DEF CancelBegin, PassCheck
  <2>3. CASE ExtendBegin(h, r)
    BY <2>3 DEF ExtendBegin, PassCheck
  <2>4. CASE WebhookBegin(h, r)
    BY <2>4 DEF WebhookBegin, PassCheck
  <2>5. QED BY <2>1, <2>2, <2>3, <2>4 DEF Begin
<1>3. HndOK'
  BY <1>1, <1>2, BeginOK
<1>4. disturbed' \subseteq Reservations
  BY <1>1 DEF Begin, CreateIsAdmitted, CancelBegin, ExtendBegin, WebhookBegin, PassCheck,
     Disturb, RestOK
<1>5. UNCHANGED <<db, redis, job, admitted, faults>>
  BY DEF Begin, CreateIsAdmitted, CancelBegin, ExtendBegin, WebhookBegin
<1>6. QED BY <1>1, <1>3, <1>4, <1>5, TypeNext DEF DbOK, RedisOK, RestOK, db, redis

\* The expiry worker.
LEMMA ExpireTypeStep == ASSUME TypeOK, ExpireStep PROVE TypeOK'
<1> DEFINE r == hnd[Expirer].r
<1> USE DEF At
<1>1. HndOK /\ DbOK /\ RedisOK /\ RestOK /\ Expirer \in AllHandlers /\ Expirer \notin Handlers
  BY TypeParts, SeatConstants DEF AllHandlers
<1>2. ASSUME NEW q \in Reservations, ExpireTake(q)
      PROVE  TypeOK'
  <2>1. HndOK'
    BY <1>1, <1>2 DEF ExpireTake, HndOK, WorkerState, ExpirePC
  <2>2. job' \in [Reservations -> JobState]
    BY <1>1, <1>2 DEF ExpireTake, RestOK, JobState
  <2>3. QED
    BY <1>1, <1>2, <2>1, <2>2, TypeNext DEF ExpireTake, DbOK, RedisOK, RestOK, db, redis
<1>3. ASSUME ExpireFind \/ ExpireStatus \/ ExpirePayment \/ ExpireRelease \/ ExpireAdmit
      PROVE  hnd[Expirer] # Idle /\ r \in Reservations
  BY <1>1, <1>3, Busy DEF ExpireFind, ExpireStatus, ExpirePayment, ExpireRelease, ExpireAdmit
<1>4. ASSUME EndJob, r \in Reservations
      PROVE  HndOK' /\ job' \in [Reservations -> JobState]
  BY <1>1, <1>4, FinishOK DEF EndJob, RestOK, JobState
<1>5. CASE ExpireFind
  <2>1. HndOK'
    <3>1. CASE PassCheck(Expirer, r, "expire.status")
      BY <1>1, <1>3, <1>5, <3>1 DEF PassCheck, HndOK, WorkerState, ExpirePC
    <3>2. CASE EndJob
      BY <1>3, <1>4, <1>5, <3>2
    <3>3. QED BY <1>5, <3>1, <3>2 DEF ExpireFind
  <2>2. job' \in [Reservations -> JobState] /\ disturbed' \subseteq Reservations
    BY <1>1, <1>3, <1>4, <1>5 DEF ExpireFind, PassCheck, Disturb, RestOK
  <2>3. QED
    BY <1>1, <1>5, <2>1, <2>2, TypeNext DEF ExpireFind, DbOK, RedisOK, RestOK, db, redis
<1>6. CASE ExpireStatus
  <2>1. HndOK'
    BY <1>1, <1>3, <1>6, GotoOK DEF ExpireStatus, ExpirePC
  <2>2. DbOK'
    BY <1>1, <1>3, <1>6 DEF ExpireStatus, DbOK, Settled
  <2>3. QED BY <1>1, <1>6, <2>1, <2>2, TypeNext DEF ExpireStatus, RedisOK, RestOK, redis
<1>7. CASE ExpirePayment
  <2>1. HndOK' /\ job' \in [Reservations -> JobState]
    <3>1. CASE EndJob
      BY <1>3, <1>4, <1>7, <3>1
    <3>2. CASE Goto(Expirer, "expire.release") /\ UNCHANGED job
      BY <1>1, <1>3, <1>7, <3>2, GotoOK DEF ExpirePC, RestOK
    <3>3. QED BY <1>7, <3>1, <3>2 DEF ExpirePayment
  <2>2. DbOK'
    BY <1>1, <1>3, <1>7 DEF ExpirePayment, SetPayment, DbOK
  <2>3. QED BY <1>1, <1>7, <2>1, <2>2, TypeNext DEF ExpirePayment, RedisOK, RestOK, redis
<1>8. CASE ExpireRelease
  <2>1. HndOK'
    BY <1>1, <1>3, <1>8, GotoOK DEF ExpireRelease, ExpirePC
  <2>2. RedisOK' /\ job' \in [Reservations -> JobState]
    BY <1>1, <1>3, <1>8, ReleaseOK DEF ExpireRelease
  <2>3. QED BY <1>1, <1>8, <2>1, <2>2, TypeNext DEF ExpireRelease, DbOK, RestOK, db
<1>9. CASE ExpireAdmit
  <2>1. HndOK' /\ job' \in [Reservations -> JobState]
    BY <1>3, <1>4, <1>9 DEF ExpireAdmit
  <2>2. admitted' \subseteq Users
    BY <1>1, <1>9 DEF ExpireAdmit, RestOK
  <2>3. QED
    BY <1>1, <1>9, <2>1, <2>2, TypeNext DEF ExpireAdmit, DbOK, RedisOK, RestOK, db, redis
<1>10. QED BY <1>2, <1>5, <1>6, <1>7, <1>8, <1>9 DEF ExpireStep

\* The queue, time and faults.
LEMMA WorldTypeStep ==
    ASSUME TypeOK,
           \/ \E u \in Users : Admit(u) \/ AdmittedExpires(u)
           \/ \E k \in Zones \X Users : LockAges(k) \/ LockExpires(k)
           \/ \E h \in AllHandlers : HandlerFails(h)
           \/ \E h \in Handlers : CreateCatch(h)
           \/ Crash
    PROVE  TypeOK'
<1>1. HndOK /\ DbOK /\ RedisOK /\ RestOK
  BY TypeParts
<1>2. ASSUME NEW u \in Users, Admit(u) \/ AdmittedExpires(u)
      PROVE  TypeOK'
  BY <1>1, <1>2, TypeNext DEF Admit, AdmittedExpires, HndOK, DbOK, RedisOK, RestOK, db, redis
<1>3. ASSUME NEW k \in Zones \X Users, LockAges(k)
      PROVE  TypeOK'
  BY <1>1, <1>3, TypeNext DEF LockAges, HndOK, DbOK, RedisOK, RestOK, db
<1>4. ASSUME NEW k \in Zones \X Users, LockExpires(k)
      PROVE  TypeOK'
  <2>1. RedisOK' /\ job' \in [Reservations -> JobState]
    BY <1>1, <1>4, DeleteLockOK DEF LockExpires, RedisOK
  <2>2. QED BY <1>1, <1>4, <2>1, TypeNext DEF LockExpires, HndOK, DbOK, RestOK, db
<1>5. ASSUME NEW h \in AllHandlers, HandlerFails(h)
      PROVE  TypeOK'
  <2>1. hnd[h].r \in Reservations
    BY <1>1, <1>5, Busy DEF HandlerFails
  <2>2. HndOK'
    BY <1>1, <1>5, FinishOK DEF HandlerFails, EndJob
  <2>3. RestOK'
    BY <1>1, <1>5, <2>1, SeatConstants DEF HandlerFails, EndJob, Disturb, RestOK, JobState
  <2>4. QED BY <1>1, <1>5, <2>2, <2>3, TypeNext DEF HandlerFails, DbOK, RedisOK, db, redis
<1>6. ASSUME NEW h \in Handlers, CreateCatch(h)
      PROVE  TypeOK'
  <2>1. HndOK'
    <3>1. h \in AllHandlers /\ h # Expirer
      BY SeatConstants DEF AllHandlers
    <3>2. hnd[h] # Idle
      BY <1>1, <1>6, <3>1, Busy DEF CreateCatch
    <3>3. QED BY <1>1, <1>6, <3>1, <3>2, GotoOK DEF CreateCatch, HandlerPC, CreatePC
  <2>2. QED
    BY <1>1, <1>6, <2>1, TypeNext, SeatConstants
       DEF CreateCatch, DbOK, RedisOK, RestOK, db, redis
<1>7. CASE Crash
  <2>1. HndOK'
    BY <1>1, <1>7 DEF Crash, HndOK, HandlerState, WorkerState, AllHandlers
  <2>2. RestOK'
    BY <1>1, <1>7, SeatConstants DEF Crash, RestOK, JobState
  <2>3. QED BY <1>1, <1>7, <2>1, <2>2, TypeNext DEF Crash, DbOK, RedisOK, db, redis
<1>8. QED BY <1>2, <1>3, <1>4, <1>5, <1>6, <1>7

LEMMA TypeStep == TypeOK /\ [Next]_vars => TypeOK'
<1> SUFFICES ASSUME TypeOK, [Next]_vars PROVE TypeOK'
  OBVIOUS
<1>1. CASE UNCHANGED vars
  BY <1>1 DEF vars, TypeOK
<1>2. ASSUME NEW h \in Handlers, Continue(h)
      PROVE  TypeOK'
  BY <1>2, CreateTypeStep, CancelTypeStep, ExtendTypeStep, WebhookTypeStep DEF Continue
<1>3. CASE Next
  BY <1>2, <1>3, BeginTypeStep, ExpireTypeStep, WorldTypeStep DEF Next
<1>4. QED BY <1>1, <1>3

LEMMA TypeInit == Init => TypeOK
BY SeatConstants DEF Init, TypeOK, HandlerState, WorkerState, JobState, AllHandlers

\* The state of every reservation, lock, job and handler keeps its type through
\* every interleaving, failure and crash.
THEOREM SeatTypeCorrect == Spec => []TypeOK
BY TypeInit, TypeStep, PTL DEF Spec

-----------------------------------------------------------------------------
(* The stock.                                                              *)

\* What a step can do to the stock.
LEMMA StockFrame ==
    ASSUME TypeOK, Next
    PROVE  \/ UNCHANGED stock
           \/ \E r \in Reservations : ReleaseStock(r)
           \/ \E h \in Handlers : CreatePreempt(h)
<1>1. HndOK
  BY TypeParts
<1>2. ASSUME NEW h \in Handlers, Continue(h)
      PROVE  \/ UNCHANGED stock
             \/ \E r \in Reservations : ReleaseStock(r)
             \/ CreatePreempt(h)
  <2>1. CASE CreateUndo(h) \/ CancelRelease(h) \/ FailRelease(h)
    <3>1. hnd[h].r \in Reservations
      BY <1>1, <2>1, Busy DEF CreateUndo, CancelRelease, FailRelease, At, AllHandlers
    <3>2. QED BY <2>1, <3>1 DEF CreateUndo, CancelRelease, FailRelease
  <2>2. CASE ~(CreateUndo(h) \/ CancelRelease(h) \/ FailRelease(h))
    BY <1>2, <2>2 DEF Continue, CreateInsert, CreateRefuse, CreateConsume, CreateAddJob,
       CreatePayment, CreateCancel, CancelRemoveJob, CancelStatus, CancelPayment, ExtendTtl,
       ExtendExpire, ExtendRemoveJob, ExtendAddJob, ExtendStatus, DoneTx, DoneRemain,
       DoneDeleteLock, FailTx, WebhookRemoveJob, redis
  <2>3. QED BY <2>1, <2>2
<1>3. ASSUME NEW h \in Handlers, NEW r \in Reservations, Begin(h, r) \/ CreateCatch(h)
      PROVE  UNCHANGED stock
  BY <1>3 DEF Begin, CreateIsAdmitted, CancelBegin, ExtendBegin, WebhookBegin, CreateCatch, redis
<1>4. ASSUME ExpireStep
      PROVE  UNCHANGED stock \/ \E r \in Reservations : ReleaseStock(r)
  <2>1. CASE ExpireRelease
    <3>1. hnd[Expirer].r \in Reservations
      BY <1>1, <2>1, Busy DEF ExpireRelease, At, AllHandlers
    <3>2. QED BY <2>1, <3>1 DEF ExpireRelease
  <2>2. CASE ~ExpireRelease
    BY <1>4, <2>2 DEF ExpireStep, ExpireTake, ExpireFind, ExpireStatus, ExpirePayment,
       ExpireAdmit, redis
  <2>3. QED BY <2>1, <2>2
<1>5. ASSUME NEW u \in Users, Admit(u) \/ AdmittedExpires(u)
      PROVE  UNCHANGED stock
  BY <1>5 DEF Admit, AdmittedExpires, redis
<1>6. ASSUME NEW k \in Zones \X Users, LockAges(k) \/ LockExpires(k)
      PROVE  UNCHANGED stock
  BY <1>6 DEF LockAges, LockExpires
<1>7. ASSUME NEW h \in AllHandlers, HandlerFails(h)
      PROVE  UNCHANGED stock
  BY <1>7 DEF HandlerFails, redis
<1>8. ASSUME NEW h \in Handlers, CreateCatch(h)
      PROVE  UNCHANGED stock
  BY <1>8 DEF CreateCatch, redis
<1>9. CASE Crash
  BY <1>9 DEF Crash, redis
<1>10. QED BY <1>2, <1>3, <1>4, <1>5, <1>6, <1>7, <1>8, <1>9, Zenon DEF Next

LEMMA StockStep == TypeOK /\ StockNeverNegative /\ [Next]_vars => StockNeverNegative'
<1> SUFFICES ASSUME TypeOK, StockNeverNegative, [Next]_vars PROVE StockNeverNegative'
  OBVIOUS
<1>1. stock \in [Zones -> Int] /\ HndOK /\ \A z \in Zones : stock[z] >= 0
  BY TypeParts DEF TypeOK, StockNeverNegative
<1>2. CASE UNCHANGED stock
  BY <1>1, <1>2 DEF StockNeverNegative
<1>3. ASSUME NEW r \in Reservations, ReleaseStock(r)
      PROVE  StockNeverNegative'
  <2>1. Zone[r] \in Zones /\ Qty[r] \in Nat
    BY SeatConstants
  <2>2. QED BY <1>1, <1>3, <2>1 DEF ReleaseStock, StockNeverNegative
<1>4. ASSUME NEW h \in Handlers, CreatePreempt(h)
      PROVE  StockNeverNegative'
  <2>1. hnd[h].r \in Reservations
    BY <1>1, <1>4, Busy DEF CreatePreempt, At, AllHandlers
  <2>2. Zone[hnd[h].r] \in Zones /\ Qty[hnd[h].r] \in Nat
    BY <2>1, SeatConstants
  <2>3. QED BY <1>1, <1>4, <2>2 DEF CreatePreempt, StockNeverNegative, redis
<1>5. QED BY <1>2, <1>3, <1>4, StockFrame DEF vars

\* No number of users, requests, webhooks and failures oversells a zone: the
\* script that compares and decrements the stock is the only one that takes from
\* it, and every other one only gives back.
THEOREM StockNeverNegativeCorrect == Spec => []StockNeverNegative
<1>1. Init => StockNeverNegative
  BY SeatConstants DEF Init, StockNeverNegative
<1>2. QED BY <1>1, TypeInit, TypeStep, StockStep, PTL DEF Spec

-----------------------------------------------------------------------------
(* The accounts of one reservation.                                        *)

\* h is past the check of r.
Works(h, r) == hnd[h].r = r /\ ~At(h, "expire.find")

Live(r) == job[r] \in {"held", "delayed", "active"}

\* What holds of an undisturbed reservation when its one handler is about to
\* send the command pc.
Stage(r, pc) ==
    /\ pc = "create.insert" => status[r] = "none" /\ taken[r] = 0 /\ job[r] = "none"
    /\ pc \in {"create.preempt", "create.refuse"} =>
         status[r] = "PENDING" /\ taken[r] = 0 /\ job[r] = "none"
    /\ pc = "create.consumeRefused" => status[r] = "CANCELLED" /\ taken[r] = 0
    /\ pc = "create.job" => status[r] = "PENDING" /\ taken[r] = 1 /\ job[r] = "none"
    /\ pc = "create.payment" => status[r] = "PENDING" /\ taken[r] = 1 /\ Live(r)
    /\ pc = "create.undo" => status[r] = "PENDING" /\ taken[r] = 1
    /\ pc \in {"create.consume", "done.tx", "fail.tx", "extend.ttl", "extend.expire",
               "extend.remove", "extend.status"} =>
         status[r] = "PENDING" /\ taken[r] = 1 /\ payment[r] # "none" /\ Live(r)
    /\ pc = "extend.add" =>
         status[r] = "PENDING" /\ taken[r] = 1 /\ payment[r] # "none" /\ job[r] = "none"
    /\ pc \in {"create.cancel", "cancel.job", "cancel.status"} =>
         status[r] = "PENDING" /\ taken[r] = 0
    /\ pc = "cancel.release" => status[r] = "PENDING" /\ taken[r] = 1
    /\ pc = "cancel.payment" => status[r] = "CANCELLED" /\ taken[r] = 0
    /\ pc \in {"done.remain", "done.lock", "done.job"} =>
         status[r] = "CONFIRMED" /\ taken[r] = 1
    /\ pc = "fail.release" => status[r] \in {"CANCELLED", "EXPIRED"} /\ taken[r] = 1
    /\ pc = "fail.job" => status[r] \in {"CANCELLED", "EXPIRED"} /\ taken[r] = 0
    /\ pc = "expire.status" =>
         status[r] = "PENDING" /\ taken[r] = 1 /\ payment[r] # "none"
    /\ pc = "expire.payment" =>
         status[r] = "EXPIRED" /\ taken[r] = 1 /\ payment[r] # "none"
    /\ pc = "expire.release" => status[r] = "EXPIRED" /\ taken[r] = 1
    /\ pc = "expire.admit" => status[r] = "EXPIRED" /\ taken[r] = 0

\* What holds of it between two handlers.
Rest(r) ==
    /\ taken[r] = IF status[r] \in {"PENDING", "CONFIRMED"} THEN 1 ELSE 0
    /\ status[r] = "none" => job[r] = "none"
    /\ status[r] = "PENDING" => payment[r] # "none" /\ Live(r)

WorkerJob == hnd[Expirer] # Idle => job[hnd[Expirer].r] = "active"

\* The inductive invariant: an undisturbed reservation has at most one handler
\* past its checks, whose place says how its status, seats, payment and job
\* stand, and they agree when it has none.
AccountInv ==
    /\ WorkerJob
    /\ \A r \in Reservations \ disturbed :
         /\ \A h, g \in AllHandlers : Works(h, r) /\ Works(g, r) => h = g
         /\ \A h \in AllHandlers : Works(h, r) => Stage(r, hnd[h].pc)
         /\ ~InProgress(r) => Rest(r)

Alone(r) == \A h, g \in AllHandlers : Works(h, r) /\ Works(g, r) => h = g

LEMMA InProgressWorks ==
    ASSUME NEW r PROVE InProgress(r) <=> \E h \in AllHandlers : Works(h, r)
BY DEF InProgress, Works

\* What jobs of other reservations go through while a handler works.
SameJob(q) ==
    /\ job'[q] = "none" <=> job[q] = "none"
    /\ job'[q] = "active" <=> job[q] = "active"
    /\ job'[q] \in {"held", "delayed", "active"} <=> Live(q)

SameData(q) ==
    /\ status'[q] = status[q]
    /\ taken'[q] = taken[q]
    /\ payment'[q] = payment[q]
    /\ SameJob(q)

LEMMA RestKept ==
    ASSUME NEW q, SameData(q), Rest(q)
    PROVE  Rest(q)'
BY DEF SameData, SameJob, Rest, Live

\* A step of one handler h that touches no reservation but r preserves the
\* invariant when it does for r.
LEMMA HandlerStep ==
    ASSUME TypeOK, AccountInv,
           NEW h \in AllHandlers, NEW r \in Reservations,
           \A g \in AllHandlers \ {h} : hnd'[g] = hnd[g],
           hnd[h] = Idle \/ hnd[h].r = r,
           hnd'[h] = Idle \/ hnd'[h].r = r,
           disturbed \subseteq disturbed',
           \A q \in Reservations \ {r} : SameData(q),
           WorkerJob',
           r \notin disturbed' => \A g \in AllHandlers \ {h} : ~Works(g, r),
           r \notin disturbed' => IF Works(h, r)' THEN Stage(r, hnd[h].pc)' ELSE Rest(r)'
    PROVE  AccountInv'
<1>1. ASSUME NEW q \in Reservations \ disturbed'
      PROVE  /\ Alone(q)'
             /\ \A g \in AllHandlers : Works(g, q)' => Stage(q, hnd[g].pc)'
             /\ ~InProgress(q)' => Rest(q)'
  <2>1. CASE q = r
    <3>1. \A g \in AllHandlers \ {h} : ~Works(g, r)'
      BY <1>1, <2>1 DEF Works, At
    <3>2. QED BY <1>1, <2>1, <3>1, InProgressWorks DEF Alone, InProgress, Works, At
  <2>2. CASE q # r
    <3>1. ~Works(h, q) /\ ~Works(h, q)'
      BY <1>1, <2>2, SeatConstants DEF Works, Idle
    <3>2. \A g \in AllHandlers \ {h} : Works(g, q)' <=> Works(g, q)
      BY DEF Works, At
    <3>3. SameData(q)
      BY <1>1, <2>2
    <3>4. /\ Alone(q)
          /\ \A g \in AllHandlers : Works(g, q) => Stage(q, hnd[g].pc)
          /\ ~InProgress(q) => Rest(q)
      BY <1>1 DEF AccountInv, Alone
    <3>5. Alone(q)'
      BY <3>1, <3>2, <3>4 DEF Alone
    <3>6. ASSUME NEW g \in AllHandlers, Works(g, q)'
          PROVE  Stage(q, hnd[g].pc)'
      <4>1. g # h /\ hnd'[g] = hnd[g] /\ Stage(q, hnd[g].pc)
        BY <3>1, <3>2, <3>4, <3>6
      <4>2. QED BY <3>3, <4>1 DEF SameData, SameJob, Stage, Live
    <3>7. ASSUME ~InProgress(q)'
          PROVE  Rest(q)'
      <4>1. ~InProgress(q)
        BY <3>1, <3>2, <3>7 DEF InProgress, Works, At
      <4>2. QED BY <3>3, <3>4, <4>1, RestKept
    <3>8. QED BY <3>5, <3>6, <3>7
  <2>3. QED BY <2>1, <2>2
<1>2. QED BY <1>1 DEF AccountInv, Alone

\* A step that moves no handler past its checks, changes no status, seats or
\* payment, and ends no job of a PENDING reservation.
LEMMA QuietStep ==
    ASSUME AccountInv, UNCHANGED <<disturbed, status, taken, payment>>, WorkerJob',
           \A g \in AllHandlers, q \in Reservations :
             /\ Works(g, q)' <=> Works(g, q)
             /\ Works(g, q) => hnd'[g] = hnd[g],
           \A q \in Reservations :
             /\ job'[q] = "none" <=> job[q] = "none"
             /\ Live(q) /\ status[q] = "PENDING" => Live(q)'
    PROVE  AccountInv'
<1>1. ASSUME NEW q \in Reservations \ disturbed
      PROVE  /\ Alone(q)'
             /\ \A g \in AllHandlers : Works(g, q)' => Stage(q, hnd[g].pc)'
             /\ ~InProgress(q)' => Rest(q)'
  <2>1. /\ Alone(q)
        /\ \A g \in AllHandlers : Works(g, q) => Stage(q, hnd[g].pc)
        /\ ~InProgress(q) => Rest(q)
    BY <1>1 DEF AccountInv, Alone
  <2>2. Alone(q)'
    BY <1>1, <2>1 DEF Alone
  <2>3. ASSUME NEW g \in AllHandlers, Works(g, q)'
        PROVE  Stage(q, hnd[g].pc)'
    <3>1. hnd'[g] = hnd[g] /\ Stage(q, hnd[g].pc)
      BY <1>1, <2>1, <2>3
    <3>2. /\ job'[q] = "none" <=> job[q] = "none"
          /\ Live(q) /\ status[q] = "PENDING" => Live(q)'
      BY <1>1
    <3>3. QED BY <3>1, <3>2 DEF Stage
  <2>4. ASSUME ~InProgress(q)'
        PROVE  Rest(q)'
    <3>1. Rest(q)
      BY <1>1, <2>1, <2>4 DEF InProgress, Works, At
    <3>2. QED BY <1>1, <3>1 DEF Rest
  <2>5. QED BY <2>2, <2>3, <2>4
<1>2. QED BY <1>1 DEF AccountInv, Alone

LEMMA UnholdSame ==
    ASSUME RestOK, NEW k, job' = Unhold(job, k), NEW q \in Reservations
    PROVE  SameJob(q)
BY DEF Unhold, SameJob, Live, RestOK, JobState

LEMMA SameJobs ==
    ASSUME RestOK, NEW r \in Reservations, NEW q \in Reservations \ {r},
           UNCHANGED job \/ AddJob(r) \/ RemoveJob(r)
    PROVE  SameJob(q)
BY DEF AddJob, RemoveJob, SameJob, Live, RestOK

\* A handler that goes on or ends leaves the others where they are.
LEMMA Moves ==
    ASSUME HndOK, NEW h \in AllHandlers, NEW pc, Goto(h, pc) \/ Finish(h)
    PROVE  /\ \A g \in AllHandlers \ {h} : hnd'[g] = hnd[g]
           /\ hnd'[h] = Idle \/ hnd'[h].r = hnd[h].r
           /\ Goto(h, pc) => hnd'[h].pc = pc /\ hnd'[h].r = hnd[h].r
           /\ Finish(h) => hnd'[h] = Idle
<1>1. hnd \in [AllHandlers -> {Idle} \cup [pc : HandlerPC \cup ExpirePC, r : Reservations]]
  BY DEF HndOK, HandlerState, WorkerState
<1>2. CASE Goto(h, pc)
  <2>1. hnd' = [hnd EXCEPT ![h] = [hnd[h] EXCEPT !.pc = pc]]
    BY <1>2 DEF Goto
  <2>2. hnd'[h] = [hnd[h] EXCEPT !.pc = pc]
    BY <1>1, <2>1
  <2>3. DOMAIN hnd[h] = {"pc", "r"}
    BY <1>1 DEF Idle
  <2>4. hnd'[h].pc = pc /\ hnd'[h].r = hnd[h].r
    BY <2>2, <2>3
  <2>5. Finish(h) => hnd'[h] = Idle
    BY <1>1 DEF Finish
  <2>6. QED BY <1>1, <2>1, <2>4, <2>5
<1>3. CASE Finish(h)
  <2>1. hnd'[h] = Idle /\ \A g \in AllHandlers \ {h} : hnd'[g] = hnd[g]
    BY <1>1, <1>3 DEF Finish
  <2>2. Goto(h, pc) => hnd'[h].pc = pc /\ hnd'[h].r = hnd[h].r
    BY <1>1 DEF Goto, Idle
  <2>3. QED BY <2>1, <2>2, <1>3
<1>4. QED BY <1>2, <1>3

\* What a handler on its way does to the other reservations and handlers, and to
\* a job that the worker has taken.
Bystanders(h) ==
    /\ \A g \in AllHandlers \ {h} : hnd'[g] = hnd[g]
    /\ hnd'[h] = Idle \/ hnd'[h].r = hnd[h].r
    /\ disturbed \subseteq disturbed'
    /\ \A q \in Reservations \ {hnd[h].r} : SameData(q)
    /\ \A q \in Reservations : job[q] = "active" => job'[q] = "active"

LEMMA CreateBystanders ==
    ASSUME TypeOK, NEW h \in Handlers,
           \/ CreateInsert(h) \/ CreatePreempt(h) \/ CreateRefuse(h) \/ CreateConsume(h)
           \/ CreateAddJob(h) \/ CreatePayment(h) \/ CreateUndo(h) \/ CreateCancel(h)
           \/ CreateCatch(h)
    PROVE  Bystanders(h)
<1> DEFINE r == hnd[h].r
<1>1. HndOK /\ DbOK /\ RedisOK /\ RestOK /\ h \in AllHandlers
  BY TypeParts DEF AllHandlers
<1>2. r \in Reservations
  BY <1>1, Busy, SeatConstants DEF At, CreateInsert, CreatePreempt, CreateRefuse,
     CreateConsume, CreateAddJob, CreatePayment, CreateUndo, CreateCancel, CreateCatch, Idle
<1>3. (\E pc \in CreatePC : Goto(h, pc)) \/ Finish(h)
  BY DEF CreatePC, CreateInsert, CreatePreempt, CreateRefuse, CreateConsume, CreateAddJob,
     CreatePayment, CreateUndo, CreateCancel, CreateCatch
<1>4. UNCHANGED disturbed
  BY DEF CreateInsert, CreatePreempt, CreateRefuse, CreateConsume, CreateAddJob,
     CreatePayment, CreateUndo, CreateCancel, CreateCatch
<1>5. \/ UNCHANGED job \/ AddJob(r)
      \/ job' = Unhold(job, Key(r))
  BY DEF CreateInsert, CreatePreempt, CreateRefuse, CreateConsume, CreateAddJob,
     CreatePayment, CreateUndo, CreateCancel, CreateCatch, ReleaseStock, DeleteLock
<1>6. ASSUME NEW q \in Reservations \ {r}
      PROVE  SameData(q)
  <2>1. SameJob(q)
    BY <1>1, <1>2, <1>5, <1>6, SameJobs, UnholdSame
  <2>2. status'[q] = status[q] /\ taken'[q] = taken[q] /\ payment'[q] = payment[q]
    BY <1>1, <1>2, <1>6 DEF CreateInsert, CreatePreempt, CreateRefuse, CreateConsume,
       CreateAddJob, CreatePayment, CreateUndo, CreateCancel, CreateCatch, ReleaseStock,
       DbOK, RedisOK, db, redis
  <2>3. QED BY <2>1, <2>2 DEF SameData
<1>7. ASSUME NEW q \in Reservations, job[q] = "active"
      PROVE  job'[q] = "active"
  BY <1>1, <1>2, <1>5, <1>7 DEF AddJob, Unhold, RestOK
<1>8. QED BY <1>1, <1>3, <1>4, <1>6, <1>7, Moves DEF Bystanders

LEMMA CancelExtendBystanders ==
    ASSUME TypeOK, NEW h \in Handlers,
           \/ CancelRelease(h) \/ CancelRemoveJob(h) \/ CancelStatus(h) \/ CancelPayment(h)
           \/ ExtendTtl(h) \/ ExtendExpire(h) \/ ExtendRemoveJob(h) \/ ExtendAddJob(h)
           \/ ExtendStatus(h)
    PROVE  Bystanders(h)
<1> DEFINE r == hnd[h].r
<1>1. HndOK /\ DbOK /\ RedisOK /\ RestOK /\ h \in AllHandlers
  BY TypeParts DEF AllHandlers
<1>2. r \in Reservations
  BY <1>1, Busy, SeatConstants DEF At, CancelRelease, CancelRemoveJob, CancelStatus,
     CancelPayment, ExtendTtl, ExtendExpire, ExtendRemoveJob, ExtendAddJob, ExtendStatus, Idle
<1>3. (\E pc \in HandlerPC : Goto(h, pc)) \/ Finish(h)
  BY DEF HandlerPC, CancelPC, ExtendPC, CancelRelease, CancelRemoveJob, CancelStatus,
     CancelPayment, ExtendTtl, ExtendExpire, ExtendRemoveJob, ExtendAddJob, ExtendStatus
<1>4. disturbed \subseteq disturbed'
  BY DEF CancelRelease, CancelRemoveJob, CancelStatus, CancelPayment, ExtendTtl,
     ExtendExpire, ExtendRemoveJob, ExtendAddJob, ExtendStatus, Disturb
<1>5. \/ UNCHANGED job \/ AddJob(r) \/ RemoveJob(r)
      \/ job' = Unhold(job, Key(r))
  BY DEF CancelRelease, CancelRemoveJob, CancelStatus, CancelPayment, ExtendTtl,
     ExtendExpire, ExtendRemoveJob, ExtendAddJob, ExtendStatus, ReleaseStock, DeleteLock
<1>6. ASSUME NEW q \in Reservations \ {r}
      PROVE  SameData(q)
  <2>1. SameJob(q)
    BY <1>1, <1>2, <1>5, <1>6, SameJobs, UnholdSame
  <2>2. status'[q] = status[q] /\ taken'[q] = taken[q] /\ payment'[q] = payment[q]
    BY <1>1, <1>2, <1>6 DEF CancelRelease, CancelRemoveJob, CancelStatus, CancelPayment,
       SetPayment, ExtendTtl, ExtendExpire, ExtendRemoveJob, ExtendAddJob, ExtendStatus,
       ReleaseStock, DbOK, RedisOK, db, redis
  <2>3. QED BY <2>1, <2>2 DEF SameData
<1>7. ASSUME NEW q \in Reservations, job[q] = "active"
      PROVE  job'[q] = "active"
  BY <1>1, <1>2, <1>5, <1>7 DEF AddJob, RemoveJob, Unhold, RestOK
<1>8. QED BY <1>1, <1>3, <1>4, <1>6, <1>7, Moves DEF Bystanders

LEMMA WebhookBystanders ==
    ASSUME TypeOK, NEW h \in Handlers,
           \/ DoneTx(h) \/ DoneRemain(h) \/ DoneDeleteLock(h)
           \/ FailTx(h) \/ FailRelease(h) \/ WebhookRemoveJob(h)
    PROVE  Bystanders(h)
<1> DEFINE r == hnd[h].r
<1>1. HndOK /\ DbOK /\ RedisOK /\ RestOK /\ h \in AllHandlers
  BY TypeParts DEF AllHandlers
<1>2. r \in Reservations
  BY <1>1, Busy, SeatConstants DEF At, DoneTx, DoneRemain, DoneDeleteLock, FailTx,
     FailRelease, WebhookRemoveJob, Idle
<1>3. (\E pc \in HandlerPC : Goto(h, pc)) \/ Finish(h)
  BY DEF HandlerPC, DonePC, FailPC, DoneTx, DoneRemain, DoneDeleteLock, FailTx,
     FailRelease, WebhookRemoveJob, Tx
<1>4. UNCHANGED disturbed
  BY DEF DoneTx, DoneRemain, DoneDeleteLock, FailTx, FailRelease, WebhookRemoveJob
<1>5. UNCHANGED job \/ RemoveJob(r) \/ job' = Unhold(job, Key(r))
  BY DEF DoneTx, DoneRemain, DoneDeleteLock, FailTx, FailRelease, WebhookRemoveJob,
     ReleaseStock, DeleteLock
<1>6. ASSUME NEW q \in Reservations \ {r}
      PROVE  SameData(q)
  <2>1. SameJob(q)
    BY <1>1, <1>2, <1>5, <1>6, SameJobs, UnholdSame
  <2>2. status'[q] = status[q] /\ taken'[q] = taken[q] /\ payment'[q] = payment[q]
    BY <1>1, <1>2, <1>6 DEF DoneTx, DoneRemain, DoneDeleteLock, FailTx, FailRelease,
       WebhookRemoveJob, Tx, ReleaseStock, DbOK, RedisOK, db, redis
  <2>3. QED BY <2>1, <2>2 DEF SameData
<1>7. ASSUME NEW q \in Reservations, job[q] = "active"
      PROVE  job'[q] = "active"
  BY <1>1, <1>2, <1>5, <1>7 DEF RemoveJob, Unhold, RestOK
<1>8. QED BY <1>1, <1>3, <1>4, <1>6, <1>7, Moves DEF Bystanders

-----------------------------------------------------------------------------
(* Each command takes its own reservation from its row of Stage to the next. *)

Onward(h, r) ==
    IF hnd'[h] = Idle THEN Rest(r)' ELSE Stage(r, hnd[h].pc)'

LEMMA OwnStep ==
    ASSUME TypeOK, TypeOK', AccountInv, NEW h \in Handlers, NEW r \in Reservations,
           hnd[h].r = r, Bystanders(h),
           r \notin disturbed' /\ Stage(r, hnd[h].pc) => Onward(h, r)
    PROVE  AccountInv'
<1>1. HndOK /\ RestOK /\ h \in AllHandlers /\ h # Expirer /\ Expirer \in AllHandlers
  BY TypeParts, SeatConstants DEF AllHandlers
<1>2. hnd[h].pc \in HandlerPC
  BY <1>1, SeatConstants, Busy DEF Idle
<1>3. Works(h, r)
  BY <1>2 DEF Works, At, HandlerPC, CreatePC, CancelPC, ExtendPC, DonePC, FailPC
<1>4. WorkerJob'
  <2>1. hnd'[Expirer] = hnd[Expirer]
    BY <1>1 DEF Bystanders
  <2>2. hnd[Expirer] # Idle => hnd[Expirer].r \in Reservations
    BY <1>1, Busy
  <2>3. QED BY <2>1, <2>2 DEF AccountInv, WorkerJob, Bystanders
<1>5. r \notin disturbed' => /\ \A g \in AllHandlers \ {h} : ~Works(g, r)
                             /\ Stage(r, hnd[h].pc)
  BY <1>1, <1>2, <1>3 DEF AccountInv, Bystanders
<1>6. r \notin disturbed' => IF Works(h, r)' THEN Stage(r, hnd[h].pc)' ELSE Rest(r)'
  <2>1. CASE hnd'[h] = Idle
    <3>1. ~Works(h, r)'
      BY <1>2, <2>1, SeatConstants DEF Works, Idle
    <3>2. QED BY <1>5, <2>1, <3>1 DEF Onward
  <2>2. CASE hnd'[h] # Idle
    <3>1. hnd'[h].pc # "expire.find"
      BY <2>2 DEF TypeOK, HandlerState, HandlerPC, CreatePC, CancelPC, ExtendPC, DonePC,
         FailPC
    <3>2. Works(h, r)'
      BY <2>2, <3>1 DEF Works, At, Bystanders
    <3>3. QED BY <1>5, <2>2, <3>2 DEF Onward
  <2>3. QED BY <2>1, <2>2
<1>7. QED BY <1>1, <1>2, <1>4, <1>5, <1>6, HandlerStep DEF Bystanders

\* What the commands of a handler start from, and where it goes.
LEMMA Commands ==
    ASSUME TypeOK, NEW h \in Handlers
    PROVE  /\ RestOK
           /\ status \in [Reservations -> {"none", "PENDING"} \cup Settled]
           /\ payment \in [Reservations -> {"none", "READY", "DONE", "CANCELLED", "FAILED"}]
           /\ taken \in [Reservations -> Int]
           /\ job \in [Reservations -> JobState]
           /\ \A pc : Goto(h, pc) => hnd'[h].pc = pc
           /\ \A pc : pc # "idle" /\ Goto(h, pc) => hnd'[h] # Idle
           /\ Finish(h) => hnd'[h] = Idle
<1>1. HndOK /\ DbOK /\ RedisOK /\ RestOK /\ h \in AllHandlers
  BY TypeParts DEF AllHandlers
<1>2. \A pc : Goto(h, pc) => hnd'[h].pc = pc
  BY <1>1, Moves
<1>3. Finish(h) => hnd'[h] = Idle
  BY <1>1, Moves
<1>4. QED BY <1>1, <1>2, <1>3 DEF DbOK, RedisOK, RestOK, Idle

LEMMA CreateOnward ==
    ASSUME TypeOK, NEW h \in Handlers, NEW r \in Reservations, hnd[h].r = r,
           Stage(r, hnd[h].pc),
           \/ CreateInsert(h) \/ CreatePreempt(h) \/ CreateRefuse(h) \/ CreateConsume(h)
           \/ CreateAddJob(h) \/ CreatePayment(h) \/ CreateUndo(h) \/ CreateCancel(h)
           \/ CreateCatch(h)
    PROVE  Onward(h, r)
<1> USE DEF At
<1> USE DEF Onward
<1>1. CASE CreateInsert(h)
  <2>1. hnd'[h].pc = "create.preempt" /\ hnd'[h] # Idle
    BY Commands, <1>1 DEF CreateInsert
  <2>2. status'[r] = "PENDING" /\ taken'[r] = 0 /\ job'[r] = "none"
    BY Commands, <1>1 DEF CreateInsert, redis, Stage
  <2>3. QED BY <2>1, <2>2 DEF Stage
<1>2. CASE CreatePreempt(h)
  <2>1. status'[r] = "PENDING" /\ job'[r] = "none"
    BY <1>2 DEF CreatePreempt, db, Stage
  <2>2. CASE stock[Zone[r]] < Qty[r] \/ lock[Key(r)] # NoRes
    <3>1. hnd'[h].pc = "create.refuse" /\ hnd'[h] # Idle /\ taken'[r] = 0
      BY Commands, <1>2, <2>2 DEF CreatePreempt, redis, Stage
    <3>2. QED BY <2>1, <3>1 DEF Stage
  <2>3. CASE ~(stock[Zone[r]] < Qty[r] \/ lock[Key(r)] # NoRes)
    <3>1. hnd'[h].pc = "create.job" /\ hnd'[h] # Idle /\ taken'[r] = 1
      BY Commands, <1>2, <2>3 DEF CreatePreempt, Stage
    <3>2. QED BY <2>1, <3>1 DEF Stage
  <2>4. QED BY <2>2, <2>3
<1>3. CASE CreateRefuse(h)
  <2>1. hnd'[h].pc = "create.consumeRefused" /\ hnd'[h] # Idle
    BY Commands, <1>3 DEF CreateRefuse
  <2>2. status'[r] = "CANCELLED" /\ taken'[r] = 0
    BY Commands, <1>3 DEF CreateRefuse, redis, Stage
  <2>3. QED BY <2>1, <2>2 DEF Stage
<1>4. CASE CreateConsume(h)
  <2>1. hnd'[h] = Idle
    BY Commands, <1>4 DEF CreateConsume
  <2>2. QED BY <1>4, <2>1 DEF CreateConsume, db, redis, Stage, Rest, Live
<1>5. CASE CreateAddJob(h)
  <2>1. hnd'[h].pc = "create.payment" /\ hnd'[h] # Idle
    BY Commands, <1>5 DEF CreateAddJob
  <2>2. status'[r] = "PENDING" /\ taken'[r] = 1 /\ Live(r)'
    BY Commands, <1>5 DEF CreateAddJob, AddJob, db, redis, Stage, Live
  <2>3. QED BY <2>1, <2>2 DEF Stage
<1>6. CASE CreatePayment(h)
  <2>1. hnd'[h].pc = "create.consume" /\ hnd'[h] # Idle
    BY Commands, <1>6 DEF CreatePayment
  <2>2. status'[r] = "PENDING" /\ taken'[r] = 1 /\ payment'[r] # "none" /\ Live(r)'
    BY Commands, <1>6 DEF CreatePayment, redis, Stage, Live
  <2>3. QED BY <2>1, <2>2 DEF Stage
<1>7. CASE CreateCatch(h)
  <2>1. hnd'[h].pc = "create.undo" /\ hnd'[h] # Idle
    BY Commands, <1>7 DEF CreateCatch
  <2>2. status'[r] = "PENDING" /\ taken'[r] = 1
    BY <1>7 DEF CreateCatch, db, redis, Stage
  <2>3. QED BY <2>1, <2>2 DEF Stage
<1>8. CASE CreateUndo(h)
  <2>1. hnd'[h].pc = "create.cancel" /\ hnd'[h] # Idle
    BY Commands, <1>8 DEF CreateUndo
  <2>2. status'[r] = "PENDING" /\ taken'[r] = 0
    BY Commands, <1>8 DEF CreateUndo, ReleaseStock, db, Stage
  <2>3. QED BY <2>1, <2>2 DEF Stage
<1>9. CASE CreateCancel(h)
  <2>1. hnd'[h] = Idle
    BY Commands, <1>9 DEF CreateCancel
  <2>2. status'[r] = "CANCELLED" /\ taken'[r] = 0
    BY Commands, <1>9 DEF CreateCancel, redis, Stage
  <2>3. QED BY <2>1, <2>2 DEF Rest
<1>10. QED BY <1>1, <1>2, <1>3, <1>4, <1>5, <1>6, <1>7, <1>8, <1>9

LEMMA CancelExtendOnward ==
    ASSUME TypeOK, NEW h \in Handlers, NEW r \in Reservations, hnd[h].r = r,
           Stage(r, hnd[h].pc), r \notin disturbed',
           \/ CancelRelease(h) \/ CancelRemoveJob(h) \/ CancelStatus(h) \/ CancelPayment(h)
           \/ ExtendTtl(h) \/ ExtendExpire(h) \/ ExtendRemoveJob(h) \/ ExtendAddJob(h)
           \/ ExtendStatus(h)
    PROVE  Onward(h, r)
<1> USE DEF At
<1> USE DEF Onward
<1>1. CASE CancelRelease(h)
  <2>1. hnd'[h].pc = "cancel.job" /\ hnd'[h] # Idle
    BY Commands, <1>1 DEF CancelRelease
  <2>2. status'[r] = "PENDING" /\ taken'[r] = 0
    BY Commands, <1>1 DEF CancelRelease, ReleaseStock, db, Stage
  <2>3. QED BY <2>1, <2>2 DEF Stage
<1>2. CASE CancelRemoveJob(h)
  <2>1. hnd'[h].pc = "cancel.status" /\ hnd'[h] # Idle
    BY Commands, <1>2 DEF CancelRemoveJob, Disturb
  <2>2. status'[r] = "PENDING" /\ taken'[r] = 0
    BY <1>2 DEF CancelRemoveJob, db, redis, Stage
  <2>3. QED BY <2>1, <2>2 DEF Stage
<1>3. CASE CancelStatus(h)
  <2>1. hnd'[h].pc = "cancel.payment" /\ hnd'[h] # Idle
    BY Commands, <1>3 DEF CancelStatus
  <2>2. status'[r] = "CANCELLED" /\ taken'[r] = 0
    BY Commands, <1>3 DEF CancelStatus, redis, Stage
  <2>3. QED BY <2>1, <2>2 DEF Stage
<1>4. CASE CancelPayment(h)
  <2>1. hnd'[h] = Idle
    BY Commands, <1>4 DEF CancelPayment
  <2>2. status'[r] = "CANCELLED" /\ taken'[r] = 0
    BY <1>4 DEF CancelPayment, redis, Stage
  <2>3. QED BY <2>1, <2>2 DEF Rest
<1>5. CASE ExtendTtl(h)
  <2>1. \/ hnd'[h].pc = "extend.expire" /\ hnd'[h] # Idle
        \/ hnd'[h] = Idle
    BY Commands, <1>5 DEF ExtendTtl
  <2>2. status'[r] = "PENDING" /\ taken'[r] = 1 /\ payment'[r] # "none" /\ Live(r)'
    BY <1>5 DEF ExtendTtl, db, redis, Stage, Live
  <2>3. QED BY <2>1, <2>2 DEF Stage, Rest
<1>6. CASE ExtendExpire(h)
  <2>1. hnd'[h].pc = "extend.remove" /\ hnd'[h] # Idle
    BY Commands, <1>6 DEF ExtendExpire
  <2>2. status'[r] = "PENDING" /\ taken'[r] = 1 /\ payment'[r] # "none"
    BY <1>6 DEF ExtendExpire, db, Stage
  <2>3. Live(r)'
    BY Commands, <1>6, UnholdSame DEF ExtendExpire, Stage, SameJob, Live
  <2>4. QED BY <2>1, <2>2, <2>3 DEF Stage
<1>7. CASE ExtendRemoveJob(h)
  <2>1. status'[r] = "PENDING" /\ taken'[r] = 1 /\ payment'[r] # "none"
    BY <1>7 DEF ExtendRemoveJob, db, redis, Stage
  <2>2. CASE RemoveJob(r) /\ Goto(h, "extend.add")
    <3>1. hnd'[h].pc = "extend.add" /\ hnd'[h] # Idle
      BY Commands, <2>2
    <3>2. job'[r] = "none"
      BY Commands, <2>2 DEF RemoveJob
    <3>3. QED BY <2>1, <3>1, <3>2 DEF Stage
  <2>3. CASE Finish(h) /\ UNCHANGED job
    <3>1. hnd'[h] = Idle /\ Live(r)'
      BY Commands, <1>7, <2>3 DEF ExtendRemoveJob, Stage, Live
    <3>2. QED BY <2>1, <3>1 DEF Rest
  <2>4. QED BY <1>7, <2>2, <2>3 DEF ExtendRemoveJob
<1>8. CASE ExtendAddJob(h)
  <2>1. hnd'[h].pc = "extend.status" /\ hnd'[h] # Idle
    BY Commands, <1>8 DEF ExtendAddJob
  <2>2. status'[r] = "PENDING" /\ taken'[r] = 1 /\ payment'[r] # "none" /\ Live(r)'
    BY Commands, <1>8 DEF ExtendAddJob, AddJob, db, redis, Stage, Live
  <2>3. QED BY <2>1, <2>2 DEF Stage
<1>9. CASE ExtendStatus(h)
  <2>1. hnd'[h] = Idle
    BY Commands, <1>9 DEF ExtendStatus
  <2>2. status'[r] = "PENDING" /\ taken'[r] = 1 /\ payment'[r] # "none" /\ Live(r)'
    BY Commands, <1>9 DEF ExtendStatus, redis, Stage, Live
  <2>3. QED BY <2>1, <2>2 DEF Rest
<1>10. QED BY <1>1, <1>2, <1>3, <1>4, <1>5, <1>6, <1>7, <1>8, <1>9

LEMMA WebhookOnward ==
    ASSUME TypeOK, NEW h \in Handlers, NEW r \in Reservations, hnd[h].r = r,
           Stage(r, hnd[h].pc),
           \/ DoneTx(h) \/ DoneRemain(h) \/ DoneDeleteLock(h)
           \/ FailTx(h) \/ FailRelease(h) \/ WebhookRemoveJob(h)
    PROVE  Onward(h, r)
<1> USE DEF At
<1> USE DEF Onward
<1>1. CASE DoneTx(h)
  <2>1. hnd'[h].pc = "done.remain" /\ hnd'[h] # Idle
    BY Commands, <1>1 DEF DoneTx, Tx, Stage
  <2>2. status'[r] = "CONFIRMED" /\ taken'[r] = 1
    BY Commands, <1>1 DEF DoneTx, Tx, redis, Stage
  <2>3. QED BY <2>1, <2>2 DEF Stage
<1>2. CASE DoneRemain(h)
  <2>1. hnd'[h].pc = "done.lock" /\ hnd'[h] # Idle
    BY Commands, <1>2 DEF DoneRemain
  <2>2. status'[r] = "CONFIRMED" /\ taken'[r] = 1
    BY <1>2 DEF DoneRemain, redis, Stage
  <2>3. QED BY <2>1, <2>2 DEF Stage
<1>3. CASE DoneDeleteLock(h)
  <2>1. hnd'[h].pc = "done.job" /\ hnd'[h] # Idle
    BY Commands, <1>3 DEF DoneDeleteLock
  <2>2. status'[r] = "CONFIRMED" /\ taken'[r] = 1
    BY <1>3 DEF DoneDeleteLock, db, Stage
  <2>3. QED BY <2>1, <2>2 DEF Stage
<1>4. CASE FailTx(h)
  <2>1. hnd'[h].pc = "fail.release" /\ hnd'[h] # Idle
    BY Commands, <1>4 DEF FailTx, Tx, Stage
  <2>2. status'[r] \in {"CANCELLED", "EXPIRED"} /\ taken'[r] = 1
    BY Commands, <1>4 DEF FailTx, Tx, redis, Stage
  <2>3. QED BY <2>1, <2>2 DEF Stage
<1>5. CASE FailRelease(h)
  <2>1. hnd'[h].pc = "fail.job" /\ hnd'[h] # Idle
    BY Commands, <1>5 DEF FailRelease
  <2>2. status'[r] \in {"CANCELLED", "EXPIRED"} /\ taken'[r] = 0
    BY Commands, <1>5 DEF FailRelease, ReleaseStock, db, Stage
  <2>3. QED BY <2>1, <2>2 DEF Stage
<1>6. CASE WebhookRemoveJob(h)
  <2>1. hnd'[h] = Idle
    BY Commands, <1>6 DEF WebhookRemoveJob
  <2>2. \/ status'[r] = "CONFIRMED" /\ taken'[r] = 1
        \/ status'[r] \in {"CANCELLED", "EXPIRED"} /\ taken'[r] = 0
    BY <1>6 DEF WebhookRemoveJob, db, redis, Stage
  <2>3. QED BY <2>1, <2>2 DEF Rest
<1>7. QED BY <1>1, <1>2, <1>3, <1>4, <1>5, <1>6

\* A handler that is not idle takes a step, or its call throws inside the try
\* block of createReservation.
LEMMA ContinueAccount ==
    ASSUME TypeOK, TypeOK', AccountInv, NEW h \in Handlers, Continue(h) \/ CreateCatch(h)
    PROVE  AccountInv'
<1>1. PICK r \in Reservations : hnd[h].r = r
  <2>1. hnd[h].pc # "idle"
    BY DEF At, Continue, CreateInsert, CreatePreempt, CreateRefuse, CreateConsume,
       CreateAddJob, CreatePayment, CreateUndo, CreateCancel, CreateCatch, CancelRelease,
       CancelRemoveJob, CancelStatus, CancelPayment, ExtendTtl, ExtendExpire,
       ExtendRemoveJob, ExtendAddJob, ExtendStatus, DoneTx, DoneRemain, DoneDeleteLock,
       FailTx, FailRelease, WebhookRemoveJob
  <2>2. hnd[h].r \in Reservations
    BY <2>1, TypeParts, Busy DEF AllHandlers, Idle
  <2>3. QED BY <2>2
<1>2. Bystanders(h)
  BY CreateBystanders, CancelExtendBystanders, WebhookBystanders DEF Continue
<1>3. ASSUME r \notin disturbed', Stage(r, hnd[h].pc)
      PROVE  Onward(h, r)
  BY <1>1, <1>3, CreateOnward, CancelExtendOnward, WebhookOnward DEF Continue
<1>4. QED BY <1>1, <1>2, <1>3, OwnStep

\* A handler that passes the check of a PENDING reservation.
LEMMA CheckAccount ==
    ASSUME TypeOK, AccountInv, NEW h \in AllHandlers, NEW r \in Reservations,
           NEW pc \in {"cancel.release", "extend.ttl", "done.tx", "fail.tx", "expire.status"},
           \/ h # Expirer /\ hnd[h] = Idle
           \/ h = Expirer /\ At(h, "expire.find") /\ hnd[h].r = r,
           PassCheck(h, r, pc), UNCHANGED <<db, redis, job>>
    PROVE  AccountInv'
<1>1. HndOK /\ RestOK
  BY TypeParts
<1>2. /\ hnd'[h].pc = pc /\ hnd'[h].r = r
      /\ \A g \in AllHandlers \ {h} : hnd'[g] = hnd[g]
      /\ disturbed \subseteq disturbed'
  BY <1>1 DEF PassCheck, HndOK, Disturb
<1>3. \A q \in Reservations \ {r} : SameData(q)
  BY DEF SameData, SameJob, Live, db, redis
<1>4. WorkerJob'
  <2>1. CASE h = Expirer
    <3>1. hnd[h] # Idle /\ hnd[h].r = r
      BY <2>1 DEF At, Idle
    <3>2. QED BY <1>2, <2>1, <3>1 DEF AccountInv, WorkerJob
  <2>2. CASE h # Expirer
    BY <1>2, <2>2 DEF AccountInv, WorkerJob, AllHandlers
  <2>3. QED BY <2>1, <2>2
<1>5. ASSUME r \notin disturbed'
      PROVE  /\ \A g \in AllHandlers \ {h} : ~Works(g, r)
             /\ Works(h, r)' /\ Stage(r, hnd[h].pc)'
  <2>1. ~InProgress(r) /\ status[r] = "PENDING" /\ r \notin disturbed
    BY <1>5 DEF PassCheck, Disturb
  <2>2. taken[r] = 1 /\ payment[r] # "none" /\ Live(r)
    BY <2>1 DEF AccountInv, Rest
  <2>3. status'[r] = "PENDING" /\ taken'[r] = 1 /\ payment'[r] # "none" /\ Live(r)'
    BY <2>1, <2>2 DEF db, redis, Live
  <2>4. Stage(r, hnd[h].pc)'
    BY <1>2, <2>3 DEF Stage
  <2>5. Works(h, r)'
    BY <1>2 DEF Works, At
  <2>6. QED BY <2>1, <2>4, <2>5, InProgressWorks
<1>6. hnd[h] = Idle \/ hnd[h].r = r
  OBVIOUS
<1>7. QED BY <1>2, <1>3, <1>4, <1>5, <1>6, HandlerStep

LEMMA BeginAccount ==
    ASSUME TypeOK, AccountInv, NEW h \in Handlers, NEW r \in Reservations, Begin(h, r)
    PROVE  AccountInv'
<1>1. HndOK /\ RestOK /\ h \in AllHandlers /\ h # Expirer
  BY TypeParts, SeatConstants DEF AllHandlers
<1>2. CASE CreateIsAdmitted(h, r)
  <2>1. /\ hnd[h] = Idle
        /\ hnd'[h].pc = "create.insert" /\ hnd'[h].r = r
        /\ \A g \in AllHandlers \ {h} : hnd'[g] = hnd[g]
    BY <1>1, <1>2 DEF CreateIsAdmitted, HndOK
  <2>2. \A q \in Reservations \ {r} : SameData(q)
    BY <1>2 DEF CreateIsAdmitted, SameData, SameJob, Live, db, redis
  <2>3. WorkerJob'
    BY <1>1, <1>2, <2>1 DEF AccountInv, WorkerJob, CreateIsAdmitted, AllHandlers
  <2>4. \A g \in AllHandlers \ {h} : ~Works(g, r)
    BY <1>2, InProgressWorks DEF CreateIsAdmitted
  <2>5. ASSUME r \notin disturbed'
        PROVE  Works(h, r)' /\ Stage(r, hnd[h].pc)'
    <3>1. status[r] = "none" /\ taken[r] = 0 /\ job[r] = "none"
      BY <1>2, <2>5 DEF CreateIsAdmitted, AccountInv, Rest
    <3>2. status'[r] = "none" /\ taken'[r] = 0 /\ job'[r] = "none"
      BY <1>2, <3>1 DEF CreateIsAdmitted, db, redis
    <3>3. Stage(r, hnd[h].pc)'
      BY <2>1, <3>2 DEF Stage
    <3>4. QED BY <2>1, <3>3 DEF Works, At
  <2>6. disturbed \subseteq disturbed'
    BY <1>2 DEF CreateIsAdmitted
  <2>7. QED BY <1>1, <2>1, <2>2, <2>3, <2>4, <2>5, <2>6, HandlerStep
<1>3. CASE CancelBegin(h, r) \/ ExtendBegin(h, r) \/ WebhookBegin(h, r)
  BY <1>1, <1>3, CheckAccount DEF CancelBegin, ExtendBegin, WebhookBegin
<1>4. QED BY <1>2, <1>3 DEF Begin

\* The worker at a job whose check it has passed.
LEMMA ExpireWorks ==
    ASSUME TypeOK, AccountInv, NEW r \in Reservations, hnd[Expirer].r = r,
           hnd[Expirer].pc \in {"expire.status", "expire.payment", "expire.release",
                                "expire.admit"},
           \A g \in AllHandlers \ {Expirer} : hnd'[g] = hnd[g],
           UNCHANGED disturbed,
           \A q \in Reservations \ {r} : SameData(q),
           \/ hnd'[Expirer] = Idle
           \/ /\ hnd'[Expirer].r = r /\ job'[r] = "active"
              /\ hnd'[Expirer] # Idle /\ hnd'[Expirer].pc # "expire.find",
           Stage(r, hnd[Expirer].pc) => Onward(Expirer, r)
    PROVE  AccountInv'
<1>1. Expirer \in AllHandlers /\ Works(Expirer, r)
  BY DEF AllHandlers, Works, At
<1>2. WorkerJob'
  BY DEF WorkerJob
<1>3. r \notin disturbed' => /\ \A g \in AllHandlers \ {Expirer} : ~Works(g, r)
                             /\ Stage(r, hnd[Expirer].pc)
  BY <1>1 DEF AccountInv
<1>4. r \notin disturbed' =>
        IF Works(Expirer, r)' THEN Stage(r, hnd[Expirer].pc)' ELSE Rest(r)'
  <2>1. CASE hnd'[Expirer] = Idle
    <3>1. ~Works(Expirer, r)'
      BY <2>1, SeatConstants DEF Works, Idle
    <3>2. QED BY <1>3, <2>1, <3>1 DEF Onward
  <2>2. CASE hnd'[Expirer] # Idle
    <3>1. Works(Expirer, r)'
      BY <2>2 DEF Works, At
    <3>2. QED BY <1>3, <2>2, <3>1 DEF Onward
  <2>3. QED BY <2>1, <2>2
<1>5. hnd'[Expirer] = Idle \/ hnd'[Expirer].r = r
  OBVIOUS
<1>6. QED BY <1>1, <1>2, <1>3, <1>4, <1>5, HandlerStep

LEMMA ExpireAccount ==
    ASSUME TypeOK, AccountInv, ExpireStep
    PROVE  AccountInv'
<1>1. HndOK /\ DbOK /\ RedisOK /\ RestOK /\ Expirer \in AllHandlers
  BY TypeParts DEF AllHandlers
<1>2. /\ status \in [Reservations -> {"none", "PENDING"} \cup Settled]
      /\ payment \in [Reservations -> {"none", "READY", "DONE", "CANCELLED", "FAILED"}]
      /\ taken \in [Reservations -> Int]
      /\ job \in [Reservations -> JobState]
  BY <1>1 DEF DbOK, RedisOK, RestOK
<1>3. ASSUME NEW r \in Reservations, ExpireTake(r)
      PROVE  AccountInv'
  <2>1. /\ hnd'[Expirer] = [pc |-> "expire.find", r |-> r]
        /\ \A g \in AllHandlers \ {Expirer} : hnd'[g] = hnd[g]
    BY <1>1, <1>3 DEF ExpireTake, HndOK
  <2>2. job'[r] = "active" /\ \A q \in Reservations \ {r} : job'[q] = job[q]
    BY <1>2, <1>3 DEF ExpireTake
  <2>3. WorkerJob'
    BY <2>1, <2>2 DEF WorkerJob
  <2>4. ASSUME NEW g \in AllHandlers, NEW q \in Reservations
        PROVE  /\ Works(g, q)' <=> Works(g, q)
               /\ Works(g, q) => hnd'[g] = hnd[g]
    BY <1>3, <2>1, SeatConstants DEF ExpireTake, Works, At, Idle
  <2>5. ASSUME NEW q \in Reservations
        PROVE  /\ job'[q] = "none" <=> job[q] = "none"
               /\ Live(q) /\ status[q] = "PENDING" => Live(q)'
    BY <1>3, <2>2 DEF ExpireTake, Live
  <2>6. UNCHANGED <<disturbed, status, taken, payment>>
    BY <1>3 DEF ExpireTake, db, redis
  <2>7. QED BY <2>3, <2>4, <2>5, <2>6, QuietStep
<1> DEFINE s == hnd[Expirer].r
<1>4. CASE ExpireFind
  <2>1. PICK r \in Reservations : hnd[Expirer].r = r
    <3>1. s \in Reservations
      BY <1>1, <1>4, Busy DEF ExpireFind, At, Idle
    <3>2. QED BY <3>1
  <2>2. CASE PassCheck(Expirer, r, "expire.status") /\ UNCHANGED job
    <3>1. UNCHANGED <<db, redis, job>>
      BY <1>4, <2>2 DEF ExpireFind
    <3>2. At(Expirer, "expire.find")
      BY <1>4 DEF ExpireFind
    <3>3. QED BY <1>1, <2>1, <2>2, <3>1, <3>2, CheckAccount
  <2>3. CASE status[r] # "PENDING" /\ EndJob /\ UNCHANGED disturbed
    <3>1. /\ hnd'[Expirer] = Idle
          /\ \A g \in AllHandlers \ {Expirer} : hnd'[g] = hnd[g]
      BY <1>1, <2>3, Moves DEF EndJob
    <3>2. job[r] = "active"
      BY <1>4, <2>1 DEF AccountInv, WorkerJob, ExpireFind, At, Idle
    <3>3. job'[r] = "ended" /\ \A q \in Reservations \ {r} : job'[q] = job[q]
      BY <1>2, <2>1, <2>3 DEF EndJob
    <3>4. WorkerJob'
      BY <3>1 DEF WorkerJob
    <3>5. ASSUME NEW g \in AllHandlers, NEW q \in Reservations
          PROVE  /\ Works(g, q)' <=> Works(g, q)
                 /\ Works(g, q) => hnd'[g] = hnd[g]
      BY <1>4, <3>1, SeatConstants DEF ExpireFind, Works, At, Idle
    <3>6. ASSUME NEW q \in Reservations
          PROVE  /\ job'[q] = "none" <=> job[q] = "none"
                 /\ Live(q) /\ status[q] = "PENDING" => Live(q)'
      BY <2>3, <3>2, <3>3 DEF Live
    <3>7. UNCHANGED <<disturbed, status, taken, payment>>
      BY <1>4, <2>3 DEF ExpireFind, db, redis
    <3>8. QED BY <3>4, <3>5, <3>6, <3>7, QuietStep
  <2>4. QED BY <1>4, <2>1, <2>2, <2>3 DEF ExpireFind
<1>5. CASE ExpireStatus \/ ExpirePayment \/ ExpireRelease \/ ExpireAdmit
  <2>1. PICK r \in Reservations : hnd[Expirer].r = r
    <3>1. s \in Reservations
      BY <1>1, <1>5, Busy DEF ExpireStatus, ExpirePayment, ExpireRelease, ExpireAdmit, At,
         Idle
    <3>2. QED BY <3>1
  <2>2. hnd[Expirer] # Idle /\ job[r] = "active"
    BY <1>5, <2>1 DEF AccountInv, WorkerJob, ExpireStatus, ExpirePayment, ExpireRelease,
       ExpireAdmit, At, Idle
  <2>3. UNCHANGED disturbed
    BY <1>5 DEF ExpireStatus, ExpirePayment, ExpireRelease, ExpireAdmit
  <2>4. \A pc : Goto(Expirer, pc) =>
          /\ hnd'[Expirer].pc = pc /\ hnd'[Expirer].r = r
          /\ \A g \in AllHandlers \ {Expirer} : hnd'[g] = hnd[g]
    BY <1>1, <2>1, Moves
  <2>5. EndJob =>
          /\ hnd'[Expirer] = Idle
          /\ \A g \in AllHandlers \ {Expirer} : hnd'[g] = hnd[g]
          /\ \A q \in Reservations \ {r} : job'[q] = job[q]
    BY <1>1, <1>2, <2>1, Moves DEF EndJob
  <2>6. CASE ExpireStatus
    <3>1. /\ hnd'[Expirer].pc = "expire.payment" /\ hnd'[Expirer].r = r
          /\ \A g \in AllHandlers \ {Expirer} : hnd'[g] = hnd[g]
      BY <2>4, <2>6 DEF ExpireStatus
    <3>2. \A q \in Reservations \ {r} : SameData(q)
      BY <1>2, <2>1, <2>6 DEF ExpireStatus, SameData, SameJob, Live, redis
    <3>3. ASSUME Stage(r, hnd[Expirer].pc)
          PROVE  Onward(Expirer, r)
      <4>1. status'[r] = "EXPIRED" /\ taken'[r] = 1 /\ payment'[r] # "none"
        BY <1>2, <2>1, <2>6, <3>3 DEF ExpireStatus, redis, Stage, At
      <4>2. QED BY <3>1, <4>1 DEF Onward, Stage, Idle
    <3>4. job'[r] = "active" /\ hnd[Expirer].pc = "expire.status"
      BY <2>2, <2>6 DEF ExpireStatus, At
    <3>5. QED BY <2>1, <2>3, <3>1, <3>2, <3>3, <3>4, ExpireWorks DEF Idle
  <2>7. CASE ExpirePayment
    <3>1. hnd[Expirer].pc = "expire.payment"
      BY <2>7 DEF ExpirePayment, At
    <3>2. /\ UNCHANGED <<status, taken>>
          /\ payment'[r] = "none" <=> payment[r] = "none"
          /\ \A q \in Reservations \ {r} : payment'[q] = payment[q]
      BY <1>2, <2>1, <2>7 DEF ExpirePayment, SetPayment, redis
    <3>3. CASE payment[r] # "none" /\ Goto(Expirer, "expire.release") /\ UNCHANGED job
      <4>1. /\ hnd'[Expirer].pc = "expire.release" /\ hnd'[Expirer].r = r
            /\ \A g \in AllHandlers \ {Expirer} : hnd'[g] = hnd[g]
        BY <2>4, <3>3
      <4>2. \A q \in Reservations \ {r} : SameData(q)
        BY <3>2, <3>3 DEF SameData, SameJob, Live
      <4>3. Stage(r, hnd[Expirer].pc) => Onward(Expirer, r)
        BY <3>1, <3>2, <4>1 DEF Onward, Stage, Idle
      <4>4. job'[r] = "active"
        BY <2>2, <3>3
      <4>5. QED BY <2>1, <2>3, <3>1, <4>1, <4>2, <4>3, <4>4, ExpireWorks DEF Idle
    <3>4. CASE payment[r] = "none" /\ EndJob
      <4>1. \A q \in Reservations \ {r} : SameData(q)
        BY <2>5, <3>2, <3>4 DEF SameData, SameJob, Live
      <4>2. ~Stage(r, hnd[Expirer].pc)
        BY <3>1, <3>4 DEF Stage
      <4>3. QED BY <2>1, <2>3, <2>5, <3>1, <3>4, <4>1, <4>2, ExpireWorks
    <3>5. QED BY <2>1, <2>7, <3>3, <3>4 DEF ExpirePayment
  <2>8. CASE ExpireRelease
    <3>1. /\ hnd'[Expirer].pc = "expire.admit" /\ hnd'[Expirer].r = r
          /\ \A g \in AllHandlers \ {Expirer} : hnd'[g] = hnd[g]
      BY <2>4, <2>8 DEF ExpireRelease
    <3>2. job' = Unhold(job, Key(r))
      BY <2>1, <2>8 DEF ExpireRelease, ReleaseStock, DeleteLock
    <3>3. ASSUME NEW q \in Reservations \ {r}
          PROVE  SameData(q)
      <4>1. SameJob(q)
        BY <1>1, <3>2, UnholdSame
      <4>2. status'[q] = status[q] /\ taken'[q] = taken[q] /\ payment'[q] = payment[q]
        BY <1>2, <2>1, <2>8 DEF ExpireRelease, ReleaseStock, db
      <4>3. QED BY <4>1, <4>2 DEF SameData
    <3>4. ASSUME Stage(r, hnd[Expirer].pc)
          PROVE  Onward(Expirer, r)
      <4>1. status'[r] = "EXPIRED" /\ taken'[r] = 0
        BY <1>2, <2>1, <2>8, <3>4 DEF ExpireRelease, ReleaseStock, db, Stage, At
      <4>2. QED BY <3>1, <4>1 DEF Onward, Stage, Idle
    <3>5. job'[r] = "active" /\ hnd[Expirer].pc = "expire.release"
      BY <1>1, <2>2, <2>8, <3>2 DEF Unhold, ExpireRelease, At
    <3>6. QED BY <2>1, <2>3, <3>1, <3>3, <3>4, <3>5, ExpireWorks DEF Idle
  <2>9. CASE ExpireAdmit
    <3>1. hnd[Expirer].pc = "expire.admit" /\ EndJob /\ UNCHANGED <<db, redis>>
      BY <2>9 DEF ExpireAdmit, At
    <3>2. \A q \in Reservations \ {r} : SameData(q)
      BY <2>5, <3>1 DEF SameData, SameJob, Live, db, redis
    <3>3. ASSUME Stage(r, hnd[Expirer].pc)
          PROVE  Onward(Expirer, r)
      <4>1. status'[r] = "EXPIRED" /\ taken'[r] = 0
        BY <3>1, <3>3 DEF Stage, db, redis
      <4>2. QED BY <2>5, <3>1, <4>1 DEF Onward, Rest
    <3>4. QED BY <2>1, <2>3, <2>5, <3>1, <3>2, <3>3, ExpireWorks
  <2>10. QED BY <1>5, <2>6, <2>7, <2>8, <2>9
<1>6. QED BY <1>3, <1>4, <1>5 DEF ExpireStep

\* The queue, the clock, and the failures.
LEMMA WorldAccount ==
    ASSUME TypeOK, AccountInv,
           \/ \E u \in Users : Admit(u) \/ AdmittedExpires(u)
           \/ \E k \in Zones \X Users : LockAges(k) \/ LockExpires(k)
    PROVE  AccountInv'
<1>1. HndOK /\ RestOK
  BY TypeParts
<1>2. UNCHANGED <<disturbed, status, taken, payment, hnd>>
  BY DEF Admit, AdmittedExpires, LockAges, LockExpires, db, redis
<1>3. \A q \in Reservations : SameJob(q)
  <2>1. CASE UNCHANGED job
    BY <2>1 DEF SameJob, Live
  <2>2. CASE \E k : job' = Unhold(job, k)
    BY <1>1, <2>2, UnholdSame
  <2>3. QED BY <2>1, <2>2 DEF Admit, AdmittedExpires, LockAges, LockExpires, DeleteLock
<1>4. WorkerJob'
  <2>1. hnd[Expirer] # Idle => hnd[Expirer].r \in Reservations
    BY <1>1, Busy DEF AllHandlers
  <2>2. QED BY <1>2, <1>3, <2>1 DEF AccountInv, WorkerJob, SameJob
<1>5. ASSUME NEW g \in AllHandlers, NEW q \in Reservations
      PROVE  /\ Works(g, q)' <=> Works(g, q)
             /\ Works(g, q) => hnd'[g] = hnd[g]
  BY <1>2 DEF Works, At
<1>6. ASSUME NEW q \in Reservations
      PROVE  /\ job'[q] = "none" <=> job[q] = "none"
             /\ Live(q) /\ status[q] = "PENDING" => Live(q)'
  BY <1>3 DEF SameJob, Live
<1>7. QED BY <1>2, <1>4, <1>5, <1>6, QuietStep

LEMMA FailsAccount ==
    ASSUME TypeOK, AccountInv, NEW h \in AllHandlers, HandlerFails(h)
    PROVE  AccountInv'
<1>1. HndOK /\ RestOK
  BY TypeParts
<1>2. PICK r \in Reservations : hnd[h].r = r
  <2>1. hnd[h].r \in Reservations
    BY <1>1, Busy DEF HandlerFails
  <2>2. QED BY <2>1
<1>3. /\ hnd'[h] = Idle
      /\ \A g \in AllHandlers \ {h} : hnd'[g] = hnd[g]
  BY <1>1, Moves DEF HandlerFails, EndJob
<1>4. disturbed \subseteq disturbed' /\ UNCHANGED <<status, taken, payment>>
  BY DEF HandlerFails, Disturb, db, redis
<1>5. \A q \in Reservations \ {r} : job'[q] = job[q]
  BY <1>1, <1>2 DEF HandlerFails, EndJob, RestOK
<1>6. \A q \in Reservations \ {r} : SameData(q)
  BY <1>4, <1>5 DEF SameData, SameJob, Live
<1>7. WorkerJob'
  <2>1. CASE h = Expirer
    BY <1>3, <2>1 DEF WorkerJob
  <2>2. CASE h # Expirer
    BY <1>3, <2>2 DEF AccountInv, WorkerJob, HandlerFails, AllHandlers
  <2>3. QED BY <2>1, <2>2
<1>8. ASSUME r \notin disturbed'
      PROVE  /\ \A g \in AllHandlers \ {h} : ~Works(g, r)
             /\ ~Works(h, r)' /\ Rest(r)'
  <2>1. hnd[h].pc \in {"create.insert", "create.consumeRefused"} /\ r \notin disturbed
    BY <1>2, <1>4, <1>8 DEF HandlerFails, Disturb
  <2>2. h # Expirer
    BY <1>1, <2>1, Busy DEF ExpirePC
  <2>3. Works(h, r)
    BY <1>2, <2>1 DEF Works, At
  <2>4. Stage(r, hnd[h].pc) /\ \A g \in AllHandlers \ {h} : ~Works(g, r)
    BY <2>1, <2>3 DEF AccountInv
  <2>5. job'[r] = job[r]
    BY <2>2 DEF HandlerFails
  <2>6. Rest(r)'
    BY <1>4, <2>1, <2>4, <2>5 DEF Stage, Rest
  <2>7. ~Works(h, r)'
    BY <1>3, SeatConstants DEF Works, Idle
  <2>8. QED BY <2>4, <2>6, <2>7
<1>9. QED BY <1>2, <1>3, <1>4, <1>6, <1>7, <1>8, HandlerStep

LEMMA CrashAccount ==
    ASSUME TypeOK, AccountInv, Crash
    PROVE  AccountInv'
<1>1. RestOK /\ Expirer \in AllHandlers
  BY TypeParts DEF AllHandlers
<1>2. \A g \in AllHandlers, q \in Reservations : ~Works(g, q)'
  BY SeatConstants DEF Crash, Works, Idle
<1>3. WorkerJob'
  BY <1>1 DEF Crash, WorkerJob
<1>4. ASSUME NEW q \in Reservations \ disturbed'
      PROVE  Rest(q)'
  <2>1. Rest(q)
    BY <1>4 DEF Crash, AccountInv
  <2>2. /\ job'[q] = "none" <=> job[q] = "none"
        /\ Live(q) => Live(q)'
    BY <1>1, <1>4 DEF Crash, RestOK, Live
  <2>3. UNCHANGED <<status, taken, payment>>
    BY DEF Crash, db, redis
  <2>4. QED BY <2>1, <2>2, <2>3 DEF Rest
<1>5. QED BY <1>2, <1>3, <1>4 DEF AccountInv

LEMMA AccountStep == TypeOK /\ AccountInv /\ [Next]_vars => AccountInv'
<1> SUFFICES ASSUME TypeOK, AccountInv, [Next]_vars PROVE AccountInv'
  OBVIOUS
<1>1. TypeOK'
  BY TypeStep
<1>2. CASE UNCHANGED vars
  BY <1>2 DEF vars, AccountInv, WorkerJob, Works, At, Stage, Live, Rest, InProgress
<1>3. CASE Next
  BY <1>1, <1>3, BeginAccount, ContinueAccount, ExpireAccount, WorldAccount, FailsAccount,
     CrashAccount DEF Next
<1>4. QED BY <1>2, <1>3

LEMMA AccountInit == Init => AccountInv
BY SeatConstants DEF Init, AccountInv, WorkerJob, Works, At, Rest, InProgress, Idle, AllHandlers

\* Whatever the requests, webhooks, expiries and crashes of other reservations,
\* and of this one as long as they do not overlap, the seats of a reservation are
\* out of the stock exactly while it is PENDING or CONFIRMED.
THEOREM SeatsAccountedCorrect == Spec => []SeatsAccounted
<1>1. AccountInv => SeatsAccounted
  BY DEF AccountInv, SeatsAccounted, Rest
<1>2. QED BY <1>1, TypeInit, TypeStep, AccountInit, AccountStep, PTL DEF Spec

\* A PENDING reservation whose handlers did not overlap always has a job that
\* will expire it.
THEOREM PendingHasTimerCorrect == Spec => []PendingHasTimer
<1>1. AccountInv => PendingHasTimer
  BY DEF AccountInv, PendingHasTimer, Rest, Live
<1>2. QED BY <1>1, TypeInit, TypeStep, AccountInit, AccountStep, PTL DEF Spec
-----------------------------------------------------------------------------
(***************************************************************************)
(* The ledger.  SeatReservation implements SeatLedger: the handlers'       *)
(* places in AccountInv say which entry of the ledger a command writes.    *)
(***************************************************************************)

(* Entries of the ledger.                                                  *)

\* Nothing but the set of contested reservations changes.
LEMMA NoEntry ==
    ASSUME UNCHANGED <<stock, taken, status>>,
           disturbed \subseteq disturbed', disturbed' \subseteq Reservations
    PROVE  Ledger!Next
BY DEF Ledger!Next, Ledger!Contest

\* A settled status is written.
LEMMA StatusEntry ==
    ASSUME NEW r \in Reservations, NEW s \in Settled,
           UNCHANGED <<stock, taken, disturbed>>,
           status' = [status EXCEPT ![r] = s],
           r \notin disturbed => status[r] = "PENDING" /\ (s = "CONFIRMED" => taken[r] = 1)
    PROVE  Ledger!Next
<1>1. CASE r \in disturbed
  <2>1. Ledger!Dispute(r)
    BY <1>1 DEF Ledger!Dispute, Ledger!Final, Settled
  <2>2. QED BY <2>1 DEF Ledger!Next
<1>2. CASE r \notin disturbed
  <2>1. Ledger!Settle(r)
    BY <1>2 DEF Ledger!Settle, Ledger!Final, Settled
  <2>2. QED BY <2>1 DEF Ledger!Next
<1>3. QED BY <1>1, <1>2

\* PENDING is written.
LEMMA PendingEntry ==
    ASSUME TypeOK, NEW r \in Reservations,
           UNCHANGED <<stock, taken, disturbed>>,
           status' = [status EXCEPT ![r] = "PENDING"],
           r \notin disturbed => status[r] \in {"none", "PENDING"}
    PROVE  Ledger!Next
<1>1. CASE r \in disturbed
  <2>1. Ledger!Dispute(r)
    BY <1>1 DEF Ledger!Dispute
  <2>2. QED BY <2>1 DEF Ledger!Next
<1>2. CASE r \notin disturbed /\ status[r] = "none"
  <2>1. Ledger!Ask(r)
    BY <1>2 DEF Ledger!Ask
  <2>2. QED BY <2>1 DEF Ledger!Next
<1>3. CASE r \notin disturbed /\ status[r] = "PENDING"
  <2>1. UNCHANGED status
    BY <1>3 DEF TypeOK
  <2>2. QED BY <2>1, NoEntry DEF TypeOK
<1>4. QED BY <1>1, <1>2, <1>3

\* Seats are given back.
LEMMA BackEntry ==
    ASSUME NEW r \in Reservations, ReleaseStock(r), UNCHANGED <<status, disturbed>>,
           r \notin disturbed => status[r] # "CONFIRMED" /\ taken[r] = 1
    PROVE  Ledger!Next
<1>1. Ledger!Back(r)
  BY DEF Ledger!Back, ReleaseStock
<1>2. CASE r \in disturbed
  <2>1. Ledger!Dispute(r)
    BY <1>1, <1>2 DEF Ledger!Dispute
  <2>2. QED BY <2>1 DEF Ledger!Next
<1>3. CASE r \notin disturbed
  <2>1. Ledger!GiveBack(r)
    BY <1>1, <1>3 DEF Ledger!GiveBack
  <2>2. QED BY <2>1 DEF Ledger!Next
<1>4. QED BY <1>2, <1>3

\* Seats are taken.
LEMMA OutEntry ==
    ASSUME NEW r \in Reservations,
           stock[Zone[r]] >= Qty[r],
           stock' = [stock EXCEPT ![Zone[r]] = @ - Qty[r]],
           taken' = [taken EXCEPT ![r] = @ + 1],
           UNCHANGED <<status, disturbed>>,
           r \notin disturbed => status[r] = "PENDING" /\ taken[r] = 0
    PROVE  Ledger!Next
<1>1. Ledger!Out(r)
  BY DEF Ledger!Out
<1>2. CASE r \in disturbed
  <2>1. Ledger!Dispute(r)
    BY <1>1, <1>2 DEF Ledger!Dispute
  <2>2. QED BY <2>1 DEF Ledger!Next
<1>3. CASE r \notin disturbed
  <2>1. Ledger!Take(r)
    BY <1>1, <1>3 DEF Ledger!Take
  <2>2. QED BY <2>1 DEF Ledger!Next
<1>4. QED BY <1>2, <1>3

-----------------------------------------------------------------------------
(* Steps.                                                                  *)

\* A handler at work is where its reservation's row of Stage says.
LEMMA AtStage ==
    ASSUME TypeOK, AccountInv, NEW h \in AllHandlers, NEW pc, At(h, pc),
           pc \in HandlerPC \cup ExpirePC, pc # "expire.find"
    PROVE  /\ hnd[h].r \in Reservations
           /\ hnd[h].r \notin disturbed => Stage(hnd[h].r, pc)
<1>1. HndOK /\ hnd[h] # Idle
  BY TypeParts DEF At, Idle, HandlerPC, CreatePC, CancelPC, ExtendPC, DonePC, FailPC, ExpirePC
<1>2. hnd[h].r \in Reservations
  BY <1>1, Busy
<1>3. Works(h, hnd[h].r)
  BY DEF Works, At
<1>4. QED BY <1>2, <1>3 DEF AccountInv, At

\* The commands that change neither stock, seats nor status.
LEMMA ContinueQuiet ==
    ASSUME TypeOK, TypeOK', NEW h \in Handlers,
           \/ CreateConsume(h) \/ CreateAddJob(h) \/ CreatePayment(h) \/ CreateCatch(h)
           \/ CancelRemoveJob(h) \/ CancelPayment(h)
           \/ ExtendTtl(h) \/ ExtendExpire(h) \/ ExtendRemoveJob(h) \/ ExtendAddJob(h)
           \/ DoneRemain(h) \/ DoneDeleteLock(h) \/ WebhookRemoveJob(h)
    PROVE  Ledger!Next
<1>1. UNCHANGED <<stock, taken, status>>
  BY DEF CreateConsume, CreateAddJob, CreatePayment, CreateCatch, CancelRemoveJob,
     CancelPayment, ExtendTtl, ExtendExpire, ExtendRemoveJob, ExtendAddJob, DoneRemain,
     DoneDeleteLock, WebhookRemoveJob, db, redis
<1>2. disturbed \subseteq disturbed'
  BY DEF CreateConsume, CreateAddJob, CreatePayment, CreateCatch, CancelRemoveJob,
     CancelPayment, ExtendTtl, ExtendExpire, ExtendRemoveJob, ExtendAddJob, DoneRemain,
     DoneDeleteLock, WebhookRemoveJob, Disturb
<1>3. QED BY <1>1, <1>2, NoEntry DEF TypeOK

LEMMA CreateLedger ==
    ASSUME TypeOK, AccountInv, NEW h \in Handlers,
           CreateInsert(h) \/ CreatePreempt(h) \/ CreateRefuse(h) \/ CreateUndo(h) \/ CreateCancel(h)
    PROVE  Ledger!Next
<1> DEFINE r == hnd[h].r
<1>1. h \in AllHandlers
  BY DEF AllHandlers
<1>2. CASE CreateInsert(h)
  <2>1. r \in Reservations /\ (r \notin disturbed => status[r] = "none")
    BY <1>1, <1>2, AtStage DEF CreateInsert, HandlerPC, CreatePC, Stage
  <2>2. QED BY <1>2, <2>1, PendingEntry DEF CreateInsert, redis
<1>3. CASE CreatePreempt(h)
  <2>1. r \in Reservations /\ (r \notin disturbed => status[r] = "PENDING" /\ taken[r] = 0)
    BY <1>1, <1>3, AtStage DEF CreatePreempt, HandlerPC, CreatePC, Stage
  <2>2. CASE stock[Zone[r]] < Qty[r] \/ lock[Key(r)] # NoRes
    BY <1>3, <2>2, NoEntry DEF CreatePreempt, db, redis, TypeOK
  <2>3. CASE ~(stock[Zone[r]] < Qty[r] \/ lock[Key(r)] # NoRes)
    <3>1. stock[Zone[r]] \in Int /\ Qty[r] \in Int
      BY <2>1, SeatConstants DEF TypeOK
    <3>2. stock[Zone[r]] >= Qty[r]
      BY <2>3, <3>1
    <3>3. QED BY <1>3, <2>1, <2>3, <3>2, OutEntry DEF CreatePreempt, db
  <2>4. QED BY <2>2, <2>3
<1>4. CASE CreateRefuse(h)
  <2>1. r \in Reservations /\ (r \notin disturbed => status[r] = "PENDING")
    BY <1>1, <1>4, AtStage DEF CreateRefuse, HandlerPC, CreatePC, Stage
  <2>2. QED BY <1>4, <2>1, StatusEntry DEF CreateRefuse, redis, Settled
<1>5. CASE CreateUndo(h)
  <2>1. r \in Reservations /\ (r \notin disturbed => status[r] = "PENDING" /\ taken[r] = 1)
    BY <1>1, <1>5, AtStage DEF CreateUndo, HandlerPC, CreatePC, Stage
  <2>2. QED BY <1>5, <2>1, BackEntry DEF CreateUndo, db
<1>6. CASE CreateCancel(h)
  <2>1. r \in Reservations /\ (r \notin disturbed => status[r] = "PENDING")
    BY <1>1, <1>6, AtStage DEF CreateCancel, HandlerPC, CreatePC, Stage
  <2>2. QED BY <1>6, <2>1, StatusEntry DEF CreateCancel, redis, Settled
<1>7. QED BY <1>2, <1>3, <1>4, <1>5, <1>6

LEMMA CancelExtendLedger ==
    ASSUME TypeOK, AccountInv, NEW h \in Handlers,
           CancelRelease(h) \/ CancelStatus(h) \/ ExtendStatus(h)
    PROVE  Ledger!Next
<1> DEFINE r == hnd[h].r
<1>1. h \in AllHandlers
  BY DEF AllHandlers
<1>2. CASE CancelRelease(h)
  <2>1. r \in Reservations /\ (r \notin disturbed => status[r] = "PENDING" /\ taken[r] = 1)
    BY <1>1, <1>2, AtStage DEF CancelRelease, HandlerPC, CancelPC, Stage
  <2>2. QED BY <1>2, <2>1, BackEntry DEF CancelRelease, db
<1>3. CASE CancelStatus(h)
  <2>1. r \in Reservations /\ (r \notin disturbed => status[r] = "PENDING")
    BY <1>1, <1>3, AtStage DEF CancelStatus, HandlerPC, CancelPC, Stage
  <2>2. QED BY <1>3, <2>1, StatusEntry DEF CancelStatus, redis, Settled
<1>4. CASE ExtendStatus(h)
  <2>1. r \in Reservations /\ (r \notin disturbed => status[r] = "PENDING")
    BY <1>1, <1>4, AtStage DEF ExtendStatus, HandlerPC, ExtendPC, Stage
  <2>2. QED BY <1>4, <2>1, PendingEntry DEF ExtendStatus, redis
<1>5. QED BY <1>2, <1>3, <1>4

LEMMA WebhookLedger ==
    ASSUME TypeOK, AccountInv, NEW h \in Handlers,
           DoneTx(h) \/ FailTx(h) \/ FailRelease(h)
    PROVE  Ledger!Next
<1> DEFINE r == hnd[h].r
<1>1. h \in AllHandlers
  BY DEF AllHandlers
<1>2. CASE DoneTx(h)
  <2>1. r \in Reservations /\ (r \notin disturbed => status[r] = "PENDING" /\ taken[r] = 1)
    BY <1>1, <1>2, AtStage DEF DoneTx, HandlerPC, DonePC, Stage
  <2>2. CASE UNCHANGED status
    BY <1>2, <2>2, NoEntry DEF DoneTx, redis, TypeOK
  <2>3. CASE status' = [status EXCEPT ![r] = "CONFIRMED"]
    BY <1>2, <2>1, <2>3, StatusEntry DEF DoneTx, redis, Settled
  <2>4. QED BY <1>2, <2>2, <2>3 DEF DoneTx, Tx
<1>3. CASE FailTx(h)
  <2>1. r \in Reservations /\ (r \notin disturbed => status[r] = "PENDING")
    BY <1>1, <1>3, AtStage DEF FailTx, HandlerPC, FailPC, Stage
  <2>2. CASE UNCHANGED status
    BY <1>3, <2>2, NoEntry DEF FailTx, redis, TypeOK
  <2>3. ASSUME NEW s \in {"EXPIRED", "CANCELLED"}, status' = [status EXCEPT ![r] = s]
        PROVE  Ledger!Next
    BY <1>3, <2>1, <2>3, StatusEntry DEF FailTx, redis, Settled
  <2>4. QED BY <1>3, <2>2, <2>3 DEF FailTx, Tx
<1>4. CASE FailRelease(h)
  <2>1. /\ r \in Reservations
        /\ r \notin disturbed => status[r] # "CONFIRMED" /\ taken[r] = 1
    BY <1>1, <1>4, AtStage DEF FailRelease, HandlerPC, FailPC, Stage
  <2>2. QED BY <1>4, <2>1, BackEntry DEF FailRelease, db
<1>5. QED BY <1>2, <1>3, <1>4

LEMMA BeginLedger ==
    ASSUME TypeOK, TypeOK', NEW h \in Handlers, NEW r \in Reservations, Begin(h, r)
    PROVE  Ledger!Next
<1>1. UNCHANGED <<stock, taken, status>>
  BY DEF Begin, CreateIsAdmitted, CancelBegin, ExtendBegin, WebhookBegin, db, redis
<1>2. disturbed \subseteq disturbed'
  BY DEF Begin, CreateIsAdmitted, CancelBegin, ExtendBegin, WebhookBegin, PassCheck, Disturb
<1>3. QED BY <1>1, <1>2, NoEntry DEF TypeOK

LEMMA ExpireLedger ==
    ASSUME TypeOK, TypeOK', AccountInv, ExpireStep
    PROVE  Ledger!Next
<1> DEFINE r == hnd[Expirer].r
<1>1. Expirer \in AllHandlers
  BY DEF AllHandlers
<1>2. CASE ExpireStatus
  <2>1. r \in Reservations /\ (r \notin disturbed => status[r] = "PENDING")
    BY <1>1, <1>2, AtStage DEF ExpireStatus, ExpirePC, Stage
  <2>2. QED BY <1>2, <2>1, StatusEntry DEF ExpireStatus, redis, Settled
<1>3. CASE ExpireRelease
  <2>1. /\ r \in Reservations
        /\ r \notin disturbed => status[r] # "CONFIRMED" /\ taken[r] = 1
    BY <1>1, <1>3, AtStage DEF ExpireRelease, ExpirePC, Stage
  <2>2. QED BY <1>3, <2>1, BackEntry DEF ExpireRelease, db
<1>4. CASE (\E q \in Reservations : ExpireTake(q)) \/ ExpireFind \/ ExpirePayment \/ ExpireAdmit
  <2>1. UNCHANGED <<stock, taken, status>>
    BY <1>4 DEF ExpireTake, ExpireFind, ExpirePayment, ExpireAdmit, db, redis
  <2>2. disturbed \subseteq disturbed'
    BY <1>4 DEF ExpireTake, ExpireFind, ExpirePayment, ExpireAdmit, PassCheck, Disturb
  <2>3. QED BY <2>1, <2>2, NoEntry DEF TypeOK
<1>5. QED BY <1>2, <1>3, <1>4 DEF ExpireStep

\* The queue, time, failing calls and crashes write no entry.
LEMMA WorldLedger ==
    ASSUME TypeOK, TypeOK',
           \/ \E u \in Users : Admit(u) \/ AdmittedExpires(u)
           \/ \E k \in Zones \X Users : LockAges(k) \/ LockExpires(k)
           \/ \E h \in AllHandlers : HandlerFails(h)
           \/ Crash
    PROVE  Ledger!Next
<1>1. UNCHANGED <<stock, taken, status>>
  BY DEF Admit, AdmittedExpires, LockAges, LockExpires, HandlerFails, Crash, db, redis
<1>2. disturbed \subseteq disturbed'
  BY DEF Admit, AdmittedExpires, LockAges, LockExpires, HandlerFails, Crash, Disturb
<1>3. QED BY <1>1, <1>2, NoEntry DEF TypeOK

LEMMA LedgerStep == TypeOK /\ AccountInv /\ [Next]_vars => [Ledger!Next]_(Ledger!vars)
<1> SUFFICES ASSUME TypeOK, AccountInv, [Next]_vars PROVE [Ledger!Next]_(Ledger!vars)
  OBVIOUS
<1>1. TypeOK'
  BY TypeStep
<1>2. CASE UNCHANGED vars
  BY <1>2 DEF vars, Ledger!vars
<1>3. CASE Next
  <2>1. ASSUME NEW h \in Handlers, Continue(h)
        PROVE  Ledger!Next
    BY <1>1, <2>1, ContinueQuiet, CreateLedger, CancelExtendLedger, WebhookLedger, Zenon
       DEF Continue
  <2>2. QED
    BY <1>1, <1>3, <2>1, ContinueQuiet, BeginLedger, ExpireLedger, WorldLedger, Zenon DEF Next
<1>4. QED BY <1>2, <1>3

LEMMA LedgerInit == Init => Ledger!Init
BY DEF Init, Ledger!Init

\* The reservation service keeps the ledger of every zone, in every
\* interleaving of requests, webhooks and expiries, and across failures.
THEOREM LedgerKeptCorrect == Spec => LedgerKept
<1>1. QED BY TypeInit, TypeStep, AccountInit, AccountStep, LedgerInit, LedgerStep, PTL
         DEF Spec, LedgerKept, Ledger!Spec

-----------------------------------------------------------------------------
(* What the ledger promises the user.                                      *)

LEMMA SettledStep ==
    ASSUME TypeOK, AccountInv, [Next]_vars, NEW r \in Reservations,
           status[r] \in Settled, r \notin disturbed'
    PROVE  status'[r] = status[r]
<1>1. [Ledger!Next]_(Ledger!vars)
  BY LedgerStep
<1>2. status \in [Reservations -> {"none", "PENDING"} \cup Settled]
  BY DEF TypeOK
<1>3. ASSUME NEW q \in Reservations, Ledger!Ask(q) \/ Ledger!Settle(q)
      PROVE  status'[r] = status[r]
  BY <1>2, <1>3 DEF Ledger!Ask, Ledger!Settle, Settled
<1>4. ASSUME NEW q \in Reservations, Ledger!Dispute(q)
      PROVE  status'[r] = status[r]
  <2>1. q # r
    BY <1>4 DEF Ledger!Dispute
  <2>2. QED BY <1>2, <1>4, <2>1 DEF Ledger!Dispute
<1>5. ASSUME NEW q \in Reservations, Ledger!Take(q) \/ Ledger!GiveBack(q)
      PROVE  status'[r] = status[r]
  BY <1>5 DEF Ledger!Take, Ledger!GiveBack
<1>6. QED BY <1>1, <1>3, <1>4, <1>5 DEF Ledger!Next, Ledger!Contest, Ledger!vars

\* A settled reservation keeps its status unless its requests overlapped.
THEOREM SettledStaysCorrect == Spec => SettledStays
<1>1. TypeOK /\ AccountInv /\ [Next]_vars =>
        [\A r \in Reservations :
           status[r] \in Settled /\ r \notin disturbed' => status'[r] = status[r]]_vars
  BY SettledStep
<1>2. QED BY <1>1, TypeInit, TypeStep, AccountInit, AccountStep, PTL DEF Spec, SettledStays

-----------------------------------------------------------------------------
(* Locks.                                                                  *)

\* Some webhook has confirmed r and has not come to deleting its lock.
Paying(r) == \E h \in AllHandlers : hnd[h].r = r /\ hnd[h].pc \in {"done.remain", "done.lock"}

\* An undisturbed reservation's lock is its own, is there only while its seats
\* are taken, and outlives the payment only until its webhook deletes it.
LockInv ==
    \A k \in Zones \X Users :
        LET r == lock[k] IN
        r \in Reservations \ disturbed =>
            Key(r) = k /\ taken[r] = 1 /\ (status[r] = "CONFIRMED" => Paying(r))

\* Locks are only deleted, and no reservation stops Paying.
LEMMA LockQuiet ==
    ASSUME TypeOK, LockInv, UNCHANGED <<taken, status>>, disturbed \subseteq disturbed',
           \A k \in Zones \X Users : lock'[k] = lock[k] \/ lock'[k] = NoRes,
           \A q \in Reservations \ disturbed' : Paying(q) => Paying(q)'
    PROVE  LockInv'
<1>1. ASSUME NEW k \in Zones \X Users, NEW q \in Reservations \ disturbed', lock'[k] = q
      PROVE  Key(q) = k /\ taken'[q] = 1 /\ (status'[q] = "CONFIRMED" => Paying(q)')
  <2>1. lock[k] = q /\ q \notin disturbed
    BY <1>1, SeatConstants
  <2>2. QED BY <1>1, <2>1 DEF LockInv
<1>2. QED BY <1>1 DEF LockInv, Key, Paying

\* A step of the handler h of r that is not a preemption.
LEMMA LockOwn ==
    ASSUME TypeOK, LockInv, NEW h \in AllHandlers, NEW r \in Reservations, hnd[h].r = r,
           \A g \in AllHandlers \ {h} : hnd'[g] = hnd[g],
           disturbed \subseteq disturbed',
           \A q \in Reservations \ {r} : status'[q] = status[q] /\ taken'[q] = taken[q],
           \A k \in Zones \X Users : lock'[k] = lock[k] \/ lock'[k] = NoRes,
           r \notin disturbed' /\ lock'[Key(r)] = r =>
             /\ taken'[r] = taken[r]
             /\ status'[r] = "CONFIRMED" => Paying(r)'
    PROVE  LockInv'
<1>1. ASSUME NEW k \in Zones \X Users, NEW q \in Reservations \ disturbed', lock'[k] = q
      PROVE  Key(q) = k /\ taken'[q] = 1 /\ (status'[q] = "CONFIRMED" => Paying(q)')
  <2>1. lock[k] = q /\ q \notin disturbed
    BY <1>1, SeatConstants
  <2>2. Key(q) = k /\ taken[q] = 1 /\ (status[q] = "CONFIRMED" => Paying(q))
    BY <1>1, <2>1 DEF LockInv
  <2>3. CASE q = r
    BY <1>1, <2>2, <2>3
  <2>4. CASE q # r
    <3>1. Paying(q) => Paying(q)'
      BY <2>4 DEF Paying
    <3>2. QED BY <1>1, <2>2, <2>4, <3>1
  <2>5. QED BY <2>3, <2>4
<1>2. QED BY <1>1 DEF LockInv, Key, Paying

\* What a command of a handler changes.
LEMMA LockCommand ==
    ASSUME TypeOK, LockInv, NEW h \in Handlers, NEW r \in Reservations, hnd[h].r = r,
           Bystanders(h),
           \/ UNCHANGED <<lock, taken>> /\ (r \notin disturbed' => status'[r] # "CONFIRMED")
           \/ UNCHANGED <<lock, taken>> /\ (r \notin disturbed' => Paying(r)')
           \/ UNCHANGED <<lock, taken>> /\ (r \notin disturbed' => lock[Key(r)] # r)
           \/ lock' = [lock EXCEPT ![Key(r)] = NoRes]
    PROVE  LockInv'
<1>1. h \in AllHandlers /\ Key(r) \in Zones \X Users
  BY KeyOK DEF AllHandlers
<1>2. lock \in [Zones \X Users -> Reservations \cup {NoRes}]
  BY DEF TypeOK
<1>3. \A k \in Zones \X Users : lock'[k] = lock[k] \/ lock'[k] = NoRes
  BY <1>1, <1>2
<1>4. \A q \in Reservations \ {r} : status'[q] = status[q] /\ taken'[q] = taken[q]
  BY DEF Bystanders, SameData
<1>5. r \notin disturbed' /\ lock'[Key(r)] = r =>
        /\ taken'[r] = taken[r]
        /\ status'[r] = "CONFIRMED" => Paying(r)'
  BY <1>1, <1>2, SeatConstants
<1>6. QED BY <1>1, <1>3, <1>4, <1>5, LockOwn DEF Bystanders

LEMMA CreateLock ==
    ASSUME TypeOK, AccountInv, LockInv, NEW h \in Handlers,
           \/ CreateInsert(h) \/ CreateRefuse(h) \/ CreateConsume(h)
           \/ CreateAddJob(h) \/ CreatePayment(h) \/ CreateUndo(h) \/ CreateCancel(h)
           \/ CreateCatch(h)
    PROVE  LockInv'
<1> DEFINE r == hnd[h].r
<1>1. h \in AllHandlers /\ Bystanders(h) /\ status \in [Reservations -> {"none", "PENDING"} \cup Settled]
  BY CreateBystanders, Commands DEF AllHandlers
<1>2. \E pc \in CreatePC : At(h, pc)
  BY DEF CreatePC, CreateInsert, CreateRefuse, CreateConsume, CreateAddJob, CreatePayment,
     CreateUndo, CreateCancel, CreateCatch, At
<1>3. r \in Reservations /\ (r \notin disturbed => Stage(r, hnd[h].pc))
  <2>1. PICK pc \in CreatePC : At(h, pc)
    BY <1>2
  <2>2. pc \in HandlerPC \cup ExpirePC /\ pc # "expire.find" /\ hnd[h].pc = pc
    BY <2>1 DEF HandlerPC, CreatePC, At
  <2>3. QED BY <1>1, <2>1, <2>2, AtStage
<1>4. CASE CreateUndo(h)
  BY <1>1, <1>3, <1>4, LockCommand DEF CreateUndo, ReleaseStock, DeleteLock
<1>5. CASE ~CreateUndo(h)
  <2>1. UNCHANGED <<lock, taken, disturbed>>
    BY <1>5 DEF CreateInsert, CreateRefuse, CreateConsume, CreateAddJob, CreatePayment,
       CreateCancel, CreateCatch, redis
  <2>2. r \notin disturbed => status[r] # "CONFIRMED"
    BY <1>3, <1>5 DEF Stage, At, CreateInsert, CreateRefuse, CreateConsume, CreateAddJob,
       CreatePayment, CreateCancel, CreateCatch
  <2>3. r \notin disturbed => status'[r] # "CONFIRMED"
    BY <1>1, <1>3, <1>5, <2>2 DEF CreateInsert, CreateRefuse, CreateConsume, CreateAddJob,
       CreatePayment, CreateCancel, CreateCatch, db
  <2>4. QED BY <1>1, <1>3, <2>1, <2>3, LockCommand
<1>6. QED BY <1>4, <1>5

LEMMA PreemptLock ==
    ASSUME TypeOK, AccountInv, LockInv, NEW h \in Handlers, CreatePreempt(h)
    PROVE  LockInv'
<1> DEFINE r == hnd[h].r
<1>1. h \in AllHandlers /\ Bystanders(h)
  BY CreateBystanders DEF AllHandlers
<1>2. r \in Reservations /\ (r \notin disturbed => status[r] = "PENDING" /\ taken[r] = 0)
  BY <1>1, AtStage DEF CreatePreempt, HandlerPC, CreatePC, Stage
<1>3. UNCHANGED <<status, disturbed>> /\ Key(r) \in Zones \X Users
  BY <1>2, KeyOK DEF CreatePreempt, db
<1>4. CASE UNCHANGED redis
  BY <1>1, <1>2, <1>3, <1>4, LockCommand DEF redis
<1>5. CASE ~UNCHANGED redis
  <2>1. /\ lock' = [lock EXCEPT ![Key(r)] = r]
        /\ taken' = [taken EXCEPT ![r] = @ + 1]
        /\ lock \in [Zones \X Users -> Reservations \cup {NoRes}]
        /\ taken \in [Reservations -> Int]
    BY <1>5 DEF CreatePreempt, TypeOK
  <2>2. ASSUME NEW k \in Zones \X Users, NEW q \in Reservations \ disturbed', lock'[k] = q
        PROVE  Key(q) = k /\ taken'[q] = 1 /\ (status'[q] = "CONFIRMED" => Paying(q)')
    <3>1. CASE q = r
      <4>1. k = Key(r)
        BY <1>2, <1>3, <2>1, <2>2, <3>1 DEF LockInv
      <4>2. QED BY <1>2, <1>3, <2>1, <2>2, <3>1, <4>1
    <3>2. CASE q # r
      <4>1. lock[k] = q
        BY <2>1, <2>2, <3>2
      <4>2. Key(q) = k /\ taken[q] = 1 /\ (status[q] = "CONFIRMED" => Paying(q))
        BY <1>3, <2>2, <4>1 DEF LockInv
      <4>3. Paying(q) => Paying(q)'
        BY <1>1, <3>2 DEF Paying, Bystanders
      <4>4. QED BY <1>3, <2>1, <2>2, <3>2, <4>2, <4>3
    <3>3. QED BY <3>1, <3>2
  <2>3. QED BY <2>2 DEF LockInv, Key, Paying
<1>6. QED BY <1>4, <1>5

LEMMA CancelExtendLock ==
    ASSUME TypeOK, AccountInv, LockInv, NEW h \in Handlers,
           \/ CancelRelease(h) \/ CancelRemoveJob(h) \/ CancelStatus(h) \/ CancelPayment(h)
           \/ ExtendTtl(h) \/ ExtendExpire(h) \/ ExtendRemoveJob(h) \/ ExtendAddJob(h)
           \/ ExtendStatus(h)
    PROVE  LockInv'
<1> DEFINE r == hnd[h].r
<1>1. /\ h \in AllHandlers /\ Bystanders(h) /\ disturbed \subseteq disturbed'
      /\ status \in [Reservations -> {"none", "PENDING"} \cup Settled]
  BY CancelExtendBystanders, Commands DEF AllHandlers, Bystanders
<1>2. \E pc \in CancelPC \cup ExtendPC : At(h, pc)
  BY DEF CancelPC, ExtendPC, CancelRelease, CancelRemoveJob, CancelStatus, CancelPayment,
     ExtendTtl, ExtendExpire, ExtendRemoveJob, ExtendAddJob, ExtendStatus, At
<1>3. r \in Reservations /\ (r \notin disturbed => Stage(r, hnd[h].pc))
  <2>1. PICK pc \in CancelPC \cup ExtendPC : At(h, pc)
    BY <1>2
  <2>2. pc \in HandlerPC \cup ExpirePC /\ pc # "expire.find" /\ hnd[h].pc = pc
    BY <2>1 DEF HandlerPC, CancelPC, ExtendPC, At
  <2>3. QED BY <1>1, <2>1, <2>2, AtStage
<1>4. CASE CancelRelease(h)
  BY <1>1, <1>3, <1>4, LockCommand DEF CancelRelease, ReleaseStock, DeleteLock
<1>5. CASE ~CancelRelease(h)
  <2>1. UNCHANGED <<lock, taken>>
    BY <1>5 DEF CancelRemoveJob, CancelStatus, CancelPayment, ExtendTtl, ExtendExpire,
       ExtendRemoveJob, ExtendAddJob, ExtendStatus, redis
  <2>2. r \notin disturbed => status[r] # "CONFIRMED"
    BY <1>3, <1>5 DEF Stage, At, CancelRemoveJob, CancelStatus, CancelPayment, ExtendTtl,
       ExtendExpire, ExtendRemoveJob, ExtendAddJob, ExtendStatus
  <2>3. r \notin disturbed' => status'[r] # "CONFIRMED"
    BY <1>1, <1>3, <1>5, <2>2 DEF CancelRemoveJob, CancelStatus, CancelPayment, ExtendTtl,
       ExtendExpire, ExtendRemoveJob, ExtendAddJob, ExtendStatus, db
  <2>4. QED BY <1>1, <1>3, <2>1, <2>3, LockCommand
<1>6. QED BY <1>4, <1>5

LEMMA WebhookLock ==
    ASSUME TypeOK, AccountInv, LockInv, NEW h \in Handlers,
           \/ DoneTx(h) \/ DoneRemain(h) \/ DoneDeleteLock(h)
           \/ FailTx(h) \/ FailRelease(h) \/ WebhookRemoveJob(h)
    PROVE  LockInv'
<1>1. PICK pc \in DonePC \cup FailPC : At(h, pc)
  BY DEF DonePC, FailPC, DoneTx, DoneRemain, DoneDeleteLock, FailTx, FailRelease,
     WebhookRemoveJob, At
<1>2. h \in AllHandlers /\ pc \in HandlerPC \cup ExpirePC /\ pc # "expire.find" /\ hnd[h].pc = pc
  BY <1>1 DEF HandlerPC, DonePC, FailPC, At, AllHandlers
<1>3. PICK r \in Reservations : hnd[h].r = r /\ (r \notin disturbed => Stage(r, hnd[h].pc))
  BY <1>1, <1>2, AtStage
<1>10. /\ Bystanders(h)
       /\ status \in [Reservations -> {"none", "PENDING"} \cup Settled]
       /\ \A c : Goto(h, c) => hnd'[h].pc = c /\ hnd'[h].r = r
  BY <1>2, <1>3, WebhookBystanders, Commands, TypeParts, Moves
<1>4. CASE DoneDeleteLock(h) \/ FailRelease(h)
  BY <1>2, <1>10, <1>3, <1>4, LockCommand DEF DoneDeleteLock, FailRelease, ReleaseStock, DeleteLock
<1>5. CASE DoneRemain(h)
  <2>1. Paying(r)'
    BY <1>2, <1>10, <1>5 DEF DoneRemain, Paying
  <2>2. QED BY <1>2, <1>10, <1>3, <1>5, <2>1, LockCommand DEF DoneRemain, redis
<1>6. CASE DoneTx(h)
  <2>1. UNCHANGED <<lock, taken, disturbed>>
    BY <1>6 DEF DoneTx, redis
  <2>2. CASE Goto(h, "done.remain")
    <3>1. Paying(r)'
      BY <1>2, <1>10, <2>2 DEF Paying
    <3>2. QED BY <1>2, <1>10, <1>3, <2>1, <3>1, LockCommand
  <2>3. CASE UNCHANGED status
    <3>1. r \notin disturbed => status'[r] # "CONFIRMED"
      BY <1>3, <1>6, <2>3 DEF DoneTx, At, Stage
    <3>2. QED BY <1>2, <1>10, <1>3, <2>1, <3>1, LockCommand
  <2>4. QED BY <1>6, <2>2, <2>3 DEF DoneTx, Tx
<1>7. CASE FailTx(h)
  <2>1. UNCHANGED <<lock, taken, disturbed>>
    BY <1>7 DEF FailTx, redis
  <2>2. r \notin disturbed => status[r] = "PENDING"
    BY <1>3, <1>7 DEF FailTx, At, Stage
  <2>3. r \notin disturbed => status'[r] # "CONFIRMED"
    BY <1>2, <1>10, <1>3, <1>7, <2>2 DEF FailTx, Tx
  <2>4. QED BY <1>2, <1>10, <1>3, <2>1, <2>3, LockCommand
<1>8. CASE WebhookRemoveJob(h)
  <2>1. UNCHANGED <<lock, taken, disturbed, status>>
    BY <1>8 DEF WebhookRemoveJob, redis, db
  <2>2. CASE At(h, "fail.job")
    <3>1. r \notin disturbed => status'[r] # "CONFIRMED"
      BY <1>3, <2>1, <2>2 DEF At, Stage
    <3>2. QED BY <1>2, <1>10, <1>3, <2>1, <3>1, LockCommand
  <2>3. CASE At(h, "done.job")
    <3>1. ASSUME r \notin disturbed
          PROVE  lock[Key(r)] # r
      <4>1. Works(h, r) /\ status[r] = "CONFIRMED" /\ Key(r) \in Zones \X Users
        BY <1>3, <2>3, <3>1, KeyOK DEF Works, At, Stage
      <4>2. ASSUME NEW g \in AllHandlers, hnd[g].r = r, hnd[g].pc \in {"done.remain", "done.lock"}
            PROVE  FALSE
        <5>1. Works(g, r)
          BY <4>2 DEF Works, At
        <5>2. g = h
          BY <1>2, <1>10, <1>3, <3>1, <4>1, <5>1 DEF AccountInv
        <5>3. QED BY <2>3, <4>2, <5>2 DEF At
      <4>3. ~Paying(r)
        BY <4>2 DEF Paying
      <4>4. QED BY <1>3, <3>1, <4>1, <4>3 DEF LockInv
    <3>2. QED BY <1>2, <1>10, <1>3, <2>1, <3>1, LockCommand
  <2>4. QED BY <1>8, <2>2, <2>3 DEF WebhookRemoveJob
<1>9. QED BY <1>4, <1>5, <1>6, <1>7, <1>8

LEMMA BeginLock ==
    ASSUME TypeOK, LockInv, NEW h \in Handlers, NEW r \in Reservations, Begin(h, r)
    PROVE  LockInv'
<1>1. UNCHANGED <<lock, taken, status>> /\ hnd[h] = Idle
  BY DEF Begin, CreateIsAdmitted, CancelBegin, ExtendBegin, WebhookBegin, PassCheck, db, redis
<1>2. disturbed \subseteq disturbed'
  BY DEF Begin, CreateIsAdmitted, CancelBegin, ExtendBegin, WebhookBegin, PassCheck, Disturb
<1>3. \A g \in AllHandlers \ {h} : hnd'[g] = hnd[g]
  BY TypeParts DEF Begin, CreateIsAdmitted, CancelBegin, ExtendBegin, WebhookBegin, PassCheck,
     HndOK
<1>4. \A q \in Reservations : Paying(q) => Paying(q)'
  BY <1>1, <1>3 DEF Paying, Idle
<1>5. QED BY <1>1, <1>2, <1>4, LockQuiet

LEMMA ExpireLock ==
    ASSUME TypeOK, AccountInv, LockInv, ExpireStep
    PROVE  LockInv'
<1> DEFINE r == hnd[Expirer].r
<1>1. /\ Expirer \in AllHandlers /\ hnd \in [AllHandlers -> HandlerState \cup WorkerState]
      /\ hnd[Expirer].pc \notin {"done.remain", "done.lock"}
      /\ status \in [Reservations -> {"none", "PENDING"} \cup Settled]
      /\ taken \in [Reservations -> Int]
      /\ lock \in [Zones \X Users -> Reservations \cup {NoRes}]
  BY DEF AllHandlers, TypeOK, WorkerState, ExpirePC, Idle
<1>2. /\ \A g \in AllHandlers \ {Expirer} : hnd'[g] = hnd[g]
      /\ disturbed \subseteq disturbed'
  BY <1>1 DEF ExpireStep, ExpireTake, ExpireFind, ExpireStatus, ExpirePayment, ExpireRelease,
     ExpireAdmit, EndJob, Finish, Goto, PassCheck, Disturb
<1>3. CASE (\E q \in Reservations : ExpireTake(q)) \/ ExpireFind \/ ExpirePayment \/ ExpireAdmit
  <2>1. UNCHANGED <<lock, taken, status>>
    BY <1>3 DEF ExpireTake, ExpireFind, ExpirePayment, ExpireAdmit, db, redis
  <2>2. \A q \in Reservations : Paying(q) => Paying(q)'
    BY <1>1, <1>2 DEF Paying
  <2>3. QED BY <1>2, <2>1, <2>2, LockQuiet
<1>4. CASE ExpireStatus
  <2>1. r \in Reservations
    BY <1>1, <1>4, AtStage DEF ExpireStatus, ExpirePC
  <2>2. UNCHANGED <<lock, taken>> /\ status' = [status EXCEPT ![r] = "EXPIRED"]
    BY <1>4 DEF ExpireStatus, redis
  <2>3. QED BY <1>1, <1>2, <2>1, <2>2, LockOwn
<1>5. CASE ExpireRelease
  <2>1. r \in Reservations
    BY <1>1, <1>5, AtStage DEF ExpireRelease, ExpirePC
  <2>2. /\ lock' = [lock EXCEPT ![Key(r)] = NoRes]
        /\ taken' = [taken EXCEPT ![r] = @ - 1]
        /\ UNCHANGED status
    BY <1>5 DEF ExpireRelease, ReleaseStock, DeleteLock, db
  <2>3. /\ \A k \in Zones \X Users : lock'[k] = lock[k] \/ lock'[k] = NoRes
        /\ lock'[Key(r)] # r
    BY <1>1, <2>1, <2>2, KeyOK, SeatConstants
  <2>4. QED BY <1>1, <1>2, <2>1, <2>2, <2>3, LockOwn
<1>6. QED BY <1>3, <1>4, <1>5 DEF ExpireStep

LEMMA WorldLock ==
    ASSUME TypeOK, LockInv,
           \/ \E u \in Users : Admit(u) \/ AdmittedExpires(u)
           \/ \E k \in Zones \X Users : LockAges(k) \/ LockExpires(k)
           \/ \E h \in AllHandlers : HandlerFails(h)
           \/ Crash
    PROVE  LockInv'
<1>1. UNCHANGED <<taken, status>> /\ disturbed \subseteq disturbed'
  BY DEF Admit, AdmittedExpires, LockAges, LockExpires, HandlerFails, Crash, Disturb, db, redis
<1>2. /\ lock \in [Zones \X Users -> Reservations \cup {NoRes}]
      /\ hnd \in [AllHandlers -> HandlerState \cup WorkerState]
  BY DEF TypeOK
<1>3. \A k \in Zones \X Users : lock'[k] = lock[k] \/ lock'[k] = NoRes
  BY <1>2 DEF Admit, AdmittedExpires, LockAges, LockExpires, DeleteLock, HandlerFails, Crash, redis
<1>4. ASSUME NEW q \in Reservations \ disturbed', Paying(q)
      PROVE  Paying(q)'
  <2>1. PICK g \in AllHandlers : hnd[g].r = q /\ hnd[g].pc \in {"done.remain", "done.lock"}
    BY <1>4 DEF Paying
  <2>2. CASE UNCHANGED hnd
    BY <2>1, <2>2 DEF Paying
  <2>3. ASSUME NEW h \in AllHandlers, HandlerFails(h)
        PROVE  Paying(q)'
    <3>1. g # h
      BY <1>4, <2>1, <2>3 DEF HandlerFails, Disturb
    <3>2. hnd'[g] = hnd[g]
      BY <1>2, <2>3, <3>1 DEF HandlerFails, EndJob, Finish
    <3>3. QED BY <2>1, <3>2 DEF Paying
  <2>4. CASE Crash
    <3>1. InProgress(q)
      BY <2>1 DEF InProgress, At
    <3>2. QED BY <1>4, <2>4, <3>1 DEF Crash
  <2>5. QED BY <2>2, <2>3, <2>4 DEF Admit, AdmittedExpires, LockAges, LockExpires
<1>5. QED BY <1>1, <1>3, <1>4, LockQuiet

LEMMA LockStep == TypeOK /\ AccountInv /\ LockInv /\ [Next]_vars => LockInv'
<1> SUFFICES ASSUME TypeOK, AccountInv, LockInv, [Next]_vars PROVE LockInv'
  OBVIOUS
<1>1. CASE UNCHANGED vars
  BY <1>1 DEF vars, LockInv, Paying, Key
<1>2. CASE Next
  <2>1. ASSUME NEW h \in Handlers, Continue(h)
        PROVE  LockInv'
    BY <2>1, CreateLock, PreemptLock, CancelExtendLock, WebhookLock, Zenon DEF Continue
  <2>2. QED BY <1>2, <2>1, CreateLock, BeginLock, ExpireLock, WorldLock, Zenon DEF Next
<1>3. QED BY <1>1, <1>2

\* The lock that refuses a user's next reservation in a zone ends with the
\* reservation that took it, unless the requests of that one overlapped.
THEOREM LockEndsCorrect == Spec => []LockEndsWithReservation
<1>1. Init => LockInv
  BY SeatConstants DEF Init, LockInv
<1>2. TypeOK /\ AccountInv /\ LockInv => LockEndsWithReservation
  <2>1. SUFFICES ASSUME TypeOK, AccountInv, LockInv, NEW k \in Zones \X Users,
                        lock[k] \in Reservations \ disturbed, ~InProgress(lock[k])
                 PROVE  status[lock[k]] = "PENDING"
    BY DEF LockEndsWithReservation
  <2>2. taken[lock[k]] = 1 /\ (status[lock[k]] = "CONFIRMED" => Paying(lock[k]))
    BY <2>1 DEF LockInv
  <2>3. ~Paying(lock[k])
    BY <2>1 DEF Paying, InProgress, At
  <2>4. QED BY <2>1, <2>2, <2>3 DEF AccountInv, Rest
<1>3. QED BY <1>1, <1>2, TypeInit, TypeStep, AccountInit, AccountStep, LockStep, PTL DEF Spec

-----------------------------------------------------------------------------
(* Counting seats.                                                         *)

\* The seats of one reservation, and of a set of them, one by one.
Block(r) == {r} \X (1..Qty[r])
Blocks(S) == UNION {Block(r) : r \in S}

LEMMA BlockSize ==
    ASSUME NEW r \in Reservations
    PROVE  IsFiniteSet(Block(r)) /\ Cardinality(Block(r)) = Qty[r]
<1>1. Qty[r] \in Nat \ {0}
  BY SeatConstants
<1>2. IsFiniteSet({r}) /\ Cardinality({r}) = 1
  BY FS_Singleton
<1>3. IsFiniteSet(1..Qty[r]) /\ Cardinality(1..Qty[r]) = Qty[r]
  BY <1>1, FS_Interval
<1>4. /\ IsFiniteSet({r} \X (1..Qty[r]))
      /\ Cardinality({r} \X (1..Qty[r])) = Cardinality({r}) * Cardinality(1..Qty[r])
  BY <1>2, <1>3, FS_Product
<1>5. Cardinality({r}) * Cardinality(1..Qty[r]) = 1 * Qty[r]
  BY <1>2, <1>3
<1>6. 1 * Qty[r] = Qty[r]
  BY <1>1
<1>7. QED BY <1>4, <1>5, <1>6 DEF Block

LEMMA BlocksFinite ==
    ASSUME NEW S \in SUBSET Reservations, IsFiniteSet(S)
    PROVE  IsFiniteSet(Blocks(S))
<1> DEFINE B == {Block(r) : r \in S}
           f == [r \in S |-> Block(r)]
<1>1. f \in Surjection(S, B)
  BY DEF Surjection
<1>2. IsFiniteSet(B)
  BY <1>1, FS_Surjection
<1>3. \A b \in B : IsFiniteSet(b)
  BY BlockSize
<1>4. QED BY <1>2, <1>3, FS_UNION DEF Blocks

LEMMA NoSeats == Seats({}) = 0
<1>1. UNION {{r} \X (1..Qty[r]) : r \in {}} = {}
  OBVIOUS
<1>2. QED BY <1>1, FS_EmptySet DEF Seats

\* One more reservation has its own seats.
LEMMA SeatsAdd ==
    ASSUME NEW S \in SUBSET Reservations, IsFiniteSet(S), NEW r \in Reservations \ S
    PROVE  /\ Seats(S) \in Nat
           /\ Seats(S \cup {r}) = Seats(S) + Qty[r]
<1>1. IsFiniteSet(Blocks(S)) /\ Cardinality(Blocks(S)) \in Nat
  BY BlocksFinite, FS_CardinalityType
<1>2. IsFiniteSet(Block(r)) /\ Cardinality(Block(r)) = Qty[r]
  BY BlockSize
<1>3. Blocks(S) \cap Block(r) = {}
  BY DEF Blocks, Block
<1>4. Blocks(S \cup {r}) = Blocks(S) \cup Block(r)
  BY DEF Blocks
<1>5. Cardinality(Blocks(S) \cap Block(r)) = 0
  BY <1>3, FS_EmptySet
<1>6. Qty[r] \in Nat
  BY SeatConstants
<1>7. Cardinality(Blocks(S) \cup Block(r))
        = Cardinality(Blocks(S)) + Cardinality(Block(r)) - Cardinality(Blocks(S) \cap Block(r))
  BY <1>1, <1>2, FS_Union
<1>8. Cardinality(Blocks(S \cup {r})) = Cardinality(Blocks(S)) + Qty[r]
  <2>1. Cardinality(Blocks(S \cup {r})) = Cardinality(Blocks(S)) + Qty[r] - 0
    BY <1>2, <1>4, <1>5, <1>7, Zenon
  <2>2. \A n \in Nat : n + Qty[r] - 0 = n + Qty[r]
    BY <1>6
  <2>3. QED BY <1>1, <2>1, <2>2
<1>9. \A T : Seats(T) = Cardinality(Blocks(T))
  BY DEF Seats, Blocks, Block
<1>10. QED BY <1>1, <1>8, <1>9

-----------------------------------------------------------------------------
(* The double bookkeeping.                                                 *)

Holding(z) == {r \in Reservations : Zone[r] = z /\ taken[r] = 1}

\* Of a zone whose reservations' requests did not overlap: no reservation took
\* seats twice, and the stock is the total without those that are taken.
Balance ==
    \A z \in Zones : Undisturbed(z) =>
        /\ \A r \in Reservations : Zone[r] = z => taken[r] \in {0, 1}
        /\ stock[z] = Total[z] - Seats(Holding(z))

LEMMA BalanceInit == Init => Balance
<1> SUFFICES ASSUME Init, NEW z \in Zones
             PROVE  /\ \A r \in Reservations : Zone[r] = z => taken[r] \in {0, 1}
                    /\ stock[z] = Total[z] - Seats(Holding(z))
  BY DEF Balance
<1>1. Holding(z) = {}
  BY DEF Init, Holding
<1>2. QED BY <1>1, NoSeats, SeatConstants DEF Init

\* An entry of the ledger keeps the balance.
LEMMA BalanceStep ==
    ASSUME IsFiniteSet(Reservations), TypeOK, Balance, [Ledger!Next]_(Ledger!vars)
    PROVE  Balance'
<1> SUFFICES ASSUME NEW z \in Zones, Undisturbed(z)'
             PROVE  /\ \A r \in Reservations : Zone[r] = z => taken'[r] \in {0, 1}
                    /\ stock'[z] = Total[z] - Seats(Holding(z)')
  BY DEF Balance, Seats
<1>1. /\ stock \in [Zones -> Int] /\ taken \in [Reservations -> Int] /\ Total[z] \in Int
  BY SeatConstants DEF TypeOK
<1>2. disturbed \subseteq disturbed'
  BY DEF Ledger!Next, Ledger!vars, Ledger!Ask, Ledger!Take, Ledger!GiveBack, Ledger!Settle,
     Ledger!Dispute, Ledger!Contest
<1>3. /\ Undisturbed(z)
      /\ \A r \in Reservations : Zone[r] = z => taken[r] \in {0, 1}
      /\ stock[z] = Total[z] - Seats(Holding(z))
  BY <1>2 DEF Balance, Undisturbed
<1>4. CASE UNCHANGED <<stock, taken>>
  BY <1>3, <1>4 DEF Holding
<1>5. ASSUME NEW r \in Reservations, Zone[r] # z, Ledger!Out(r) \/ Ledger!Back(r)
      PROVE  /\ stock'[z] = stock[z]
             /\ \A q \in Reservations : Zone[q] = z => taken'[q] = taken[q]
  BY <1>1, <1>5 DEF Ledger!Out, Ledger!Back
<1>6. ASSUME NEW r \in Reservations, Zone[r] # z, Ledger!Out(r) \/ Ledger!Back(r)
      PROVE  /\ \A q \in Reservations : Zone[q] = z => taken'[q] \in {0, 1}
             /\ stock'[z] = Total[z] - Seats(Holding(z)')
  <2>1. Holding(z)' = Holding(z)
    BY <1>5, <1>6 DEF Holding
  <2>2. QED BY <1>3, <1>5, <1>6, <2>1
<1>7. ASSUME NEW r \in Reservations, Zone[r] = z
      PROVE  /\ Qty[r] \in Nat
             /\ IsFiniteSet(Holding(z) \ {r}) /\ Holding(z) \ {r} \in SUBSET Reservations
             /\ r \in Reservations \ (Holding(z) \ {r})
  BY SeatConstants, FS_Subset DEF Holding
<1>8. ASSUME NEW r \in Reservations, Zone[r] = z, Ledger!Take(r)
      PROVE  /\ \A q \in Reservations : Zone[q] = z => taken'[q] \in {0, 1}
             /\ stock'[z] = Total[z] - Seats(Holding(z)')
  <2>1. /\ taken[r] = 0 /\ taken' = [taken EXCEPT ![r] = 1]
        /\ stock'[z] = stock[z] - Qty[r]
    BY <1>1, <1>8 DEF Ledger!Take, Ledger!Out
  <2>2. Holding(z) \ {r} = Holding(z) /\ Holding(z)' = Holding(z) \cup {r}
    BY <1>1, <1>8, <2>1 DEF Holding
  <2>3. Seats(Holding(z)) \in Nat /\ Seats(Holding(z)') = Seats(Holding(z)) + Qty[r]
    BY <1>7, <1>8, <2>2, SeatsAdd
  <2>4. Qty[r] \in Nat /\ Total[z] \in Int /\ stock[z] = Total[z] - Seats(Holding(z))
    BY <1>1, <1>3, <1>7, <1>8
  <2>5. stock'[z] = Total[z] - Seats(Holding(z)')
    BY <2>1, <2>3, <2>4
  <2>6. QED BY <1>1, <1>3, <2>1, <2>5
<1>9. ASSUME NEW r \in Reservations, Zone[r] = z, Ledger!GiveBack(r)
      PROVE  /\ \A q \in Reservations : Zone[q] = z => taken'[q] \in {0, 1}
             /\ stock'[z] = Total[z] - Seats(Holding(z)')
  <2>1. /\ taken[r] = 1 /\ taken' = [taken EXCEPT ![r] = 0]
        /\ stock'[z] = stock[z] + Qty[r]
    BY <1>1, <1>9 DEF Ledger!GiveBack, Ledger!Back
  <2>2. Holding(z)' = Holding(z) \ {r} /\ (Holding(z) \ {r}) \cup {r} = Holding(z)
    BY <1>1, <1>9, <2>1 DEF Holding
  <2>3. Seats(Holding(z)') \in Nat /\ Seats(Holding(z)) = Seats(Holding(z)') + Qty[r]
    BY <1>7, <1>9, <2>2, SeatsAdd
  <2>4. Qty[r] \in Nat /\ Total[z] \in Int /\ stock[z] = Total[z] - Seats(Holding(z))
    BY <1>1, <1>3, <1>7, <1>9
  <2>5. stock'[z] = Total[z] - Seats(Holding(z)')
    BY <2>1, <2>3, <2>4
  <2>6. QED BY <1>1, <1>3, <2>1, <2>5
<1>10. ASSUME NEW r \in Reservations, Zone[r] = z PROVE ~Ledger!Dispute(r)
  BY <1>3, <1>10 DEF Undisturbed, Ledger!Dispute
<1>11. QED
  BY <1>4, <1>6, <1>8, <1>9, <1>10 DEF Ledger!Next, Ledger!vars, Ledger!Ask, Ledger!Take,
     Ledger!GiveBack, Ledger!Settle, Ledger!Dispute, Ledger!Contest

\* While none of a zone's reservations is in progress its stock is what its
\* PENDING and CONFIRMED reservations leave of the total, after any number of
\* requests, payments, expiries and crashes in which the requests of none of them
\* overlapped or failed half way.
THEOREM StockMatchesDBCorrect ==
    ASSUME IsFiniteSet(Reservations) PROVE Spec => []StockMatchesDB
<1>1. TypeOK /\ AccountInv /\ Balance => StockMatchesDB
  <2>1. SUFFICES ASSUME AccountInv, Balance, NEW z \in Zones, Undisturbed(z),
                        \A r \in Reservations : Zone[r] = z => ~InProgress(r)
                 PROVE  stock[z] = Total[z] - Seats(In(z, {"PENDING", "CONFIRMED"}))
    BY DEF StockMatchesDB
  <2>2. Holding(z) = In(z, {"PENDING", "CONFIRMED"})
    BY <2>1 DEF AccountInv, Rest, Holding, In, Undisturbed
  <2>3. QED BY <2>1, <2>2 DEF Balance
<1>2. TypeOK /\ AccountInv /\ Balance /\ [Next]_vars => Balance'
  BY LedgerStep, BalanceStep
<1>3. QED BY <1>1, <1>2, TypeInit, TypeStep, AccountInit, AccountStep, BalanceInit, PTL DEF Spec

-----------------------------------------------------------------------------
(* remainQuantity.                                                         *)

\* Some webhook has confirmed r and has not come to the decrement.
Decrementing(r) == \E h \in Handlers : hnd[h].r = r /\ At(h, "done.remain")

LEMMA CountedMeans ==
    \A z : Counted(z) = {r \in Reservations :
                          Zone[r] = z /\ status[r] = "CONFIRMED" /\ ~Decrementing(r)}
BY DEF Counted, In, Decrementing

\* A step that confirms r leaves its webhook before the decrement, and no step
\* but the decrement takes it on from there.
SameCount(r) ==
    /\ status'[r] = "CONFIRMED" => status[r] = "CONFIRMED" \/ Decrementing(r)'
    /\ status[r] = "CONFIRMED" => (Decrementing(r)' <=> Decrementing(r))

SameCounts == \A r \in Reservations \ disturbed' : SameCount(r)

\* A handler's command is a matter of its own reservation.
LEMMA OwnCount ==
    ASSUME NEW h \in Handlers, NEW r \in Reservations, hnd[h].r = r, Bystanders(h),
           r \notin disturbed' => SameCount(r)
    PROVE  SameCounts
<1>1. ASSUME NEW q \in Reservations \ {r}
      PROVE  status'[q] = status[q] /\ (Decrementing(q)' <=> Decrementing(q))
  <2>1. status'[q] = status[q]
    BY DEF Bystanders, SameData
  <2>2. hnd[h].r # q /\ hnd'[h].r # q
    BY SeatConstants DEF Bystanders, Idle
  <2>3. \A g \in Handlers \ {h} : hnd'[g] = hnd[g]
    BY DEF Bystanders, AllHandlers
  <2>4. Decrementing(q)' <=> \E g \in Handlers : hnd'[g].r = q /\ hnd'[g].pc = "done.remain"
    BY DEF Decrementing, At
  <2>5. Decrementing(q) <=> \E g \in Handlers : hnd[g].r = q /\ hnd[g].pc = "done.remain"
    BY DEF Decrementing, At
  <2>6. QED BY <2>1, <2>2, <2>3, <2>4, <2>5
<1>2. QED BY <1>1 DEF SameCounts, SameCount

LEMMA CreateCount ==
    ASSUME TypeOK, AccountInv, NEW h \in Handlers,
           \/ CreateInsert(h) \/ CreatePreempt(h) \/ CreateRefuse(h) \/ CreateConsume(h)
           \/ CreateAddJob(h) \/ CreatePayment(h) \/ CreateUndo(h) \/ CreateCancel(h)
           \/ CreateCatch(h)
    PROVE  SameCounts
<1>1. h \in AllHandlers /\ Bystanders(h) /\ status \in [Reservations -> {"none", "PENDING"} \cup Settled]
  BY CreateBystanders, Commands DEF AllHandlers
<1>2. PICK pc \in CreatePC : At(h, pc)
  BY DEF CreatePC, CreateInsert, CreatePreempt, CreateRefuse, CreateConsume, CreateAddJob,
     CreatePayment, CreateUndo, CreateCancel, CreateCatch, At
<1>3. PICK r \in Reservations : hnd[h].r = r /\ (r \notin disturbed => Stage(r, hnd[h].pc))
  <2>1. pc \in HandlerPC \cup ExpirePC /\ pc # "expire.find" /\ hnd[h].pc = pc
    BY <1>2 DEF HandlerPC, CreatePC, At
  <2>2. QED BY <1>1, <1>2, <2>1, AtStage
<1>4. r \notin disturbed => status[r] # "CONFIRMED"
  BY <1>3 DEF Stage, At, CreateInsert, CreatePreempt, CreateRefuse, CreateConsume,
     CreateAddJob, CreatePayment, CreateUndo, CreateCancel, CreateCatch
<1>5. r \notin disturbed => status'[r] # "CONFIRMED"
  BY <1>1, <1>3, <1>4 DEF CreateInsert, CreatePreempt, CreateRefuse, CreateConsume,
     CreateAddJob, CreatePayment, CreateUndo, CreateCancel, CreateCatch, db
<1>6. QED BY <1>1, <1>3, <1>4, <1>5, OwnCount DEF Bystanders, SameCount

LEMMA CancelExtendCount ==
    ASSUME TypeOK, AccountInv, NEW h \in Handlers,
           \/ CancelRelease(h) \/ CancelRemoveJob(h) \/ CancelStatus(h) \/ CancelPayment(h)
           \/ ExtendTtl(h) \/ ExtendExpire(h) \/ ExtendRemoveJob(h) \/ ExtendAddJob(h)
           \/ ExtendStatus(h)
    PROVE  SameCounts
<1>1. /\ h \in AllHandlers /\ Bystanders(h) /\ disturbed \subseteq disturbed'
      /\ status \in [Reservations -> {"none", "PENDING"} \cup Settled]
  BY CancelExtendBystanders, Commands DEF AllHandlers, Bystanders
<1>2. PICK pc \in CancelPC \cup ExtendPC : At(h, pc)
  BY DEF CancelPC, ExtendPC, CancelRelease, CancelRemoveJob, CancelStatus, CancelPayment,
     ExtendTtl, ExtendExpire, ExtendRemoveJob, ExtendAddJob, ExtendStatus, At
<1>3. PICK r \in Reservations : hnd[h].r = r /\ (r \notin disturbed => Stage(r, hnd[h].pc))
  <2>1. pc \in HandlerPC \cup ExpirePC /\ pc # "expire.find" /\ hnd[h].pc = pc
    BY <1>2 DEF HandlerPC, CancelPC, ExtendPC, At
  <2>2. QED BY <1>1, <1>2, <2>1, AtStage
<1>4. r \notin disturbed => status[r] # "CONFIRMED"
  BY <1>3 DEF Stage, At, CancelRelease, CancelRemoveJob, CancelStatus, CancelPayment, ExtendTtl,
     ExtendExpire, ExtendRemoveJob, ExtendAddJob, ExtendStatus
<1>5. r \notin disturbed' => status'[r] # "CONFIRMED"
  BY <1>1, <1>3, <1>4 DEF CancelRelease, CancelRemoveJob, CancelStatus, CancelPayment,
     ExtendTtl, ExtendExpire, ExtendRemoveJob, ExtendAddJob, ExtendStatus, db
<1>6. QED BY <1>1, <1>3, <1>4, <1>5, OwnCount DEF SameCount

LEMMA WebhookCount ==
    ASSUME TypeOK, AccountInv, NEW h \in Handlers,
           \/ DoneTx(h) \/ DoneDeleteLock(h)
           \/ FailTx(h) \/ FailRelease(h) \/ WebhookRemoveJob(h)
    PROVE  SameCounts
<1>1. /\ h \in AllHandlers /\ Bystanders(h) /\ disturbed \subseteq disturbed'
      /\ status \in [Reservations -> {"none", "PENDING"} \cup Settled]
  BY WebhookBystanders, Commands DEF AllHandlers, Bystanders
<1>2. PICK pc \in DonePC \cup FailPC : At(h, pc)
  BY DEF DonePC, FailPC, DoneTx, DoneDeleteLock, FailTx, FailRelease, WebhookRemoveJob, At
<1>3. PICK r \in Reservations : hnd[h].r = r /\ (r \notin disturbed => Stage(r, hnd[h].pc))
  <2>1. pc \in HandlerPC \cup ExpirePC /\ pc # "expire.find" /\ hnd[h].pc = pc
    BY <1>2 DEF HandlerPC, DonePC, FailPC, At
  <2>2. QED BY <1>1, <1>2, <2>1, AtStage
<1>4. \A c : Goto(h, c) => hnd'[h].pc = c /\ hnd'[h].r = r
  BY <1>1, <1>3, TypeParts, Moves
<1>5. Finish(h) => hnd'[h] = Idle
  BY Commands
<1>6. CASE DoneTx(h)
  <2>1. r \notin disturbed => status[r] = "PENDING"
    BY <1>3, <1>6 DEF DoneTx, At, Stage
  <2>2. status'[r] = "CONFIRMED" /\ r \notin disturbed => Decrementing(r)'
    <3>1. CASE Goto(h, "done.remain")
      BY <1>3, <1>4, <3>1 DEF Decrementing, At
    <3>2. CASE UNCHANGED status
      BY <2>1, <3>2
    <3>3. QED BY <1>6, <3>1, <3>2 DEF DoneTx, Tx
  <2>3. QED BY <1>1, <1>3, <2>1, <2>2, OwnCount DEF SameCount
<1>7. CASE DoneDeleteLock(h) \/ WebhookRemoveJob(h)
  <2>1. UNCHANGED status /\ hnd[h].pc # "done.remain"
    BY <1>7 DEF DoneDeleteLock, WebhookRemoveJob, At, db
  <2>2. hnd'[h].pc # "done.remain"
    BY <1>4, <1>5, <1>7 DEF DoneDeleteLock, WebhookRemoveJob, Idle
  <2>3. Decrementing(r)' <=> Decrementing(r)
    <3>1. \A g \in Handlers \ {h} : hnd'[g] = hnd[g]
      BY <1>1 DEF Bystanders, AllHandlers
    <3>2. Decrementing(r)' <=> \E g \in Handlers : hnd'[g].r = r /\ hnd'[g].pc = "done.remain"
      BY DEF Decrementing, At
    <3>3. Decrementing(r) <=> \E g \in Handlers : hnd[g].r = r /\ hnd[g].pc = "done.remain"
      BY DEF Decrementing, At
    <3>4. QED BY <2>1, <2>2, <3>1, <3>2, <3>3
  <2>4. QED BY <1>1, <1>3, <2>1, <2>3, OwnCount DEF SameCount
<1>8. CASE FailTx(h) \/ FailRelease(h)
  <2>1. r \notin disturbed => status[r] # "CONFIRMED"
    BY <1>3, <1>8 DEF FailTx, FailRelease, At, Stage
  <2>2. r \notin disturbed => status'[r] # "CONFIRMED"
    BY <1>1, <1>3, <1>8, <2>1 DEF FailTx, FailRelease, Tx, db
  <2>3. QED BY <1>1, <1>3, <2>1, <2>2, OwnCount DEF SameCount
<1>9. QED BY <1>6, <1>7, <1>8

LEMMA BeginCount ==
    ASSUME TypeOK, NEW h \in Handlers, NEW r \in Reservations, Begin(h, r)
    PROVE  SameCounts
<1>1. UNCHANGED status /\ hnd[h] = Idle /\ hnd \in [AllHandlers -> HandlerState \cup WorkerState]
  BY DEF TypeOK, Begin, CreateIsAdmitted, CancelBegin, ExtendBegin, WebhookBegin, PassCheck, db
<1>2. \A g \in AllHandlers \ {h} : hnd'[g] = hnd[g]
  BY <1>1 DEF Begin, CreateIsAdmitted, CancelBegin, ExtendBegin, WebhookBegin, PassCheck
<1>3. hnd[h].pc # "done.remain" /\ hnd'[h].pc # "done.remain"
  BY <1>1 DEF Begin, CreateIsAdmitted, CancelBegin, ExtendBegin, WebhookBegin, PassCheck,
     Idle, AllHandlers
<1>4. \A q \in Reservations : Decrementing(q)' <=> Decrementing(q)
  BY <1>2, <1>3 DEF Decrementing, At, AllHandlers
<1>5. QED BY <1>1, <1>4 DEF SameCounts, SameCount

LEMMA ExpireCount == ASSUME TypeOK, AccountInv, ExpireStep PROVE SameCounts
<1>1. /\ Expirer \in AllHandlers /\ hnd \in [AllHandlers -> HandlerState \cup WorkerState]
      /\ status \in [Reservations -> {"none", "PENDING"} \cup Settled]
  BY DEF AllHandlers, TypeOK
<1>2. \A g \in AllHandlers \ {Expirer} : hnd'[g] = hnd[g]
  BY <1>1 DEF ExpireStep, ExpireTake, ExpireFind, ExpireStatus, ExpirePayment, ExpireRelease,
     ExpireAdmit, EndJob, Finish, Goto, PassCheck
<1>3. \A q \in Reservations : Decrementing(q)' <=> Decrementing(q)
  BY <1>2, SeatConstants DEF Decrementing, At, AllHandlers
<1>4. \A q \in Reservations : status'[q] = "CONFIRMED" => status[q] = "CONFIRMED"
  BY <1>1 DEF ExpireStep, ExpireTake, ExpireFind, ExpireStatus, ExpirePayment, ExpireRelease,
     ExpireAdmit, db
<1>5. QED BY <1>3, <1>4 DEF SameCounts, SameCount

LEMMA WorldCount ==
    ASSUME TypeOK, AccountInv,
           \/ \E u \in Users : Admit(u) \/ AdmittedExpires(u)
           \/ \E k \in Zones \X Users : LockAges(k) \/ LockExpires(k)
           \/ \E h \in AllHandlers : HandlerFails(h)
           \/ Crash
    PROVE  SameCounts
<1>1. UNCHANGED status
  BY DEF Admit, AdmittedExpires, LockAges, LockExpires, HandlerFails, Crash, db
<1>2. hnd \in [AllHandlers -> HandlerState \cup WorkerState]
  BY DEF TypeOK
<1>3. ASSUME NEW q \in Reservations \ disturbed'
      PROVE  Decrementing(q)' <=> Decrementing(q)
  <2>1. CASE UNCHANGED hnd
    BY <2>1 DEF Decrementing, At
  <2>2. ASSUME NEW h \in AllHandlers, HandlerFails(h)
        PROVE  Decrementing(q)' <=> Decrementing(q)
    <3>1. hnd'[h] = Idle /\ \A g \in AllHandlers \ {h} : hnd'[g] = hnd[g]
      BY <1>2, <2>2 DEF HandlerFails, EndJob, Finish
    <3>2. hnd[h].r = q => hnd[h].pc # "done.remain"
      BY <1>3, <2>2 DEF HandlerFails, Disturb
    <3>3. hnd'[h].pc # "done.remain"
      BY <3>1 DEF Idle
    <3>4. QED BY <3>1, <3>2, <3>3 DEF Decrementing, At, AllHandlers
  <2>3. CASE Crash
    <3>1. ~Decrementing(q)'
      BY <2>3 DEF Crash, Decrementing, At, Idle, AllHandlers
    <3>2. ~InProgress(q)
      BY <1>3, <2>3 DEF Crash
    <3>3. ~Decrementing(q)
      BY <3>2 DEF Decrementing, InProgress, At, AllHandlers
    <3>4. QED BY <3>1, <3>3
  <2>4. QED BY <2>1, <2>2, <2>3 DEF Admit, AdmittedExpires, LockAges, LockExpires
<1>4. QED BY <1>1, <1>3 DEF SameCounts, SameCount

LEMMA CountStep ==
    ASSUME TypeOK, AccountInv, [Next]_vars, \A h \in Handlers : ~DoneRemain(h)
    PROVE  SameCounts
<1>1. CASE UNCHANGED vars
  BY <1>1 DEF vars, db, SameCounts, SameCount, Decrementing, At
<1>2. CASE Next
  <2>1. ASSUME NEW h \in Handlers, Continue(h)
        PROVE  SameCounts
    BY <2>1, CreateCount, CancelExtendCount, WebhookCount, Zenon DEF Continue
  <2>2. QED BY <1>2, <2>1, CreateCount, BeginCount, ExpireCount, WorldCount, Zenon DEF Next
<1>3. QED BY <1>1, <1>2

LEMMA RemainFrame ==
    ASSUME [Next]_vars, \A h \in Handlers : ~DoneRemain(h)
    PROVE  UNCHANGED remain
<1>1. ASSUME NEW h \in Handlers, Continue(h)
      PROVE  UNCHANGED remain
  BY <1>1 DEF Continue, CreateInsert, CreatePreempt, CreateRefuse, CreateConsume,
     CreateAddJob, CreatePayment, CreateUndo, CreateCancel, CancelRelease, CancelRemoveJob,
     CancelStatus, CancelPayment, ExtendTtl, ExtendExpire, ExtendRemoveJob, ExtendAddJob,
     ExtendStatus, DoneTx, DoneDeleteLock, FailTx, FailRelease, WebhookRemoveJob, db
<1>2. ASSUME NEW h \in Handlers, NEW r \in Reservations, Begin(h, r)
      PROVE  UNCHANGED remain
  BY <1>2 DEF Begin, CreateIsAdmitted, CancelBegin, ExtendBegin, WebhookBegin, db
<1>3. ASSUME ExpireStep
      PROVE  UNCHANGED remain
  BY <1>3 DEF ExpireStep, ExpireTake, ExpireFind, ExpireStatus, ExpirePayment, ExpireRelease,
     ExpireAdmit, db
<1>4. QED BY <1>1, <1>2, <1>3 DEF Next, vars, CreateCatch, Admit, AdmittedExpires, LockAges,
          LockExpires, HandlerFails, Crash, db

LEMMA DisturbedGrows == TypeOK /\ AccountInv /\ [Next]_vars => disturbed \subseteq disturbed'
<1> SUFFICES ASSUME TypeOK, AccountInv, [Next]_vars PROVE disturbed \subseteq disturbed'
  OBVIOUS
<1>1. [Ledger!Next]_(Ledger!vars)
  BY LedgerStep
<1>2. QED BY <1>1 DEF Ledger!Next, Ledger!vars, Ledger!Ask, Ledger!Take, Ledger!GiveBack,
          Ledger!Settle, Ledger!Dispute, Ledger!Contest

\* The decrement of one webhook.
LEMMA DecrementRemain ==
    ASSUME IsFiniteSet(Reservations), TypeOK, AccountInv, RemainMatchesConfirmed,
           NEW h \in Handlers, DoneRemain(h), NEW z \in Zones, Undisturbed(z)'
    PROVE  remain'[z] = Total[z] - Seats(Counted(z)')
<1>1. /\ h \in AllHandlers /\ Bystanders(h)
      /\ remain \in [Zones -> Int] /\ Total[z] \in Int
  BY WebhookBystanders, SeatConstants DEF AllHandlers, TypeOK
<1>2. PICK r \in Reservations : hnd[h].r = r /\ (r \notin disturbed => Stage(r, "done.remain"))
  BY <1>1, AtStage DEF DoneRemain, HandlerPC, DonePC
<1>3. /\ UNCHANGED <<status, disturbed>>
      /\ remain' = [remain EXCEPT ![Zone[r]] = @ - Qty[r]]
      /\ Zone[r] \in Zones /\ Qty[r] \in Nat
  BY <1>2, SeatConstants DEF DoneRemain
<1>4. Undisturbed(z) /\ remain[z] = Total[z] - Seats(Counted(z))
  BY <1>3 DEF Undisturbed, RemainMatchesConfirmed
<1>5. hnd[h].pc = "done.remain" /\ hnd'[h].pc = "done.lock" /\ hnd'[h].r = r
  BY <1>1, <1>2, TypeParts, Moves DEF DoneRemain, At
<1>6. ASSUME NEW q \in Reservations \ {r}
      PROVE  Decrementing(q)' <=> Decrementing(q)
  BY <1>1, <1>2, <1>5 DEF Decrementing, At, Bystanders, AllHandlers
<1>7. CASE Zone[r] # z
  <2>1. Counted(z)' = Counted(z)
    BY <1>3, <1>6, <1>7, CountedMeans DEF Counted, In, Decrementing
  <2>2. remain'[z] = remain[z]
    BY <1>1, <1>3, <1>7
  <2>3. QED BY <1>4, <2>1, <2>2
<1>8. CASE Zone[r] = z
  <2>1. r \notin disturbed
    BY <1>2, <1>4, <1>8 DEF Undisturbed
  <2>2. status[r] = "CONFIRMED"
    BY <1>2, <2>1 DEF Stage
  <2>3. Decrementing(r)
    BY <1>2, <1>5 DEF Decrementing, At
  <2>4. ~Decrementing(r)'
    <3>1. SUFFICES ASSUME NEW g \in Handlers, hnd'[g].r = r, hnd'[g].pc = "done.remain"
                   PROVE  FALSE
      BY DEF Decrementing, At
    <3>2. g # h
      BY <1>5, <3>1
    <3>3. g \in AllHandlers /\ hnd[g] = hnd'[g]
      BY <1>1, <3>2 DEF Bystanders, AllHandlers
    <3>4. Works(g, r) /\ Works(h, r)
      BY <1>2, <1>5, <3>1, <3>3 DEF Works, At
    <3>5. QED BY <1>1, <1>2, <2>1, <3>2, <3>3, <3>4 DEF AccountInv
  <2>5. Counted(z)' = Counted(z) \cup {r} /\ r \notin Counted(z)
    <3>1. Counted(z)' = {q \in Reservations :
                          Zone[q] = z /\ status'[q] = "CONFIRMED" /\ ~Decrementing(q)'}
      BY DEF Counted, In, Decrementing
    <3>2. QED BY <1>2, <1>3, <1>6, <1>8, <2>2, <2>3, <2>4, <3>1, CountedMeans
  <2>6. Counted(z) \in SUBSET Reservations /\ IsFiniteSet(Counted(z))
    BY CountedMeans, FS_Subset
  <2>7. /\ Seats(Counted(z)) \in Nat
        /\ Seats(Counted(z)') = Seats(Counted(z)) + Qty[r]
    BY <1>2, <2>5, <2>6, SeatsAdd
  <2>8. remain'[z] = remain[z] - Qty[r]
    BY <1>1, <1>3, <1>8
  <2>9. QED BY <1>1, <1>3, <1>4, <2>7, <2>8
<1>9. QED BY <1>7, <1>8

LEMMA RemainStep ==
    ASSUME IsFiniteSet(Reservations), TypeOK, AccountInv, RemainMatchesConfirmed, [Next]_vars
    PROVE  RemainMatchesConfirmed'
<1> SUFFICES ASSUME NEW z \in Zones, Undisturbed(z)'
             PROVE  remain'[z] = Total[z] - Seats(Counted(z)')
  BY DEF RemainMatchesConfirmed, Seats
<1>1. CASE \E h \in Handlers : DoneRemain(h)
  BY <1>1, DecrementRemain
<1>2. CASE \A h \in Handlers : ~DoneRemain(h)
  <2>1. SameCounts /\ UNCHANGED remain
    BY <1>2, CountStep, RemainFrame
  <2>2. Undisturbed(z)
    BY DisturbedGrows DEF Undisturbed
  <2>3. ASSUME NEW q \in Reservations, Zone[q] = z
        PROVE  status'[q] = "CONFIRMED" /\ ~Decrementing(q)'
                 <=> status[q] = "CONFIRMED" /\ ~Decrementing(q)
    <3>1. q \notin disturbed'
      BY <2>3 DEF Undisturbed
    <3>2. SameCount(q)
      BY <2>1, <3>1 DEF SameCounts
    <3>3. status[q] = "CONFIRMED" => status'[q] = "CONFIRMED"
      BY <3>1, SettledStep DEF Settled
    <3>4. QED BY <3>2, <3>3 DEF SameCount
  <2>4. Counted(z)' = Counted(z)
    <3>1. Counted(z)' = {q \in Reservations :
                          Zone[q] = z /\ status'[q] = "CONFIRMED" /\ ~Decrementing(q)'}
      BY DEF Counted, In, Decrementing
    <3>2. QED BY <2>3, <3>1, CountedMeans
  <2>5. QED BY <2>1, <2>2, <2>4 DEF RemainMatchesConfirmed
<1>3. QED BY <1>1, <1>2

\* A zone's remainQuantity is its total without the seats of the CONFIRMED
\* reservations whose webhook has come to the decrement: one decrement for each
\* payment, of as many seats as it confirmed, whatever webhooks are repeated.
THEOREM RemainMatchesConfirmedCorrect ==
    ASSUME IsFiniteSet(Reservations) PROVE Spec => []RemainMatchesConfirmed
<1>1. Init => RemainMatchesConfirmed
  <2>1. SUFFICES ASSUME Init, NEW z \in Zones
                 PROVE  remain[z] = Total[z] - Seats(Counted(z))
    BY DEF RemainMatchesConfirmed
  <2>2. Counted(z) = {}
    BY <2>1 DEF Init, Counted, In
  <2>3. QED BY <2>1, <2>2, NoSeats, SeatConstants DEF Init
<1>2. TypeOK /\ AccountInv /\ RemainMatchesConfirmed /\ [Next]_vars => RemainMatchesConfirmed'
  BY RemainStep
<1>3. QED BY <1>1, <1>2, TypeInit, TypeStep, AccountInit, AccountStep, PTL DEF Spec
=============================================================================
