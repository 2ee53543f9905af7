------------------------ MODULE WaitingQueueProofs ------------------------
(* Theorems about WaitingQueue and about QueuePage, the page in front of   *)
(* it, for every value of their constants.                                 *)
EXTENDS QueuePage, FiniteSetTheorems, SequenceTheorems, TLAPS

-----------------------------------------------------------------------------
(* Requests stay well typed.                                               *)

ReqOK == req \in [Requests -> Request]

LEMMA BusyRequest ==
    ASSUME ReqOK, NEW r \in Requests, req[r].pc # "idle"
    PROVE  /\ req[r] \in [pc : BusyPC, user : Users, live : BOOLEAN, raced : BOOLEAN]
           /\ req[r].user \in Users
           /\ req[r].live \in BOOLEAN
BY DEF ReqOK, Request, IdleRequest

LEMMA GotoOK ==
    ASSUME ReqOK, NEW r \in Requests, req[r].pc # "idle", NEW pc \in BusyPC, Goto(r, pc)
    PROVE  ReqOK'
BY BusyRequest DEF Goto, ReqOK, Request

LEMMA FinishOK ==
    ASSUME ReqOK, NEW r \in Requests, Finish(r)
    PROVE  ReqOK'
BY DEF Finish, ReqOK, Request

LEMMA BeginOK ==
    ASSUME ReqOK, NEW r \in Requests, NEW u \in Users, NEW pc \in BusyPC,
           NEW live \in BOOLEAN, Begin(r, u, pc, live)
    PROVE  ReqOK'
BY DEF Begin, Fresh, ReqOK, Request

LEMMA OrphanOK ==
    ASSUME ReqOK, NEW u \in Users
    PROVE  Orphan(u) \in [Requests -> Request]
<1>1. ASSUME NEW r \in Requests, req[r].user = u
      PROVE  [req[r] EXCEPT !.live = FALSE] \in Request
  <2>1. req[r] # IdleRequest
    BY <1>1, QueueConstants DEF IdleRequest
  <2>2. req[r] \in [pc : BusyPC, user : Users, live : BOOLEAN, raced : BOOLEAN]
    BY <2>1 DEF ReqOK, Request
  <2>3. QED BY <2>2 DEF Request
<1>2. QED BY <1>1, Zenon DEF Orphan, ReqOK
-----------------------------------------------------------------------------
(* Type correctness.                                                       *)

AdmOK == adm \in [Admitters -> Admitter]

LEMMA ReleaseJobsOK ==
    ASSUME jobs \in [Users -> JobCount], NEW u \in Users, ReleaseJobs(u)
    PROVE  jobs' \in [Users -> JobCount]
<1>1. [held |-> 0, due |-> jobs[u].held + jobs[u].due] \in JobCount
  BY DEF JobCount
<1>2. QED BY <1>1 DEF ReleaseJobs

LEMMA RemoveOK ==
    ASSUME score \in [Users -> 0..MaxTime], NEW u, RemoveFromWaiting(u)
    PROVE  score' \in [Users -> 0..MaxTime]
<1>1. 0 \in 0..MaxTime
  BY QueueConstants
<1>2. QED BY <1>1 DEF RemoveFromWaiting

LEMMA ForgetKeyOK ==
    ASSUME NEW m \in Admitter, NEW u
    PROVE  [m EXCEPT !.seen = @ \ {u}] \in Admitter
<1>1. CASE m = IdleAdmitter
  BY <1>1 DEF Admitter, IdleAdmitter
<1>2. CASE m \in [pc : {"scan"}, user : {NoUser}, since : {0}, seen : SUBSET Users]
  BY <1>2 DEF Admitter
<1>3. CASE m \in [pc : {"top"}, user : {NoUser}, since : {0}, seen : {{}}]
  <2>1. m.seen \ {u} = {}
    BY <1>3
  <2>2. QED BY <1>3, <2>1 DEF Admitter
<1>4. CASE m \in [pc : {"remove", "admit"}, user : Users, since : Nat, seen : {{}}]
  <2>1. m.seen \ {u} = {}
    BY <1>4
  <2>2. QED BY <1>4, <2>1 DEF Admitter
<1>5. QED BY <1>1, <1>2, <1>3, <1>4 DEF Admitter

\* What an admitter's pc says of the rest of its record.
LEMMA AdmitterShape ==
    ASSUME NEW m \in Admitter
    PROVE  /\ m.pc = "idle" => m = IdleAdmitter
           /\ m.pc = "scan" =>
                m \in [pc : {"scan"}, user : {NoUser}, since : {0}, seen : SUBSET Users]
           /\ m.pc \in {"count", "top"} =>
                m \in [pc : {"count", "top"}, user : {NoUser}, since : {0}, seen : {{}}]
           /\ m.pc \in {"remove", "admit"} =>
                m \in [pc : {"remove", "admit"}, user : Users, since : Nat, seen : {{}}]
BY DEF Admitter, IdleAdmitter

\* A request that sends one command and goes on or ends.
LEMMA RequestTypeStep ==
    ASSUME TypeOK, NEW r \in Requests, RequestStep(r)
    PROVE  TypeOK'
<1> USE DEF At, BusyPC, EnterPC, LeavePC, ReconnectPC, DisconnectPC
<1>1. ReqOK
  BY DEF TypeOK, ReqOK
<1>2. CASE EnterIsInWaiting(r)
  <2>1. ReqOK'
    BY <1>1, <1>2, GotoOK, FinishOK DEF EnterIsInWaiting
  <2>2. QED BY <1>2, <2>1 DEF EnterIsInWaiting, TypeOK, ReqOK, sessionVars
<1>3. CASE EnterIsAdmitted(r)
  <2>1. ReqOK'
    BY <1>1, <1>3, GotoOK, FinishOK DEF EnterIsAdmitted
  <2>2. QED BY <1>3, <2>1 DEF EnterIsAdmitted, TypeOK, ReqOK, sessionVars
<1>4. CASE EnterAdd(r)
  <2>1. req[r].user \in Users
    BY <1>1, <1>4, BusyRequest DEF EnterAdd
  <2>2. ReqOK'
    <3>1. ASSUME NEW q \in Requests
          PROVE  /\ [req[r] EXCEPT !.pc = "enter.join", !.raced = FALSE] \in Request
                 /\ PastCheck(q, req[r].user) => [req[q] EXCEPT !.raced = TRUE] \in Request
      BY <1>1, <1>4, BusyRequest DEF EnterAdd, PastCheck, Request
    <3>2. req[r].pc = "enter.add" /\ \A q \in Requests : req[q] \in Request
      BY <1>1, <1>4 DEF ReqOK, EnterAdd
    <3>3. QED BY <1>4, <3>1, <3>2, Zenon DEF EnterAdd, ReqOK
  <2>3. score' \in [Users -> 0..MaxTime]
    BY <1>4, <2>1, QueueConstants DEF EnterAdd, AddToWaiting, TypeOK
  <2>4. QED BY <1>4, <2>2, <2>3 DEF EnterAdd, TypeOK, ReqOK, sessionVars
<1>5. CASE EnterJoin(r)
  <2>1. ReqOK'
    BY <1>1, <1>5, FinishOK DEF EnterJoin, Join
  <2>2. QED BY <1>1, <1>5, <2>1, BusyRequest DEF EnterJoin, Join, TypeOK, ReqOK
<1>6. CASE LeaveIsInWaiting(r)
  <2>1. ReqOK'
    BY <1>1, <1>6, GotoOK, FinishOK DEF LeaveIsInWaiting
  <2>2. QED BY <1>6, <2>1 DEF LeaveIsInWaiting, TypeOK, ReqOK, sessionVars
<1>7. CASE LeaveRemove(r)
  <2>1. ReqOK'
    BY <1>1, <1>7, FinishOK DEF LeaveRemove, Join
  <2>2. score' \in [Users -> 0..MaxTime]
    BY <1>7, RemoveOK DEF LeaveRemove, TypeOK
  <2>3. sock' \in [Users -> {"none", "open", "joined", "restored"}]
    BY <1>1, <1>7, BusyRequest DEF LeaveRemove, Join, TypeOK
  <2>4. QED BY <1>7, <2>1, <2>2, <2>3 DEF LeaveRemove, TypeOK, ReqOK
<1>8. CASE ReconnectHasKey(r)
  <2>1. ReqOK'
    BY <1>1, <1>8, GotoOK, FinishOK DEF ReconnectHasKey
  <2>2. QED BY <1>8, <2>1 DEF ReconnectHasKey, TypeOK, ReqOK, sessionVars
<1>9. CASE ReconnectDeleteKey(r)
  <2>1. ReqOK'
    BY <1>1, <1>9, GotoOK DEF ReconnectDeleteKey
  <2>2. jobs' \in [Users -> JobCount]
    BY <1>1, <1>9, ReleaseJobsOK, BusyRequest DEF ReconnectDeleteKey, TypeOK
  <2>3. QED BY <1>9, <2>1, <2>2 DEF ReconnectDeleteKey, TypeOK, ReqOK
<1>10. CASE ReconnectJoin(r)
  <2>1. ReqOK'
    BY <1>1, <1>10, FinishOK DEF ReconnectJoin, Join
  <2>2. QED BY <1>1, <1>10, <2>1, BusyRequest DEF ReconnectJoin, Join, TypeOK, ReqOK
<1>11. CASE DisconnectIsInWaiting(r)
  <2>1. ReqOK'
    BY <1>1, <1>11, GotoOK DEF DisconnectIsInWaiting
  <2>2. QED BY <1>11, <2>1 DEF DisconnectIsInWaiting, TypeOK, ReqOK, sessionVars
<1>12. CASE DisconnectSetKey(r)
  <2>1. ReqOK'
    BY <1>1, <1>12, GotoOK DEF DisconnectSetKey
  <2>2. jobs' \in [Users -> JobCount]
    BY <1>1, <1>12, ReleaseJobsOK, BusyRequest DEF DisconnectSetKey, TypeOK
  <2>3. req[r].user \in Users
    BY <1>1, <1>12, BusyRequest DEF DisconnectSetKey
  <2>4. QED BY <1>12, <2>1, <2>2, <2>3 DEF DisconnectSetKey, TypeOK, ReqOK
<1>13. CASE DisconnectSchedule(r)
  <2>1. ReqOK'
    BY <1>1, <1>13, FinishOK DEF DisconnectSchedule
  <2>2. jobs' \in [Users -> JobCount]
    BY <1>1, <1>13, BusyRequest DEF DisconnectSchedule, TypeOK, JobCount
  <2>3. QED BY <1>13, <2>1, <2>2 DEF DisconnectSchedule, TypeOK, ReqOK
<1>14. QED
  BY <1>2, <1>3, <1>4, <1>5, <1>6, <1>7, <1>8, <1>9, <1>10, <1>11, <1>12, <1>13
  DEF RequestStep
\* A client, the network, or time.
LEMMA ClientTypeStep ==
    ASSUME TypeOK, NEW r \in Requests, NEW u \in Users, ClientStep(r, u)
    PROVE  TypeOK'
<1> USE DEF BusyPC, EnterPC, LeavePC, ReconnectPC, DisconnectPC
<1>1. ReqOK
  BY DEF TypeOK, ReqOK
<1>2. ASSUME NEW live \in BOOLEAN, EnterBegin(r, u, live)
      PROVE  TypeOK'
  <2>1. ReqOK'
    BY <1>1, <1>2, BeginOK DEF EnterBegin
  <2>2. QED BY <1>2, <2>1 DEF EnterBegin, TypeOK, ReqOK, sessionVars
<1>3. ASSUME NEW live \in BOOLEAN, LeaveBegin(r, u, live)
      PROVE  TypeOK'
  <2>1. ReqOK'
    BY <1>1, <1>3, BeginOK DEF LeaveBegin
  <2>2. QED BY <1>3, <2>1 DEF LeaveBegin, TypeOK, ReqOK, sessionVars
<1>4. CASE ReconnectBegin(r, u)
  <2>1. ReqOK'
    BY <1>1, <1>4, BeginOK DEF ReconnectBegin
  <2>2. QED BY <1>4, <2>1 DEF ReconnectBegin, TypeOK, ReqOK, sessionVars
<1>5. CASE DisconnectBegin(r, u)
  <2>1. ReqOK'
    <3>1. Orphan(u) \in [Requests -> Request]
      BY <1>1, OrphanOK
    <3>2. Fresh("disconnect.waiting", u, FALSE) \in Request
      BY DEF Fresh, Request
    <3>3. QED BY <1>5, <3>1, <3>2 DEF DisconnectBegin, ReqOK
  <2>2. QED BY <1>5, <2>1 DEF DisconnectBegin, TypeOK, ReqOK
<1>6. QED
  BY <1>2, <1>3, <1>4, <1>5 DEF ClientStep

\* A socket that opens or closes unjoined, a key that expires, a disconnect job.
LEMMA SessionTypeStep ==
    ASSUME TypeOK,
           \/ DropStep
           \/ \E u \in Users : Connect(u) \/ DisconnectUnjoined(u) \/ KeyStep(u)
    PROVE  TypeOK'
<1>1. CASE DropRemove
  <2>1. score' \in [Users -> 0..MaxTime]
    BY <1>1, RemoveOK DEF DropRemove, TypeOK
  <2>2. QED BY <1>1, <2>1 DEF DropRemove, TypeOK
<1>2. ASSUME NEW u \in Users, DropHasKey(u)
      PROVE  TypeOK'
  <2>1. jobs' \in [Users -> JobCount]
    <3>1. [jobs[u] EXCEPT !.due = @ - 1] \in JobCount
      BY <1>2 DEF DropHasKey, TypeOK, JobCount
    <3>2. QED BY <1>2, <3>1 DEF DropHasKey, TypeOK
  <2>2. QED BY <1>2, <2>1 DEF DropHasKey, TypeOK
<1>3. ASSUME NEW u \in Users, Connect(u)
      PROVE  TypeOK'
  BY <1>3 DEF Connect, TypeOK
<1>4. ASSUME NEW u \in Users, DisconnectUnjoined(u)
      PROVE  TypeOK'
  <2>1. ReqOK'
    BY <1>4, OrphanOK DEF DisconnectUnjoined, TypeOK, ReqOK
  <2>2. QED BY <1>4, <2>1 DEF DisconnectUnjoined, TypeOK, ReqOK
<1>5. ASSUME NEW u \in Users, GraceExpires(u)
      PROVE  TypeOK'
  <2>1. jobs' \in [Users -> JobCount]
    BY <1>5, ReleaseJobsOK DEF GraceExpires, TypeOK
  <2>2. QED BY <1>5, <2>1 DEF GraceExpires, TypeOK
<1>6. ASSUME NEW u \in Users, AdmittedKeyGone(u)
      PROVE  TypeOK'
  <2>1. AdmOK'
    <3>1. ASSUME NEW a \in Admitters
          PROVE  [adm[a] EXCEPT !.seen = @ \ {u}] \in Admitter
      BY ForgetKeyOK DEF TypeOK
    <3>2. QED BY <1>6, <3>1 DEF AdmittedKeyGone, AdmOK
  <2>2. QED BY <1>6, <2>1 DEF AdmittedKeyGone, TypeOK, AdmOK, sessionVars
<1>7. QED
  BY <1>1, <1>2, <1>3, <1>4, <1>5, <1>6 DEF DropStep, KeyStep

\* A step of admitNextUser.
LEMMA AdmitTypeStep ==
    ASSUME TypeOK, NEW a \in Admitters, AdmitStep(a) \/ AdmitFails(a)
    PROVE  TypeOK'
<1>1. adm[a] \in Admitter /\ AdmOK
  BY DEF TypeOK, AdmOK
<1>2. CASE AdmitScanBegin(a)
  <2>1. [adm[a] EXCEPT !.pc = "scan", !.seen = admitted] \in Admitter
    <3>1. admitted \subseteq Users
      BY DEF TypeOK
    <3>2. adm[a] \in [pc : {"idle", "count"}, user : {NoUser}, since : {0}, seen : {{}}]
      BY <1>1, <1>2, AdmitterShape DEF AdmitScanBegin, IdleAdmitter
    <3>3. [adm[a] EXCEPT !.pc = "scan", !.seen = admitted]
            \in [pc : {"scan"}, user : {NoUser}, since : {0}, seen : SUBSET Users]
      BY <3>1, <3>2
    <3>4. QED BY <3>3 DEF Admitter
  <2>2. AdmOK'
    BY <1>1, <1>2, <2>1 DEF AdmitScanBegin, AdmOK
  <2>3. QED BY <1>2, <2>2 DEF AdmitScanBegin, TypeOK, AdmOK, sessionVars
<1>3. CASE AdmitScanEnd(a)
  <2>1. adm[a].seen = {} => [adm[a] EXCEPT !.pc = "top"] \in Admitter
    BY <1>1, <1>3 DEF AdmitScanEnd, Admitter, IdleAdmitter
  <2>2. AdmOK'
    BY <1>1, <1>3, <2>1 DEF AdmitScanEnd, AdmOK, Admitter
  <2>3. QED BY <1>3, <2>2 DEF AdmitScanEnd, TypeOK, AdmOK, sessionVars
<1>4. CASE AdmitTop(a)
  <2>1. ASSUME NEW u \in Users
        PROVE  [adm[a] EXCEPT !.pc = "remove", !.user = u, !.since = score[u]] \in Admitter
    <3>1. adm[a] \in [pc : {"count", "top"}, user : {NoUser}, since : {0}, seen : {{}}]
      BY <1>1, <1>4, AdmitterShape DEF AdmitTop
    <3>2. score[u] \in Nat
      BY QueueConstants DEF TypeOK
    <3>3. [adm[a] EXCEPT !.pc = "remove", !.user = u, !.since = score[u]]
            \in [pc : {"remove", "admit"}, user : Users, since : Nat, seen : {{}}]
      BY <3>1, <3>2
    <3>4. QED BY <3>3 DEF Admitter
  <2>2. AdmOK'
    <3>1. IdleAdmitter \in Admitter
      BY DEF Admitter
    <3>2. QED BY <1>1, <1>4, <2>1, <3>1 DEF AdmitTop, AdmOK
  <2>3. QED BY <1>4, <2>2 DEF AdmitTop, TypeOK, AdmOK, sessionVars
<1>5. CASE AdmitRemove(a)
  <2>1. [adm[a] EXCEPT !.pc = "admit"] \in Admitter
    BY <1>1, <1>5 DEF AdmitRemove, Admitter, IdleAdmitter
  <2>2. AdmOK'
    BY <1>1, <1>5, <2>1 DEF AdmitRemove, AdmOK
  <2>3. score' \in [Users -> 0..MaxTime]
    BY <1>5, RemoveOK DEF AdmitRemove, TypeOK
  <2>4. QED BY <1>5, <2>2, <2>3 DEF AdmitRemove, TypeOK, AdmOK, sessionVars
<1>6. CASE AdmitSetKey(a)
  <2>1. adm[a].user \in Users
    BY <1>1, <1>6 DEF AdmitSetKey, Admitter, IdleAdmitter
  <2>2. AdmOK'
    BY <1>1, <1>6 DEF AdmitSetKey, AdmOK, Admitter
  <2>3. QED BY <1>6, <2>1, <2>2 DEF AdmitSetKey, TypeOK, AdmOK, sessionVars
<1>7. CASE AdmitFails(a)
  <2>1. AdmOK'
    BY <1>1, <1>7 DEF AdmitFails, AdmOK, Admitter
  <2>2. QED BY <1>7, <2>1, QueueConstants DEF AdmitFails, TypeOK, AdmOK, sessionVars
<1>8. CASE AdmitList(a)
  <2>1. [adm[a] EXCEPT !.pc = "count"] \in Admitter
    <3>1. adm[a] \in [pc : {"idle"}, user : {NoUser}, since : {0}, seen : {{}}]
      BY <1>1, <1>8, AdmitterShape DEF AdmitList, IdleAdmitter
    <3>2. [adm[a] EXCEPT !.pc = "count"]
            \in [pc : {"count", "top"}, user : {NoUser}, since : {0}, seen : {{}}]
      BY <3>1
    <3>3. QED BY <3>2 DEF Admitter
  <2>2. AdmOK'
    BY <1>1, <1>8, <2>1 DEF AdmitList, AdmOK
  <2>3. QED BY <1>8, <2>2 DEF AdmitList, TypeOK, AdmOK, sessionVars
<1>9. QED
  BY <1>2, <1>3, <1>4, <1>5, <1>6, <1>7, <1>8 DEF AdmitStep, AdmitGoesOn

\* The rest of Next.
LEMMA WorldTypeStep ==
    ASSUME TypeOK, Tick \/ OpenSale \/ DeleteConcert \/ Crash \/ \E r \in Requests : RequestFails(r)
    PROVE  TypeOK'
<1>1. CASE Tick
  BY <1>1, QueueConstants DEF Tick, TypeOK, sessionVars
<1>2. CASE OpenSale \/ DeleteConcert
  BY <1>2 DEF OpenSale, DeleteConcert, TypeOK, sessionVars
<1>3. CASE Crash
  <2>1. jobs' \in [Users -> JobCount]
    <3>1. ASSUME NEW u \in Users
          PROVE  [jobs[u] EXCEPT !.due = @ + 1] \in JobCount
      BY DEF TypeOK, JobCount
    <3>2. QED BY <1>3, <3>1 DEF Crash, TypeOK
  <2>2. ReqOK' /\ AdmOK'
    BY <1>3 DEF Crash, ReqOK, AdmOK, Request, Admitter
  <2>3. QED BY <1>3, <2>1, <2>2, QueueConstants DEF Crash, TypeOK, ReqOK, AdmOK
<1>4. ASSUME NEW r \in Requests, RequestFails(r)
      PROVE  TypeOK'
  <2>1. ReqOK'
    BY <1>4, FinishOK DEF RequestFails, TypeOK, ReqOK
  <2>2. QED BY <1>4, <2>1, QueueConstants DEF RequestFails, TypeOK, ReqOK, sessionVars
<1>5. QED BY <1>1, <1>2, <1>3, <1>4

LEMMA TypeInit == Init => TypeOK
BY QueueConstants DEF Init, TypeOK, JobCount, Request, Admitter

LEMMA TypeStep == TypeOK /\ [Next]_vars => TypeOK'
<1> SUFFICES ASSUME TypeOK, [Next]_vars PROVE TypeOK'
  OBVIOUS
<1>1. CASE UNCHANGED vars
  BY <1>1 DEF vars, TypeOK
<1>2. CASE Next
  BY <1>2, RequestTypeStep, ClientTypeStep, SessionTypeStep, AdmitTypeStep,
     WorldTypeStep, Zenon DEF Next
<1>3. QED BY <1>1, <1>2

\* Every variable of the queue keeps its type, whatever the users, the
\* workers and the faults do.
THEOREM TypeCorrect == Spec => []TypeOK
BY TypeInit, TypeStep, PTL DEF Spec
-----------------------------------------------------------------------------
(* How many users are in.                                                  *)

\* Past the count and before the key is set.
Pending(a) == adm[a].pc \in {"top", "remove", "admit"}

\* Every admitted key was set by an admitter that has not counted past it
\* since: one that is counting again has the key among those SCAN must return.
KeySet ==
    \A u \in admitted :
        /\ by[u] \in Admitters
        /\ ~Pending(by[u])
        /\ adm[by[u]].pc = "scan" => u \in adm[by[u]].seen

\* No two of them by the same admitter.
KeysApart == \A u, v \in admitted : by[u] = by[v] => u = v

KeyInv == KeySet /\ KeysApart

\* The steps that touch neither the admitted keys nor admitNextUser.
LEMMA AdmitFrame ==
    ASSUME Next
    PROVE  \/ UNCHANGED <<admitted, adm, by>>
           \/ \E a \in Admitters : AdmitStep(a) \/ AdmitFails(a)
           \/ \E u \in Users : AdmittedKeyGone(u)
           \/ Crash
<1>1. ASSUME NEW r \in Requests, RequestStep(r)
      PROVE  UNCHANGED <<admitted, adm, by>>
  BY <1>1 DEF RequestStep, EnterIsInWaiting, EnterIsAdmitted, EnterAdd, EnterJoin,
     LeaveIsInWaiting, LeaveRemove, ReconnectHasKey, ReconnectDeleteKey,
     ReconnectJoin, DisconnectIsInWaiting, DisconnectSetKey, DisconnectSchedule
<1>2. ASSUME NEW r \in Requests, NEW u \in Users, ClientStep(r, u)
      PROVE  UNCHANGED <<admitted, adm, by>>
  BY <1>2 DEF ClientStep, EnterBegin, LeaveBegin, ReconnectBegin, DisconnectBegin
<1>3. ASSUME DropStep \/ Tick \/ OpenSale \/ DeleteConcert \/ \E r \in Requests : RequestFails(r)
      PROVE  UNCHANGED <<admitted, adm, by>>
  BY <1>3 DEF DropStep, DropRemove, DropHasKey, Tick, OpenSale, DeleteConcert, RequestFails
<1>4. ASSUME NEW u \in Users, Connect(u) \/ DisconnectUnjoined(u) \/ GraceExpires(u)
      PROVE  UNCHANGED <<admitted, adm, by>>
  BY <1>4 DEF Connect, DisconnectUnjoined, GraceExpires
<1>5. QED BY <1>1, <1>2, <1>3, <1>4, Zenon DEF Next, KeyStep

LEMMA KeyStepInv == TypeOK /\ KeyInv /\ [Next]_vars => KeyInv'
<1> SUFFICES ASSUME TypeOK, KeyInv, [Next]_vars PROVE KeyInv'
  OBVIOUS
<1> USE DEF KeyInv, KeySet, KeysApart, Pending
<1>1. CASE UNCHANGED <<admitted, adm, by>>
  BY <1>1
<1>2. ASSUME NEW a \in Admitters, AdmitStep(a) \/ AdmitFails(a)
      PROVE  KeyInv'
  <2> adm \in [Admitters -> Admitter] /\ by \in [Users -> Admitters \cup {Nobody}]
      /\ admitted \subseteq Users
    BY DEF TypeOK
  <2> IdleAdmitter.pc = "idle"
    BY DEF IdleAdmitter
  <2>1. CASE AdmitScanBegin(a)
    BY <2>1 DEF AdmitScanBegin
  <2>2. CASE AdmitScanEnd(a)
    BY <2>2 DEF AdmitScanEnd
  <2>3. CASE AdmitTop(a)
    BY <2>3 DEF AdmitTop
  <2>4. CASE AdmitRemove(a)
    BY <2>4 DEF AdmitRemove
  <2>5. CASE AdmitSetKey(a)
    <3>1. adm[a].user \in Users
      BY <2>5, AdmitterShape DEF AdmitSetKey
    <3>2. \A u \in admitted : by[u] # a
      BY <2>5 DEF AdmitSetKey
    <3>3. QED BY <2>5, <3>1, <3>2 DEF AdmitSetKey
  <2>6. CASE AdmitFails(a)
    BY <2>6 DEF AdmitFails
  <2>7. CASE AdmitList(a)
    BY <2>7 DEF AdmitList
  <2>8. QED BY <1>2, <2>1, <2>2, <2>3, <2>4, <2>5, <2>6, <2>7 DEF AdmitStep, AdmitGoesOn
<1>3. ASSUME NEW u \in Users, AdmittedKeyGone(u)
      PROVE  KeyInv'
  <2>1. /\ admitted' = admitted \ {u}
        /\ \A v \in admitted' : by'[v] = by[v]
        /\ \A b \in Admitters : /\ adm'[b].pc = adm[b].pc
                                /\ adm'[b].seen = adm[b].seen \ {u}
    BY <1>3, AdmitterShape DEF AdmittedKeyGone, TypeOK, Admitter, IdleAdmitter
  <2>2. QED BY <2>1
<1>4. CASE Crash
  BY <1>4 DEF Crash, IdleAdmitter
<1>5. CASE UNCHANGED vars
  BY <1>5 DEF vars
<1>6. QED BY <1>1, <1>2, <1>3, <1>4, <1>5, AdmitFrame

LEMMA KeyInvBounds == TypeOK /\ KeyInv => AdmittedBounded
<1> SUFFICES ASSUME TypeOK, KeyInv PROVE AdmittedBounded
  OBVIOUS
<1> DEFINE setter == [u \in admitted |-> by[u]]
<1>1. setter \in Injection(admitted, Admitters)
  BY DEF KeyInv, KeySet, KeysApart, Injection, IsInjective
<1>2. QED BY <1>1, FS_Injection, QueueConstants DEF AdmittedBounded

\* There are never more users in than there are concurrent callers of
\* admitNextUser: countAdmitted, though not atomic with the key it guards,
\* keeps each caller to one user.
THEOREM AdmittedBoundedCorrect == Spec => []AdmittedBounded
<1>1. Init => KeyInv
  BY DEF Init, KeyInv, KeySet, KeysApart
<1>2. QED BY <1>1, TypeInit, TypeStep, KeyStepInv, KeyInvBounds, PTL DEF Spec
-----------------------------------------------------------------------------
(* Order of admission.                                                     *)

\* No score is from the future.
ScoresPast ==
    /\ \A u \in Users : score[u] <= now
    /\ \A a \in Admitters : adm[a].since <= now

OrderInv == ScoresPast /\ AdmissionOrder

\* What a step can do to the scores and the clock.
LEMMA ScoreFrame ==
    ASSUME TypeOK, Next
    PROVE  \/ UNCHANGED <<score, now>>
           \/ \E r \in Requests : EnterAdd(r)
           \/ \E u \in Users : score' = [score EXCEPT ![u] = 0] /\ UNCHANGED now
           \/ Tick
<1>0. ReqOK
  BY DEF TypeOK, ReqOK
<1>1. ASSUME NEW r \in Requests, RequestStep(r)
      PROVE  \/ UNCHANGED <<score, now>>
             \/ EnterAdd(r)
             \/ \E u \in Users : score' = [score EXCEPT ![u] = 0] /\ UNCHANGED now
  <2>1. CASE LeaveRemove(r)
    <3>1. req[r].user \in Users
      BY <1>0, <2>1, BusyRequest DEF LeaveRemove, At
    <3>2. QED BY <2>1, <3>1 DEF LeaveRemove, RemoveFromWaiting
  <2>2. CASE ~LeaveRemove(r)
    BY <1>1, <2>2 DEF RequestStep, EnterIsInWaiting, EnterIsAdmitted, EnterJoin,
       LeaveIsInWaiting, ReconnectHasKey, ReconnectDeleteKey, ReconnectJoin,
       DisconnectIsInWaiting, DisconnectSetKey, DisconnectSchedule
  <2>3. QED BY <2>1, <2>2
<1>2. ASSUME NEW r \in Requests, NEW u \in Users, ClientStep(r, u)
      PROVE  UNCHANGED <<score, now>>
  BY <1>2 DEF ClientStep, EnterBegin, LeaveBegin, ReconnectBegin, DisconnectBegin
<1>3. ASSUME DropStep
      PROVE  \/ UNCHANGED <<score, now>>
             \/ \E u \in Users : score' = [score EXCEPT ![u] = 0] /\ UNCHANGED now
  BY <1>3 DEF DropStep, DropRemove, DropHasKey, RemoveFromWaiting, TypeOK
<1>4. ASSUME OpenSale \/ DeleteConcert \/ Crash \/ \E r \in Requests : RequestFails(r)
      PROVE  UNCHANGED <<score, now>>
  BY <1>4 DEF OpenSale, DeleteConcert, Crash, RequestFails
<1>5. ASSUME NEW u \in Users, Connect(u) \/ DisconnectUnjoined(u) \/ KeyStep(u)
      PROVE  UNCHANGED <<score, now>>
  BY <1>5 DEF Connect, DisconnectUnjoined, KeyStep, GraceExpires, AdmittedKeyGone
<1>6. ASSUME NEW a \in Admitters, AdmitStep(a) \/ AdmitFails(a)
      PROVE  \/ UNCHANGED <<score, now>>
             \/ \E u \in Users : score' = [score EXCEPT ![u] = 0] /\ UNCHANGED now
  <2>1. CASE AdmitRemove(a)
    <3>1. adm[a].user \in Users
      BY <2>1, AdmitterShape DEF AdmitRemove, TypeOK
    <3>2. QED BY <2>1, <3>1 DEF AdmitRemove, RemoveFromWaiting
  <2>2. CASE ~AdmitRemove(a)
    BY <1>6, <2>2 DEF AdmitStep, AdmitGoesOn, AdmitList, AdmitScanBegin, AdmitScanEnd, AdmitTop,
       AdmitSetKey, AdmitFails
  <2>3. QED BY <2>1, <2>2
<1>7. QED
  BY <1>1, <1>2, <1>3, <1>4, <1>5, <1>6, Zenon DEF Next

\* What a step can do to the user that a is moving in: nothing, or a is done,
\* or a has read the top of the queue.
KeepsPick(a) ==
    /\ adm'[a].pc \in {"remove", "admit"} => adm[a].pc \in {"remove", "admit"}
    /\ adm'[a].user = adm[a].user
    /\ adm'[a].since = adm[a].since

PicksTop(a) ==
    /\ UNCHANGED <<score, now>>
    /\ \E u \in Users : IsTop(u) /\ adm'[a].user = u /\ adm'[a].since = score[u]

LEMMA PickFrame ==
    ASSUME TypeOK, Next, NEW a \in Admitters
    PROVE  KeepsPick(a) \/ adm'[a] = IdleAdmitter \/ PicksTop(a)
<1>0. adm \in [Admitters -> Admitter] /\ adm[a] \in Admitter
  BY DEF TypeOK
<1>1. CASE UNCHANGED adm
  BY <1>1 DEF KeepsPick
<1>2. ASSUME NEW b \in Admitters, AdmitStep(b) \/ AdmitFails(b)
      PROVE  KeepsPick(a) \/ adm'[a] = IdleAdmitter \/ PicksTop(a)
  <2>1. CASE a # b
    BY <1>0, <1>2, <2>1 DEF AdmitStep, AdmitGoesOn, AdmitList, AdmitScanBegin, AdmitScanEnd,
       AdmitTop, AdmitRemove, AdmitSetKey, AdmitFails, KeepsPick
  <2>2. CASE AdmitTop(a)
    BY <1>0, <2>2, AdmitterShape DEF AdmitTop, PicksTop
  <2>3. CASE AdmitScanBegin(a)
    BY <1>0, <2>3, AdmitterShape DEF AdmitScanBegin, KeepsPick
  <2>4. CASE AdmitScanEnd(a)
    BY <1>0, <2>4, AdmitterShape DEF AdmitScanEnd, KeepsPick
  <2>5. CASE AdmitRemove(a)
    BY <1>0, <2>5, AdmitterShape DEF AdmitRemove, KeepsPick
  <2>6. CASE AdmitSetKey(a) \/ AdmitFails(a)
    BY <1>0, <2>6 DEF AdmitSetKey, AdmitFails
  <2>7. CASE AdmitList(a)
    BY <1>0, <2>7, AdmitterShape DEF AdmitList, KeepsPick
  <2>8. QED
    BY <1>2, <2>1, <2>2, <2>3, <2>4, <2>5, <2>6, <2>7 DEF AdmitStep, AdmitGoesOn
<1>3. ASSUME NEW u \in Users, AdmittedKeyGone(u)
      PROVE  KeepsPick(a)
  BY <1>0, <1>3, AdmitterShape DEF AdmittedKeyGone, KeepsPick, Admitter, IdleAdmitter
<1>4. CASE Crash
  BY <1>4 DEF Crash
<1>5. QED BY <1>1, <1>2, <1>3, <1>4, AdmitFrame

LEMMA OrderStepInv == TypeOK /\ OrderInv /\ [Next]_vars => OrderInv'
<1> SUFFICES ASSUME TypeOK, OrderInv, [Next]_vars PROVE OrderInv'
  OBVIOUS
<1>1. CASE UNCHANGED vars
  BY <1>1 DEF vars, OrderInv, ScoresPast, AdmissionOrder, Waiting
<1>2. CASE Next
  <2>1. /\ score \in [Users -> Nat] /\ now \in Nat
        /\ \A a \in Admitters : adm[a].since \in Nat
    BY QueueConstants DEF TypeOK, Admitter, IdleAdmitter
  <2>2. /\ now' \in Nat /\ now <= now'
        /\ \A u \in Users :
             /\ score'[u] <= now'
             /\ score'[u] \in Nat
             /\ score'[u] # 0 => score'[u] = score[u] \/ score'[u] = now
    <3>1. CASE UNCHANGED <<score, now>>
      BY <2>1, <3>1 DEF OrderInv, ScoresPast
    <3>2. ASSUME NEW r \in Requests, EnterAdd(r)
          PROVE  score' = [score EXCEPT ![req[r].user] = now] /\ now' = now
      BY <3>2 DEF EnterAdd, AddToWaiting
    <3>3. CASE \E r \in Requests : EnterAdd(r)
      BY <2>1, <3>2, <3>3 DEF OrderInv, ScoresPast
    <3>4. CASE \E u \in Users : score' = [score EXCEPT ![u] = 0] /\ UNCHANGED now
      BY <2>1, <3>4 DEF OrderInv, ScoresPast
    <3>5. CASE Tick
      BY <2>1, <3>5 DEF Tick, OrderInv, ScoresPast
    <3>6. QED BY <1>2, <3>1, <3>3, <3>4, <3>5, ScoreFrame
  <2>3. ASSUME NEW a \in Admitters
        PROVE  /\ adm'[a].since <= now'
               /\ adm'[a].pc \in {"remove", "admit"} =>
                    \A v \in Users \ {adm'[a].user} :
                        score'[v] # 0 => adm'[a].since <= score'[v]
    <3>1. CASE KeepsPick(a)
      <4>1. adm[a].since <= now
        BY DEF OrderInv, ScoresPast
      <4>2. ASSUME adm[a].pc \in {"remove", "admit"}, NEW v \in Users \ {adm[a].user},
                   score[v] # 0
            PROVE  adm[a].since <= score[v]
        BY <4>2 DEF OrderInv, AdmissionOrder, Waiting
      <4>3. ASSUME adm'[a].pc \in {"remove", "admit"}, NEW v \in Users \ {adm'[a].user},
                   score'[v] # 0
            PROVE  adm'[a].since <= score'[v]
        <5>1. CASE score'[v] = score[v]
          BY <3>1, <4>2, <4>3, <5>1 DEF KeepsPick
        <5>2. CASE score'[v] = now
          BY <2>1, <3>1, <4>1, <4>3, <5>2 DEF KeepsPick
        <5>3. v \in Users
          OBVIOUS
        <5>4. score'[v] = score[v] \/ score'[v] = now
          BY <2>2, <4>3, <5>3
        <5>5. QED BY <5>1, <5>2, <5>4
      <4>4. adm'[a].since <= now'
        BY <2>1, <2>2, <3>1, <4>1 DEF KeepsPick
      <4>5. QED BY <4>3, <4>4
    <3>2. CASE adm'[a] = IdleAdmitter
      BY <2>2, <3>2 DEF IdleAdmitter
    <3>3. CASE PicksTop(a)
      BY <2>1, <2>2, <3>3 DEF PicksTop, IsTop, Before, Waiting, OrderInv, ScoresPast
    <3>4. KeepsPick(a) \/ adm'[a] = IdleAdmitter \/ PicksTop(a)
      BY <1>2, PickFrame
    <3>5. QED BY <3>1, <3>2, <3>3, <3>4, Zenon
  <2>4. ScoresPast'
    BY <2>2, <2>3 DEF ScoresPast
  <2>5. AdmissionOrder'
    BY <2>3 DEF AdmissionOrder, Waiting
  <2>6. QED BY <2>4, <2>5 DEF OrderInv
<1>3. QED BY <1>1, <1>2

\* Users are let in in the order in which they joined the queue, although
\* the queue changes between reading its head and removing it.
THEOREM AdmissionOrderCorrect == Spec => []AdmissionOrder
<1>1. Init => OrderInv
  BY DEF Init, OrderInv, ScoresPast, AdmissionOrder, IdleAdmitter, Waiting
<1>2. QED BY <1>1, TypeInit, TypeStep, OrderStepInv, PTL DEF Spec, OrderInv

-----------------------------------------------------------------------------
(* Requests to enter.                                                      *)

\* A request keeps its pc, its user and its history, or is not past the check.
SamePlace(q) ==
    \/ req'[q].pc \notin {"enter.admitted", "enter.add"}
    \/ /\ req'[q].pc = req[q].pc /\ req'[q].user = req[q].user
       /\ req'[q].raced = req[q].raced

LEMMA GotoPlace ==
    ASSUME ReqOK, NEW r \in Requests, req[r].pc # "idle", NEW pc \in BusyPC, Goto(r, pc)
    PROVE  /\ req'[r].pc = pc /\ req'[r].user = req[r].user /\ req'[r].raced = req[r].raced
           /\ \A q \in Requests \ {r} : req'[q] = req[q]
<1>1. req[r] \in [pc : BusyPC, user : Users, live : BOOLEAN, raced : BOOLEAN]
  BY BusyRequest
<1>2. req' = [req EXCEPT ![r] = [req[r] EXCEPT !.pc = pc]]
  BY DEF Goto
<1>3. QED BY <1>1, <1>2 DEF ReqOK

LEMMA OrphanPlace ==
    ASSUME ReqOK, NEW u \in Users, NEW q \in Requests
    PROVE  /\ Orphan(u)[q].pc = req[q].pc /\ Orphan(u)[q].user = req[q].user
           /\ Orphan(u)[q].raced = req[q].raced
<1>1. CASE req[q].user = u
  <2>1. req[q] \in [pc : BusyPC, user : Users, live : BOOLEAN, raced : BOOLEAN]
    BY <1>1, QueueConstants DEF ReqOK, Request, IdleRequest
  <2>2. QED BY <1>1, <2>1 DEF Orphan
<1>2. CASE req[q].user # u
  BY <1>2 DEF Orphan
<1>3. QED BY <1>1, <1>2

\* Only the checks and the ZADD of enterQueue bring a request past the check.
LEMMA EnterFrame ==
    ASSUME TypeOK, Next
    PROVE  \/ \E r \in Requests : EnterIsInWaiting(r) \/ EnterIsAdmitted(r) \/ EnterAdd(r)
           \/ \A q \in Requests : SamePlace(q)
<1>0. ReqOK
  BY DEF TypeOK, ReqOK
<1>1. ASSUME NEW r \in Requests,
             \/ Finish(r)
             \/ /\ req[r].pc # "idle"
                /\ \E pc \in BusyPC \ {"enter.admitted", "enter.add"} : Goto(r, pc)
      PROVE  \A q \in Requests : SamePlace(q)
  <2>1. CASE Finish(r)
    BY <1>0, <2>1 DEF Finish, SamePlace, IdleRequest, ReqOK
  <2>2. CASE ~Finish(r)
    BY <1>0, <1>1, <2>2, GotoPlace DEF SamePlace
  <2>3. QED BY <2>1, <2>2
<1>2. ASSUME NEW r \in Requests, RequestStep(r), ~EnterIsInWaiting(r), ~EnterIsAdmitted(r), ~EnterAdd(r)
      PROVE  \A q \in Requests : SamePlace(q)
  BY <1>1, <1>2 DEF RequestStep, EnterJoin, LeaveIsInWaiting, LeaveRemove, ReconnectHasKey,
     ReconnectDeleteKey, ReconnectJoin, DisconnectIsInWaiting, DisconnectSetKey,
     DisconnectSchedule, Join, At, BusyPC, LeavePC, ReconnectPC, DisconnectPC
<1>3. ASSUME NEW r \in Requests, NEW u \in Users, ClientStep(r, u)
      PROVE  \A q \in Requests : SamePlace(q)
  <2>1. CASE DisconnectBegin(r, u)
    <3>1. req' = [Orphan(u) EXCEPT ![r] = Fresh("disconnect.waiting", u, FALSE)]
      BY <2>1 DEF DisconnectBegin
    <3>2. ASSUME NEW q \in Requests PROVE q = r \/ req'[q] = Orphan(u)[q]
      BY <3>1 DEF Orphan
    <3>3. req'[r].pc = "disconnect.waiting"
      BY <3>1 DEF Orphan, Fresh
    <3>4. QED BY <1>0, <3>2, <3>3, OrphanPlace DEF SamePlace
  <2>2. CASE ~DisconnectBegin(r, u)
    <3>1. PICK pc \in {"enter.waiting", "leave.waiting", "reconnect.has"}, live \in BOOLEAN :
             Begin(r, u, pc, live)
      BY <1>3, <2>2 DEF ClientStep, EnterBegin, LeaveBegin, ReconnectBegin
    <3>2. QED BY <1>0, <3>1 DEF Begin, Fresh, SamePlace, ReqOK
  <2>3. QED BY <2>1, <2>2
<1>4. ASSUME NEW r \in Requests, RequestFails(r) PROVE \A q \in Requests : SamePlace(q)
  BY <1>1, <1>4 DEF RequestFails
<1>5. ASSUME NEW u \in Users, DisconnectUnjoined(u) PROVE \A q \in Requests : SamePlace(q)
  BY <1>0, <1>5, OrphanPlace DEF DisconnectUnjoined, SamePlace
<1>6. CASE Crash
  BY <1>6 DEF Crash, SamePlace, IdleRequest
<1>7. ASSUME UNCHANGED req PROVE \A q \in Requests : SamePlace(q)
  BY <1>7 DEF SamePlace
<1>8. ASSUME \/ Tick \/ OpenSale \/ DeleteConcert \/ DropStep
             \/ \E u \in Users : Connect(u) \/ KeyStep(u)
             \/ \E a \in Admitters : AdmitStep(a) \/ AdmitFails(a)
      PROVE  UNCHANGED req
  BY <1>8 DEF Tick, OpenSale, DeleteConcert, DropStep, DropRemove, DropHasKey, Connect, KeyStep,
     GraceExpires, AdmittedKeyGone, AdmitStep, AdmitGoesOn, AdmitList, AdmitScanBegin,
     AdmitScanEnd, AdmitTop, AdmitRemove, AdmitSetKey, AdmitFails
<1>9. QED BY <1>2, <1>3, <1>4, <1>5, <1>6, <1>7, <1>8, Zenon DEF Next

\* What EnterAdd does to the requests: whoever is past the check has been raced.
LEMMA EnterAddPlace ==
    ASSUME TypeOK, NEW r \in Requests, EnterAdd(r), NEW q \in Requests
    PROVE  /\ req[r].user \in Users
           /\ req'[r].pc = "enter.join"
           /\ q # r => /\ req'[q].pc = req[q].pc /\ req'[q].user = req[q].user
                       /\ PastCheck(q, req[r].user) => req'[q].raced
                       /\ ~PastCheck(q, req[r].user) => req'[q] = req[q]
<1>1. ReqOK
  BY DEF TypeOK, ReqOK
<1>2. req[r] \in [pc : BusyPC, user : Users, live : BOOLEAN, raced : BOOLEAN]
  BY <1>1, BusyRequest DEF EnterAdd, At
<1>3. PastCheck(q, req[r].user) =>
        req[q] \in [pc : BusyPC, user : Users, live : BOOLEAN, raced : BOOLEAN]
  BY <1>1, BusyRequest DEF PastCheck
<1>4. req'[r] = [req[r] EXCEPT !.pc = "enter.join", !.raced = FALSE]
  BY DEF EnterAdd
<1>5. q # r => req'[q] = IF PastCheck(q, req[r].user) THEN [req[q] EXCEPT !.raced = TRUE] ELSE req[q]
  BY DEF EnterAdd
<1>6. QED BY <1>2, <1>3, <1>4, <1>5

-----------------------------------------------------------------------------
(* In one list at a time.                                                  *)

Adding(u) == \E r \in Requests : req[r].user = u /\ req[r].pc = "enter.add"

\* A user who is in and waits, or is about to be added, is an overlap.
OneListInv == \A u \in admitted : Waiting(u) \/ Adding(u) => u \in overlap

LEMMA KeyFrame ==
    ASSUME Next
    PROVE  \/ UNCHANGED <<admitted, overlap>>
           \/ \E a \in Admitters : AdmitSetKey(a)
           \/ \E u \in Users : AdmittedKeyGone(u)
<1>1. ASSUME NEW r \in Requests, RequestStep(r) \/ RequestFails(r)
      PROVE  UNCHANGED <<admitted, overlap>>
  BY <1>1 DEF RequestStep, EnterIsInWaiting, EnterIsAdmitted, EnterAdd, EnterJoin,
     LeaveIsInWaiting, LeaveRemove, ReconnectHasKey, ReconnectDeleteKey,
     ReconnectJoin, DisconnectIsInWaiting, DisconnectSetKey, DisconnectSchedule, RequestFails
<1>2. ASSUME NEW r \in Requests, NEW u \in Users, ClientStep(r, u)
      PROVE  UNCHANGED <<admitted, overlap>>
  BY <1>2 DEF ClientStep, EnterBegin, LeaveBegin, ReconnectBegin, DisconnectBegin
<1>3. ASSUME DropStep \/ Tick \/ OpenSale \/ DeleteConcert \/ Crash
      PROVE  UNCHANGED <<admitted, overlap>>
  BY <1>3 DEF DropStep, DropRemove, DropHasKey, Tick, OpenSale, DeleteConcert, Crash
<1>4. ASSUME NEW u \in Users, Connect(u) \/ DisconnectUnjoined(u) \/ GraceExpires(u)
      PROVE  UNCHANGED <<admitted, overlap>>
  BY <1>4 DEF Connect, DisconnectUnjoined, GraceExpires
<1>5. ASSUME NEW a \in Admitters, AdmitStep(a) \/ AdmitFails(a), ~AdmitSetKey(a)
      PROVE  UNCHANGED <<admitted, overlap>>
  BY <1>5 DEF AdmitStep, AdmitGoesOn, AdmitList, AdmitScanBegin, AdmitScanEnd, AdmitTop,
     AdmitRemove, AdmitFails
<1>6. QED BY <1>1, <1>2, <1>3, <1>4, <1>5, Zenon DEF Next, KeyStep

LEMMA OneListStep == TypeOK /\ OneListInv /\ [Next]_vars => OneListInv'
<1> SUFFICES ASSUME TypeOK, OneListInv, [Next]_vars PROVE OneListInv'
  OBVIOUS
<1>1. CASE UNCHANGED vars
  BY <1>1 DEF vars, OneListInv, Waiting, Adding
<1>2. ASSUME NEW a \in Admitters, AdmitSetKey(a) PROVE OneListInv'
  BY <1>2 DEF AdmitSetKey, OneListInv, Waiting, Adding, Entering, PastCheck
<1>3. ASSUME NEW u \in Users, AdmittedKeyGone(u) PROVE OneListInv'
  BY <1>3 DEF AdmittedKeyGone, OneListInv, Waiting, Adding
<1>4. ASSUME Next, UNCHANGED <<admitted, overlap>> PROVE OneListInv'
  <2>1. ASSUME NEW r \in Requests, EnterIsInWaiting(r) \/ EnterIsAdmitted(r)
        PROVE  OneListInv'
    <3>0. ReqOK /\ req[r].pc # "idle" /\ UNCHANGED score
      BY <2>1 DEF TypeOK, ReqOK, EnterIsInWaiting, EnterIsAdmitted, At
    <3>1. \A q \in Requests : req'[q].pc = "enter.add" =>
             /\ req'[q].user = req[q].user
             /\ req[q].pc = "enter.add" \/ req[q].user \notin admitted
      <4>1. CASE Finish(r)
        BY <3>0, <4>1 DEF Finish, ReqOK, IdleRequest
      <4>2. CASE Goto(r, "enter.admitted")
        BY <3>0, <4>2, GotoPlace DEF BusyPC, EnterPC
      <4>3. CASE Goto(r, "enter.add") /\ req[r].user \notin admitted
        BY <3>0, <4>3, GotoPlace DEF BusyPC, EnterPC
      <4>4. QED BY <2>1, <4>1, <4>2, <4>3 DEF EnterIsInWaiting, EnterIsAdmitted
    <3>2. QED BY <1>4, <3>0, <3>1 DEF OneListInv, Waiting, Adding
  <2>2. ASSUME NEW r \in Requests, EnterAdd(r) PROVE OneListInv'
    <3>1. Adding(req[r].user)
      BY <2>2 DEF EnterAdd, At, Adding
    <3>2. \A u \in Users \ {req[r].user} : score'[u] = score[u]
      BY <2>2 DEF EnterAdd, AddToWaiting, TypeOK
    <3>3. \A u \in Users : Adding(u)' => Adding(u)
      BY <2>2, EnterAddPlace DEF Adding
    <3>4. admitted \subseteq Users
      BY DEF TypeOK
    <3>5. QED BY <1>4, <3>1, <3>2, <3>3, <3>4 DEF OneListInv, Waiting
  <2>3. ASSUME \A q \in Requests : SamePlace(q),
               ~ \E r \in Requests : EnterAdd(r)
        PROVE  OneListInv'
    <3>1. \A u \in Users : Adding(u)' => Adding(u)
      BY <2>3 DEF SamePlace, Adding
    <3>2. \A u \in Users : score'[u] = score[u] \/ score'[u] = 0
      <4>1. score \in [Users -> 0..MaxTime]
        BY DEF TypeOK
      <4>2. QED BY <1>4, <2>3, <4>1, ScoreFrame DEF Tick
    <3>3. admitted \subseteq Users
      BY DEF TypeOK
    <3>4. QED BY <1>4, <3>1, <3>2, <3>3 DEF OneListInv, Waiting
  <2>4. QED BY <1>4, <2>1, <2>2, <2>3, EnterFrame
<1>5. QED BY <1>1, <1>2, <1>3, <1>4, KeyFrame

\* enterQueue's two checks keep a user from waiting while let in, except when
\* the admission overlapped the user's own request to enter.
THEOREM OneListCorrect == Spec => []OneListUnlessOverlap
<1>1. Init => OneListInv
  BY DEF Init, OneListInv
<1>2. OneListInv => OneListUnlessOverlap
  BY DEF OneListInv, OneListUnlessOverlap
<1>3. QED BY <1>1, <1>2, TypeInit, TypeStep, OneListStep, PTL DEF Spec

-----------------------------------------------------------------------------
(* A place is kept.                                                        *)

\* A request past the check whose user is in the queue all the same was raced.
RaceInv ==
    \A r \in Requests : PastCheck(r, req[r].user) /\ Waiting(req[r].user) => req[r].raced

LEMMA PastCheckUser ==
    ASSUME TypeOK, NEW r \in Requests, req[r].pc \in {"enter.admitted", "enter.add"}
    PROVE  req[r].user \in Users
BY BusyRequest DEF TypeOK, ReqOK

LEMMA RaceStep == TypeOK /\ RaceInv /\ [Next]_vars => RaceInv'
<1> SUFFICES ASSUME TypeOK, RaceInv, [Next]_vars PROVE RaceInv'
  OBVIOUS
<1>1. CASE UNCHANGED vars
  BY <1>1 DEF vars, RaceInv, Waiting, PastCheck
<1>2. ASSUME NEW r \in Requests, EnterIsInWaiting(r) \/ EnterIsAdmitted(r) PROVE RaceInv'
  <2>0. ReqOK /\ req[r].pc # "idle" /\ UNCHANGED score
    BY <1>2 DEF TypeOK, ReqOK, EnterIsInWaiting, EnterIsAdmitted, At
  <2>1. CASE Finish(r)
    BY <2>0, <2>1 DEF Finish, ReqOK, IdleRequest, RaceInv, PastCheck, Waiting
  <2>2. CASE Goto(r, "enter.admitted") /\ ~Waiting(req[r].user)
    <3>1. /\ req'[r].user = req[r].user
          /\ \A q \in Requests \ {r} : req'[q] = req[q]
      BY <2>0, <2>2, GotoPlace DEF BusyPC, EnterPC
    <3>2. QED BY <2>0, <2>2, <3>1 DEF RaceInv, PastCheck, Waiting
  <2>3. CASE Goto(r, "enter.add") /\ req[r].pc = "enter.admitted"
    <3>1. /\ req'[r].user = req[r].user /\ req'[r].raced = req[r].raced
          /\ \A q \in Requests \ {r} : req'[q] = req[q]
      BY <2>0, <2>3, GotoPlace DEF BusyPC, EnterPC
    <3>2. QED BY <2>0, <2>3, <3>1 DEF RaceInv, PastCheck, Waiting
  <2>4. QED BY <1>2, <2>1, <2>2, <2>3 DEF EnterIsInWaiting, EnterIsAdmitted, At
<1>3. ASSUME NEW r \in Requests, EnterAdd(r) PROVE RaceInv'
  <2>1. \A u \in Users \ {req[r].user} : score'[u] = score[u]
    BY <1>3 DEF EnterAdd, AddToWaiting, TypeOK
  <2>2. ASSUME NEW q \in Requests, PastCheck(q, req[q].user)', Waiting(req[q].user)'
        PROVE  req'[q].raced
    <3>1. q # r
      BY <1>3, <2>2, EnterAddPlace DEF PastCheck
    <3>2. CASE PastCheck(q, req[r].user)
      BY <1>3, <3>1, <3>2, EnterAddPlace
    <3>3. CASE ~PastCheck(q, req[r].user)
      <4>1. req'[q] = req[q]
        BY <1>3, <3>1, <3>3, EnterAddPlace
      <4>2. req[q].user \in Users \ {req[r].user}
        BY <2>2, <3>3, <4>1, PastCheckUser DEF PastCheck
      <4>3. QED BY <2>1, <2>2, <4>1, <4>2 DEF RaceInv, PastCheck, Waiting
    <3>4. QED BY <3>2, <3>3
  <2>3. QED BY <2>2 DEF RaceInv
<1>4. ASSUME Next, \A q \in Requests : SamePlace(q), ~ \E r \in Requests : EnterAdd(r)
      PROVE  RaceInv'
  <2>1. \A u \in Users : score'[u] = score[u] \/ score'[u] = 0
    <3>1. score \in [Users -> 0..MaxTime]
      BY DEF TypeOK
    <3>2. QED BY <1>4, <3>1, ScoreFrame DEF Tick
  <2>2. ASSUME NEW q \in Requests, PastCheck(q, req[q].user)', Waiting(req[q].user)'
        PROVE  req'[q].raced
    <3>1. /\ req'[q].pc = req[q].pc /\ req'[q].user = req[q].user /\ req'[q].raced = req[q].raced
      BY <1>4, <2>2 DEF SamePlace, PastCheck
    <3>2. req[q].user \in Users
      BY <2>2, <3>1, PastCheckUser DEF PastCheck
    <3>3. QED BY <2>1, <2>2, <3>1, <3>2 DEF RaceInv, PastCheck, Waiting
  <2>3. QED BY <2>2 DEF RaceInv
<1>5. QED BY <1>1, <1>2, <1>3, <1>4, EnterFrame

LEMMA PlaceStep ==
    ASSUME TypeOK, RaceInv, Next,
           NEW u \in Users, Waiting(u), Waiting(u)', score'[u] # score[u]
    PROVE  \E r \in Requests : PastCheck(r, u) /\ req[r].raced
<1>1. score \in [Users -> 0..MaxTime]
  BY DEF TypeOK
<1>2. PICK r \in Requests : EnterAdd(r)
  BY <1>1, ScoreFrame DEF Tick, Waiting
<1>3. PastCheck(r, u)
  <2>1. req[r].user \in Users
    BY <1>2, PastCheckUser DEF EnterAdd, At
  <2>2. u = req[r].user
    BY <1>1, <1>2, <2>1 DEF EnterAdd, AddToWaiting
  <2>3. QED BY <1>2, <2>2 DEF EnterAdd, PastCheck, At
<1>4. QED BY <1>3 DEF RaceInv, PastCheck

\* A user in the queue keeps the place they have, whatever sockets, reconnects,
\* disconnect jobs and further requests to enter do: only a request that another
\* one overtook between its check and its ZADD moves them.
THEOREM PlaceKeptCorrect == Spec => PlaceKept
<1>1. Init => RaceInv
  BY DEF Init, RaceInv, PastCheck, IdleRequest
<1>2. TypeOK /\ RaceInv /\ [Next]_vars =>
        [\A u \in Users : Waiting(u) /\ Waiting(u)' /\ score'[u] # score[u] =>
            \E r \in Requests : PastCheck(r, u) /\ req[r].raced]_vars
  BY PlaceStep
<1>3. QED BY <1>1, <1>2, TypeInit, TypeStep, RaceStep, PTL DEF Spec, PlaceKept

-----------------------------------------------------------------------------
(* A reconnect key and its job.                                            *)

JobBehind(u) ==
    jobs[u].held > 0 \/ \E r \in Requests : req[r].user = u /\ At(r, "disconnect.schedule")

\* Keys, jobs and jobs about to be added stay, apart from the new ones.
LEMMA JobFrame ==
    ASSUME GraceKeyHasJob, grace' \subseteq grace, faults' = faults,
           \A u \in grace : jobs'[u].held = jobs[u].held,
           \A r \in Requests : At(r, "disconnect.schedule") =>
              req'[r].pc = req[r].pc /\ req'[r].user = req[r].user
    PROVE  GraceKeyHasJob'
BY DEF GraceKeyHasJob, At

LEMMA GraceStep == TypeOK /\ GraceKeyHasJob /\ [Next]_vars => GraceKeyHasJob'
<1> SUFFICES ASSUME TypeOK, GraceKeyHasJob, [Next]_vars PROVE GraceKeyHasJob'
  OBVIOUS
<1>0. ReqOK /\ jobs \in [Users -> JobCount] /\ grace \subseteq Users /\ faults \in Nat
  BY QueueConstants DEF TypeOK, ReqOK
<1>1. CASE UNCHANGED vars
  BY <1>1, JobFrame DEF vars, sessionVars
<1>2. ASSUME faults' = faults + 1 PROVE GraceKeyHasJob'
  BY <1>0, <1>2 DEF GraceKeyHasJob
<1>3. CASE Crash \/ (\E r \in Requests : RequestFails(r)) \/ (\E a \in Admitters : AdmitFails(a))
  BY <1>2, <1>3 DEF Crash, RequestFails, AdmitFails
<1>4. ASSUME NEW r \in Requests, ~At(r, "disconnect.schedule"), UNCHANGED <<grace, jobs, faults>>,
             \/ Finish(r)
             \/ req[r].pc # "idle" /\ \E pc \in BusyPC : Goto(r, pc)
      PROVE  GraceKeyHasJob'
  <2>1. \A q \in Requests \ {r} : req'[q] = req[q]
    BY <1>0, <1>4, GotoPlace DEF Finish, ReqOK
  <2>2. QED BY <1>4, <2>1, JobFrame
<1>5. ASSUME NEW r \in Requests, RequestStep(r),
             ~DisconnectSetKey(r), ~DisconnectSchedule(r), ~ReconnectDeleteKey(r), ~EnterAdd(r)
      PROVE  GraceKeyHasJob'
  BY <1>4, <1>5 DEF RequestStep, EnterIsInWaiting, EnterIsAdmitted, EnterJoin, LeaveIsInWaiting,
     LeaveRemove, ReconnectHasKey, ReconnectJoin, DisconnectIsInWaiting, Join, At, sessionVars,
     BusyPC, EnterPC, LeavePC, ReconnectPC, DisconnectPC
<1>6. ASSUME NEW r \in Requests, EnterAdd(r) PROVE GraceKeyHasJob'
  <2>1. \A q \in Requests : At(q, "disconnect.schedule") =>
           req'[q].pc = req[q].pc /\ req'[q].user = req[q].user
    BY <1>6, EnterAddPlace DEF EnterAdd, At
  <2>2. QED BY <1>6, <2>1, JobFrame DEF EnterAdd, sessionVars
<1>7. ASSUME NEW r \in Requests, ReconnectDeleteKey(r) PROVE GraceKeyHasJob'
  <2>1. /\ grace' = grace \ {req[r].user} /\ faults' = faults
        /\ \A u \in Users \ {req[r].user} : jobs'[u] = jobs[u]
    BY <1>0, <1>7 DEF ReconnectDeleteKey, ReleaseJobs
  <2>2. \A q \in Requests \ {r} : req'[q] = req[q]
    BY <1>0, <1>7, GotoPlace DEF ReconnectDeleteKey, At, BusyPC, ReconnectPC
  <2>3. ~At(r, "disconnect.schedule")
    BY <1>7 DEF ReconnectDeleteKey, At
  <2>4. QED BY <1>0, <2>1, <2>2, <2>3 DEF GraceKeyHasJob, At
<1>8. ASSUME NEW r \in Requests, DisconnectSetKey(r) PROVE GraceKeyHasJob'
  <2>1. /\ grace' = grace \cup {req[r].user} /\ faults' = faults
        /\ \A u \in Users \ {req[r].user} : jobs'[u] = jobs[u]
    BY <1>0, <1>8 DEF DisconnectSetKey, ReleaseJobs
  <2>2. /\ req'[r].pc = "disconnect.schedule" /\ req'[r].user = req[r].user
        /\ \A q \in Requests \ {r} : req'[q] = req[q]
    BY <1>0, <1>8, GotoPlace DEF DisconnectSetKey, At, BusyPC, DisconnectPC
  <2>3. ~At(r, "disconnect.schedule")
    BY <1>8 DEF DisconnectSetKey, At
  <2>4. QED BY <1>0, <2>1, <2>2, <2>3 DEF GraceKeyHasJob, At
<1>9. ASSUME NEW r \in Requests, DisconnectSchedule(r) PROVE GraceKeyHasJob'
  <2>1. req[r].user \in Users /\ faults' = faults /\ grace' = grace
    BY <1>0, <1>9, BusyRequest DEF DisconnectSchedule, At
  <2>2. /\ \A u \in Users : jobs'[u].held = jobs[u].held \/ jobs'[u].held > 0
        /\ req[r].user \in grace => jobs'[req[r].user].held > 0
    BY <1>0, <1>9, <2>1 DEF DisconnectSchedule, JobCount
  <2>3. \A q \in Requests \ {r} : req'[q] = req[q]
    BY <1>0, <1>9 DEF DisconnectSchedule, Finish, ReqOK
  <2>4. QED BY <1>0, <2>1, <2>2, <2>3 DEF GraceKeyHasJob, At
<1>10. ASSUME NEW r \in Requests, NEW u \in Users, ClientStep(r, u) PROVE GraceKeyHasJob'
  <2>1. UNCHANGED <<grace, jobs, faults>> /\ req[r] = IdleRequest
    BY <1>10 DEF ClientStep, EnterBegin, LeaveBegin, ReconnectBegin, DisconnectBegin, Begin,
       sessionVars
  <2>2. \A q \in Requests \ {r} : req'[q].pc = req[q].pc /\ req'[q].user = req[q].user
    <3>1. CASE DisconnectBegin(r, u)
      <4>1. req' = [Orphan(u) EXCEPT ![r] = Fresh("disconnect.waiting", u, FALSE)]
        BY <3>1 DEF DisconnectBegin
      <4>2. \A q \in Requests \ {r} : req'[q] = Orphan(u)[q]
        BY <4>1 DEF Orphan
      <4>3. QED BY <1>0, <4>2, OrphanPlace
    <3>2. CASE ~DisconnectBegin(r, u)
      BY <1>0, <1>10, <3>2 DEF ClientStep, EnterBegin, LeaveBegin, ReconnectBegin, Begin, ReqOK
    <3>3. QED BY <3>1, <3>2
  <2>3. ~At(r, "disconnect.schedule")
    BY <2>1 DEF At, IdleRequest
  <2>4. QED BY <2>1, <2>2, <2>3, JobFrame
<1>11. ASSUME NEW u \in Users, Connect(u) \/ DisconnectUnjoined(u) PROVE GraceKeyHasJob'
  <2>1. \A q \in Requests : req'[q].pc = req[q].pc /\ req'[q].user = req[q].user
    BY <1>0, <1>11, OrphanPlace DEF Connect, DisconnectUnjoined
  <2>2. QED BY <1>11, <2>1, JobFrame DEF Connect, DisconnectUnjoined
<1>12. ASSUME NEW u \in Users, GraceExpires(u) PROVE GraceKeyHasJob'
  <2>1. /\ grace' = grace \ {u} /\ UNCHANGED <<req, faults>>
        /\ \A v \in Users \ {u} : jobs'[v] = jobs[v]
    BY <1>0, <1>12 DEF GraceExpires, ReleaseJobs
  <2>2. QED BY <1>0, <2>1 DEF GraceKeyHasJob, At
<1>13. ASSUME NEW u \in Users, DropHasKey(u) PROVE GraceKeyHasJob'
  <2>1. UNCHANGED <<grace, req, faults>> /\ \A v \in Users : jobs'[v].held = jobs[v].held
    BY <1>0, <1>13 DEF DropHasKey, JobCount
  <2>2. QED BY <1>0, <2>1, JobFrame
<1>14. ASSUME \/ DropRemove \/ Tick \/ OpenSale \/ DeleteConcert
              \/ \E u \in Users : AdmittedKeyGone(u)
              \/ \E a \in Admitters : AdmitStep(a)
       PROVE  UNCHANGED <<grace, jobs, req, faults>>
  BY <1>14 DEF DropRemove, Tick, OpenSale, DeleteConcert, AdmittedKeyGone, AdmitStep, AdmitGoesOn,
     AdmitList, AdmitScanBegin, AdmitScanEnd, AdmitTop, AdmitRemove, AdmitSetKey, sessionVars
<1>15. ASSUME UNCHANGED <<grace, jobs, req, faults>> PROVE GraceKeyHasJob'
  BY <1>15, JobFrame
<1>16. CASE Next
  BY <1>3, <1>5, <1>6, <1>7, <1>8, <1>9, <1>10, <1>11, <1>12, <1>13, <1>14, <1>15, <1>16, Zenon
     DEF Next, KeyStep, DropStep
<1>17. QED BY <1>1, <1>16

\* Until something fails no reconnect key is left without a job that acts once
\* it is gone, although every further disconnect sets the key anew.
THEOREM GraceKeyHasJobCorrect == Spec => []GraceKeyHasJob
<1>1. Init => GraceKeyHasJob
  BY DEF Init, GraceKeyHasJob
<1>2. QED BY <1>1, TypeInit, TypeStep, GraceStep, PTL DEF Spec

-----------------------------------------------------------------------------
(* The page in front of the queue.                                         *)

LEMMA MeIsUser == Me \in Users /\ Me # NoUser
BY QueueConstants, PageConstants

\* What the page and its events do to the queue the queue itself can do.
LEMMA PageStepIsStep == [PageNext]_<<vars, pageVars>> => [Next]_vars
<1> SUFFICES ASSUME PageNext PROVE [Next]_vars
  OBVIOUS
<1>1. CASE Reload \/ Navigate \/ InitConcert \/ InitStatus \/ InitAnswer \/ EnterQueue
           \/ LeaveQueue \/ SocketLost \/ Receive \/ Broadcast \/ BroadcastFails
  BY <1>1 DEF Reload, Navigate, Mount, InitConcert, InitStatus, InitAnswer, EnterQueue,
     LeaveQueue, SocketLost, Receive, Broadcast, BroadcastFails
<1>2. CASE SocketConnect
  BY <1>2, MeIsUser DEF SocketConnect, Next
<1>3. ASSUME NEW r \in Requests, SocketClosed(r) PROVE Next
  BY <1>3, MeIsUser DEF SocketClosed, Next, ClientStep
<1>4. ASSUME NEW r \in Requests, Deliver(r) PROVE [Next]_vars
  <2>1. CASE UNCHANGED vars
    BY <2>1
  <2>2. CASE EnterBegin(r, Me, TRUE) \/ LeaveBegin(r, Me, TRUE) \/ ReconnectBegin(r, Me)
    <3>1. ClientStep(r, Me)
      BY <2>2 DEF ClientStep
    <3>2. QED BY <3>1, MeIsUser DEF Next
  <2>3. QED BY <1>4, <2>1, <2>2 DEF Deliver
<1>5. ASSUME NEW r \in Requests, Handle(r) PROVE Next
  BY <1>5 DEF Handle, Next
<1>6. ASSUME NEW a \in Admitters, Admission(a) PROVE Next
  BY <1>6 DEF Admission, Next
<1>7. CASE Drop
  BY <1>7 DEF Drop, Next
<1>8. CASE Others
  BY <1>8 DEF Others, Next, KeyStep
<1>9. ASSUME NEW r \in Requests, HandleFails(r) PROVE Next
  BY <1>9 DEF HandleFails, Next
<1>10. ASSUME NEW a \in Admitters, AdmissionFails(a) PROVE Next
  BY <1>10 DEF AdmissionFails, Next
<1>11. CASE ServerCrash
  BY <1>11 DEF ServerCrash, Next
<1>12. QED BY <1>1, <1>2, <1>3, <1>4, <1>5, <1>6, <1>7, <1>8, <1>9, <1>10, <1>11 DEF PageNext

\* The queue with the page of one user in front of it is the queue: whatever
\* holds of WaitingQueue holds here.
THEOREM PageIsClient == PageSpec => Spec
<1>1. PageInit => Init
  BY DEF PageInit
<1>2. QED BY <1>1, PageStepIsStep, PTL DEF PageSpec, Spec

-----------------------------------------------------------------------------
(* Types of the page.                                                      *)

FlagsOK ==
    /\ entering \in BOOLEAN /\ saved \in BOOLEAN /\ cast \in BOOLEAN
    /\ dropped \in BOOLEAN /\ crossed \in BOOLEAN

\* The rest of PageTypeOK.
ShownOK ==
    /\ phase \in {"loading", "concert_error", "idle", "entering", "in_queue", "admitted"}
    /\ conn \in {"none", "connecting", "open"}
    /\ init \in {"off", "concert", "isAdmitted", "rank"} \cup Statuses
    /\ breaks \in 0..MaxBreaks

EventsOK ==
    /\ up \in Seq({"enter", "leave", "reconnect"})
    /\ down \in Seq(Events)
    /\ conn # "open" => down = <<>>

LEMMA PageTypeParts == PageTypeOK <=> FlagsOK /\ ShownOK /\ EventsOK
<1>1. FlagsOK <=> {entering, saved, cast, dropped, crossed} \subseteq BOOLEAN
  BY Zenon DEF FlagsOK
<1>2. QED BY <1>1 DEF PageTypeOK, ShownOK, EventsOK

LEMMA FlagsStep ==
    ASSUME FlagsOK, [PageNext]_<<vars, pageVars>>
    PROVE  FlagsOK'
<1> USE DEF FlagsOK
<1>1. CASE UNCHANGED <<vars, pageVars>>
  BY <1>1, Zenon DEF pageVars
<1>2. CASE Reload \/ Navigate
  BY <1>2, Zenon DEF Reload, Navigate, Mount
<1>3. CASE InitConcert \/ InitStatus \/ InitAnswer \/ EnterQueue \/ LeaveQueue
  BY <1>3, Zenon DEF InitConcert, InitStatus, InitAnswer, EnterQueue, LeaveQueue, wire
<1>4. CASE SocketConnect \/ SocketLost
  BY <1>4, Zenon DEF SocketConnect, SocketLost
<1>5. CASE Receive
  BY <1>5, Zenon DEF Receive, OnPosition, OnAdmitted, OnError
<1>6. CASE Broadcast \/ BroadcastFails
  BY <1>6, Zenon DEF Broadcast, BroadcastFails, view
<1>7. ASSUME NEW r \in Requests, SocketClosed(r) \/ Deliver(r) PROVE FlagsOK'
  BY <1>7, Zenon DEF SocketClosed, Deliver, pageVars, view
<1>8. ASSUME NEW removed PROVE Behind(removed) \in BOOLEAN
  BY Zenon DEF Behind
<1>9. ASSUME NEW r \in Requests, Handle(r) PROVE FlagsOK'
  <2>1. cast' = cast \/ cast' = TRUE
    BY <1>9 DEF Handle
  <2>2. UNCHANGED <<entering, saved, crossed>> /\ dropped' \in BOOLEAN
    BY <1>8, <1>9, Zenon DEF Handle
  <2>3. QED BY <2>1, <2>2, Zenon
<1>10. ASSUME NEW a \in Admitters, Admission(a) PROVE FlagsOK'
  BY <1>10, Zenon DEF Admission
<1>11. CASE Drop
  BY <1>8, <1>11, Zenon DEF Drop, wire
<1>12. CASE Others
  BY <1>12, Zenon DEF Others, pageVars
<1>13. ASSUME NEW r \in Requests, HandleFails(r) PROVE FlagsOK'
  BY <1>13, Zenon DEF HandleFails, view
<1>14. ASSUME NEW a \in Admitters, AdmissionFails(a) PROVE FlagsOK'
  BY <1>8, <1>14, Zenon DEF AdmissionFails, wire
<1>15. CASE ServerCrash
  BY <1>8, <1>15, Zenon DEF ServerCrash
<1>16. QED BY <1>1, <1>2, <1>3, <1>4, <1>5, <1>6, <1>7, <1>9, <1>10, <1>11, <1>12, <1>13, <1>14,
              <1>15, Zenon DEF PageNext

LEMMA ShownStep ==
    ASSUME ShownOK, [PageNext]_<<vars, pageVars>>
    PROVE  ShownOK'
<1> USE DEF ShownOK
<1>1. CASE UNCHANGED <<phase, conn, init>> /\ (UNCHANGED breaks \/ Break)
  BY <1>1, PageConstants DEF Break
<1>2. CASE Reload \/ Navigate \/ SocketLost
  BY <1>2, PageConstants DEF Reload, Navigate, Mount, SocketLost, Break
<1>3. CASE InitConcert \/ InitStatus
  BY <1>3 DEF InitConcert, InitStatus, wire, Statuses
<1>4. CASE InitAnswer \/ EnterQueue \/ LeaveQueue \/ SocketConnect
  BY <1>4 DEF InitAnswer, EnterQueue, ConnectSocket, LeaveQueue, SocketConnect
<1>5. CASE Receive
  BY <1>5 DEF Receive, OnPosition, OnAdmitted, OnError
<1>6. CASE Broadcast \/ BroadcastFails \/ Drop \/ Others
  BY <1>1, <1>6 DEF Broadcast, BroadcastFails, Drop, Others, view, wire, pageVars
<1>7. ASSUME NEW r \in Requests, SocketClosed(r) \/ Deliver(r) \/ Handle(r) \/ HandleFails(r)
      PROVE  UNCHANGED <<phase, conn, init>> /\ (UNCHANGED breaks \/ Break)
  BY <1>7 DEF SocketClosed, Deliver, Handle, HandleFails, view
<1>8. ASSUME NEW a \in Admitters, Admission(a) \/ AdmissionFails(a)
      PROVE  UNCHANGED <<phase, conn, init>> /\ (UNCHANGED breaks \/ Break)
  BY <1>8 DEF Admission, AdmissionFails, wire
<1>9. CASE ServerCrash
  BY <1>9, PageConstants DEF ServerCrash, Break
<1>10. QED BY <1>1, <1>2, <1>3, <1>4, <1>5, <1>6, <1>7, <1>8, <1>9 DEF PageNext, pageVars

\* What the server emits.
LEMMA EmitFacts ==
    ASSUME EventsOK, NEW e \in Events, Emit(e)
    PROVE  down' \in Seq(Events) /\ (conn # "open" => down' = <<>>)
BY DEF Emit, EventsOK

LEMMA EventsStep ==
    ASSUME EventsOK, [PageNext]_<<vars, pageVars>>
    PROVE  EventsOK'
<1>1. CASE UNCHANGED <<conn, up, down>>
  BY <1>1 DEF EventsOK
<1>2. CASE Reload \/ Navigate \/ SocketLost
  <2>1. down' = <<>> /\ up' \in {up, <<>>}
    BY <1>2 DEF Reload, Navigate, Mount, SocketLost
  <2>2. <<>> \in Seq(Events) /\ <<>> \in Seq({"enter", "leave", "reconnect"})
    OBVIOUS
  <2>3. up' \in Seq({"enter", "leave", "reconnect"})
    BY <2>1, <2>2 DEF EventsOK
  <2>4. QED BY <2>1, <2>2, <2>3 DEF EventsOK
<1>3. CASE InitConcert \/ InitStatus \/ Drop \/ Others
  BY <1>1, <1>3 DEF InitConcert, InitStatus, Drop, Others, wire, pageVars
<1>4. CASE InitAnswer \/ EnterQueue
  BY <1>4 DEF EventsOK, InitAnswer, EnterQueue, ConnectSocket
<1>5. CASE LeaveQueue
  <2>1. Append(up, "leave") \in Seq({"enter", "leave", "reconnect"})
    BY DEF EventsOK
  <2>2. QED BY <1>5, <2>1 DEF EventsOK, LeaveQueue
<1>6. CASE SocketConnect
  <2>1. /\ <<"reconnect">> \in Seq({"enter", "leave", "reconnect"})
        /\ <<"enter">> \in Seq({"enter", "leave", "reconnect"})
        /\ <<>> \in Seq({"enter", "leave", "reconnect"})
    OBVIOUS
  <2>2. conn' = "open" /\ down' = down
        /\ up' \in {<<"reconnect">>, <<"enter">>, <<>>}
    BY <1>6 DEF SocketConnect
  <2>3. QED BY <2>1, <2>2 DEF EventsOK
<1>7. CASE Receive
  <2>1. Tail(down) \in Seq(Events)
    BY <1>7 DEF EventsOK, Receive
  <2>2. UNCHANGED <<conn, up>> /\ down' = Tail(down) /\ down # <<>>
    BY <1>7, Zenon DEF Receive
  <2>3. QED BY <2>1, <2>2 DEF EventsOK
<1>8. CASE Broadcast
  <2>1. UNCHANGED <<conn, up>> /\ (Emit("position") \/ UNCHANGED down)
    BY <1>8, Zenon DEF Broadcast
  <2>2. QED BY <2>1, EmitFacts DEF EventsOK, Events
<1>9. ASSUME NEW r \in Requests, SocketClosed(r) PROVE EventsOK'
  BY <1>1, <1>9 DEF SocketClosed
<1>10. ASSUME NEW r \in Requests, Deliver(r) PROVE EventsOK'
  <2>1. UNCHANGED conn /\ up # <<>> /\ up' = Tail(up) /\ (Emit("error") \/ UNCHANGED down)
    BY <1>10, Zenon DEF Deliver
  <2>2. up' \in Seq({"enter", "leave", "reconnect"})
    BY <2>1 DEF EventsOK
  <2>3. QED BY <2>1, <2>2, EmitFacts DEF EventsOK, Events
<1>11. ASSUME NEW r \in Requests, Handle(r) PROVE EventsOK'
  <2>1. UNCHANGED <<conn, up>> /\ (Emit("error") \/ Emit("restored") \/ UNCHANGED down)
    BY <1>11 DEF Handle
  <2>2. QED BY <2>1, EmitFacts DEF EventsOK, Events
<1>12. ASSUME NEW a \in Admitters, Admission(a) PROVE EventsOK'
  <2>1. UNCHANGED <<conn, up>> /\ (Emit("admitted") \/ UNCHANGED down)
    BY <1>12, Zenon DEF Admission
  <2>2. QED BY <2>1, EmitFacts DEF EventsOK, Events
<1>13. ASSUME UNCHANGED <<conn, up>>, Emit("error") \/ UNCHANGED down PROVE EventsOK'
  BY <1>13, EmitFacts DEF EventsOK, Events
<1>14. ASSUME BroadcastFails \/ \E r \in Requests : HandleFails(r) PROVE EventsOK'
  BY <1>13, <1>14 DEF BroadcastFails, HandleFails
<1>15. ASSUME NEW a \in Admitters, AdmissionFails(a) PROVE EventsOK'
  BY <1>1, <1>15 DEF AdmissionFails, wire
<1>16. CASE ServerCrash
  <2>1. <<>> \in Seq(Events) /\ <<>> \in Seq({"enter", "leave", "reconnect"})
    OBVIOUS
  <2>2. QED BY <1>16, <2>1 DEF ServerCrash, EventsOK
<1>17. QED BY <1>1, <1>2, <1>3, <1>4, <1>5, <1>6, <1>7, <1>8, <1>9, <1>10, <1>11, <1>12, <1>14,
              <1>15, <1>16 DEF PageNext, pageVars

LEMMA PageTypeInit == PageInit => PageTypeOK
<1> SUFFICES ASSUME PageInit PROVE PageTypeOK
  OBVIOUS
<1>1. FlagsOK
  BY Zenon DEF PageInit, FlagsOK
<1>2. ShownOK
  BY PageConstants DEF PageInit, ShownOK
<1>3. EventsOK
  BY DEF PageInit, EventsOK
<1>4. QED BY <1>1, <1>2, <1>3, PageTypeParts

LEMMA PageTypeStep == PageTypeOK /\ [PageNext]_<<vars, pageVars>> => PageTypeOK'
<1> SUFFICES ASSUME PageTypeOK, [PageNext]_<<vars, pageVars>> PROVE PageTypeOK'
  OBVIOUS
<1>1. FlagsOK' /\ ShownOK' /\ EventsOK'
  BY PageTypeParts, FlagsStep, ShownStep, EventsStep
<1>2. FlagsOK' <=> {entering, saved, cast, dropped, crossed}' \subseteq BOOLEAN
  BY Zenon DEF FlagsOK
<1>3. QED BY <1>1, <1>2 DEF PageTypeOK, ShownOK, EventsOK

\* The page, its events and its history keep their types, and nothing is on
\* its way to a page whose socket is not connected.
THEOREM PageTypeOKCorrect == PageSpec => []PageTypeOK
BY PageTypeInit, PageTypeStep, PTL DEF PageSpec

-----------------------------------------------------------------------------
(* What the steps of the queue do to the user of the page.                 *)

\* The handlers in progress are those of the page's events.
Mine == \A r \in Requests : req[r].user \in {Me, NoUser}

\* A handler stays where it is.
SameAt(q) ==
    req'[q].pc = req[q].pc /\ req'[q].user = req[q].user /\ req'[q].live = req[q].live

LEMMA GotoSame ==
    ASSUME ReqOK, NEW r \in Requests, req[r].pc # "idle", NEW pc \in BusyPC, Goto(r, pc)
    PROVE  /\ req'[r].pc = pc /\ req'[r].user = req[r].user /\ req'[r].live = req[r].live
           /\ \A q \in Requests \ {r} : req'[q] = req[q]
<1>1. req[r] \in [pc : BusyPC, user : Users, live : BOOLEAN, raced : BOOLEAN]
  BY BusyRequest
<1>2. req' = [req EXCEPT ![r] = [req[r] EXCEPT !.pc = pc]]
  BY DEF Goto
<1>3. QED BY <1>1, <1>2 DEF ReqOK

LEMMA FinishSame ==
    ASSUME ReqOK, NEW r \in Requests, Finish(r)
    PROVE  req'[r] = IdleRequest /\ \A q \in Requests \ {r} : req'[q] = req[q]
BY DEF ReqOK, Finish

LEMMA EnterAddSame ==
    ASSUME TypeOK, NEW r \in Requests, EnterAdd(r)
    PROVE  /\ req'[r].pc = "enter.join" /\ req'[r].user = req[r].user
           /\ req'[r].live = req[r].live
           /\ \A q \in Requests \ {r} : SameAt(q)
<1>1. ReqOK
  BY DEF TypeOK, ReqOK
<1>2. req[r] \in [pc : BusyPC, user : Users, live : BOOLEAN, raced : BOOLEAN]
  BY <1>1, BusyRequest DEF EnterAdd, At
<1>3. req'[r] = [req[r] EXCEPT !.pc = "enter.join", !.raced = FALSE]
  BY DEF EnterAdd
<1>4. ASSUME NEW q \in Requests \ {r} PROVE SameAt(q)
  <2>1. PastCheck(q, req[r].user) =>
          req[q] \in [pc : BusyPC, user : Users, live : BOOLEAN, raced : BOOLEAN]
    BY <1>1, BusyRequest DEF PastCheck
  <2>2. req'[q] = IF PastCheck(q, req[r].user) THEN [req[q] EXCEPT !.raced = TRUE] ELSE req[q]
    BY DEF EnterAdd
  <2>3. QED BY <2>1, <2>2 DEF SameAt
<1>5. QED BY <1>2, <1>3, <1>4

\* The four handlers.
Kinds == {EnterPC, LeavePC, ReconnectPC, DisconnectPC}

\* What follows the next command of a handler.
FollowedBy(r) ==
    /\ UNCHANGED <<admitted, adm>>
    /\ req[r].pc # "idle" /\ req[r].user = Me
    /\ \A q \in Requests \ {r} : SameAt(q)
    /\ \/ req'[r] = IdleRequest
       \/ /\ req'[r].user = Me /\ req'[r].live = req[r].live /\ req'[r].pc # "idle"
          /\ \E K \in Kinds : req[r].pc \in K /\ req'[r].pc \in K
          /\ req[r].pc \notin {"enter.join", "leave.remove", "reconnect.join"}
    /\ req'[r].pc = "enter.join" => req[r].pc = "enter.add"
    /\ req'[r].pc = "enter.add" => Me \notin admitted
    /\ sock'[Me] = IF ~Live(r) THEN sock[Me]
                   ELSE CASE At(r, "enter.join") -> "joined"
                          [] At(r, "leave.remove") -> "open"
                          [] At(r, "reconnect.join") -> "restored"
                          [] OTHER -> sock[Me]
    /\ Waiting(Me)' <=> At(r, "enter.add") \/ (Waiting(Me) /\ ~At(r, "leave.remove"))

LEMMA HandleEffect ==
    ASSUME TypeOK, Mine, NEW r \in Requests, RequestStep(r)
    PROVE  FollowedBy(r)
<1>0. /\ ReqOK /\ Me \in Users /\ score \in [Users -> 0..MaxTime]
      /\ sock \in [Users -> {"none", "open", "joined", "restored"}] /\ now \in Nat \ {0}
  BY MeIsUser, QueueConstants DEF TypeOK, ReqOK
<1>1. req[r].pc # "idle" /\ req[r].user = Me
  <2>1. req[r].pc # "idle"
    BY DEF RequestStep, EnterIsInWaiting, EnterIsAdmitted, EnterAdd, EnterJoin, LeaveIsInWaiting,
       LeaveRemove, ReconnectHasKey, ReconnectDeleteKey, ReconnectJoin, DisconnectIsInWaiting,
       DisconnectSetKey, DisconnectSchedule, At
  <2>2. QED BY <1>0, <2>1, BusyRequest, QueueConstants DEF Mine
<1>2. UNCHANGED <<admitted, adm>>
  BY DEF RequestStep, EnterIsInWaiting, EnterIsAdmitted, EnterAdd, EnterJoin,
     LeaveIsInWaiting, LeaveRemove, ReconnectHasKey, ReconnectDeleteKey,
     ReconnectJoin, DisconnectIsInWaiting, DisconnectSetKey, DisconnectSchedule
<1> USE DEF At, Live
<1>3. ASSUME NEW pc \in BusyPC, Goto(r, pc), UNCHANGED <<sock, score>>,
             \E K \in Kinds : req[r].pc \in K /\ pc \in K,
             req[r].pc \notin {"enter.add", "enter.join", "leave.remove", "reconnect.join"},
             pc # "enter.join", pc = "enter.add" => Me \notin admitted
      PROVE  FollowedBy(r)
  <2>1. /\ req'[r].pc = pc /\ req'[r].user = req[r].user /\ req'[r].live = req[r].live
        /\ \A q \in Requests \ {r} : req'[q] = req[q]
    BY <1>0, <1>1, <1>3, GotoSame
  <2>2. pc # "idle"
    BY DEF BusyPC, EnterPC, LeavePC, ReconnectPC, DisconnectPC
  <2>3. (Waiting(Me)' <=> Waiting(Me)) /\ sock'[Me] = sock[Me]
    BY <1>3 DEF Waiting
  <2>4. \A q \in Requests \ {r} : SameAt(q)
    BY <2>1 DEF SameAt
  <2>5. QED BY <1>1, <1>2, <1>3, <2>1, <2>2, <2>3, <2>4 DEF FollowedBy
<1>4. ASSUME Finish(r), UNCHANGED <<sock, score>>,
             req[r].pc \notin {"enter.add", "enter.join", "leave.remove", "reconnect.join"}
      PROVE  FollowedBy(r)
  <2>1. req'[r] = IdleRequest /\ \A q \in Requests \ {r} : SameAt(q)
    BY <1>0, <1>4, FinishSame DEF SameAt
  <2>2. (Waiting(Me)' <=> Waiting(Me)) /\ sock'[Me] = sock[Me]
    BY <1>4 DEF Waiting
  <2>3. QED BY <1>1, <1>2, <1>4, <2>1, <2>2 DEF FollowedBy, IdleRequest
<1>5. ASSUME NEW how \in {"joined", "open", "restored"}, Join(r, how)
      PROVE  /\ req'[r] = IdleRequest /\ \A q \in Requests \ {r} : SameAt(q)
             /\ sock'[Me] = IF Live(r) THEN how ELSE sock[Me]
  BY <1>0, <1>1, <1>5, FinishSame DEF Join, SameAt
<1>6. CASE EnterIsInWaiting(r)
  <2>1. UNCHANGED <<sock, score>> /\ (Finish(r) \/ Goto(r, "enter.admitted"))
    BY <1>6 DEF EnterIsInWaiting, sessionVars
  <2>2. req[r].pc = "enter.waiting"
    BY <1>6 DEF EnterIsInWaiting
  <2>3. QED BY <1>3, <1>4, <2>1, <2>2 DEF Kinds, BusyPC, EnterPC
<1>7. CASE EnterIsAdmitted(r)
  <2>1. UNCHANGED <<sock, score>> /\ (Finish(r) \/ (Goto(r, "enter.add") /\ Me \notin admitted))
    BY <1>1, <1>7 DEF EnterIsAdmitted, sessionVars
  <2>2. req[r].pc = "enter.admitted"
    BY <1>7 DEF EnterIsAdmitted
  <2>3. QED BY <1>3, <1>4, <2>1, <2>2 DEF Kinds, BusyPC, EnterPC
<1>8. CASE EnterAdd(r)
  <2>1. req[r].pc = "enter.add" /\ UNCHANGED sock /\ score'[Me] = now
    BY <1>0, <1>1, <1>8 DEF EnterAdd, AddToWaiting, sessionVars
  <2>2. Waiting(Me)'
    BY <1>0, <2>1 DEF Waiting
  <2>3. QED BY <1>1, <1>2, <1>8, <2>1, <2>2, EnterAddSame DEF FollowedBy, Kinds, EnterPC
<1>9. CASE EnterJoin(r)
  <2>1. req[r].pc = "enter.join" /\ UNCHANGED score /\ Join(r, "joined")
    BY <1>9 DEF EnterJoin
  <2>2. Waiting(Me)' <=> Waiting(Me)
    BY <2>1 DEF Waiting
  <2>3. QED BY <1>1, <1>2, <1>5, <2>1, <2>2 DEF FollowedBy, IdleRequest
<1>10. CASE LeaveIsInWaiting(r)
  <2>1. UNCHANGED <<sock, score>> /\ (Finish(r) \/ Goto(r, "leave.remove"))
    BY <1>10 DEF LeaveIsInWaiting, sessionVars
  <2>2. req[r].pc = "leave.waiting"
    BY <1>10 DEF LeaveIsInWaiting
  <2>3. QED BY <1>3, <1>4, <2>1, <2>2 DEF Kinds, BusyPC, LeavePC
<1>11. CASE LeaveRemove(r)
  <2>1. req[r].pc = "leave.remove" /\ score'[Me] = 0 /\ Join(r, "open")
    BY <1>0, <1>1, <1>11 DEF LeaveRemove, RemoveFromWaiting
  <2>2. ~Waiting(Me)'
    BY <2>1 DEF Waiting
  <2>3. QED BY <1>1, <1>2, <1>5, <2>1, <2>2 DEF FollowedBy, IdleRequest
<1>12. CASE ReconnectHasKey(r)
  <2>1. UNCHANGED <<sock, score>> /\ (Finish(r) \/ Goto(r, "reconnect.delete"))
    BY <1>12 DEF ReconnectHasKey, sessionVars
  <2>2. req[r].pc = "reconnect.has"
    BY <1>12 DEF ReconnectHasKey
  <2>3. QED BY <1>3, <1>4, <2>1, <2>2 DEF Kinds, BusyPC, ReconnectPC
<1>13. CASE ReconnectDeleteKey(r)
  <2>1. UNCHANGED <<sock, score>> /\ Goto(r, "reconnect.join") /\ req[r].pc = "reconnect.delete"
    BY <1>13 DEF ReconnectDeleteKey
  <2>2. QED BY <1>3, <2>1 DEF Kinds, BusyPC, ReconnectPC
<1>14. CASE ReconnectJoin(r)
  <2>1. req[r].pc = "reconnect.join" /\ UNCHANGED score /\ Join(r, "restored")
    BY <1>14 DEF ReconnectJoin
  <2>2. Waiting(Me)' <=> Waiting(Me)
    BY <2>1 DEF Waiting
  <2>3. QED BY <1>1, <1>2, <1>5, <2>1, <2>2 DEF FollowedBy, IdleRequest
<1>15. CASE DisconnectIsInWaiting(r)
  <2>1. UNCHANGED <<sock, score>> /\ req[r].pc = "disconnect.waiting"
        /\ (Goto(r, "disconnect.set") \/ Goto(r, "disconnect.schedule"))
    BY <1>15 DEF DisconnectIsInWaiting, sessionVars
  <2>2. QED BY <1>3, <2>1 DEF Kinds, BusyPC, DisconnectPC
<1>16. CASE DisconnectSetKey(r)
  <2>1. UNCHANGED <<sock, score>> /\ req[r].pc = "disconnect.set" /\ Goto(r, "disconnect.schedule")
    BY <1>16 DEF DisconnectSetKey
  <2>2. QED BY <1>3, <2>1 DEF Kinds, BusyPC, DisconnectPC
<1>17. CASE DisconnectSchedule(r)
  <2>1. UNCHANGED <<sock, score>> /\ req[r].pc = "disconnect.schedule" /\ Finish(r)
    BY <1>17 DEF DisconnectSchedule
  <2>2. QED BY <1>4, <2>1
<1>18. QED BY <1>6, <1>7, <1>8, <1>9, <1>10, <1>11, <1>12, <1>13, <1>14, <1>15, <1>16, <1>17
           DEF RequestStep

\* A handler begins on an event of the page's socket.
LEMMA BeginEffect ==
    ASSUME TypeOK, NEW r \in Requests, NEW pc, Begin(r, Me, pc, TRUE)
    PROVE  /\ req[r] = IdleRequest
           /\ req'[r].pc = pc /\ req'[r].user = Me /\ req'[r].live
           /\ \A q \in Requests \ {r} : req'[q] = req[q]
BY DEF Begin, Fresh, TypeOK

\* The page's socket is closed: no handler has a socket any more.
LEMMA CloseEffect ==
    ASSUME TypeOK, Mine, NEW r \in Requests, SocketClosed(r)
    PROVE  /\ UNCHANGED <<score, admitted, adm>> /\ sock'[Me] = "none"
           /\ \A q \in Requests :
                 \/ /\ req'[q].pc = req[q].pc /\ req'[q].user = req[q].user
                    /\ ~req'[q].live
                 \/ /\ req'[q].pc = "disconnect.waiting" /\ req'[q].user = Me /\ ~req'[q].live
<1>0. /\ ReqOK /\ Me \in Users /\ Me # NoUser
      /\ sock \in [Users -> {"none", "open", "joined", "restored"}]
  BY MeIsUser DEF TypeOK, ReqOK
<1>1. UNCHANGED <<score, admitted, adm>> /\ sock' = [sock EXCEPT ![Me] = "none"]
  BY DEF SocketClosed, DisconnectUnjoined, DisconnectBegin
<1>2. ASSUME NEW q \in Requests
      PROVE  /\ Orphan(Me)[q].pc = req[q].pc /\ Orphan(Me)[q].user = req[q].user
             /\ ~Orphan(Me)[q].live
  <2>1. CASE req[q] = IdleRequest
    BY <1>0, <2>1 DEF Orphan, IdleRequest
  <2>2. CASE req[q] # IdleRequest
    <3>1. req[q] \in [pc : BusyPC, user : Users, live : BOOLEAN, raced : BOOLEAN] /\ req[q].user = Me
      BY <1>0, <2>2, QueueConstants DEF ReqOK, Request, Mine
    <3>2. Orphan(Me)[q] = [req[q] EXCEPT !.live = FALSE]
      BY <3>1 DEF Orphan
    <3>3. QED BY <2>2, <3>1, <3>2
  <2>3. QED BY <2>1, <2>2
<1>3. ASSUME NEW q \in Requests
      PROVE  \/ req'[q] = Orphan(Me)[q]
             \/ req'[q] = Fresh("disconnect.waiting", Me, FALSE)
  BY DEF SocketClosed, DisconnectUnjoined, DisconnectBegin, Orphan
<1>4. QED BY <1>0, <1>1, <1>2, <1>3 DEF Fresh

\* admitNextUser takes a user out of the queue before it lets them in.
LEMMA AdmissionEffect ==
    ASSUME TypeOK, NEW a \in Admitters, AdmitStep(a)
    PROVE  /\ UNCHANGED <<req, sock>>
           /\ Waiting(Me)' => Waiting(Me)
           /\ \A b \in Admitters \ {a} : LettingIn(b)' <=> LettingIn(b)
           /\ LettingIn(a) => UNCHANGED score /\ admitted' = admitted \cup {Me}
           /\ ~LettingIn(a) => /\ Me \in admitted' <=> Me \in admitted
                               /\ Waiting(Me) /\ ~Waiting(Me)' => LettingIn(a)'
<1>0. /\ Me \in Users /\ score \in [Users -> 0..MaxTime] /\ adm \in [Admitters -> Admitter]
  BY MeIsUser DEF TypeOK
<1>1. UNCHANGED <<req, sock>> /\ \A b \in Admitters \ {a} : adm'[b] = adm[b]
  BY <1>0 DEF AdmitStep, AdmitGoesOn, AdmitList, AdmitScanBegin, AdmitScanEnd, AdmitTop,
     AdmitRemove, AdmitSetKey, sessionVars
<1>2. CASE AdmitRemove(a)
  <2>1. adm'[a].pc = "admit" /\ adm'[a].user = adm[a].user /\ adm[a].pc = "remove"
    BY <1>0, <1>2, AdmitterShape DEF AdmitRemove
  <2>2. /\ UNCHANGED admitted
        /\ score'[Me] = IF adm[a].user = Me THEN 0 ELSE score[Me]
    BY <1>0, <1>2 DEF AdmitRemove, RemoveFromWaiting
  <2>3. QED BY <1>1, <2>1, <2>2 DEF Waiting, LettingIn
<1>3. CASE AdmitSetKey(a)
  <2>1. UNCHANGED score /\ adm[a].pc = "admit" /\ admitted' = admitted \cup {adm[a].user}
    BY <1>3 DEF AdmitSetKey
  <2>2. QED BY <1>1, <2>1 DEF Waiting, LettingIn
<1>4. CASE AdmitList(a) \/ AdmitScanBegin(a) \/ AdmitScanEnd(a) \/ AdmitTop(a)
  <2>1. UNCHANGED <<score, admitted>> /\ adm[a].pc # "admit"
    BY <1>4 DEF AdmitList, AdmitScanBegin, AdmitScanEnd, AdmitTop
  <2>2. QED BY <1>1, <2>1 DEF Waiting, LettingIn
<1>5. QED BY <1>2, <1>3, <1>4 DEF AdmitStep, AdmitGoesOn

\* A failing handler ends, with an error if its socket is still open.
LEMMA HandleFailsEffect ==
    ASSUME TypeOK, NEW r \in Requests, HandleFails(r)
    PROVE  /\ UNCHANGED <<sock, score, admitted, adm>>
           /\ UNCHANGED <<phase, entering, saved, init, dropped, crossed, conn, up>>
           /\ req[r].pc # "idle" /\ req'[r] = IdleRequest
           /\ \A q \in Requests \ {r} : req'[q] = req[q]
           /\ UNCHANGED down \/ Emit("error")
<1>1. ReqOK /\ RequestFails(r)
  BY DEF TypeOK, ReqOK, HandleFails
<1>2. Finish(r) /\ UNCHANGED <<sock, score, admitted, adm>>
  BY <1>1 DEF RequestFails, sessionVars
<1>3. req[r].pc # "idle"
  BY <1>1 DEF RequestFails, EnterPC, LeavePC, ReconnectPC
<1>4. QED BY <1>1, <1>2, <1>3, FinishSame DEF HandleFails

\* A failing broadcast is one more error.
LEMMA BroadcastFailsEffect ==
    ASSUME BroadcastFails
    PROVE  /\ UNCHANGED <<req, sock, score, admitted, adm>>
           /\ UNCHANGED <<phase, entering, saved, init, dropped, crossed, conn, up>>
           /\ Emit("error")
BY DEF BroadcastFails, vars

\* An admission that fails forgets its user.
LEMMA AdmissionFailsEffect ==
    ASSUME TypeOK, NEW a \in Admitters, AdmissionFails(a)
    PROVE  /\ UNCHANGED <<req, sock, score, admitted>>
           /\ UNCHANGED <<phase, entering, saved, init, crossed, conn, up, down, cast>>
           /\ \A b \in Admitters : LettingIn(b) => LettingIn(b)' \/ b = a
           /\ dropped' = (dropped \/ LettingIn(a))
<1>1. AdmitFails(a) /\ adm \in [Admitters -> Admitter]
  BY DEF AdmissionFails, TypeOK
<1>2. /\ UNCHANGED <<req, sock, score, admitted>>
      /\ \A b \in Admitters \ {a} : adm'[b] = adm[b]
  BY <1>1 DEF AdmitFails, sessionVars
<1>3. Waiting(Me)' <=> Waiting(Me)
  BY <1>2 DEF Waiting
<1>4. QED BY <1>2, <1>3 DEF AdmissionFails, Behind, LettingIn, wire

\* After a crash no handler and no socket is left.
LEMMA CrashEffect ==
    ASSUME TypeOK, ServerCrash
    PROVE  /\ UNCHANGED <<score, admitted, phase, entering, init, crossed>>
           /\ conn' # "open" /\ (conn = "none" => conn' = "none") /\ up' = <<>> /\ down' = <<>>
           /\ sock'[Me] = "none" /\ \A r \in Requests : req'[r] = IdleRequest
BY MeIsUser DEF ServerCrash, Crash

LEMMA DropEffect ==
    ASSUME TypeOK, DropStep
    PROVE  /\ UNCHANGED <<req, sock, adm, admitted>>
           /\ Waiting(Me)' => Waiting(Me)
           /\ Waiting(Me) /\ ~Waiting(Me)' => dropper = Me
<1>1. Me \in Users /\ score \in [Users -> 0..MaxTime]
  BY MeIsUser DEF TypeOK
<1>2. UNCHANGED <<req, sock, adm, admitted>>
  BY DEF DropStep, DropRemove, DropHasKey
<1>3. score'[Me] = IF dropper = Me THEN score'[Me] ELSE score[Me]
  BY <1>1 DEF DropStep, DropRemove, DropHasKey, RemoveFromWaiting
<1>4. score'[Me] \in {0, score[Me]}
  BY <1>1 DEF DropStep, DropRemove, DropHasKey, RemoveFromWaiting
<1>5. QED BY <1>2, <1>3, <1>4 DEF Waiting

LEMMA OthersEffect ==
    ASSUME TypeOK, Others
    PROVE  /\ UNCHANGED <<req, sock, score, pageVars>>
           /\ \A b \in Admitters : LettingIn(b)' <=> LettingIn(b)
           /\ admitted' = admitted \/ (Settled /\ admitted' \subseteq admitted)
<1>0. adm \in [Admitters -> Admitter]
  BY DEF TypeOK
<1>1. CASE \E u \in Users : AdmittedKeyGone(u) /\ Settled
  <2>1. PICK u \in Users : AdmittedKeyGone(u) /\ Settled
    BY <1>1
  <2>2. \A b \in Admitters : adm'[b].pc = adm[b].pc /\ adm'[b].user = adm[b].user
    <3>1. ASSUME NEW b \in Admitters
          PROVE  adm'[b].pc = adm[b].pc /\ adm'[b].user = adm[b].user
      <4>1. adm[b] \in Admitter /\ adm'[b] = [adm[b] EXCEPT !.seen = @ \ {u}]
        BY <1>0, <2>1 DEF AdmittedKeyGone
      <4>2. QED BY <4>1 DEF Admitter, IdleAdmitter
    <3>2. QED BY <3>1
  <2>3. QED BY <2>1, <2>2 DEF AdmittedKeyGone, sessionVars, LettingIn, Others
<1>2. CASE (\E u \in Users : GraceExpires(u)) \/ Tick \/ OpenSale \/ DeleteConcert
  <2>1. UNCHANGED <<req, sock, score, admitted, adm>>
    BY <1>2 DEF GraceExpires, Tick, OpenSale, DeleteConcert, sessionVars
  <2>2. QED BY <2>1 DEF LettingIn, Others
<1>3. QED BY <1>1, <1>2 DEF Others

-----------------------------------------------------------------------------
(* Events on their way.                                                    *)

\* An event of S is on its way to the page.
Coming(S) == \E i \in 1..Len(down) : down[i] \in S

LEMMA DownLost ==
    ASSUME NEW S, down' = <<>>
    PROVE  ~Coming(S)'
BY DEF Coming

LEMMA DownSame ==
    ASSUME NEW S, UNCHANGED down
    PROVE  Coming(S)' <=> Coming(S)
BY DEF Coming

LEMMA DownEmit ==
    ASSUME EventsOK, NEW e \in Events, Emit(e)
    PROVE  \/ UNCHANGED down
           \/ /\ conn = "open" /\ sock[Me] # "none"
              /\ Len(down') = Len(down) + 1 /\ Len(down) \in Nat
              /\ \A i \in 1..Len(down) : down'[i] = down[i]
              /\ down'[Len(down) + 1] = e
BY DEF EventsOK, Emit

LEMMA DownTail ==
    ASSUME EventsOK, down # <<>>, down' = Tail(down)
    PROVE  /\ Len(down) \in Nat \ {0} /\ Len(down') = Len(down) - 1
           /\ Head(down) = down[1] /\ down[1] \in Events
           /\ \A i \in 1..Len(down') : down'[i] = down[i + 1]
BY DEF EventsOK

LEMMA ComingEmit ==
    ASSUME EventsOK, NEW e \in Events, Emit(e), NEW S, Coming(S)'
    PROVE  Coming(S) \/ (e \in S /\ conn = "open" /\ sock[Me] # "none")
<1>1. CASE UNCHANGED down
  BY <1>1, DownSame
<1>2. CASE ~UNCHANGED down
  BY <1>2, DownEmit DEF Coming
<1>3. QED BY <1>1, <1>2

LEMMA ComingTail ==
    ASSUME EventsOK, down # <<>>, down' = Tail(down), NEW S
    PROVE  /\ Coming(S)' => Coming(S)
           /\ Head(down) \in S => Coming(S)
<1>1. ASSUME NEW i \in 1..Len(down'), down'[i] \in S PROVE Coming(S)
  <2>1. i + 1 \in 1..Len(down) /\ down[i + 1] \in S
    BY <1>1, DownTail
  <2>2. QED BY <2>1 DEF Coming
<1>2. Coming(S)' => Coming(S)
  BY <1>1 DEF Coming
<1>3. 1 \in 1..Len(down) /\ Head(down) = down[1]
  BY DownTail
<1>4. QED BY <1>2, <1>3 DEF Coming

\* What a socket can have sent and the server not taken up yet.
Sent == {<<>>, <<"enter">>, <<"reconnect">>, <<"leave">>, <<"reconnect", "leave">>}

LEMMA SentFacts ==
    /\ <<>> # <<"enter">> /\ <<>> # <<"reconnect">> /\ <<>> # <<"leave">>
    /\ <<>> # <<"reconnect", "leave">> /\ <<"enter">> # <<"reconnect">>
    /\ <<"enter">> # <<"leave">> /\ <<"enter">> # <<"reconnect", "leave">>
    /\ <<"reconnect">> # <<"leave">> /\ <<"reconnect">> # <<"reconnect", "leave">>
    /\ <<"leave">> # <<"reconnect", "leave">>
    /\ Head(<<"enter">>) = "enter" /\ Tail(<<"enter">>) = <<>>
    /\ Head(<<"reconnect">>) = "reconnect" /\ Tail(<<"reconnect">>) = <<>>
    /\ Head(<<"leave">>) = "leave" /\ Tail(<<"leave">>) = <<>>
    /\ Head(<<"reconnect", "leave">>) = "reconnect"
    /\ Tail(<<"reconnect", "leave">>) = <<"leave">>
    /\ Append(<<>>, "leave") = <<"leave">>
    /\ Append(<<"reconnect">>, "leave") = <<"reconnect", "leave">>
<1>1. /\ Len(<<>>) = 0 /\ Len(<<"enter">>) = 1 /\ Len(<<"reconnect">>) = 1
      /\ Len(<<"leave">>) = 1 /\ Len(<<"reconnect", "leave">>) = 2
  OBVIOUS
<1>2. /\ <<"enter">>[1] = "enter" /\ <<"reconnect">>[1] = "reconnect" /\ <<"leave">>[1] = "leave"
  OBVIOUS
<1>3. /\ <<>> # <<"enter">> /\ <<>> # <<"reconnect">> /\ <<>> # <<"leave">>
      /\ <<>> # <<"reconnect", "leave">> /\ <<"enter">> # <<"reconnect", "leave">>
      /\ <<"reconnect">> # <<"reconnect", "leave">> /\ <<"leave">> # <<"reconnect", "leave">>
  BY <1>1
<1>4. /\ <<"enter">> # <<"reconnect">> /\ <<"enter">> # <<"leave">> /\ <<"reconnect">> # <<"leave">>
  BY <1>2
<1>5. /\ Head(<<"enter">>) = "enter" /\ Tail(<<"enter">>) = <<>>
      /\ Head(<<"reconnect">>) = "reconnect" /\ Tail(<<"reconnect">>) = <<>>
      /\ Head(<<"leave">>) = "leave" /\ Tail(<<"leave">>) = <<>>
  OBVIOUS
<1>6. Head(<<"reconnect", "leave">>) = "reconnect" /\ Tail(<<"reconnect", "leave">>) = <<"leave">>
  OBVIOUS
<1>7. Append(<<>>, "leave") = <<"leave">>
  OBVIOUS
<1>8. Append(<<"reconnect">>, "leave") = <<"reconnect", "leave">>
  <2>1. /\ Append(<<"reconnect">>, "leave") \in Seq({"reconnect", "leave"})
        /\ <<"reconnect", "leave">> \in Seq({"reconnect", "leave"})
    OBVIOUS
  <2>2. /\ Len(Append(<<"reconnect">>, "leave")) = 2
        /\ \A i \in 1..2 : Append(<<"reconnect">>, "leave")[i] = <<"reconnect", "leave">>[i]
    OBVIOUS
  <2>3. QED BY <1>1, <2>1, <2>2, SeqEqual
<1>9. QED BY <1>3, <1>4, <1>5, <1>6, <1>7, <1>8

-----------------------------------------------------------------------------
(* One request for each socket.                                            *)

PageShape ==
    /\ init # "off" => phase = "loading" /\ conn = "none"
    /\ entering <=> phase = "entering"

LEMMA PageShapeStep ==
    ASSUME ShownOK, EventsOK, PageShape, [PageNext]_<<vars, pageVars>>
    PROVE  PageShape'
<1> USE DEF PageShape
<1>1. CASE UNCHANGED <<init, phase, conn, entering>>
  BY <1>1
<1>2. CASE Reload \/ Navigate
  BY <1>2 DEF Reload, Navigate, Mount
<1>3. CASE InitConcert \/ InitStatus
  BY <1>3 DEF InitConcert, InitStatus, wire
<1>4. CASE InitAnswer
  BY <1>4 DEF InitAnswer
<1>5. CASE EnterQueue \/ LeaveQueue
  BY <1>5 DEF EnterQueue, LeaveQueue
<1>6. CASE SocketConnect
  BY <1>6 DEF SocketConnect
<1>7. CASE SocketLost
  BY <1>7 DEF SocketLost
<1>8. CASE Receive
  BY <1>8 DEF Receive, OnPosition, OnAdmitted, OnError, EventsOK
<1>9. CASE Broadcast \/ BroadcastFails \/ Drop \/ Others
  BY <1>1, <1>9 DEF Broadcast, BroadcastFails, Drop, Others, view, wire, pageVars
<1>10. ASSUME NEW r \in Requests, SocketClosed(r) \/ Deliver(r) \/ Handle(r) \/ HandleFails(r)
       PROVE  UNCHANGED <<init, phase, conn, entering>>
  BY <1>10 DEF SocketClosed, Deliver, Handle, HandleFails, view
<1>11. ASSUME NEW a \in Admitters, Admission(a) \/ AdmissionFails(a)
       PROVE  UNCHANGED <<init, phase, conn, entering>>
  BY <1>11 DEF Admission, AdmissionFails, wire
<1>12. CASE ServerCrash
  BY <1>12 DEF ServerCrash
<1>13. QED BY <1>1, <1>2, <1>3, <1>4, <1>5, <1>6, <1>7, <1>8, <1>9, <1>10, <1>11, <1>12
           DEF PageNext, pageVars

LiveIn(r, pcs) == Live(r) /\ req[r].pc \in pcs

\* A handler with a socket runs on the page's, and what the page has sent goes there.
SocketShape ==
    /\ Mine
    /\ \A r \in Requests :
          Live(r) => sock[Me] # "none" /\ req[r].pc \in EnterPC \cup LeavePC \cup ReconnectPC
    /\ conn = "open" \/ up # <<>> => sock[Me] # "none"
    /\ up \in Sent
    /\ up \in {<<"leave">>, <<"reconnect", "leave">>} => conn # "open"

\* A page in the queue, or about to be.
Shows == conn = "open" /\ (phase = "in_queue" \/ Coming({"position", "restored"}))

\* A socket that asks to enter asks nothing else, and the page does not show
\* the queue before that request has ended.
OneAsked ==
    /\ up \in {<<"enter">>, <<"reconnect">>, <<"reconnect", "leave">>} =>
          sock[Me] = "open" /\ \A r \in Requests : ~Live(r)
    /\ \A r \in Requests : LiveIn(r, EnterPC) =>
          sock[Me] = "open" /\ up = <<>> /\ \A q \in Requests \ {r} : ~Live(q)
    /\ sock[Me] = "joined" => \A r \in Requests : ~LiveIn(r, ReconnectPC)
    /\ Shows => up # <<"enter">> /\ \A r \in Requests : ~LiveIn(r, EnterPC)

Link == SocketShape /\ OneAsked

\* The steps of the page and its socket that leave the server alone.
LEMMA LinkPage ==
    ASSUME Link, UNCHANGED <<req, sock>>, up' \in {up, <<>>}, conn' = "open" => conn = "open",
           Shows' => Shows
    PROVE  Link'
<1> USE DEF Live, LiveIn
<1>1. Mine'
  BY DEF Link, SocketShape, Mine
<1>2. SocketShape'
  BY <1>1, SentFacts DEF Link, SocketShape, Sent
<1>3. OneAsked'
  BY SentFacts DEF Link, OneAsked
<1>4. QED BY <1>2, <1>3 DEF Link

LEMMA LinkStep ==
    ASSUME TypeOK, ShownOK, EventsOK, PageShape, Link, [PageNext]_<<vars, pageVars>>
    PROVE  Link'
<1> USE DEF Live, LiveIn
<1>0. Mine /\ Me \in Users /\ sock \in [Users -> {"none", "open", "joined", "restored"}]
  BY MeIsUser DEF Link, SocketShape, TypeOK
<1>1. ASSUME UNCHANGED <<req, sock, up, conn, phase, down>> PROVE Link'
  <2>1. Shows' => Shows
    BY <1>1, DownSame DEF Shows
  <2>2. QED BY <1>1, <2>1, LinkPage
<1>2. ASSUME UNCHANGED <<req, sock, up>>, conn' # "open" PROVE Link'
  BY <1>2, LinkPage DEF Shows
<1>3. CASE Reload \/ Navigate
  BY <1>2, <1>3 DEF Reload, Navigate, Mount, vars
<1>4. CASE InitConcert \/ InitStatus \/ InitAnswer
  <2>1. conn = "none" /\ conn' # "open" /\ UNCHANGED <<req, sock, up>>
    BY <1>4 DEF PageShape, InitConcert, InitStatus, InitAnswer, ConnectSocket, wire, vars
  <2>2. QED BY <1>2, <2>1
<1>5. CASE EnterQueue
  <2>1. UNCHANGED <<req, sock, up, down>> /\ phase' = "entering" /\ (conn' = "open" => conn = "open")
    BY <1>5 DEF EnterQueue, ConnectSocket, vars
  <2>2. Shows' => Shows
    BY <2>1, DownSame DEF Shows
  <2>3. QED BY <2>1, <2>2, LinkPage
<1>6. CASE LeaveQueue
  <2>1. UNCHANGED <<req, sock>> /\ conn' = "none" /\ phase = "in_queue"
        /\ up' = IF conn = "open" THEN Append(up, "leave") ELSE up
    BY <1>6 DEF LeaveQueue, vars
  <2>2. CASE conn # "open"
    BY <1>2, <2>1, <2>2
  <2>3. CASE conn = "open"
    <3>1. Shows
      BY <2>1, <2>3 DEF Shows
    <3>2. up \in {<<>>, <<"reconnect">>} /\ \A r \in Requests : ~LiveIn(r, EnterPC)
      BY <2>3, <3>1, SentFacts DEF Link, SocketShape, OneAsked, Sent
    <3>3. \/ up = <<>> /\ up' = <<"leave">>
          \/ up = <<"reconnect">> /\ up' = <<"reconnect", "leave">>
      BY <2>1, <2>3, <3>2, SentFacts
    <3>4. Mine'
      BY <1>0, <2>1 DEF Mine
    <3>5. SocketShape'
      BY <2>1, <2>3, <3>3, <3>4 DEF Link, SocketShape, Sent
    <3>6. OneAsked'
      BY <2>1, <3>2, <3>3, SentFacts DEF Link, OneAsked, Shows
    <3>7. QED BY <3>5, <3>6 DEF Link
  <2>4. QED BY <2>2, <2>3
<1>7. CASE SocketConnect
  <2>1. /\ UNCHANGED <<req, phase, down>> /\ conn = "connecting" /\ conn' = "open"
        /\ sock[Me] = "none" /\ sock'[Me] = "open"
        /\ up' \in {<<>>, <<"enter">>, <<"reconnect">>} /\ (up' = <<"enter">> => entering)
    BY <1>0, <1>7, SentFacts DEF SocketConnect, Connect
  <2>2. \A r \in Requests : ~Live(r) /\ ~Live(r)'
    BY <2>1 DEF Link, SocketShape
  <2>3. ~Coming({"position", "restored"})'
    BY <2>1, DownLost DEF EventsOK
  <2>4. Mine'
    BY <1>0, <2>1 DEF Mine
  <2>5. SocketShape'
    BY <2>1, <2>2, <2>4, SentFacts DEF SocketShape, Sent
  <2>6. Shows' => up' # <<"enter">>
    BY <2>1, <2>3, SentFacts DEF Shows, PageShape
  <2>7. OneAsked'
    BY <2>1, <2>2, <2>6 DEF OneAsked
  <2>8. QED BY <2>5, <2>7 DEF Link
<1>8. CASE SocketLost
  <2>1. UNCHANGED <<req, sock>> /\ up' = <<>> /\ conn' # "open"
    BY <1>8 DEF SocketLost, vars
  <2>2. QED BY <2>1, LinkPage DEF Shows
<1>9. CASE Receive
  <2>1. /\ UNCHANGED <<req, sock, up, conn>> /\ down # <<>> /\ down' = Tail(down)
        /\ phase' = "in_queue" => phase = "in_queue" \/ Head(down) \in {"position", "restored"}
    BY <1>9 DEF Receive, OnPosition, OnAdmitted, OnError, vars
  <2>2. Shows' => Shows
    BY <2>1, ComingTail DEF Shows
  <2>3. QED BY <2>1, <2>2, LinkPage
<1>10. CASE Broadcast
  <2>1. /\ UNCHANGED <<req, sock, up, conn, phase>>
        /\ UNCHANGED down \/ (Joined(Me) /\ Emit("position"))
    BY <1>10, Zenon DEF Broadcast, view, vars
  <2>2. CASE UNCHANGED down
    BY <1>1, <2>1, <2>2
  <2>3. CASE Joined(Me) /\ Emit("position")
    <3>1. up # <<"enter">> /\ \A r \in Requests : ~LiveIn(r, EnterPC)
      BY <2>3 DEF Link, OneAsked, Joined
    <3>2. Mine' /\ SocketShape'
      BY <1>0, <2>1 DEF Link, SocketShape, Mine
    <3>3. OneAsked'
      BY <2>1, <3>1 DEF Link, OneAsked
    <3>4. QED BY <3>2, <3>3 DEF Link
  <2>4. QED BY <2>1, <2>2, <2>3
<1>11. ASSUME NEW r \in Requests, SocketClosed(r) PROVE Link'
  <2>1. up = <<>> /\ conn # "open" /\ UNCHANGED <<up, conn>>
    BY <1>11 DEF SocketClosed
  <2>2. \A q \in Requests : ~Live(q)'
    BY <1>0, <1>11, CloseEffect
  <2>3. Mine'
    BY <1>0, <1>11, CloseEffect DEF Mine
  <2>4. SocketShape'
    BY <2>1, <2>2, <2>3, SentFacts DEF SocketShape, Sent
  <2>5. OneAsked'
    BY <2>1, <2>2, SentFacts DEF OneAsked, Shows
  <2>6. QED BY <2>4, <2>5 DEF Link
<1>12. ASSUME NEW r \in Requests, Deliver(r) PROVE Link'
  <2>1. UNCHANGED <<conn, phase>> /\ up # <<>> /\ up' = Tail(up) /\ sock[Me] # "none"
    BY <1>12 DEF Deliver, view, Link, SocketShape
  <2>2. CASE Head(up) = "enter" /\ Emit("error") /\ UNCHANGED vars
    <3>1. up' = <<>> /\ UNCHANGED <<req, sock>>
      BY <2>1, <2>2, SentFacts DEF Link, SocketShape, Sent, vars
    <3>2. Shows' => Shows
      BY <2>1, <2>2, ComingEmit DEF Shows, Events
    <3>3. QED BY <2>1, <3>1, <3>2, LinkPage
  <2>3. CASE Head(up) = "enter" /\ EnterBegin(r, Me, TRUE) /\ UNCHANGED down
    <3>1. /\ req[r] = IdleRequest /\ UNCHANGED sock
          /\ req'[r].pc = "enter.waiting" /\ req'[r].user = Me /\ req'[r].live
          /\ \A q \in Requests \ {r} : req'[q] = req[q]
      BY <2>3, BeginEffect DEF EnterBegin, sessionVars
    <3>2. up = <<"enter">> /\ up' = <<>>
      BY <2>1, <2>3, SentFacts DEF Link, SocketShape, Sent
    <3>3. sock[Me] = "open" /\ ~Shows /\ \A q \in Requests : ~Live(q)
      BY <3>2 DEF Link, OneAsked
    <3>4. Mine'
      BY <1>0, <3>1 DEF Mine
    <3>5. SocketShape'
      BY <2>1, <3>1, <3>2, <3>3, <3>4, SentFacts DEF SocketShape, Sent, EnterPC
    <3>6. ~Shows'
      BY <2>1, <2>3, <3>3, DownSame DEF Shows
    <3>7. OneAsked'
      BY <3>1, <3>2, <3>3, <3>6, SentFacts DEF OneAsked
    <3>8. QED BY <3>5, <3>7 DEF Link
  <2>4. CASE Head(up) = "leave" /\ LeaveBegin(r, Me, TRUE) /\ UNCHANGED down
    <3>1. /\ req[r] = IdleRequest /\ UNCHANGED sock
          /\ req'[r].pc = "leave.waiting" /\ req'[r].user = Me /\ req'[r].live
          /\ \A q \in Requests \ {r} : req'[q] = req[q]
      BY <2>4, BeginEffect DEF LeaveBegin, sessionVars
    <3>2. up = <<"leave">> /\ up' = <<>>
      BY <2>1, <2>4, SentFacts DEF Link, SocketShape, Sent
    <3>3. conn # "open" /\ ~Shows' /\ \A q \in Requests : ~LiveIn(q, EnterPC)
      BY <2>1, <3>2, SentFacts DEF Link, SocketShape, OneAsked, Shows
    <3>4. Mine'
      BY <1>0, <3>1 DEF Mine
    <3>5. SocketShape'
      BY <2>1, <3>1, <3>2, <3>3, <3>4, SentFacts DEF Link, SocketShape, Sent, LeavePC
    <3>6. \A q \in Requests : ~LiveIn(q, EnterPC)' /\ (LiveIn(q, ReconnectPC)' => LiveIn(q, ReconnectPC))
      BY <3>1, <3>3 DEF EnterPC, ReconnectPC
    <3>7. OneAsked'
      BY <3>1, <3>2, <3>3, <3>6, SentFacts DEF Link, OneAsked
    <3>8. QED BY <3>5, <3>7 DEF Link
  <2>5. CASE Head(up) = "reconnect" /\ ReconnectBegin(r, Me) /\ UNCHANGED down
    <3>1. /\ req[r] = IdleRequest /\ UNCHANGED sock
          /\ req'[r].pc = "reconnect.has" /\ req'[r].user = Me /\ req'[r].live
          /\ \A q \in Requests \ {r} : req'[q] = req[q]
      BY <2>5, BeginEffect DEF ReconnectBegin, sessionVars
    <3>2. \/ up = <<"reconnect">> /\ up' = <<>>
          \/ up = <<"reconnect", "leave">> /\ up' = <<"leave">>
      BY <2>1, <2>5, SentFacts DEF Link, SocketShape, Sent
    <3>3. sock[Me] = "open" /\ \A q \in Requests : ~Live(q)
      BY <3>2 DEF Link, OneAsked
    <3>4. Mine'
      BY <1>0, <3>1 DEF Mine
    <3>5. SocketShape'
      BY <2>1, <3>1, <3>2, <3>3, <3>4, SentFacts DEF Link, SocketShape, Sent, ReconnectPC
    <3>6. \A q \in Requests : ~LiveIn(q, EnterPC)'
      BY <3>1, <3>3 DEF EnterPC
    <3>7. OneAsked'
      BY <3>1, <3>2, <3>3, <3>6, SentFacts DEF OneAsked
    <3>8. QED BY <3>5, <3>7 DEF Link
  <2>6. QED BY <1>12, <2>2, <2>3, <2>4, <2>5 DEF Deliver
<1>13. ASSUME NEW r \in Requests, Handle(r) PROVE Link'
  <2>1. UNCHANGED <<phase, conn, up>> /\ FollowedBy(r)
    BY <1>0, <1>13, HandleEffect DEF Handle
  <2>2. /\ req[r].pc # "idle" /\ req[r].user = Me
        /\ \A q \in Requests \ {r} : SameAt(q)
        /\ \/ req'[r] = IdleRequest
           \/ req'[r].user = Me /\ req'[r].live = req[r].live /\ req'[r].pc # "idle"
    BY <2>1 DEF FollowedBy
  <2>3. \/ req'[r] = IdleRequest
        \/ \E K \in Kinds : req[r].pc \in K /\ req'[r].pc \in K
    BY <2>1 DEF FollowedBy
  <2>4. /\ ~Live(r) => sock'[Me] = sock[Me]
        /\ Live(r) => sock'[Me] \in {sock[Me], "joined", "open", "restored"}
        /\ req'[r] # IdleRequest => sock'[Me] = sock[Me]
        /\ sock'[Me] = "joined" => sock[Me] = "joined" \/ LiveIn(r, EnterPC)
    <3>1. req'[r] # IdleRequest => req[r].pc \notin {"enter.join", "leave.remove", "reconnect.join"}
      BY <2>1 DEF FollowedBy
    <3>2. sock'[Me] = IF ~Live(r) THEN sock[Me]
                      ELSE CASE At(r, "enter.join") -> "joined"
                             [] At(r, "leave.remove") -> "open"
                             [] At(r, "reconnect.join") -> "restored"
                             [] OTHER -> sock[Me]
      BY <2>1 DEF FollowedBy
    <3>3. QED BY <3>1, <3>2 DEF At, EnterPC
  <2>5. \A q \in Requests : /\ Live(q)' => Live(q)
                            /\ LiveIn(q, EnterPC)' => LiveIn(q, EnterPC)
                            /\ LiveIn(q, ReconnectPC)' => LiveIn(q, ReconnectPC)
                            /\ LiveIn(q, LeavePC)' => LiveIn(q, LeavePC)
    BY <2>2, <2>3 DEF SameAt, Kinds, IdleRequest, EnterPC, ReconnectPC, LeavePC, DisconnectPC
  <2>6. Live(r) => sock[Me] # "none" /\ up \in {<<>>, <<"leave">>}
    BY DEF Link, SocketShape, OneAsked, Sent
  <2>7. \/ UNCHANGED down \/ Emit("error")
        \/ Emit("restored") /\ LiveIn(r, ReconnectPC)
    BY <1>13 DEF Handle, At, ReconnectPC
  <2>8. Mine'
    <3>1. req'[r].user \in {Me, NoUser}
      BY <2>2 DEF IdleRequest
    <3>2. QED BY <1>0, <2>2, <3>1 DEF Mine, SameAt
  <2>9. SocketShape'
    <3>0. sock[Me] # "none" => sock'[Me] # "none"
      BY <2>4
    <3>1. ASSUME NEW q \in Requests, Live(q)'
          PROVE  sock'[Me] # "none" /\ req'[q].pc \in EnterPC \cup LeavePC \cup ReconnectPC
      <4>1. Live(q) /\ sock[Me] # "none" /\ req[q].pc \in EnterPC \cup LeavePC \cup ReconnectPC
        BY <2>5, <3>1 DEF Link, SocketShape
      <4>2. sock'[Me] # "none"
        BY <3>0, <4>1
      <4>3. CASE q = r
        <5>1. PICK K \in Kinds : req[r].pc \in K /\ req'[r].pc \in K
          BY <2>3, <3>1, <4>3 DEF IdleRequest
        <5>2. req[r].pc \in EnterPC \cup LeavePC \cup ReconnectPC
          BY <4>1, <4>3
        <5>3. req[r].pc \notin DisconnectPC
          BY <5>2 DEF EnterPC, ReconnectPC, LeavePC, DisconnectPC
        <5>4. req'[r].pc \in EnterPC \cup LeavePC \cup ReconnectPC
          BY <5>1, <5>3, Zenon DEF Kinds
        <5>5. QED BY <3>0, <4>1, <4>3, <5>4
      <4>4. CASE q # r
        BY <2>2, <4>1, <4>2, <4>4 DEF SameAt
      <4>5. QED BY <4>2, <4>3, <4>4
    <3>2. QED BY <2>1, <2>8, <3>0, <3>1 DEF Link, SocketShape
  <2>10. Shows' => Shows \/ LiveIn(r, ReconnectPC)
    BY <2>1, <2>7, ComingEmit, DownSame DEF Shows, Events
  <2>11. OneAsked'
    <3>1. ASSUME up' \in {<<"enter">>, <<"reconnect">>, <<"reconnect", "leave">>}
          PROVE  sock'[Me] = "open" /\ \A q \in Requests : ~Live(q)'
      BY <2>1, <2>4, <2>5, <3>1 DEF Link, OneAsked
    <3>2. ASSUME NEW q \in Requests, LiveIn(q, EnterPC)'
          PROVE  sock'[Me] = "open" /\ up' = <<>> /\ \A p \in Requests \ {q} : ~Live(p)'
      <4>1. LiveIn(q, EnterPC)
        BY <2>5, <3>2
      <4>2. sock[Me] = "open" /\ up = <<>> /\ \A p \in Requests \ {q} : ~Live(p)
        BY <4>1 DEF Link, OneAsked
      <4>3. sock'[Me] = sock[Me]
        BY <2>4, <3>2, <4>2 DEF IdleRequest
      <4>4. QED BY <2>1, <2>5, <4>2, <4>3
    <3>3. ASSUME sock'[Me] = "joined", NEW q \in Requests
          PROVE  ~LiveIn(q, ReconnectPC)'
      <4>1. CASE sock[Me] = "joined"
        BY <2>5, <4>1 DEF Link, OneAsked
      <4>2. CASE LiveIn(r, EnterPC)
        BY <2>5, <4>2 DEF Link, OneAsked, EnterPC, ReconnectPC
      <4>3. QED BY <2>4, <3>3, <4>1, <4>2
    <3>4. ASSUME Shows'
          PROVE  up' # <<"enter">> /\ \A q \in Requests : ~LiveIn(q, EnterPC)'
      <4>1. CASE Shows
        BY <2>1, <2>5, <4>1 DEF Link, OneAsked
      <4>2. CASE LiveIn(r, ReconnectPC)
        <5>1. ASSUME NEW q \in Requests PROVE ~LiveIn(q, EnterPC)
          BY <4>2 DEF Link, OneAsked, EnterPC, ReconnectPC
        <5>2. QED BY <2>1, <2>5, <2>6, <4>2, <5>1, SentFacts
      <4>3. QED BY <2>10, <3>4, <4>1, <4>2
    <3>5. QED BY <3>1, <3>2, <3>3, <3>4 DEF OneAsked
  <2>12. QED BY <2>9, <2>11 DEF Link
<1>14. ASSUME NEW a \in Admitters, Admission(a) PROVE Link'
  <2>1. UNCHANGED <<req, sock, up, conn, phase>> /\ (UNCHANGED down \/ Emit("admitted"))
    BY <1>14, AdmissionEffect DEF Admission
  <2>2. Shows' => Shows
    BY <2>1, ComingEmit, DownSame DEF Shows, Events
  <2>3. QED BY <2>1, <2>2, LinkPage
<1>15. CASE Drop \/ Others
  <2>1. UNCHANGED <<req, sock, up, conn, phase, down>>
    BY <1>15, DropEffect, OthersEffect DEF Drop, wire, pageVars
  <2>2. QED BY <1>1, <2>1
<1>16. CASE UNCHANGED <<vars, pageVars>>
  BY <1>1, <1>16 DEF vars, pageVars
<1>17. CASE BroadcastFails
  <2>1. UNCHANGED <<req, sock, up, conn, phase>> /\ Emit("error")
    BY <1>17, BroadcastFailsEffect DEF view
  <2>2. Shows' => Shows
    BY <2>1, ComingEmit DEF Shows, Events
  <2>3. QED BY <2>1, <2>2, LinkPage
<1>18. ASSUME NEW r \in Requests, HandleFails(r) PROVE Link'
  <2>1. /\ UNCHANGED <<sock, up, conn, phase>> /\ (UNCHANGED down \/ Emit("error"))
        /\ req'[r] = IdleRequest /\ \A q \in Requests \ {r} : req'[q] = req[q]
    BY <1>18, HandleFailsEffect DEF view
  <2>2. \A q \in Requests : Live(q)' => req'[q] = req[q]
    BY <2>1 DEF IdleRequest
  <2>3. Shows' => Shows
    BY <2>1, ComingEmit, DownSame DEF Shows, Events
  <2>4. Mine'
    BY <1>0, <2>1 DEF Mine, IdleRequest
  <2>5. SocketShape'
    BY <2>1, <2>2, <2>4 DEF Link, SocketShape
  <2>6. OneAsked'
    BY <2>1, <2>2, <2>3 DEF Link, OneAsked
  <2>7. QED BY <2>5, <2>6 DEF Link
<1>19. ASSUME NEW a \in Admitters, AdmissionFails(a) PROVE Link'
  BY <1>1, <1>19, AdmissionFailsEffect
<1>20. CASE ServerCrash
  <2>1. /\ conn' # "open" /\ up' = <<>> /\ sock'[Me] = "none"
        /\ \A r \in Requests : req'[r] = IdleRequest
    BY <1>20, CrashEffect
  <2>2. SocketShape'
    BY <2>1 DEF SocketShape, Mine, Sent, IdleRequest
  <2>3. OneAsked'
    BY <2>1, SentFacts DEF OneAsked, Shows, IdleRequest
  <2>4. QED BY <2>2, <2>3 DEF Link
<1>21. QED BY <1>3, <1>4, <1>5, <1>6, <1>7, <1>8, <1>9, <1>10, <1>11, <1>12, <1>13, <1>14, <1>15,
              <1>16, <1>17, <1>18, <1>19, <1>20 DEF PageNext

-----------------------------------------------------------------------------
(* The page in the queue is told.                                          *)

\* The page's socket has entered, or is about to join the concert's room.
Entered ==
    conn = "open" /\ (sock[Me] = "joined" \/ \E r \in Requests : Live(r) /\ At(r, "enter.join"))

\* The user has left the queue neither by a disconnect job or an earlier socket
\* nor in an admission that failed, and is not just being moved in.
Out == ~dropped /\ ~Waiting(Me) /\ \A a \in Admitters : ~LettingIn(a)

Places == {"position", "restored"}

\* The page does not show the queue once it has received what is on its way.
Past ==
    \/ \E i \in 1..Len(down) :
          down[i] = "admitted" /\ \A j \in 1..Len(down) : i < j => down[j] \notin Places
    \/ phase # "in_queue" /\ ~Coming(Places)

Told == Entered /\ Out => Past

LEMMA PastEmit ==
    ASSUME EventsOK, NEW e \in Events \ Places, Emit(e), UNCHANGED phase, Past
    PROVE  Past'
<1>1. CASE UNCHANGED down
  BY <1>1 DEF Past, Coming
<1>2. CASE ~UNCHANGED down
  <2>1. /\ Len(down') = Len(down) + 1 /\ Len(down) \in Nat
        /\ \A i \in 1..Len(down) : down'[i] = down[i]
        /\ down'[Len(down) + 1] = e
    BY <1>2, DownEmit
  <2>2. ASSUME NEW i \in 1..Len(down), down[i] = "admitted",
               \A j \in 1..Len(down) : i < j => down[j] \notin Places
        PROVE  Past'
    <3>1. i \in 1..Len(down') /\ down'[i] = "admitted"
      BY <2>1, <2>2
    <3>2. \A j \in 1..Len(down') : i < j => down'[j] \notin Places
      BY <2>1, <2>2
    <3>3. QED BY <3>1, <3>2 DEF Past
  <2>3. ASSUME phase # "in_queue" /\ ~Coming(Places) PROVE Past'
    <3>1. ~Coming(Places)'
      BY <2>3, ComingEmit
    <3>2. QED BY <2>3, <3>1 DEF Past
  <2>4. QED BY <2>2, <2>3 DEF Past
<1>3. QED BY <1>1, <1>2

LEMMA PastAdmitted ==
    ASSUME EventsOK, Emit("admitted"), conn = "open", sock[Me] # "none"
    PROVE  Past'
<1>1. /\ Len(down') = Len(down) + 1 /\ Len(down) \in Nat
      /\ down'[Len(down) + 1] = "admitted"
  BY DEF Emit, EventsOK, Events
<1>2. QED BY <1>1 DEF Past

LEMMA PastTail ==
    ASSUME EventsOK, Receive, Past
    PROVE  Past'
<1>1. /\ down # <<>> /\ down' = Tail(down)
      /\ Head(down) = "admitted" => phase' = "admitted"
      /\ phase' = "in_queue" => phase = "in_queue" \/ Head(down) \in Places
  BY DEF Receive, OnPosition, OnAdmitted, OnError, Places
<1>2. /\ Len(down) \in Nat \ {0} /\ Len(down') = Len(down) - 1 /\ Head(down) = down[1]
      /\ \A i \in 1..Len(down') : down'[i] = down[i + 1]
  BY <1>1, DownTail
<1>3. ASSUME NEW i \in 1..Len(down), down[i] = "admitted",
             \A j \in 1..Len(down) : i < j => down[j] \notin Places
      PROVE  Past'
  <2>1. \A j \in 1..Len(down') : i < j + 1 => down'[j] \notin Places
    BY <1>2, <1>3
  <2>2. CASE i = 1
    <3>1. phase' # "in_queue" /\ ~Coming(Places)'
      BY <1>1, <1>2, <1>3, <2>1, <2>2 DEF Coming
    <3>2. QED BY <3>1 DEF Past
  <2>3. CASE i # 1
    <3>1. i - 1 \in 1..Len(down') /\ down'[i - 1] = "admitted"
      BY <1>2, <1>3, <2>3
    <3>2. \A j \in 1..Len(down') : i - 1 < j => down'[j] \notin Places
      BY <1>2, <2>1
    <3>3. QED BY <3>1, <3>2 DEF Past
  <2>4. QED BY <2>2, <2>3
<1>4. ASSUME phase # "in_queue" /\ ~Coming(Places) PROVE Past'
  <2>1. phase' # "in_queue" /\ ~Coming(Places)'
    BY <1>1, <1>4, ComingTail
  <2>2. QED BY <2>1 DEF Past
<1>5. QED BY <1>3, <1>4 DEF Past

LEMMA ToldStep ==
    ASSUME TypeOK, ShownOK, EventsOK, PageShape, Link, Told, [PageNext]_<<vars, pageVars>>
    PROVE  Told'
<1> USE DEF Live, LiveIn
<1>0. Mine
  BY DEF Link, SocketShape
<1>1. ASSUME conn' # "open" PROVE Told'
  BY <1>1 DEF Told, Entered
<1>2. ASSUME UNCHANGED <<req, sock, conn, score, adm, dropped>>, Past => Past' PROVE Told'
  BY <1>2 DEF Told, Entered, Out, At, Waiting, LettingIn
<1>3. ASSUME UNCHANGED <<down, phase>> PROVE Past => Past'
  BY <1>3 DEF Past, Coming
<1>4. CASE Reload \/ Navigate \/ LeaveQueue \/ SocketLost
  BY <1>1, <1>4 DEF Reload, Navigate, Mount, LeaveQueue, SocketLost
<1>5. CASE InitConcert \/ InitStatus \/ InitAnswer
  BY <1>1, <1>5 DEF PageShape, InitConcert, InitStatus, InitAnswer, ConnectSocket, wire
<1>6. CASE EnterQueue
  <2>1. UNCHANGED <<req, sock, score, adm, dropped, down>> /\ phase' = "entering"
        /\ (conn' = "open" => conn = "open")
    BY <1>6 DEF EnterQueue, ConnectSocket, vars
  <2>2. Past => Past'
    BY <2>1 DEF Past, Coming
  <2>3. QED BY <2>1, <2>2 DEF Told, Entered, Out, At, Waiting, LettingIn
<1>7. CASE SocketConnect
  <2>1. UNCHANGED req /\ sock[Me] = "none" /\ sock'[Me] = "open"
    BY <1>7, MeIsUser DEF SocketConnect, Connect, TypeOK
  <2>2. \A r \in Requests : ~Live(r)
    BY <2>1 DEF Link, SocketShape
  <2>3. QED BY <2>1, <2>2 DEF Told, Entered
<1>8. CASE Receive
  <2>1. UNCHANGED <<req, sock, conn, score, adm, dropped>>
    BY <1>8 DEF Receive, vars
  <2>2. QED BY <1>2, <1>8, <2>1, PastTail
<1>9. CASE Broadcast
  <2>1. /\ UNCHANGED <<req, sock, conn, phase, score, adm, dropped>>
        /\ UNCHANGED down \/ Waiting(Me)
    BY <1>9, Zenon DEF Broadcast, view, vars
  <2>2. CASE UNCHANGED down
    BY <1>2, <1>3, <2>1, <2>2
  <2>3. CASE Waiting(Me)
    BY <2>1, <2>3 DEF Told, Out, Waiting
  <2>4. QED BY <2>1, <2>2, <2>3
<1>10. ASSUME NEW r \in Requests, SocketClosed(r) PROVE Told'
  BY <1>1, <1>10 DEF SocketClosed
<1>11. ASSUME NEW r \in Requests, Deliver(r) PROVE Told'
  <2>1. UNCHANGED <<sock, conn, phase, score, adm, dropped>>
    BY <1>11 DEF Deliver, EnterBegin, LeaveBegin, ReconnectBegin, view, vars, sessionVars
  <2>2. UNCHANGED down \/ Emit("error")
    BY <1>11 DEF Deliver
  <2>3. Past => Past'
    BY <1>3, <2>1, <2>2, PastEmit DEF Events, Places
  <2>4. \/ UNCHANGED req
        \/ \E pc \in {"enter.waiting", "leave.waiting", "reconnect.has"} : Begin(r, Me, pc, TRUE)
    BY <1>11 DEF Deliver, EnterBegin, LeaveBegin, ReconnectBegin, vars
  <2>5. \A q \in Requests : req'[q] = req[q] \/ req'[q].pc # "enter.join"
    BY <2>4, BeginEffect
  <2>6. Entered' => Entered
    BY <2>1, <2>5 DEF Entered, At
  <2>7. Out' => Out
    BY <2>1 DEF Out, Waiting, LettingIn
  <2>8. QED BY <2>3, <2>6, <2>7 DEF Told
<1>12. ASSUME NEW r \in Requests, Handle(r), Entered', Out' PROVE Past'
  <2>1. UNCHANGED <<phase, conn>> /\ FollowedBy(r)
    BY <1>0, <1>12, HandleEffect DEF Handle
  <2>2. /\ UNCHANGED adm
        /\ \A q \in Requests \ {r} : SameAt(q)
        /\ req'[r].pc = "enter.join" => At(r, "enter.add")
        /\ Waiting(Me)' <=> At(r, "enter.add") \/ (Waiting(Me) /\ ~At(r, "leave.remove"))
    BY <2>1 DEF FollowedBy, At
  <2>3. sock'[Me] = IF ~Live(r) THEN sock[Me]
                    ELSE CASE At(r, "enter.join") -> "joined"
                           [] At(r, "leave.remove") -> "open"
                           [] At(r, "reconnect.join") -> "restored"
                           [] OTHER -> sock[Me]
    BY <2>1 DEF FollowedBy
  <2>4. ~At(r, "enter.add") /\ ~Waiting(Me)'
    BY <1>12, <2>2 DEF Out
  <2>5. PICK q \in Requests : \/ sock'[Me] = "joined"
                              \/ Live(q)' /\ At(q, "enter.join")'
    BY <1>12 DEF Entered
  <2>6. Live(r) => ~At(r, "leave.remove") /\ ~At(r, "reconnect.join")
    <3>1. CASE sock'[Me] = "joined"
      BY <2>3, <3>1 DEF At
    <3>2. CASE Live(q)' /\ At(q, "enter.join")'
      <4>1. q # r
        BY <2>2, <2>4, <3>2 DEF At
      <4>2. LiveIn(q, EnterPC)
        BY <2>2, <3>2, <4>1 DEF At, SameAt, EnterPC
      <4>3. ~Live(r)
        BY <4>1, <4>2 DEF Link, OneAsked
      <4>4. QED BY <4>3
    <3>3. QED BY <2>5, <3>1, <3>2
  <2>7. Entered
    <3>1. CASE sock'[Me] = "joined"
      BY <1>12, <2>1, <2>3, <2>6, <3>1 DEF Entered
    <3>2. CASE Live(q)' /\ At(q, "enter.join")'
      <4>1. q # r
        BY <2>2, <2>4, <3>2 DEF At
      <4>2. Live(q) /\ At(q, "enter.join")
        BY <2>2, <3>2, <4>1 DEF At, SameAt
      <4>3. QED BY <1>12, <2>1, <4>2 DEF Entered
    <3>3. QED BY <2>5, <3>1, <3>2
  <2>8. Out
    <3>1. dropped' = (dropped \/ (At(r, "leave.remove") /\ ~Live(r)))
      BY <1>12, <2>4 DEF Handle, Behind
    <3>2. ~dropped /\ ~At(r, "leave.remove")
      BY <1>12, <2>6, <3>1 DEF Out
    <3>3. ~Waiting(Me)
      BY <2>2, <2>4, <3>2
    <3>4. \A a \in Admitters : ~LettingIn(a)
      BY <1>12, <2>2 DEF Out, LettingIn
    <3>5. QED BY <3>2, <3>3, <3>4 DEF Out
  <2>9. UNCHANGED down \/ Emit("error")
    BY <1>12, <2>6 DEF Handle, At
  <2>10. QED BY <1>3, <2>1, <2>7, <2>8, <2>9, PastEmit DEF Told, Events, Places
<1>13. ASSUME NEW a \in Admitters, Admission(a) PROVE Told'
  <2>1. UNCHANGED <<phase, conn, dropped>> /\ UNCHANGED <<req, sock>>
    BY <1>13, AdmissionEffect DEF Admission
  <2>2. Entered' => Entered
    BY <2>1 DEF Entered, At
  <2>3. CASE LettingIn(a)
    <3>1. Entered => conn = "open" /\ sock[Me] # "none"
      BY DEF Entered, Link, SocketShape
    <3>2. Emit("admitted")
      BY <1>13, <2>3 DEF Admission
    <3>3. QED BY <2>2, <3>1, <3>2, PastAdmitted DEF Told
  <2>4. CASE ~LettingIn(a)
    <3>1. UNCHANGED down
      BY <1>13, <2>4 DEF Admission
    <3>2. /\ \A b \in Admitters \ {a} : LettingIn(b)' <=> LettingIn(b)
          /\ Waiting(Me) /\ ~Waiting(Me)' => LettingIn(a)'
      BY <1>13, <2>4, AdmissionEffect DEF Admission
    <3>3. Out' => Out
      BY <2>1, <2>4, <3>2 DEF Out
    <3>4. QED BY <1>3, <2>1, <2>2, <3>1, <3>3 DEF Told
  <2>5. QED BY <2>3, <2>4
<1>14. CASE Drop
  <2>1. /\ UNCHANGED <<req, sock, adm, phase, conn, down>>
        /\ Waiting(Me)' => Waiting(Me)
        /\ Waiting(Me) /\ ~Waiting(Me)' => dropper = Me
    BY <1>14, DropEffect DEF Drop, wire
  <2>2. dropped' = (dropped \/ dropper = Me)
    BY <1>14, <2>1 DEF Drop, Behind
  <2>3. Out' => Out
    BY <2>1, <2>2 DEF Out, LettingIn
  <2>4. Entered' => Entered
    BY <2>1 DEF Entered, At
  <2>5. QED BY <1>3, <2>1, <2>3, <2>4 DEF Told
<1>15. CASE Others
  <2>1. /\ UNCHANGED <<req, sock, score, conn, phase, down, dropped>>
        /\ \A b \in Admitters : LettingIn(b)' <=> LettingIn(b)
    BY <1>15, OthersEffect DEF pageVars
  <2>2. (Out' <=> Out) /\ (Entered' <=> Entered)
    BY <2>1 DEF Out, Entered, Waiting, At
  <2>3. QED BY <1>3, <2>1, <2>2 DEF Told
<1>16. CASE UNCHANGED <<vars, pageVars>>
  BY <1>2, <1>3, <1>16 DEF vars, pageVars
<1>17. ASSUME UNCHANGED phase, UNCHANGED down \/ Emit("error") PROVE Past => Past'
  BY <1>3, <1>17, PastEmit DEF Events, Places
<1>18. CASE BroadcastFails
  <2>1. UNCHANGED <<req, sock, conn, phase, score, adm, dropped>> /\ Emit("error")
    BY <1>18, BroadcastFailsEffect DEF view
  <2>2. QED BY <1>2, <1>17, <2>1
<1>19. ASSUME NEW r \in Requests, HandleFails(r) PROVE Told'
  <2>1. /\ UNCHANGED <<sock, conn, phase, score, adm, dropped>> /\ (UNCHANGED down \/ Emit("error"))
        /\ req'[r] = IdleRequest /\ \A q \in Requests \ {r} : req'[q] = req[q]
    BY <1>19, HandleFailsEffect DEF view
  <2>2. Entered' => Entered
    BY <2>1 DEF Entered, At, IdleRequest
  <2>3. Out' => Out
    BY <2>1 DEF Out, Waiting, LettingIn
  <2>4. QED BY <1>17, <2>1, <2>2, <2>3 DEF Told
<1>20. ASSUME NEW a \in Admitters, AdmissionFails(a) PROVE Told'
  <2>1. /\ UNCHANGED <<req, sock, score, conn, phase, down>>
        /\ \A b \in Admitters : LettingIn(b) => LettingIn(b)' \/ b = a
        /\ dropped' = (dropped \/ LettingIn(a))
    BY <1>20, AdmissionFailsEffect
  <2>2. Entered' => Entered
    BY <2>1 DEF Entered, At
  <2>3. Out' => Out
    BY <2>1 DEF Out, Waiting
  <2>4. QED BY <1>3, <2>1, <2>2, <2>3 DEF Told
<1>21. CASE ServerCrash
  BY <1>1, <1>21, CrashEffect
<1>22. QED BY <1>4, <1>5, <1>6, <1>7, <1>8, <1>9, <1>10, <1>11, <1>12, <1>13, <1>14, <1>15,
              <1>16, <1>18, <1>19, <1>20, <1>21 DEF PageNext, Told

-----------------------------------------------------------------------------
(* An admission stays shown.                                               *)

\* The page shows the admission, or it will.
Admits == phase = "admitted" \/ init = "ADMITTED" \/ Coming({"admitted"})

\* A user who has been let in is out of the queue, and nothing in progress
\* puts them into it: while the key exists a request to enter is refused, and
\* it outlives whatever was under way at the admission.
OutForGood ==
    /\ Me \in admitted =>
          ~Waiting(Me) /\ \A r \in Requests : req[r].pc \notin {"enter.add", "enter.join"}
    /\ Admits /\ Me \notin admitted =>
          ~Waiting(Me) /\ up # <<"enter">> /\ \A r \in Requests : req[r].pc \notin EnterPC

\* No position follows the admission.
Last ==
    /\ phase = "admitted" => ~Coming({"position"})
    /\ \A i, j \in 1..Len(down) : i < j /\ down[i] = "admitted" => down[j] # "position"

AdmittedInv == ~crossed => OutForGood /\ Last

LEMMA OutStep ==
    ASSUME TypeOK, ShownOK, EventsOK, PageShape, Link, OutForGood, ~crossed,
           PageNext, ~crossed'
    PROVE  OutForGood'
<1>0. Mine
  BY DEF Link, SocketShape
<1>1. ASSUME UNCHANGED <<req, score, admitted>>, Admits' => Admits,
             up' # up => up' # <<"enter">>
      PROVE  OutForGood'
  BY <1>1 DEF OutForGood, Waiting
<1>2. ASSUME UNCHANGED <<phase, init, down>> PROVE Admits' => Admits
  BY <1>2, DownSame DEF Admits
<1>3. ASSUME UNCHANGED <<phase, init>>,
             \/ UNCHANGED down
             \/ \E e \in {"error", "restored", "position"} : Emit(e)
      PROVE  Admits' => Admits
  BY <1>2, <1>3, ComingEmit DEF Admits, Events
<1>4. CASE Reload \/ Navigate
  <2>1. ~Admits'
    BY <1>4, DownLost DEF Reload, Navigate, Mount, Admits
  <2>2. QED BY <1>1, <1>4, <2>1 DEF Reload, Navigate, Mount, vars
<1>5. CASE InitConcert
  <2>1. UNCHANGED <<req, score, admitted, up, down>>
        /\ (phase' = phase \/ phase' = "concert_error") /\ init' \in {"isAdmitted", "off"}
    BY <1>5 DEF InitConcert, wire, vars
  <2>2. Admits' => Admits
    BY <2>1, DownSame DEF Admits
  <2>3. QED BY <1>1, <2>1, <2>2
<1>6. CASE InitStatus
  <2>1. /\ UNCHANGED <<req, score, admitted, up, down, phase>>
        /\ init' = "ADMITTED" => Me \in admitted
    BY <1>6 DEF InitStatus, wire, vars
  <2>2. CASE Me \in admitted
    BY <2>1, <2>2 DEF OutForGood, Waiting
  <2>3. CASE Me \notin admitted
    <3>1. Admits' => Admits
      BY <2>1, <2>3, DownSame DEF Admits
    <3>2. QED BY <1>1, <2>1, <3>1
  <2>4. QED BY <2>2, <2>3
<1>7. CASE InitAnswer
  <2>1. /\ UNCHANGED <<req, score, admitted, up, down>> /\ init' = "off"
        /\ phase' = "admitted" => init = "ADMITTED"
    BY <1>7 DEF InitAnswer, vars
  <2>2. Admits' => Admits
    BY <2>1, DownSame DEF Admits
  <2>3. QED BY <1>1, <2>1, <2>2
<1>8. CASE EnterQueue
  <2>1. UNCHANGED <<req, score, admitted, up, down, init>> /\ phase' = "entering"
    BY <1>8 DEF EnterQueue, vars
  <2>2. Admits' => Admits
    BY <2>1, DownSame DEF Admits
  <2>3. QED BY <1>1, <2>1, <2>2
<1>9. CASE LeaveQueue
  <2>1. UNCHANGED <<req, score, admitted, init>> /\ phase' = "idle" /\ down' = <<>> /\ init = "off"
    BY <1>9 DEF LeaveQueue, vars, PageShape
  <2>2. ~Admits'
    BY <2>1, DownLost DEF Admits
  <2>3. QED BY <2>1, <2>2 DEF OutForGood, Waiting
<1>10. CASE SocketConnect
  <2>1. /\ UNCHANGED <<req, score, admitted, init, phase, down>> /\ conn = "connecting"
        /\ up' = IF saved THEN <<"reconnect">> ELSE IF entering THEN <<"enter">> ELSE <<>>
    BY <1>10 DEF SocketConnect, Connect
  <2>2. init = "off" /\ ~Coming({"admitted"})
    BY <2>1, DownLost DEF PageShape, EventsOK, Coming
  <2>3. Admits' => phase = "admitted" /\ Admits
    BY <2>1, <2>2, DownSame DEF Admits
  <2>4. Admits' => up' # <<"enter">>
    BY <2>1, <2>3, SentFacts DEF PageShape
  <2>5. QED BY <2>1, <2>3, <2>4 DEF OutForGood, Waiting
<1>11. CASE SocketLost
  <2>1. UNCHANGED <<req, score, admitted, init, phase>> /\ up' = <<>> /\ down' = <<>>
    BY <1>11 DEF SocketLost, vars
  <2>2. Admits' => Admits
    BY <2>1, DownLost DEF Admits
  <2>3. QED BY <1>1, <2>1, <2>2, SentFacts
<1>12. CASE Receive
  <2>1. /\ UNCHANGED <<req, score, admitted, up, init>> /\ down # <<>> /\ down' = Tail(down)
        /\ phase' = "admitted" => phase = "admitted" \/ Head(down) \in {"admitted"}
    BY <1>12 DEF Receive, OnPosition, OnAdmitted, OnError, vars
  <2>2. Admits' => Admits
    BY <2>1, ComingTail DEF Admits
  <2>3. QED BY <1>1, <2>1, <2>2
<1>13. CASE Broadcast
  <2>1. UNCHANGED <<req, score, admitted, up, init, phase>> /\ (UNCHANGED down \/ Emit("position"))
    BY <1>13, Zenon DEF Broadcast, view, vars
  <2>2. QED BY <1>1, <1>3, <2>1
<1>14. ASSUME NEW r \in Requests, SocketClosed(r) PROVE OutForGood'
  <2>1. /\ UNCHANGED <<score, admitted, phase, init, down, up>>
        /\ \A q \in Requests : req'[q].pc = req[q].pc \/ req'[q].pc = "disconnect.waiting"
    BY <1>0, <1>14, CloseEffect DEF SocketClosed, view
  <2>2. Admits' => Admits
    BY <1>2, <2>1
  <2>3. QED BY <2>1, <2>2 DEF OutForGood, Waiting, EnterPC
<1>15. ASSUME NEW r \in Requests, Deliver(r) PROVE OutForGood'
  <2>1. /\ UNCHANGED <<score, admitted, phase, init>> /\ up # <<>> /\ up' = Tail(up)
        /\ UNCHANGED down \/ Emit("error")
    BY <1>15, Zenon DEF Deliver, view, vars, EnterBegin, LeaveBegin, ReconnectBegin
  <2>2. Admits' => Admits
    BY <1>3, <2>1
  <2>3. up' # <<"enter">> /\ (Head(up) = "enter" => up = <<"enter">>)
    BY <2>1, SentFacts DEF Link, SocketShape, Sent
  <2>4. \/ UNCHANGED req
        \/ \E pc \in {"enter.waiting", "leave.waiting", "reconnect.has"} :
              Begin(r, Me, pc, TRUE) /\ (pc = "enter.waiting" => Head(up) = "enter")
    BY <1>15 DEF Deliver, EnterBegin, LeaveBegin, ReconnectBegin, vars
  <2>5. \A q \in Requests : \/ req'[q].pc = req[q].pc
                            \/ req'[q].pc \in {"leave.waiting", "reconnect.has"}
                            \/ req'[q].pc = "enter.waiting" /\ up = <<"enter">>
    BY <2>3, <2>4, BeginEffect
  <2>6. QED BY <2>1, <2>2, <2>3, <2>5 DEF OutForGood, Waiting, EnterPC
<1>16. ASSUME NEW r \in Requests, Handle(r) PROVE OutForGood'
  <2>1. UNCHANGED <<phase, init, up>> /\ FollowedBy(r)
    BY <1>0, <1>16, HandleEffect DEF Handle
  <2>2. UNCHANGED down \/ Emit("error") \/ Emit("restored")
    BY <1>16 DEF Handle
  <2>3. Admits' => Admits
    BY <1>3, <2>1, <2>2
  <2>4. /\ UNCHANGED admitted
        /\ \A q \in Requests \ {r} : SameAt(q)
        /\ req'[r].pc = "enter.join" => req[r].pc = "enter.add"
        /\ req'[r].pc = "enter.add" => Me \notin admitted
        /\ Waiting(Me)' => At(r, "enter.add") \/ Waiting(Me)
    BY <2>1 DEF FollowedBy
  <2>5. req'[r].pc \in EnterPC => req[r].pc \in EnterPC
    <3>1. \/ req'[r] = IdleRequest
          \/ \E K \in Kinds : req[r].pc \in K /\ req'[r].pc \in K
      BY <2>1 DEF FollowedBy
    <3>2. QED BY <3>1 DEF Kinds, IdleRequest, EnterPC, LeavePC, ReconnectPC, DisconnectPC
  <2>6. ASSUME Me \in admitted'
        PROVE  ~Waiting(Me)' /\ \A q \in Requests : req'[q].pc \notin {"enter.add", "enter.join"}
    BY <2>4, <2>6 DEF OutForGood, SameAt, At
  <2>7. ASSUME Admits', Me \notin admitted'
        PROVE  ~Waiting(Me)' /\ up' # <<"enter">> /\ \A q \in Requests : req'[q].pc \notin EnterPC
    <3>1. ~Waiting(Me) /\ up # <<"enter">> /\ \A q \in Requests : req[q].pc \notin EnterPC
      BY <2>3, <2>4, <2>7 DEF OutForGood
    <3>2. ~Waiting(Me)'
      BY <2>4, <3>1 DEF At, EnterPC
    <3>3. QED BY <2>1, <2>4, <2>5, <3>1, <3>2 DEF SameAt
  <2>8. QED BY <2>6, <2>7 DEF OutForGood
<1>17. ASSUME NEW a \in Admitters, Admission(a) PROVE OutForGood'
  <2>1. UNCHANGED <<phase, init, up>> /\ UNCHANGED req /\ (Waiting(Me)' => Waiting(Me))
    BY <1>17, AdmissionEffect DEF Admission
  <2>2. CASE LettingIn(a)
    <3>1. ~Waiting(Me) /\ \A r \in Requests : req[r].pc \notin EnterPC
      BY <1>17, <2>2 DEF Admission
    <3>2. Me \in admitted'
      BY <1>17, <2>2, AdmissionEffect DEF Admission
    <3>3. QED BY <2>1, <3>1, <3>2 DEF OutForGood, EnterPC
  <2>3. CASE ~LettingIn(a)
    <3>1. UNCHANGED down
      BY <1>17, <2>3 DEF Admission
    <3>2. Me \in admitted' <=> Me \in admitted
      BY <1>17, <2>3, AdmissionEffect DEF Admission
    <3>3. Admits' => Admits
      BY <1>2, <2>1, <3>1
    <3>4. QED BY <2>1, <3>2, <3>3 DEF OutForGood
  <2>4. QED BY <2>2, <2>3
<1>18. CASE Drop
  <2>1. UNCHANGED <<phase, init, up, down>> /\ UNCHANGED <<req, admitted>>
        /\ (Waiting(Me)' => Waiting(Me))
    BY <1>18, DropEffect DEF Drop, wire
  <2>2. QED BY <1>2, <2>1 DEF OutForGood
<1>19. CASE Others
  <2>1. /\ UNCHANGED <<phase, init, up, down>> /\ UNCHANGED <<req, score>>
        /\ admitted' = admitted \/ (Settled /\ admitted' \subseteq admitted)
    BY <1>19, OthersEffect DEF pageVars
  <2>2. CASE admitted' = admitted
    BY <1>1, <1>2, <2>1, <2>2
  <2>3. CASE Settled /\ admitted' \subseteq admitted
    <3>1. up # <<"enter">> /\ \A r \in Requests : req[r].pc \notin EnterPC
      BY <2>3, SentFacts DEF Settled, IdleRequest, EnterPC
    <3>2. Admits' => Admits
      BY <1>2, <2>1
    <3>3. QED BY <2>1, <2>3, <3>1, <3>2 DEF OutForGood, Waiting
  <2>4. QED BY <2>1, <2>2, <2>3
<1>20. CASE BroadcastFails
  <2>1. UNCHANGED <<req, score, admitted, up, init, phase>> /\ Emit("error")
    BY <1>20, BroadcastFailsEffect DEF view
  <2>2. QED BY <1>1, <1>3, <2>1
<1>21. ASSUME NEW r \in Requests, HandleFails(r) PROVE OutForGood'
  <2>1. /\ UNCHANGED <<score, admitted, up, init, phase>> /\ (UNCHANGED down \/ Emit("error"))
        /\ req'[r] = IdleRequest /\ \A q \in Requests \ {r} : req'[q] = req[q]
    BY <1>21, HandleFailsEffect DEF view
  <2>2. Admits' => Admits
    BY <1>3, <2>1
  <2>3. \A q \in Requests : req'[q].pc \in EnterPC => req'[q].pc = req[q].pc
    BY <2>1 DEF IdleRequest, EnterPC
  <2>4. QED BY <2>1, <2>2, <2>3 DEF OutForGood, Waiting, EnterPC
<1>22. ASSUME NEW a \in Admitters, AdmissionFails(a) PROVE OutForGood'
  BY <1>1, <1>2, <1>22, AdmissionFailsEffect
<1>23. CASE ServerCrash
  <2>1. /\ UNCHANGED <<score, admitted, init, phase>> /\ up' = <<>> /\ down' = <<>>
        /\ \A q \in Requests : req'[q] = IdleRequest
    BY <1>23, CrashEffect
  <2>2. Admits' => Admits
    BY <2>1, DownLost DEF Admits
  <2>3. QED BY <2>1, <2>2, SentFacts DEF OutForGood, Waiting, IdleRequest, EnterPC
<1>24. QED BY <1>4, <1>5, <1>6, <1>7, <1>8, <1>9, <1>10, <1>11, <1>12, <1>13, <1>14, <1>15, <1>16,
              <1>17, <1>18, <1>19, <1>20, <1>21, <1>22, <1>23 DEF PageNext

LEMMA LastEmit ==
    ASSUME EventsOK, Last, NEW e \in Events \ {"position"}, Emit(e), UNCHANGED phase
    PROVE  Last'
<1>1. phase' = "admitted" => ~Coming({"position"})'
  BY ComingEmit DEF Last
<1>2. CASE UNCHANGED down
  BY <1>1, <1>2 DEF Last
<1>3. CASE ~UNCHANGED down
  <2>1. /\ Len(down') = Len(down) + 1 /\ Len(down) \in Nat
        /\ \A i \in 1..Len(down) : down'[i] = down[i]
        /\ down'[Len(down) + 1] = e
    BY <1>3, DownEmit
  <2>2. ASSUME NEW i \in 1..Len(down'), NEW j \in 1..Len(down'), i < j, down'[i] = "admitted"
        PROVE  down'[j] # "position"
    <3>1. CASE j = Len(down) + 1
      BY <2>1, <3>1
    <3>2. CASE j # Len(down) + 1
      <4>1. i \in 1..Len(down) /\ j \in 1..Len(down)
        BY <2>1, <2>2, <3>2
      <4>2. QED BY <2>1, <2>2, <4>1 DEF Last
    <3>3. QED BY <3>1, <3>2
  <2>3. QED BY <1>1, <2>2 DEF Last
<1>4. QED BY <1>2, <1>3

LEMMA LastStep ==
    ASSUME ShownOK, EventsOK, PageShape, OutForGood, Last, PageNext
    PROVE  Last'
<1>1. ASSUME UNCHANGED down, phase' = "admitted" => phase = "admitted" PROVE Last'
  BY <1>1, DownSame DEF Last
<1>2. ASSUME down' = <<>> PROVE Last'
  BY <1>2, DownLost DEF Last
<1>3. CASE Reload \/ Navigate \/ LeaveQueue \/ SocketLost
  BY <1>2, <1>3 DEF Reload, Navigate, Mount, LeaveQueue, SocketLost
<1>4. CASE InitConcert \/ InitStatus \/ InitAnswer
  <2>1. down' = <<>>
    BY <1>4 DEF InitConcert, InitStatus, InitAnswer, PageShape, EventsOK, wire
  <2>2. QED BY <1>2, <2>1
<1>5. CASE EnterQueue \/ SocketConnect
  BY <1>1, <1>5 DEF EnterQueue, SocketConnect
<1>6. CASE Receive
  <2>1. /\ down # <<>> /\ down' = Tail(down)
        /\ phase' = "admitted" => phase = "admitted" \/ Head(down) = "admitted"
    BY <1>6 DEF Receive, OnPosition, OnAdmitted, OnError
  <2>2. /\ Len(down) \in Nat \ {0} /\ Len(down') = Len(down) - 1 /\ Head(down) = down[1]
        /\ \A i \in 1..Len(down') : down'[i] = down[i + 1]
    BY <2>1, DownTail
  <2>3. ASSUME NEW i \in 1..Len(down'), NEW j \in 1..Len(down'), i < j, down'[i] = "admitted"
        PROVE  down'[j] # "position"
    <3>1. i + 1 \in 1..Len(down) /\ j + 1 \in 1..Len(down) /\ i + 1 < j + 1
      BY <2>2, <2>3
    <3>2. QED BY <2>2, <2>3, <3>1 DEF Last
  <2>4. ASSUME phase' = "admitted", NEW j \in 1..Len(down') PROVE down'[j] # "position"
    <3>1. 1 \in 1..Len(down) /\ j + 1 \in 1..Len(down) /\ 1 < j + 1 /\ down'[j] = down[j + 1]
      BY <2>2
    <3>2. CASE phase = "admitted"
      BY <3>1, <3>2 DEF Last, Coming
    <3>3. CASE Head(down) = "admitted"
      BY <2>2, <3>1, <3>3 DEF Last
    <3>4. QED BY <2>1, <2>4, <3>2, <3>3
  <2>5. QED BY <2>3, <2>4 DEF Last, Coming
<1>7. CASE Broadcast
  <2>1. UNCHANGED phase /\ (UNCHANGED down \/ (Waiting(Me) /\ Emit("position")))
    BY <1>7, Zenon DEF Broadcast, view
  <2>2. CASE UNCHANGED down
    BY <1>1, <2>1, <2>2
  <2>3. CASE Waiting(Me) /\ Emit("position")
    <3>1. ~Admits
      BY <2>3 DEF OutForGood
    <3>2. phase' # "admitted" /\ ~Coming({"admitted"})'
      BY <2>1, <2>3, <3>1, ComingEmit DEF Admits, Events
    <3>3. QED BY <3>2 DEF Last, Coming
  <2>4. QED BY <2>1, <2>2, <2>3
<1>8. ASSUME NEW r \in Requests, SocketClosed(r) PROVE Last'
  BY <1>1, <1>8 DEF SocketClosed, view
<1>9. ASSUME UNCHANGED phase,
             UNCHANGED down \/ \E e \in {"error", "restored", "admitted"} : Emit(e)
      PROVE  Last'
  BY <1>1, <1>9, LastEmit DEF Events
<1>10. ASSUME NEW r \in Requests, Deliver(r) \/ Handle(r) PROVE Last'
  <2>1. UNCHANGED phase /\ (UNCHANGED down \/ Emit("error") \/ Emit("restored"))
    BY <1>10 DEF Deliver, Handle, view
  <2>2. QED BY <1>9, <2>1
<1>11. ASSUME NEW a \in Admitters, Admission(a) PROVE Last'
  <2>1. UNCHANGED phase /\ (UNCHANGED down \/ Emit("admitted"))
    BY <1>11 DEF Admission
  <2>2. QED BY <1>9, <2>1
<1>12. CASE Drop \/ Others
  BY <1>1, <1>12 DEF Drop, Others, wire, pageVars
<1>13. CASE BroadcastFails \/ \E r \in Requests : HandleFails(r)
  <2>1. UNCHANGED phase /\ (UNCHANGED down \/ Emit("error"))
    BY <1>13 DEF BroadcastFails, HandleFails, view
  <2>2. QED BY <1>9, <2>1
<1>14. CASE \E a \in Admitters : AdmissionFails(a)
  BY <1>1, <1>14 DEF AdmissionFails, wire
<1>15. CASE ServerCrash
  BY <1>2, <1>15 DEF ServerCrash
<1>16. QED BY <1>3, <1>4, <1>5, <1>6, <1>7, <1>8, <1>10, <1>11, <1>12, <1>13, <1>14, <1>15
           DEF PageNext

\* The invariant behind both properties of the page.
PageInv == TypeOK /\ PageTypeOK /\ PageShape /\ Link /\ Told /\ AdmittedInv

LEMMA PageInvInit == PageInit => PageInv
<1> SUFFICES ASSUME PageInit PROVE PageInv
  OBVIOUS
<1>1. TypeOK /\ PageTypeOK
  BY TypeInit, PageTypeInit DEF PageInit
<1>2. PageShape
  BY DEF PageInit, PageShape
<1>3. Link
  <2>1. sock[Me] = "none" /\ \A r \in Requests : req[r] = IdleRequest
    BY MeIsUser DEF PageInit, Init
  <2>2. SocketShape
    BY <2>1, SentFacts DEF PageInit, SocketShape, Mine, Live, IdleRequest, Sent
  <2>3. OneAsked
    BY <2>1, SentFacts DEF PageInit, OneAsked, LiveIn, Live, IdleRequest, Shows
  <2>4. QED BY <2>2, <2>3 DEF Link
<1>4. Told
  BY DEF PageInit, Told, Entered
<1>5. AdmittedInv
  <2>1. admitted = {} /\ ~Coming({"admitted"}) /\ ~Admits
    BY DEF PageInit, Init, Coming, Admits
  <2>2. Last
    BY DEF PageInit, Last
  <2>3. QED BY <2>1, <2>2 DEF AdmittedInv, OutForGood
<1>6. QED BY <1>1, <1>2, <1>3, <1>4, <1>5 DEF PageInv

LEMMA PageInvStep == PageInv /\ [PageNext]_<<vars, pageVars>> => PageInv'
<1> SUFFICES ASSUME PageInv, [PageNext]_<<vars, pageVars>> PROVE PageInv'
  OBVIOUS
<1>1. /\ TypeOK /\ PageTypeOK /\ PageShape /\ Link /\ Told /\ AdmittedInv
      /\ ShownOK /\ EventsOK
  BY PageTypeParts DEF PageInv
<1>2. TypeOK' /\ PageTypeOK'
  BY <1>1, TypeStep, PageStepIsStep, PageTypeStep
<1>3. PageShape' /\ Link' /\ Told'
  BY <1>1, PageShapeStep, LinkStep, ToldStep
<1>4. AdmittedInv'
  <2>1. CASE UNCHANGED <<vars, pageVars>>
    BY <1>1, <2>1 DEF vars, pageVars, AdmittedInv, OutForGood, Last, Admits, Coming, Waiting
  <2>2. CASE PageNext
    <3>1. crossed => crossed'
      BY <2>2 DEF PageNext, Reload, Navigate, Mount, InitConcert, InitStatus, InitAnswer,
         EnterQueue, LeaveQueue, SocketConnect, SocketLost, Receive, Broadcast, BroadcastFails,
         SocketClosed, Deliver, Handle, HandleFails, Admission, AdmissionFails, ServerCrash, Drop,
         Others, view, pageVars
    <3>2. QED BY <1>1, <2>2, <3>1, OutStep, LastStep DEF AdmittedInv
  <2>3. QED BY <2>1, <2>2
<1>5. QED BY <1>2, <1>3, <1>4 DEF PageInv

\* A page whose socket entered the queue shows the queue only while its user
\* waits in it or is being moved in, however often the page is loaded anew or
\* loses its connection, whatever its earlier sockets left behind and whichever
\* handlers fail, unless the disconnect job or a leave of one of them takes the
\* user out, or an admission is lost between its ZREM and its SET.
THEOREM PageTellsTruthCorrect == PageSpec => []PageTellsTruth
<1>1. PageInv => PageTellsTruth
  <2> SUFFICES ASSUME PageInv, Settled, conn = "open", sock[Me] = "joined", phase = "in_queue"
               PROVE  Waiting(Me) \/ dropped \/ \E a \in Admitters : LettingIn(a)
    BY DEF PageTellsTruth
  <2>1. ~Past
    BY DEF Past, Settled
  <2>2. QED BY <2>1 DEF PageInv, Told, Entered, Out
<1>2. QED BY <1>1, PageInvInit, PageInvStep, PTL DEF PageSpec

LEMMA StaysShownStep ==
    ASSUME PageInv, PageNext, phase = "admitted", phase' = "in_queue"
    PROVE  Head(down) = "restored" \/ crossed
<1>1. PageShape /\ EventsOK /\ AdmittedInv
  BY PageTypeParts DEF PageInv
<1>2. Receive
  <2>1. ASSUME NEW r \in Requests
        PROVE  ~SocketClosed(r) /\ ~Deliver(r) /\ ~Handle(r) /\ ~HandleFails(r)
    BY DEF SocketClosed, Deliver, Handle, HandleFails, view
  <2>2. \A a \in Admitters : ~Admission(a) /\ ~AdmissionFails(a)
    BY DEF Admission, AdmissionFails
  <2>3. ~Drop /\ ~Others /\ ~Broadcast /\ ~BroadcastFails /\ ~ServerCrash
    BY DEF Drop, Others, Broadcast, BroadcastFails, ServerCrash, view, pageVars
  <2>4. /\ ~Reload /\ ~Navigate /\ ~InitConcert /\ ~InitStatus /\ ~InitAnswer
        /\ ~EnterQueue /\ ~LeaveQueue /\ ~SocketConnect /\ ~SocketLost
    BY <1>1 DEF PageShape, Reload, Navigate, Mount, InitConcert, InitStatus, InitAnswer, EnterQueue,
       LeaveQueue, SocketConnect, SocketLost
  <2>5. QED BY <2>1, <2>2, <2>3, <2>4 DEF PageNext
<1>3. down # <<>> /\ down' = Tail(down) /\ Head(down) \in {"position", "restored"}
  BY <1>2 DEF Receive, OnPosition, OnAdmitted, OnError
<1>4. CASE Head(down) = "position" /\ ~crossed
  <2>1. Coming({"position"})
    BY <1>1, <1>3, <1>4, ComingTail
  <2>2. QED BY <1>1, <1>4, <2>1 DEF AdmittedInv, Last
<1>5. QED BY <1>3, <1>4

\* A page that shows the admission goes on showing it, unless an answer to a
\* reconnect overtakes the admission or the user was let in during or after a
\* new request to enter.
THEOREM AdmissionStaysShownCorrect == PageSpec => AdmissionStaysShown
<1>1. PageInv /\ [PageNext]_<<vars, pageVars>> =>
        [phase = "admitted" /\ phase' = "in_queue" =>
            Head(down) = "restored" \/ crossed]_<<vars, pageVars>>
  BY StaysShownStep
<1>2. QED BY <1>1, PageInvInit, PageInvStep, PTL DEF PageSpec, AdmissionStaysShown

=============================================================================
