---------------------------- MODULE WaitingQueue ----------------------------
(***************************************************************************)
(* The waiting queue of one concert: queue.service.ts over the Redis keys  *)
(* of queue.repository.ts, driven by the socket handlers of                *)
(* queue.socket.ts, the HTTP handlers of queue.controller.ts and the two   *)
(* BullMQ workers of queue.worker.ts.  The keys of different concerts are  *)
(* disjoint, so one concert is modelled.                                   *)
(*                                                                         *)
(* The Node process interleaves its handlers at every await, so each Redis *)
(* command is a step of its own; the synchronous code that follows one     *)
(* belongs to that step.  A request r is one running handler: req[r].pc    *)
(* names the Redis command it is about to send.                            *)
(***************************************************************************)
EXTENDS Naturals, FiniteSets

CONSTANTS
    Users,      \* user ids; Redis orders members of equal score by id
    Admitters,  \* the callers of admitNextUser that can run concurrently
    Cron,       \* those of them that first list the ON_SALE concerts
    Requests,   \* handlers that can be in progress at the same time
    NoUser,     \* not a user
    Nobody,     \* not an admitter
    SocketUsers, \* the users who open sockets; the others only send HTTP
    Deletes,    \* whether the administrator may delete the concert
    MaxTime,    \* bound: distinct readings of Date.now()
    MaxJobs,    \* bound: outstanding disconnect jobs of one user
    MaxFaults   \* bound: crashes of the process and failing Redis calls

ASSUME QueueConstants ==
    /\ Users \subseteq Nat
    /\ IsFiniteSet(Admitters)
    /\ Cron \subseteq Admitters
    /\ NoUser \notin Users
    /\ Nobody \notin Admitters
    /\ SocketUsers \subseteq Users
    /\ Deletes \in BOOLEAN
    /\ MaxTime \in Nat \ {0}
    /\ MaxJobs \in Nat
    /\ MaxFaults \in Nat

VARIABLES
    now,       \* Date.now(), coarsened to a logical clock
    concert,   \* DB: status of the concert, or DELETED
    score,     \* waiting ZSET: score of each member, 0 when not a member
    admitted,  \* users with an admitted key
    grace,     \* users with a reconnect key
    jobs,      \* delayed disconnect jobs of each user, see JobCount
    sock,      \* each user's socket, and how socket.data.concertId was set
    req,       \* the handlers in progress
    adm,       \* the runs of admitNextUser in progress
    dropper,   \* the disconnect worker (BullMQ concurrency 1)
    faults,    \* history: faults so far
    by,        \* history: who set the user's admitted key last
    overlap    \* history: users in who were let in while a request of theirs to
               \*   enter was past its first check, or while back in the queue

sessionVars == <<grace, jobs, sock, dropper>>
vars == <<now, concert, score, admitted, grace, jobs, sock, req, adm, dropper,
          faults, by, overlap>>

-----------------------------------------------------------------------------
EnterPC == {"enter.waiting", "enter.admitted", "enter.add", "enter.join"}
LeavePC == {"leave.waiting", "leave.remove"}
ReconnectPC == {"reconnect.has", "reconnect.delete", "reconnect.join"}
DisconnectPC == {"disconnect.waiting", "disconnect.set", "disconnect.schedule"}

BusyPC == EnterPC \cup LeavePC \cup ReconnectPC \cup DisconnectPC

IdleRequest == [pc |-> "idle", user |-> NoUser, live |-> FALSE, raced |-> FALSE]
\* live: the socket the request came on is still open (never for HTTP).
\* raced: history, another request put the user into the queue after this
\*   one's first check found the user out of it.
Request == {IdleRequest} \cup
    [pc : BusyPC, user : Users, live : BOOLEAN, raced : BOOLEAN]

IdleAdmitter == [pc |-> "idle", user |-> NoUser, since |-> 0, seen |-> {}]
\* since: history, the score the user had when it was read as the top.
\* seen: the admitted keys that exist since the SCAN began.
Admitter ==
    {IdleAdmitter}
    \cup [pc : {"scan"}, user : {NoUser}, since : {0}, seen : SUBSET Users]
    \cup [pc : {"count", "top"}, user : {NoUser}, since : {0}, seen : {{}}]
    \cup [pc : {"remove", "admit"}, user : Users, since : Nat, seen : {{}}]

\* A reconnect key lives 30 s and a disconnect job is delayed by 30 s: a job
\* is not due before the key present when it was added is gone or replaced.
JobCount == [held : Nat, due : Nat]

TypeOK ==
    /\ now \in 1..MaxTime
    /\ concert \in {"SCHEDULED", "ON_SALE", "DELETED"}
    /\ score \in [Users -> 0..MaxTime]
    /\ admitted \subseteq Users
    /\ grace \subseteq Users
    /\ jobs \in [Users -> JobCount]
    /\ sock \in [Users -> {"none", "open", "joined", "restored"}]
    /\ req \in [Requests -> Request]
    /\ adm \in [Admitters -> Admitter]
    /\ dropper \in Users \cup {NoUser}
    /\ faults \in 0..MaxFaults
    /\ by \in [Users -> Admitters \cup {Nobody}]
    /\ overlap \subseteq Users

Init ==
    /\ now = 1
    /\ concert = "SCHEDULED"
    /\ score = [u \in Users |-> 0]
    /\ admitted = {}
    /\ grace = {}
    /\ jobs = [u \in Users |-> [held |-> 0, due |-> 0]]
    /\ sock = [u \in Users |-> "none"]
    /\ req = [r \in Requests |-> IdleRequest]
    /\ adm = [a \in Admitters |-> IdleAdmitter]
    /\ dropper = NoUser
    /\ faults = 0
    /\ by = [u \in Users |-> Nobody]
    /\ overlap = {}

-----------------------------------------------------------------------------
(* The repository: the waiting ZSET and the reconnect key.                 *)

Waiting(u) == score[u] # 0

Before(u, v) == score[u] < score[v] \/ (score[u] = score[v] /\ u <= v)

\* Mutant of IsTop: ZREVRANGE.
IsTop_Latest(u) == Waiting(u) /\ \A v \in Users : Waiting(v) => Before(v, u)

\* ZRANGE 0 0
IsTop(u) == Waiting(u) /\ \A v \in Users : Waiting(v) => Before(u, v)

AddToWaiting(u) == score' = [score EXCEPT ![u] = now]

RemoveFromWaiting(u) == score' = [score EXCEPT ![u] = 0]

\* Once the reconnect key of u is deleted, expired or set anew, the jobs it
\* held back are due.
ReleaseJobs(u) ==
    jobs' = [jobs EXCEPT ![u] = [held |-> 0, due |-> @.held + @.due]]

Joined(u) == sock[u] \in {"joined", "restored"}

-----------------------------------------------------------------------------
(* Requests.                                                               *)

Fresh(pc, u, live) == [pc |-> pc, user |-> u, live |-> live, raced |-> FALSE]

Begin(r, u, pc, live) ==
    /\ req[r] = IdleRequest
    /\ req' = [req EXCEPT ![r] = Fresh(pc, u, live)]

At(r, pc) == req[r].pc = pc

Goto(r, pc) == req' = [req EXCEPT ![r].pc = pc]

Finish(r) == req' = [req EXCEPT ![r] = IdleRequest]

\* enterQueue, over HTTP (no socket) or as the queue:enter event.  A concert
\* that is not ON_SALE is answered 400.  No request arrives at the last tick.
EnterBegin(r, u, live) ==
    /\ concert = "ON_SALE"
    /\ now < MaxTime
    /\ live => sock[u] # "none"
    /\ Begin(r, u, "enter.waiting", live)
    /\ UNCHANGED <<now, concert, score, admitted, sessionVars, adm, faults, by, overlap>>

\* Mutant of EnterIsInWaiting: a user already waiting is not refused.
EnterIsInWaiting_Unchecked(r) ==
    /\ At(r, "enter.waiting")
    /\ Goto(r, "enter.admitted")
    /\ UNCHANGED <<now, concert, score, admitted, sessionVars, adm, faults, by, overlap>>

EnterIsInWaiting(r) ==
    /\ At(r, "enter.waiting")
    /\ IF Waiting(req[r].user) THEN Finish(r) ELSE Goto(r, "enter.admitted")
    /\ UNCHANGED <<now, concert, score, admitted, sessionVars, adm, faults, by, overlap>>

\* Mutant of EnterIsAdmitted: a user already let in is not refused.
EnterIsAdmitted_Unchecked(r) ==
    /\ At(r, "enter.admitted")
    /\ Goto(r, "enter.add")
    /\ UNCHANGED <<now, concert, score, admitted, sessionVars, adm, faults, by, overlap>>

EnterIsAdmitted(r) ==
    /\ At(r, "enter.admitted")
    /\ IF req[r].user \in admitted THEN Finish(r) ELSE Goto(r, "enter.add")
    /\ UNCHANGED <<now, concert, score, admitted, sessionVars, adm, faults, by, overlap>>

\* Request q to enter has found u out of the queue and can still add it.
PastCheck(q, u) == req[q].user = u /\ req[q].pc \in {"enter.admitted", "enter.add"}

EnterAdd(r) ==
    /\ At(r, "enter.add")
    /\ AddToWaiting(req[r].user)
    /\ req' = [q \in Requests |->
                 IF q = r THEN [req[r] EXCEPT !.pc = "enter.join", !.raced = FALSE]
                 ELSE IF PastCheck(q, req[r].user) THEN [req[q] EXCEPT !.raced = TRUE]
                 ELSE req[q]]
    /\ UNCHANGED <<now, concert, admitted, sessionVars, adm, faults, by, overlap>>

\* After the two reads of getPositionResult: the socket, if it is still
\* there, joins the concert's room and remembers the concert.
Join(r, how) ==
    /\ sock' = IF req[r].live THEN [sock EXCEPT ![req[r].user] = how] ELSE sock
    /\ Finish(r)

EnterJoin(r) ==
    /\ At(r, "enter.join")
    /\ Join(r, "joined")
    /\ UNCHANGED <<now, concert, score, admitted, grace, jobs, adm, dropper, faults, by, overlap>>

\* leaveQueue, over HTTP or as the queue:leave event.
LeaveBegin(r, u, live) ==
    /\ live => sock[u] # "none"
    /\ now < MaxTime
    /\ Begin(r, u, "leave.waiting", live)
    /\ UNCHANGED <<now, concert, score, admitted, sessionVars, adm, faults, by, overlap>>

LeaveIsInWaiting(r) ==
    /\ At(r, "leave.waiting")
    /\ IF Waiting(req[r].user) THEN Goto(r, "leave.remove") ELSE Finish(r)
    /\ UNCHANGED <<now, concert, score, admitted, sessionVars, adm, faults, by, overlap>>

LeaveRemove(r) ==
    /\ At(r, "leave.remove")
    /\ RemoveFromWaiting(req[r].user)
    /\ Join(r, "open")
    /\ UNCHANGED <<now, concert, admitted, grace, jobs, adm, dropper, faults, by, overlap>>

\* handleReconnect, the queue:reconnect event.
ReconnectBegin(r, u) ==
    /\ sock[u] # "none"
    /\ now < MaxTime
    /\ Begin(r, u, "reconnect.has", TRUE)
    /\ UNCHANGED <<now, concert, score, admitted, sessionVars, adm, faults, by, overlap>>

ReconnectHasKey(r) ==
    /\ At(r, "reconnect.has")
    /\ IF req[r].user \in grace THEN Goto(r, "reconnect.delete") ELSE Finish(r)
    /\ UNCHANGED <<now, concert, score, admitted, sessionVars, adm, faults, by, overlap>>

ReconnectDeleteKey(r) ==
    /\ At(r, "reconnect.delete")
    /\ grace' = grace \ {req[r].user}
    /\ ReleaseJobs(req[r].user)
    /\ Goto(r, "reconnect.join")
    /\ UNCHANGED <<now, concert, score, admitted, sock, adm, dropper, faults, by, overlap>>

\* Mutant of ReconnectJoin: the user is put into the queue again.
ReconnectJoin_AddsAgain(r) ==
    /\ At(r, "reconnect.join")
    /\ AddToWaiting(req[r].user)
    /\ Join(r, "restored")
    /\ UNCHANGED <<now, concert, admitted, grace, jobs, adm, dropper, faults, by, overlap>>

ReconnectJoin(r) ==
    /\ At(r, "reconnect.join")
    /\ Join(r, "restored")
    /\ UNCHANGED <<now, concert, score, admitted, grace, jobs, adm, dropper, faults, by, overlap>>

-----------------------------------------------------------------------------
(* Sockets.                                                                *)

Connect(u) ==
    /\ u \in SocketUsers
    /\ sock[u] = "none"
    /\ now < MaxTime
    /\ sock' = [sock EXCEPT ![u] = "open"]
    /\ UNCHANGED <<now, concert, score, admitted, grace, jobs, req, adm, dropper,
                   faults, by, overlap>>

\* The requests that came on the closed socket go on without it.
Orphan(u) ==
    [r \in Requests |-> IF req[r].user = u THEN [req[r] EXCEPT !.live = FALSE]
                                           ELSE req[r]]

\* A socket that never joined a concert closes: the handler returns at once.
DisconnectUnjoined(u) ==
    /\ sock[u] = "open"
    /\ sock' = [sock EXCEPT ![u] = "none"]
    /\ req' = Orphan(u)
    /\ UNCHANGED <<now, concert, score, admitted, grace, jobs, adm, dropper,
                   faults, by, overlap>>

Outstanding(u) ==
    jobs[u].held + jobs[u].due
      + Cardinality({r \in Requests : req[r].user = u /\ req[r].pc \in DisconnectPC})

DisconnectBegin(r, u) ==
    /\ Joined(u)
    /\ req[r] = IdleRequest
    /\ Outstanding(u) < MaxJobs
    /\ sock' = [sock EXCEPT ![u] = "none"]
    /\ req' = [Orphan(u) EXCEPT
                 ![r] = Fresh("disconnect.waiting", u, FALSE)]
    /\ UNCHANGED <<now, concert, score, admitted, grace, jobs, adm, dropper,
                   faults, by, overlap>>

DisconnectIsInWaiting(r) ==
    /\ At(r, "disconnect.waiting")
    /\ Goto(r, IF Waiting(req[r].user) THEN "disconnect.set" ELSE "disconnect.schedule")
    /\ UNCHANGED <<now, concert, score, admitted, sessionVars, adm, faults, by, overlap>>

\* Mutant of DisconnectSetKey: the handler ends without adding the job.
DisconnectSetKey_NoJob(r) ==
    /\ At(r, "disconnect.set")
    /\ grace' = grace \cup {req[r].user}
    /\ ReleaseJobs(req[r].user)
    /\ Finish(r)
    /\ UNCHANGED <<now, concert, score, admitted, sock, adm, dropper, faults, by, overlap>>

DisconnectSetKey(r) ==
    /\ At(r, "disconnect.set")
    /\ grace' = grace \cup {req[r].user}
    /\ ReleaseJobs(req[r].user)
    /\ Goto(r, "disconnect.schedule")
    /\ UNCHANGED <<now, concert, score, admitted, sock, adm, dropper, faults, by, overlap>>

\* Mutant of DisconnectSchedule: the job has no delay.
DisconnectSchedule_NoDelay(r) ==
    /\ At(r, "disconnect.schedule")
    /\ jobs' = [jobs EXCEPT ![req[r].user].due = @ + 1]
    /\ Finish(r)
    /\ UNCHANGED <<now, concert, score, admitted, grace, sock, adm, dropper,
                   faults, by, overlap>>

DisconnectSchedule(r) ==
    LET u == req[r].user IN
    /\ At(r, "disconnect.schedule")
    /\ jobs' = IF u \in grace THEN [jobs EXCEPT ![u].held = @ + 1]
                              ELSE [jobs EXCEPT ![u].due = @ + 1]
    /\ Finish(r)
    /\ UNCHANGED <<now, concert, score, admitted, grace, sock, adm, dropper,
                   faults, by, overlap>>

\* Redis drops a reconnect key after its 30 s.
GraceExpires(u) ==
    /\ u \in grace
    /\ grace' = grace \ {u}
    /\ ReleaseJobs(u)
    /\ UNCHANGED <<now, concert, score, admitted, sock, req, adm, dropper,
                   faults, by, overlap>>

\* expireDisconnect, first half: a job whose user has a reconnect key does
\* nothing.
DropHasKey(u) ==
    /\ dropper = NoUser
    /\ jobs[u].due > 0
    /\ jobs' = [jobs EXCEPT ![u].due = @ - 1]
    /\ dropper' = IF u \in grace THEN NoUser ELSE u
    /\ UNCHANGED <<now, concert, score, admitted, grace, sock, req, adm,
                   faults, by, overlap>>

DropRemove ==
    /\ dropper # NoUser
    /\ RemoveFromWaiting(dropper)
    /\ dropper' = NoUser
    /\ UNCHANGED <<now, concert, admitted, grace, jobs, sock, req, adm,
                   faults, by, overlap>>

-----------------------------------------------------------------------------
(* admitNextUser.                                                          *)

\* The worker of the admission cron lists the ON_SALE concerts, and comes to
\* this one later.
AdmitList(a) ==
    /\ a \in Cron
    /\ adm[a].pc = "idle"
    /\ concert = "ON_SALE"
    /\ adm' = [adm EXCEPT ![a].pc = "count"]
    /\ UNCHANGED <<now, concert, score, admitted, sessionVars, req, faults, by, overlap>>

\* countAdmitted iterates SCAN.  The other callers come to it when the
\* reservation of a user who was let in expires.
AdmitScanBegin(a) ==
    /\ IF a \in Cron THEN adm[a].pc = "count"
                     ELSE adm[a].pc = "idle" /\ concert # "SCHEDULED"
    /\ adm' = [adm EXCEPT ![a] = [@ EXCEPT !.pc = "scan", !.seen = admitted]]
    /\ UNCHANGED <<now, concert, score, admitted, sessionVars, req, faults, by, overlap>>

\* Mutant of AdmitScanEnd: the count is not looked at.
AdmitScanEnd_Uncounted(a) ==
    /\ adm[a].pc = "scan"
    /\ adm' = [adm EXCEPT ![a] = [@ EXCEPT !.pc = "top", !.seen = {}]]
    /\ UNCHANGED <<now, concert, score, admitted, sessionVars, req, faults, by, overlap>>

\* SCAN returns every key that exists from its beginning to its end; of the
\* others it may return any.
AdmitScanEnd(a) ==
    /\ adm[a].pc = "scan"
    /\ \/ /\ admitted \cup adm[a].seen # {}
          /\ adm' = [adm EXCEPT ![a] = IdleAdmitter]
       \/ /\ adm[a].seen = {}
          /\ adm' = [adm EXCEPT ![a] = [@ EXCEPT !.pc = "top"]]
    /\ UNCHANGED <<now, concert, score, admitted, sessionVars, req, faults, by, overlap>>

\* Mutant of AdmitTop: the empty queue is not looked for.
AdmitTop_NoLength(a) ==
    /\ adm[a].pc = "top"
    /\ \E u \in Users \cup {NoUser} :
         /\ IF u = NoUser THEN \A v \in Users : ~Waiting(v) ELSE IsTop(u)
         /\ adm' = [adm EXCEPT ![a] = [@ EXCEPT !.pc = "remove", !.user = u]]
    /\ UNCHANGED <<now, concert, score, admitted, sessionVars, req, faults, by, overlap>>

\* Mutant of AdmitTop: the queue counts as empty while one user waits.
AdmitTop_OffByOne(a) ==
    /\ adm[a].pc = "top"
    /\ \/ /\ Cardinality({u \in Users : Waiting(u)}) <= 1
          /\ adm' = [adm EXCEPT ![a] = IdleAdmitter]
       \/ \E u \in Users :
            /\ IsTop(u)
            /\ Cardinality({v \in Users : Waiting(v)}) > 1
            /\ adm' = [adm EXCEPT ![a] =
                         [@ EXCEPT !.pc = "remove", !.user = u, !.since = score[u]]]
    /\ UNCHANGED <<now, concert, score, admitted, sessionVars, req, faults, by, overlap>>

AdmitTop(a) ==
    /\ adm[a].pc = "top"
    /\ \/ /\ \A u \in Users : ~Waiting(u)
          /\ adm' = [adm EXCEPT ![a] = IdleAdmitter]
       \/ \E u \in Users :
            /\ IsTop(u)
            /\ adm' = [adm EXCEPT ![a] =
                         [@ EXCEPT !.pc = "remove", !.user = u, !.since = score[u]]]
    /\ UNCHANGED <<now, concert, score, admitted, sessionVars, req, faults, by, overlap>>

AdmitRemove(a) ==
    /\ adm[a].pc = "remove"
    /\ RemoveFromWaiting(adm[a].user)
    /\ adm' = [adm EXCEPT ![a].pc = "admit"]
    /\ UNCHANGED <<now, concert, admitted, sessionVars, req, faults, by, overlap>>

Entering(u) == \E r \in Requests : PastCheck(r, u)

AdmitSetKey(a) ==
    LET u == adm[a].user IN
    /\ adm[a].pc = "admit"
    /\ admitted' = admitted \cup {u}
    /\ by' = [by EXCEPT ![u] = a]
    /\ overlap' = IF Waiting(u) \/ Entering(u) THEN overlap \cup {u} ELSE overlap
    /\ adm' = [adm EXCEPT ![a] = IdleAdmitter]
    /\ UNCHANGED <<now, concert, score, sessionVars, req, faults>>

\* The admitted key expires after 300 s, or deleteAdmittedKey removes it when
\* the user's reservation has been made or refused.
AdmittedKeyGone(u) ==
    /\ u \in admitted
    /\ admitted' = admitted \ {u}
    /\ adm' = [a \in Admitters |-> [adm[a] EXCEPT !.seen = @ \ {u}]]
    /\ by' = [by EXCEPT ![u] = Nobody]
    /\ overlap' = overlap \ {u}
    /\ UNCHANGED <<now, concert, score, sessionVars, req, faults>>

-----------------------------------------------------------------------------
(* The environment.                                                        *)

Tick ==
    /\ now < MaxTime
    /\ now' = now + 1
    /\ UNCHANGED <<concert, score, admitted, sessionVars, req, adm, faults, by, overlap>>

\* The status cron finds that saleStartAt has passed.
OpenSale ==
    /\ concert = "SCHEDULED"
    /\ concert' = "ON_SALE"
    /\ UNCHANGED <<now, score, admitted, sessionVars, req, adm, faults, by, overlap>>

\* The administrator deletes the concert; its keys in Redis stay.
DeleteConcert ==
    /\ Deletes
    /\ concert # "DELETED"
    /\ concert' = "DELETED"
    /\ UNCHANGED <<now, score, admitted, sessionVars, req, adm, faults, by, overlap>>

\* A Redis call throws: the HTTP handler or the socket handler's catch answers
\* the error; a disconnect job that cannot be added is only logged;
\* admitNextUser fails its job.
RequestFails(r) ==
    /\ faults < MaxFaults
    /\ req[r].pc \in EnterPC \cup LeavePC \cup ReconnectPC \cup {"disconnect.schedule"}
    /\ faults' = faults + 1
    /\ Finish(r)
    /\ UNCHANGED <<now, concert, score, admitted, sessionVars, adm, by, overlap>>

AdmitFails(a) ==
    /\ faults < MaxFaults
    /\ adm[a].pc # "idle"
    /\ faults' = faults + 1
    /\ adm' = [adm EXCEPT ![a] = IdleAdmitter]
    /\ UNCHANGED <<now, concert, score, admitted, sessionVars, req, by, overlap>>

\* The process dies and starts again.  Redis keeps its keys; a disconnect job
\* that was running is stalled and BullMQ runs it again; the sockets close
\* and no disconnect handler runs.  (handleDisconnect that fails is such a
\* crash: nothing catches its rejection.)
Crash ==
    /\ faults < MaxFaults
    /\ faults' = faults + 1
    /\ req' = [r \in Requests |-> IdleRequest]
    /\ adm' = [a \in Admitters |-> IdleAdmitter]
    /\ sock' = [u \in Users |-> "none"]
    /\ dropper' = NoUser
    /\ jobs' = IF dropper = NoUser THEN jobs
                                   ELSE [jobs EXCEPT ![dropper].due = @ + 1]
    /\ UNCHANGED <<now, concert, score, admitted, grace, by, overlap>>

-----------------------------------------------------------------------------
RequestStep(r) ==
    \/ EnterIsInWaiting(r) \/ EnterIsAdmitted(r) \/ EnterAdd(r) \/ EnterJoin(r)
    \/ LeaveIsInWaiting(r) \/ LeaveRemove(r)
    \/ ReconnectHasKey(r) \/ ReconnectDeleteKey(r) \/ ReconnectJoin(r)
    \/ DisconnectIsInWaiting(r) \/ DisconnectSetKey(r) \/ DisconnectSchedule(r)

DropStep == DropRemove \/ \E u \in Users : DropHasKey(u)

AdmitGoesOn(a) == AdmitScanEnd(a) \/ AdmitTop(a) \/ AdmitRemove(a) \/ AdmitSetKey(a)

AdmitStep(a) == AdmitList(a) \/ AdmitScanBegin(a) \/ AdmitGoesOn(a)

KeyStep(u) == GraceExpires(u) \/ AdmittedKeyGone(u)

ClientStep(r, u) ==
    \/ \E live \in BOOLEAN : EnterBegin(r, u, live) \/ LeaveBegin(r, u, live)
    \/ ReconnectBegin(r, u)
    \/ DisconnectBegin(r, u)

Next ==
    \/ \E r \in Requests : RequestStep(r) \/ RequestFails(r)
    \/ \E r \in Requests, u \in Users : ClientStep(r, u)
    \/ \E a \in Admitters : AdmitStep(a) \/ AdmitFails(a)
    \/ \E u \in Users : Connect(u) \/ DisconnectUnjoined(u) \/ KeyStep(u)
    \/ DropStep
    \/ Tick
    \/ OpenSale
    \/ DeleteConcert
    \/ Crash

Spec == Init /\ [][Next]_vars

\* Every handler and every admitNextUser that runs takes its next step, the
\* cron of the admission worker fires every 5 s, jobs run and keys expire, and
\* time passes.  Nothing is assumed of the users, of the administrator, or of
\* when the other callers of admitNextUser begin.
Fairness ==
    /\ \A r \in Requests : WF_vars(RequestStep(r))
    /\ \A a \in Admitters : WF_vars(AdmitGoesOn(a))
    /\ \A a \in Cron : WF_vars(AdmitList(a)) /\ WF_vars(AdmitScanBegin(a))
    /\ \A u \in Users : WF_vars(AdmittedKeyGone(u)) /\ WF_vars(GraceExpires(u))
    /\ WF_vars(DropStep)
    /\ WF_vars(Tick)

FairSpec == Spec /\ Fairness

-----------------------------------------------------------------------------
(* Properties.                                                             *)

\* countAdmitted guards an admission that sets its key three awaits later.
\* Each caller of admitNextUser can therefore put one user in, whatever the
\* others do and however SCAN and the expiring keys interleave, and never a
\* second one while its first is still in: there are never more users in
\* than concurrent callers, and exactly one caller gives one at a time.
AdmittedBounded == Cardinality(admitted) <= Cardinality(Admitters)

\* First come, first served across the awaits of admitNextUser: while a user
\* read as the top of the queue is being moved in, no other user waits who
\* joined the queue earlier than that user had.
AdmissionOrder ==
    \A a \in Admitters :
        adm[a].pc \in {"remove", "admit"} =>
            \A v \in Users \ {adm[a].user} : Waiting(v) => adm[a].since <= score[v]

\* enterQueue's two checks are not atomic with its ZADD.  They still keep a
\* user from being in the queue and let in at once, except when the admission
\* overlapped the user's own request to enter or came after it.
OneListUnlessOverlap ==
    \A u \in admitted : Waiting(u) => u \in overlap

\* Until something fails, a reconnect key is never left without the job that
\* acts when it is gone: the job is delayed behind the key, or the handler
\* that set the key is about to add it.
GraceKeyHasJob ==
    faults = 0 =>
        \A u \in grace :
            \/ jobs[u].held > 0
            \/ \E r \in Requests : req[r].user = u /\ At(r, "disconnect.schedule")

\* A user in the queue keeps the place they have, across disconnects,
\* reconnects and refused requests to enter: only a request to enter that found
\* the user out of the queue before another request put them in moves them.
PlaceKept ==
    [][\A u \in Users :
         Waiting(u) /\ Waiting(u)' /\ score'[u] # score[u] =>
            \E r \in Requests : PastCheck(r, u) /\ req[r].raced]_vars

\* A waiting user who neither leaves nor is dropped after a disconnect is let
\* in, unless the concert is deleted.
EventuallyAdmitted ==
    \A u \in Users :
        Waiting(u) ~> \/ u \in admitted
                      \/ dropper = u
                      \/ \E r \in Requests : req[r].user = u /\ At(r, "leave.remove")
                      \/ concert = "DELETED"

\* A user who has lost the socket and does not come back stops waiting, even
\* when no one is let in any more because the concert has been deleted.
AbandonedLeavesQueue ==
    \A u \in Users :
        u \in grace ~> ~Waiting(u) \/ sock[u] # "none"

\* progress.txt:342: one user at a time, no admission before the previous
\* one is released.  This is what one caller of admitNextUser would give.
OneAdmittedAtATime == Cardinality(admitted) <= 1

\* SPEC.md:121: a user who reconnects within 30 s gets the place back.  So the
\* disconnect job must not remove a user whose reconnect succeeded and who is
\* still connected.
ReconnectedStays ==
    [][\A u \in Users :
         sock[u] = "restored" /\ dropper = u /\ Waiting(u) => Waiting(u)']_vars

=============================================================================
