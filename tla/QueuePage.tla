------------------------------ MODULE QueuePage ------------------------------
(***************************************************************************)
(* The queue page of one user (useQueue.ts, QueuePage.tsx) in front of the *)
(* waiting queue: the page's socket, the events on their way in both       *)
(* directions, the key in sessionStorage by which a page that is loaded    *)
(* again decides to reconnect, and the status it asks for over HTTP.       *)
(* WaitingQueue has the server; here its client steps are those the page   *)
(* causes, and what its handlers emit arrives at the page.                 *)
(***************************************************************************)
EXTENDS WaitingQueue, Sequences

CONSTANTS
    Me,        \* the user of the page
    MaxBreaks, \* bound: loads of the page, losses of its connection, faults
    MaxEvents  \* bound: no broadcast while as many events are on their way

ASSUME PageConstants == Me \in SocketUsers /\ MaxBreaks \in Nat /\ MaxEvents \in Nat

VARIABLES
    phase,    \* what the page shows
    entering, \* enteringRef
    conn,     \* socketRef, and whether it is connected
    saved,    \* sessionStorage: queue_reconnect_id is this concert
    init,     \* the call or the answer the initialisation waits for
    up, down, \* events on their way to the server and to the page
    cast,     \* broadcastPositions is due after a handler of the page's
    dropped,  \* history: see Behind
    crossed,  \* history: the user was let in during or after a new request to enter
    breaks    \* history: loads, losses and faults so far

view == <<phase, entering, saved, init, dropped, crossed, breaks>>
wire == <<conn, up, down, cast>>
pageVars == <<phase, entering, conn, saved, init, up, down, cast, dropped, crossed, breaks>>

-----------------------------------------------------------------------------
Events == {"position", "restored", "admitted", "error"}
Statuses == {"WAITING", "ADMITTED", "NOT_IN_QUEUE"}

\* restored: the queue:position that answers queue:reconnect.
PageTypeOK ==
    /\ phase \in {"loading", "concert_error", "idle", "entering", "in_queue", "admitted"}
    /\ {entering, saved, cast, dropped, crossed} \subseteq BOOLEAN
    /\ conn \in {"none", "connecting", "open"}
    /\ init \in {"off", "concert", "isAdmitted", "rank"} \cup Statuses
    /\ up \in Seq({"enter", "leave", "reconnect"})
    /\ down \in Seq(Events)
    /\ breaks \in 0..MaxBreaks
    /\ conn # "open" => down = <<>>

PageInit ==
    /\ Init
    /\ phase = "loading" /\ init = "concert"
    /\ entering = FALSE /\ saved = FALSE
    /\ conn = "none" /\ up = <<>> /\ down = <<>> /\ cast = FALSE
    /\ dropped = FALSE /\ crossed = FALSE /\ breaks = 0

-----------------------------------------------------------------------------
(* Loading the page.                                                       *)

Break == breaks < MaxBreaks /\ breaks' = breaks + 1

\* A new page; the old one's socket is closed.
Mount ==
    /\ Break
    /\ phase' = "loading" /\ init' = "concert" /\ entering' = FALSE
    /\ conn' = "none" /\ down' = <<>>
    /\ UNCHANGED <<up, cast, dropped, crossed, vars>>

\* handleBeforeUnload
Reload == Mount /\ saved' = (saved \/ phase = "in_queue")

\* Going to another page of the application and back.
Navigate == Mount /\ UNCHANGED saved

\* GET /api/concerts/:id
InitConcert ==
    /\ init = "concert"
    /\ \/ init' = "isAdmitted" /\ UNCHANGED phase
       \/ init' = "off" /\ phase' = "concert_error"
    /\ UNCHANGED <<entering, saved, dropped, crossed, breaks, wire, vars>>

\* getQueueStatus
InitStatus ==
    /\ \/ /\ init = "isAdmitted"
          /\ init' = IF Me \in admitted THEN "ADMITTED" ELSE "rank"
       \/ /\ init = "rank"
          /\ init' = IF Waiting(Me) THEN "WAITING" ELSE "NOT_IN_QUEUE"
    /\ UNCHANGED <<phase, entering, saved, dropped, crossed, breaks, wire, vars>>

\* connectSocket
ConnectSocket == conn' = IF conn = "open" THEN conn ELSE "connecting"

\* A failing status call counts as not in the queue.
InitAnswer ==
    /\ \/ /\ init = "WAITING" /\ phase' = "in_queue" /\ ConnectSocket
       \/ /\ init = "ADMITTED" /\ phase' = "admitted" /\ UNCHANGED conn
       \/ /\ init \in {"isAdmitted", "rank", "NOT_IN_QUEUE"} /\ phase' = "idle" /\ UNCHANGED conn
    /\ init' = "off"
    /\ UNCHANGED <<entering, saved, dropped, crossed, breaks, up, down, cast, vars>>

-----------------------------------------------------------------------------
(* The buttons.                                                            *)

EnterQueue ==
    /\ phase = "idle"
    /\ phase' = "entering" /\ entering' = TRUE
    /\ ConnectSocket
    /\ UNCHANGED <<saved, init, dropped, crossed, breaks, up, down, cast, vars>>

\* What was emitted before the socket is closed still arrives.
LeaveQueue ==
    /\ phase = "in_queue"
    /\ up' = IF conn = "open" THEN Append(up, "leave") ELSE up
    /\ conn' = "none" /\ down' = <<>>
    /\ saved' = FALSE
    /\ phase' = "idle"
    /\ UNCHANGED <<entering, init, dropped, crossed, breaks, cast, vars>>

-----------------------------------------------------------------------------
(* The socket.                                                             *)

\* Events of the socket before are gone, and the server has noticed.
SocketConnect ==
    /\ conn = "connecting" /\ up = <<>>
    /\ Connect(Me)
    /\ conn' = "open"
    /\ saved' = FALSE
    /\ up' = IF saved THEN <<"reconnect">> ELSE IF entering THEN <<"enter">> ELSE <<>>
    /\ UNCHANGED <<phase, entering, init, dropped, crossed, breaks, down, cast>>

\* The connection breaks with everything on its way; socket.io connects again.
SocketLost ==
    /\ conn = "open" /\ Break
    /\ conn' = "connecting" /\ up' = <<>> /\ down' = <<>>
    /\ UNCHANGED <<phase, entering, saved, init, cast, dropped, crossed, vars>>

\* The server's side is closed once the page's is and its events are in.  A
\* broadcast that is due goes on, as one of those after anything else.
SocketClosed(r) ==
    /\ conn # "open" /\ up = <<>>
    /\ DisconnectUnjoined(Me) \/ DisconnectBegin(r, Me)
    /\ cast' = FALSE
    /\ UNCHANGED <<view, conn, up, down>>

OnPosition ==
    /\ Head(down) \in {"position", "restored"}
    /\ phase' = "in_queue" /\ entering' = FALSE

\* Mutant of OnAdmitted: the page waits for the user to ask.
OnAdmitted_Ignored ==
    /\ Head(down) = "admitted"
    /\ entering' = FALSE
    /\ UNCHANGED phase

OnAdmitted ==
    /\ Head(down) = "admitted"
    /\ phase' = "admitted" /\ entering' = FALSE

OnError ==
    /\ Head(down) = "error"
    /\ phase' = IF entering THEN "idle" ELSE phase
    /\ entering' = FALSE

Receive ==
    /\ down # <<>>
    /\ OnPosition \/ OnAdmitted \/ OnError
    /\ down' = Tail(down)
    /\ UNCHANGED <<saved, init, dropped, crossed, breaks, conn, up, cast, vars>>

-----------------------------------------------------------------------------
(* The server, with what it emits.                                         *)

\* Mutant of Emit: to the sockets that are closed too.
Emit_Closed(e) == down' = Append(down, e)

\* On a socket both sides hold open.
Emit(e) == down' = IF conn = "open" /\ sock[Me] # "none" THEN Append(down, e) ELSE down

\* A handler begins on the next event.  enterQueue refuses a concert that is
\* not ON_SALE; a queue:leave after the close goes on without its socket.
Deliver(r) ==
    LET e == Head(up) IN
    /\ up # <<>>
    /\ up' = Tail(up)
    /\ \/ e = "enter" /\ EnterBegin(r, Me, TRUE) /\ UNCHANGED down
       \/ e = "enter" /\ concert # "ON_SALE" /\ Emit("error") /\ UNCHANGED vars
       \/ e = "leave" /\ LeaveBegin(r, Me, TRUE) /\ UNCHANGED down
       \/ e = "reconnect" /\ ReconnectBegin(r, Me) /\ UNCHANGED down
    /\ UNCHANGED <<view, conn, cast>>

Live(r) == req[r].live

\* Since the user last joined the queue, a job, a leave of an earlier socket or
\* an admission that was then lost has taken them out.
Behind(removed) ==
    IF ~Waiting(Me) /\ Waiting(Me)' THEN FALSE ELSE dropped \/ removed

\* Of a handler whose socket is still open: the error it ends with, or the
\* position it answers to queue:reconnect, in the queue or not.
Handle(r) ==
    /\ RequestStep(r)
    /\ IF ~Live(r) \/ req'[r] # IdleRequest THEN UNCHANGED <<down, cast>>
       ELSE CASE At(r, "reconnect.join") -> Emit("restored") /\ UNCHANGED cast
              [] req[r].pc \in {"enter.join", "leave.remove"} -> cast' = TRUE /\ UNCHANGED down
              [] OTHER -> Emit("error") /\ UNCHANGED cast
    /\ dropped' = Behind(At(r, "leave.remove") /\ ~Live(r))
    /\ UNCHANGED <<phase, entering, saved, init, crossed, breaks, conn, up>>

\* Mutant of Broadcast: who is not in the queue is sent a position too.
Broadcast_Everyone ==
    /\ cast \/ Len(down) < MaxEvents
    /\ cast' = FALSE
    /\ IF Joined(Me) THEN Emit("position") ELSE UNCHANGED down
    /\ UNCHANGED <<view, conn, up, vars>>

\* broadcastPositions, after a handler of this page's or anything that
\* happens to other users.
Broadcast ==
    /\ cast \/ Len(down) < MaxEvents
    /\ cast' = FALSE
    /\ IF Joined(Me) /\ Waiting(Me) THEN Emit("position") ELSE UNCHANGED down
    /\ UNCHANGED <<view, conn, up, vars>>

\* The due broadcast cannot read the queue: the handler ends with the error.
BroadcastFails ==
    /\ cast /\ faults < MaxFaults
    /\ Break
    /\ cast' = FALSE
    /\ Emit("error")
    /\ UNCHANGED <<phase, entering, saved, init, dropped, crossed, conn, up, vars>>

LettingIn(a) == adm[a].pc = "admit" /\ adm[a].user = Me

\* admitNextUser tells the user before it broadcasts.
Admission(a) ==
    /\ AdmitStep(a)
    /\ IF LettingIn(a) THEN Emit("admitted") ELSE UNCHANGED down
    /\ crossed' = (crossed \/ (LettingIn(a) /\
                     (Waiting(Me) \/ \E r \in Requests : req[r].pc \in EnterPC)))
    /\ UNCHANGED <<phase, entering, saved, init, dropped, breaks, conn, up, cast>>

\* A Redis call of a handler throws, and its catch emits the error.
HandleFails(r) ==
    /\ RequestFails(r) /\ Break
    /\ IF Live(r) THEN Emit("error") ELSE UNCHANGED down
    /\ UNCHANGED <<phase, entering, saved, init, dropped, crossed, conn, up, cast>>

\* A call of admitNextUser throws.  Nobody is told, and a user it had already
\* removed from the queue is not let in.
AdmissionFails(a) ==
    /\ AdmitFails(a) /\ Break
    /\ dropped' = Behind(LettingIn(a))
    /\ UNCHANGED <<phase, entering, saved, init, crossed, wire>>

\* The server dies, and the events on their way with it; an open socket
\* connects again once it is back.
ServerCrash ==
    /\ Crash /\ Break
    /\ conn' = IF conn = "open" THEN "connecting" ELSE conn
    /\ up' = <<>> /\ down' = <<>> /\ cast' = FALSE
    /\ dropped' = Behind(\E a \in Admitters : LettingIn(a))
    /\ UNCHANGED <<phase, entering, saved, init, crossed>>

\* expireDisconnect tells the user nothing.
Drop ==
    /\ DropStep
    /\ dropped' = Behind(dropper = Me)
    /\ UNCHANGED <<phase, entering, saved, init, crossed, breaks, wire>>

\* Every event has arrived and been handled.
Settled ==
    /\ up = <<>> /\ down = <<>> /\ ~cast
    /\ \A r \in Requests : req[r] = IdleRequest

\* The admitted key lasts until seats are reserved or 300 s have passed: the
\* events that were under way at the admission have arrived by then.
Others ==
    /\ \/ Settled /\ \E u \in Users : AdmittedKeyGone(u)
       \/ \E u \in Users : GraceExpires(u)
       \/ Tick \/ OpenSale \/ DeleteConcert
    /\ UNCHANGED pageVars

-----------------------------------------------------------------------------
PageNext ==
    \/ Reload \/ Navigate \/ InitConcert \/ InitStatus \/ InitAnswer
    \/ EnterQueue \/ LeaveQueue
    \/ SocketConnect \/ SocketLost \/ Receive \/ Broadcast \/ BroadcastFails
    \/ \E r \in Requests : SocketClosed(r) \/ Deliver(r) \/ Handle(r) \/ HandleFails(r)
    \/ \E a \in Admitters : Admission(a) \/ AdmissionFails(a)
    \/ ServerCrash
    \/ Drop
    \/ Others

PageSpec == PageInit /\ [][PageNext]_<<vars, pageVars>>

-----------------------------------------------------------------------------
(* Properties.                                                             *)

\* A page whose socket entered the queue shows the queue only while its user
\* waits in it, or is just being moved in: the admission and the leave reach
\* it, whatever its earlier sockets left behind and whichever handlers fail,
\* unless the disconnect job or a leave of one of them takes the user out, or an
\* admission fails between its ZREM and its SET.
PageTellsTruth ==
    Settled /\ conn = "open" /\ sock[Me] = "joined" /\ phase = "in_queue" =>
        \/ Waiting(Me)
        \/ dropped
        \/ \E a \in Admitters : LettingIn(a)

\* A page that shows the admission goes on showing it: no position that was
\* under way takes the user back into the queue, except the answer to a
\* reconnect, which is sent to a user who has been let in meanwhile, and
\* unless the user was let in during or after a new request to enter.
AdmissionStaysShown ==
    [][phase = "admitted" /\ phase' = "in_queue" =>
          Head(down) = "restored" \/ crossed]_<<vars, pageVars>>

\* The comment at useQueue.ts:228: the connect callback emits queue:enter.  So
\* a page that shows that it is entering has asked the server, or will when
\* its socket is connected.
EnteringIsAsked ==
    phase = "entering" => ~Settled \/ conn = "connecting"

=============================================================================
