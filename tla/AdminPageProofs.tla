---------------------------- MODULE AdminPageProofs ----------------------------
(***************************************************************************)
(* Theorems about AdminPage, for any set of concerts and any number of     *)
(* requests at once.                                                       *)
(***************************************************************************)
EXTENDS AdminPage, FiniteSetTheorems, TLAPS

PagePC == SavePC \cup ZonePC \cup DeletePC \cup StatsPC

-----------------------------------------------------------------------------
(* Types.                                                                  *)

\* A request that is in progress, and how it goes on.
LEMMA Sent ==
    ASSUME TypeOK, NEW q \in Requests
    PROVE  /\ req[q] \in [pc : PagePC \cup {"idle"}, c : Maybe, sel : Maybe]
           /\ req[q].pc = "idle" <=> req[q] = Idle
           /\ req[q].c \in Maybe /\ req[q].sel \in Maybe
<1>1. req[q] \in Request
  BY DEF TypeOK
<1>2. CASE req[q] = Idle
  BY <1>2 DEF Idle, Maybe
<1>3. CASE req[q] \in [pc : PagePC, c : Maybe, sel : Maybe]
  BY <1>3 DEF PagePC, SavePC, ZonePC, DeletePC, StatsPC, Idle
<1>4. QED BY <1>1, <1>2, <1>3 DEF Request, PagePC

LEMMA PutOK ==
    ASSUME TypeOK, NEW q \in Requests, NEW r \in Request, req' = [req EXCEPT ![q] = r]
    PROVE  /\ req' \in [Requests -> Request]
           /\ req'[q] = r
           /\ \A o \in Requests \ {q} : req'[o] = req[o]
BY DEF TypeOK

LEMMA GotoOK ==
    ASSUME TypeOK, NEW q \in Requests, NEW pc \in PagePC, Goto(q, pc)
    PROVE  /\ req' \in [Requests -> Request]
           /\ req'[q].pc = pc /\ req'[q].c = req[q].c /\ req'[q].sel = req[q].sel
           /\ \A o \in Requests \ {q} : req'[o] = req[o]
<1> DEFINE r == [req[q] EXCEPT !.pc = pc]
<1>1. r \in [pc : PagePC, c : Maybe, sel : Maybe] /\ r.pc = pc /\ r.c = req[q].c /\ r.sel = req[q].sel
  BY Sent
<1>2. r \in Request
  BY <1>1 DEF Request, PagePC
<1>3. req' = [req EXCEPT ![q] = r]
  BY DEF Goto
<1> HIDE DEF r
<1>4. QED BY <1>1, <1>2, <1>3, PutOK

LEMMA FinishOK ==
    ASSUME TypeOK, NEW q \in Requests, Finish(q)
    PROVE  /\ req' \in [Requests -> Request]
           /\ req'[q].pc = "idle"
           /\ \A o \in Requests \ {q} : req'[o] = req[o]
<1>1. Idle \in Request /\ Idle.pc = "idle"
  BY DEF Idle, Request
<1>2. QED BY <1>1, PutOK DEF Finish

LEMMA SendOK ==
    ASSUME TypeOK, NEW q \in Requests, NEW pc \in PagePC, NEW c \in Maybe, Send(q, pc, c)
    PROVE  /\ req' \in [Requests -> Request]
           /\ req[q].pc = "idle"
           /\ req'[q].pc = pc /\ req'[q].c = c /\ req'[q].sel = selected
           /\ \A o \in Requests \ {q} : req'[o] = req[o]
<1> DEFINE r == [pc |-> pc, c |-> c, sel |-> selected]
<1>1. r \in Request /\ r.pc = pc /\ r.c = c /\ r.sel = selected
  BY DEF Request, PagePC, TypeOK
<1>2. req' = [req EXCEPT ![q] = r] /\ req[q].pc = "idle"
  BY DEF Send, Idle
<1> HIDE DEF r
<1>3. QED BY <1>1, <1>2, PutOK

LEMMA FetchOK ==
    ASSUME TypeOK, NEW q \in Requests, NEW c \in Maybe, FetchStats(q, c)
    PROVE  /\ req' \in [Requests -> Request]
           /\ req'[q].pc = "stats" /\ req'[q].c = c
           /\ \A o \in Requests \ {q} : req'[o] = req[o]
           /\ loading' = TRUE
<1> DEFINE r == [pc |-> "stats", c |-> c, sel |-> NoConcert]
<1>1. r \in Request /\ r.pc = "stats" /\ r.c = c
  BY DEF Request, StatsPC, Maybe
<1>2. req' = [req EXCEPT ![q] = r]
  BY DEF FetchStats
<1> HIDE DEF r
<1>3. QED BY <1>1, <1>2, PutOK DEF FetchStats

\* handleSaved ends the request or makes it read the zones of sel.
LEMMA SavedOK ==
    ASSUME TypeOK, NEW q \in Requests, HandleSaved(q)
    PROVE  /\ req' \in [Requests -> Request]
           /\ \/ req'[q].pc = "idle" /\ UNCHANGED loading
              \/ req'[q].pc = "stats" /\ req'[q].c = req[q].sel /\ loading' = TRUE
           /\ \A o \in Requests \ {q} : req'[o] = req[o]
BY Sent, FetchOK, FinishOK DEF HandleSaved

LEMMA SettleOK ==
    ASSUME TypeOK, NEW q \in Requests, NEW pc \in PagePC, Settle(q, pc)
    PROVE  /\ req' \in [Requests -> Request]
           /\ req'[q].pc = pc /\ req'[q].c = NoConcert /\ req'[q].sel = req[q].sel
           /\ \A o \in Requests \ {q} : req'[o] = req[o]
<1> DEFINE r == [[req[q] EXCEPT !.pc = pc] EXCEPT !.c = NoConcert]
<1>1. NoConcert \in Maybe
  BY DEF Maybe
<1>2. /\ r \in [pc : PagePC, c : Maybe, sel : Maybe]
      /\ r.pc = pc /\ r.c = NoConcert /\ r.sel = req[q].sel
  BY <1>1, Sent
<1>3. r \in Request
  BY <1>2 DEF Request, PagePC
<1>4. req' = [req EXCEPT ![q] = r]
  BY DEF Settle, TypeOK
<1> HIDE DEF r
<1>5. QED BY <1>2, <1>3, <1>4, PutOK

\* What each step does to the requests: one of them, q, goes from a pc to another.
Saves == {q \in Requests : req[q].pc \in SavePC}
Deletions == {q \in Requests : req[q].pc \in DeletePC}

LEMMA ServeMoves ==
    ASSUME TypeOK, NEW q \in Requests, Serve(q) \/ ServeFails(q)
    PROVE  /\ req' \in [Requests -> Request]
           /\ \A o \in Requests \ {q} : req'[o] = req[o]
           /\ req[q].pc \in SavePC <=> req'[q].pc \in SavePC
           /\ req[q].pc \in DeletePC <=> req'[q].pc \in DeletePC
           /\ req[q].pc \in StatsPC <=> req'[q].pc \in StatsPC
           /\ req'[q].pc \in PagePC /\ req[q].pc \in PagePC
           /\ req'[q].pc \in StatsPC => req'[q].c \in {req[q].c, NoConcert}
           /\ req'[q].pc \notin StatsPC => req'[q].sel = req[q].sel
           /\ req'[q].pc = "deleted" => Serve(q) /\ req[q].pc = "delete"
<1>1. \E p \in {<<"save.concert", "save.zones">>, <<"save.zones", "saved">>,
                 <<"zone", "zoneSaved">>, <<"stats", "listed">>,
                 <<"save.concert", "saveFailed">>, <<"save.zones", "saveFailed">>,
                 <<"save.zones", "halfSaved">>, <<"zone", "zoneFailed">>,
                 <<"delete", "deleteFailed">>, <<"delete", "deleted">>} :
        /\ req[q].pc = p[1]
        /\ Goto(q, p[2]) \/ Settle(q, p[2])
        /\ p[2] = "deleted" => Serve(q)
  <2>1. CASE Serve(q)
    BY <2>1 DEF Serve, At
  <2>2. CASE ServeFails(q)
    BY <2>2 DEF ServeFails, At
  <2>3. QED BY <2>1, <2>2
<1>2. PICK p \in {<<"save.concert", "save.zones">>, <<"save.zones", "saved">>,
                  <<"zone", "zoneSaved">>, <<"stats", "listed">>,
                  <<"save.concert", "saveFailed">>, <<"save.zones", "saveFailed">>,
                  <<"save.zones", "halfSaved">>, <<"zone", "zoneFailed">>,
                  <<"delete", "deleteFailed">>, <<"delete", "deleted">>} :
        /\ req[q].pc = p[1]
        /\ Goto(q, p[2]) \/ Settle(q, p[2])
        /\ p[2] = "deleted" => Serve(q)
  BY <1>1
<1>3. p[2] \in PagePC /\ p[1] \in PagePC
  BY DEF PagePC, SavePC, ZonePC, DeletePC, StatsPC
<1>4. /\ p[1] \in SavePC <=> p[2] \in SavePC
      /\ p[1] \in DeletePC <=> p[2] \in DeletePC
      /\ p[1] \in StatsPC <=> p[2] \in StatsPC
      /\ p[2] = "deleted" => p[1] = "delete"
  BY DEF SavePC, ZonePC, DeletePC, StatsPC
<1>5. /\ req' \in [Requests -> Request]
      /\ req'[q].pc = p[2] /\ req'[q].sel = req[q].sel
      /\ req'[q].c \in {req[q].c, NoConcert}
      /\ \A o \in Requests \ {q} : req'[o] = req[o]
  BY <1>2, <1>3, GotoOK, SettleOK
<1>6. QED BY <1>2, <1>3, <1>4, <1>5

LEMMA ZoneForm == ASSUME TypeOK PROVE zoneModal.c \in Maybe
<1>1. zoneModal \in Modal
  BY DEF TypeOK
<1>2. zoneModal = Closed \/ zoneModal \in [open : {TRUE}, c : Maybe]
  BY <1>1 DEF Modal
<1>3. Closed.c \in Maybe
  BY DEF Closed, Maybe
<1>4. QED BY <1>2, <1>3

LEMMA TypeInit == Init => TypeOK
BY DEF Init, TypeOK, Request, Maybe, Modal

LEMMA AdministratorTypes ==
    ASSUME TypeOK, NEW q \in Requests, Administrator(q)
    PROVE  TypeOK'
<1>1. Closed \in Modal /\ NoConcert \in Maybe /\ Concerts \subseteq Maybe
  BY DEF Modal, Maybe
<1>2. \A c \in Maybe : [open |-> TRUE, c |-> c] \in Modal
  BY DEF Modal
<1>3. zoneModal.c \in Maybe
  BY ZoneForm
<1>4. ASSUME NEW c \in Concerts, RowClick(q, c) PROVE TypeOK'
  BY <1>1, <1>4, FetchOK DEF RowClick, dialogs, TypeOK
<1>5. ASSUME NEW c \in Concerts, SubmitConcert(q, c) PROVE TypeOK'
  <2>1. "save.concert" \in PagePC
    BY DEF PagePC, SavePC
  <2>2. req' \in [Requests -> Request]
    BY <1>1, <1>5, <2>1, SendOK DEF SubmitConcert
  <2>3. QED BY <1>5, <2>2 DEF SubmitConcert, TypeOK
<1>6. CASE SubmitZone(q)
  <2>1. "zone" \in PagePC
    BY DEF PagePC, ZonePC
  <2>2. req' \in [Requests -> Request]
    BY <1>3, <1>6, <2>1, SendOK DEF SubmitZone
  <2>3. QED BY <1>6, <2>2 DEF SubmitZone, TypeOK
<1>7. CASE SubmitDelete(q)
  <2>1. "delete" \in PagePC /\ target \in Maybe
    BY DEF PagePC, DeletePC, TypeOK
  <2>2. req' \in [Requests -> Request]
    BY <1>7, <2>1, SendOK DEF SubmitDelete
  <2>3. QED BY <1>7, <2>2 DEF SubmitDelete, TypeOK
<1>8. CASE \/ \E c \in Concerts : OpenDelete(c)
           \/ \E c \in Maybe : OpenConcert(c)
           \/ OpenZone \/ CloseConcert \/ CloseZone \/ CloseDelete
  BY <1>1, <1>2, <1>8 DEF OpenDelete, OpenConcert, OpenZone, CloseConcert, CloseZone,
     CloseDelete, TypeOK
<1>9. QED BY <1>4, <1>5, <1>6, <1>7, <1>8 DEF Administrator

LEMMA ServeTypes ==
    ASSUME TypeOK, NEW q \in Requests, Serve(q) \/ ServeFails(q)
    PROVE  TypeOK'
<1>1. req' \in [Requests -> Request]
  BY ServeMoves
<1>2. concertRow' \in [Concerts -> {"none", "exists", "deleted"}]
  BY DEF TypeOK, Serve, ServeFails
<1>3. UNCHANGED <<selected, panel, loading, dialogs, mixed>>
  BY DEF Serve, ServeFails
<1>4. QED BY <1>1, <1>2, <1>3 DEF TypeOK, dialogs

LEMMA AnswerTypes ==
    ASSUME TypeOK, NEW q \in Requests, Answer(q)
    PROVE  TypeOK'
<1>1. Closed \in Modal /\ NoConcert \in Maybe /\ req[q].c \in Maybe
  BY Sent DEF Modal, Maybe
<1>2. CASE StatsAnswer(q)
  BY <1>1, <1>2, FinishOK DEF StatsAnswer, dialogs, TypeOK
<1>3. CASE SaveAnswer(q)
  <2>1. req' \in [Requests -> Request] /\ loading' \in BOOLEAN
    BY <1>3, SavedOK, FinishOK DEF SaveAnswer, TypeOK
  <2>2. QED BY <1>1, <1>3, <2>1 DEF SaveAnswer, TypeOK
<1>4. CASE ZoneAnswer(q)
  <2>1. req' \in [Requests -> Request] /\ loading' \in BOOLEAN
    BY <1>4, SavedOK, FinishOK DEF ZoneAnswer, TypeOK
  <2>2. QED BY <1>1, <1>4, <2>1 DEF ZoneAnswer, TypeOK
<1>5. CASE DeleteAnswer(q)
  BY <1>1, <1>5, FinishOK DEF DeleteAnswer, TypeOK
<1>6. QED BY <1>2, <1>3, <1>4, <1>5 DEF Answer

LEMMA TypeStep == TypeOK /\ [Next]_vars => TypeOK'
<1> SUFFICES ASSUME TypeOK, [Next]_vars PROVE TypeOK'
  OBVIOUS
<1>1. CASE UNCHANGED vars
  BY <1>1 DEF vars, TypeOK
<1>2. QED BY <1>1, AdministratorTypes, ServeTypes, AnswerTypes DEF Next

\* Rows, requests, panel and dialogs keep their types.
THEOREM PageTypeCorrect == Spec => []TypeOK
BY TypeInit, TypeStep, PTL DEF Spec

-----------------------------------------------------------------------------
(* Saving.                                                                 *)

\* The flag is set exactly while one saving is in progress.
OneSaving == IF saving THEN \E q \in Requests : Saves = {q} ELSE Saves = {}

\* A step that moves no request into or out of the saving.
LEMMA SavesFrame ==
    ASSUME OneSaving, UNCHANGED saving, NEW q \in Requests,
           \A o \in Requests \ {q} : req'[o] = req[o],
           req'[q].pc \in SavePC <=> req[q].pc \in SavePC
    PROVE  OneSaving'
<1>1. Saves' = Saves
  BY DEF Saves
<1>2. QED BY <1>1 DEF OneSaving

LEMMA SavingStep == TypeOK /\ OneSaving /\ [Next]_vars => OneSaving'
<1> SUFFICES ASSUME TypeOK, OneSaving, [Next]_vars PROVE OneSaving'
  OBVIOUS
<1>1. CASE UNCHANGED <<req, saving>>
  BY <1>1 DEF OneSaving, Saves
<1>2. "idle" \notin SavePC /\ "stats" \notin SavePC /\ "zone" \notin SavePC /\ "delete" \notin SavePC
  BY DEF SavePC
<1>3. ASSUME NEW q \in Requests, NEW c \in Concerts, SubmitConcert(q, c)
      PROVE  OneSaving'
  <2>1. Saves = {} /\ saving' = TRUE
    BY <1>3 DEF SubmitConcert, OneSaving
  <2>2. "save.concert" \in PagePC /\ "save.concert" \in SavePC /\ c \in Maybe
    BY DEF PagePC, SavePC, Maybe
  <2>3. req'[q].pc \in SavePC /\ \A o \in Requests \ {q} : req'[o] = req[o]
    BY <1>3, <2>2, SendOK DEF SubmitConcert
  <2>4. Saves' = {q}
    BY <2>1, <2>3 DEF Saves
  <2>5. QED BY <2>1, <2>4 DEF OneSaving
<1>4. ASSUME NEW q \in Requests, SaveAnswer(q)
      PROVE  OneSaving'
  <2>1. req[q].pc \in SavePC /\ saving' = FALSE
    BY <1>4 DEF SaveAnswer, At, SavePC
  <2>2. Saves = {q}
    BY <2>1 DEF OneSaving, Saves
  <2>3. req'[q].pc \notin SavePC /\ \A o \in Requests \ {q} : req'[o] = req[o]
    BY <1>2, <1>4, SavedOK, FinishOK DEF SaveAnswer
  <2>4. Saves' = {}
    BY <2>2, <2>3 DEF Saves
  <2>5. QED BY <2>1, <2>4 DEF OneSaving
<1>5. ASSUME NEW q \in Requests, NEW c \in Concerts, RowClick(q, c)
      PROVE  OneSaving'
  <2>1. c \in Maybe /\ req[q].pc = "idle" /\ UNCHANGED saving
    BY <1>5 DEF RowClick, dialogs, Maybe, Idle
  <2>2. req'[q].pc = "stats" /\ \A o \in Requests \ {q} : req'[o] = req[o]
    BY <1>5, <2>1, FetchOK DEF RowClick
  <2>3. QED BY <1>2, <2>1, <2>2, SavesFrame
<1>6. ASSUME NEW q \in Requests, SubmitZone(q)
      PROVE  OneSaving'
  <2>1. "zone" \in PagePC /\ zoneModal.c \in Maybe
    BY ZoneForm DEF PagePC, ZonePC
  <2>2. QED BY <1>2, <1>6, <2>1, SendOK, SavesFrame DEF SubmitZone
<1>7. ASSUME NEW q \in Requests, SubmitDelete(q)
      PROVE  OneSaving'
  <2>1. "delete" \in PagePC /\ target \in Maybe
    BY DEF PagePC, DeletePC, TypeOK
  <2>2. QED BY <1>2, <1>7, <2>1, SendOK, SavesFrame DEF SubmitDelete
<1>8. ASSUME NEW q \in Requests, Serve(q) \/ ServeFails(q)
      PROVE  OneSaving'
  BY <1>8, ServeMoves, SavesFrame DEF Serve, ServeFails, dialogs
<1>9. ASSUME NEW q \in Requests, StatsAnswer(q) \/ DeleteAnswer(q) \/ ZoneAnswer(q)
      PROVE  OneSaving'
  <2>1. req[q].pc \notin SavePC /\ UNCHANGED saving
    BY <1>9 DEF StatsAnswer, DeleteAnswer, ZoneAnswer, At, SavePC, dialogs
  <2>2. req'[q].pc \notin SavePC /\ \A o \in Requests \ {q} : req'[o] = req[o]
    BY <1>2, <1>9, SavedOK, FinishOK DEF StatsAnswer, DeleteAnswer, ZoneAnswer
  <2>3. QED BY <2>1, <2>2, SavesFrame
<1>10. CASE \/ \E c \in Concerts : OpenDelete(c)
            \/ \E c \in Maybe : OpenConcert(c)
            \/ OpenZone \/ CloseConcert \/ CloseZone \/ CloseDelete \/ UNCHANGED vars
  BY <1>1, <1>10 DEF OpenDelete, OpenConcert, OpenZone, CloseConcert, CloseZone, CloseDelete, vars
<1>11. QED
  BY <1>3, <1>4, <1>5, <1>6, <1>7, <1>8, <1>9, <1>10 DEF Next, Administrator, Answer

\* Closing the form and opening it again does not save a second concert while
\* the first is being saved.
THEOREM SavingIsOneCallCorrect == Spec => []SavingIsOneCall
<1>1. Init => OneSaving
  BY DEF Init, OneSaving, Saves, Idle, SavePC
<1>2. TypeOK /\ OneSaving => SavingIsOneCall
  <2>1. SUFFICES ASSUME TypeOK, OneSaving PROVE Cardinality(Saves) = IF saving THEN 1 ELSE 0
    BY DEF SavingIsOneCall, Saves
  <2>2. QED BY <2>1, FS_EmptySet, FS_Singleton DEF OneSaving
<1>3. QED BY <1>1, <1>2, TypeInit, TypeStep, SavingStep, PTL DEF Spec

-----------------------------------------------------------------------------
(* Deleting.                                                               *)

Gone == {c \in Concerts : concertRow[c] = "deleted"}

\* One deletion is in progress at a time, while the button does not work.  The
\* page has been told of a deletion only if there was one, and the button does
\* not work without a deletion in progress only after such an answer.
SingleDeletion ==
    /\ \A q, o \in Deletions : q = o
    /\ Deletions # {} => deleting
    /\ deleting => Deletions # {} \/ Gone # {}
    /\ \A q \in Requests : req[q].pc = "deleted" => Gone # {}

\* A step that neither deletes nor moves a request into or out of a deletion.
LEMMA DeletionFrame ==
    ASSUME SingleDeletion, UNCHANGED deleting, Gone \subseteq Gone', NEW q \in Requests,
           \A o \in Requests \ {q} : req'[o] = req[o],
           req'[q].pc \in DeletePC <=> req[q].pc \in DeletePC,
           req'[q].pc # "deleted"
    PROVE  SingleDeletion'
<1>1. Deletions' = Deletions
  BY DEF Deletions
<1>2. \A o \in Requests : req'[o].pc = "deleted" => req[o].pc = "deleted"
  OBVIOUS
<1>3. QED BY <1>1, <1>2 DEF SingleDeletion

LEMMA DeletionStep == TypeOK /\ SingleDeletion /\ [Next]_vars => SingleDeletion'
<1> SUFFICES ASSUME TypeOK, SingleDeletion, [Next]_vars PROVE SingleDeletion'
  OBVIOUS
<1>1. CASE UNCHANGED <<req, concertRow, deleting>>
  BY <1>1 DEF SingleDeletion, Deletions, Gone
<1>2. /\ \A pc \in {"idle", "stats", "zone", "save.concert"} :
            pc \notin DeletePC /\ pc # "deleted"
      /\ \A pc \in SavePC \cup ZonePC \cup StatsPC : pc \notin DeletePC
  BY DEF SavePC, ZonePC, StatsPC, DeletePC
<1>3. UNCHANGED concertRow => Gone' = Gone
  BY DEF Gone
<1>4. ASSUME NEW q \in Requests, NEW c \in Concerts, SubmitConcert(q, c)
      PROVE  SingleDeletion'
  <2>1. "save.concert" \in PagePC /\ c \in Maybe
    BY DEF PagePC, SavePC, Maybe
  <2>2. /\ req[q].pc = "idle" /\ req'[q].pc = "save.concert"
        /\ \A o \in Requests \ {q} : req'[o] = req[o]
    BY <1>4, <2>1, SendOK DEF SubmitConcert
  <2>3. UNCHANGED <<concertRow, deleting>>
    BY <1>4 DEF SubmitConcert
  <2>4. QED BY <1>2, <1>3, <2>2, <2>3, DeletionFrame
<1>5. ASSUME NEW q \in Requests, SubmitZone(q)
      PROVE  SingleDeletion'
  <2>1. "zone" \in PagePC /\ zoneModal.c \in Maybe
    BY ZoneForm DEF PagePC, ZonePC
  <2>2. /\ req[q].pc = "idle" /\ req'[q].pc = "zone"
        /\ \A o \in Requests \ {q} : req'[o] = req[o]
    BY <1>5, <2>1, SendOK DEF SubmitZone
  <2>3. UNCHANGED <<concertRow, deleting>>
    BY <1>5 DEF SubmitZone
  <2>4. QED BY <1>2, <1>3, <2>2, <2>3, DeletionFrame
<1>6. ASSUME NEW q \in Requests, SubmitDelete(q)
      PROVE  SingleDeletion'
  <2>1. "delete" \in PagePC /\ "delete" \in DeletePC /\ target \in Maybe
    BY DEF PagePC, DeletePC, TypeOK
  <2>2. /\ req'[q].pc = "delete" /\ \A o \in Requests \ {q} : req'[o] = req[o]
    BY <1>6, <2>1, SendOK DEF SubmitDelete
  <2>3. ~deleting /\ deleting' = TRUE /\ UNCHANGED concertRow
    BY <1>6 DEF SubmitDelete
  <2>4. Deletions = {} /\ Gone' = Gone
    BY <1>3, <2>3 DEF SingleDeletion
  <2>5. Deletions' = {q}
    BY <2>1, <2>2, <2>4 DEF Deletions
  <2>6. \A o \in Requests : req'[o].pc = "deleted" => req[o].pc = "deleted"
    BY <2>2
  <2>7. QED BY <2>3, <2>4, <2>5, <2>6 DEF SingleDeletion
<1>7. ASSUME NEW q \in Requests, NEW c \in Concerts, RowClick(q, c)
      PROVE  SingleDeletion'
  <2>1. c \in Maybe /\ req[q].pc = "idle" /\ UNCHANGED <<concertRow, deleting>>
    BY <1>7 DEF RowClick, dialogs, Maybe, Idle
  <2>2. req'[q].pc = "stats" /\ \A o \in Requests \ {q} : req'[o] = req[o]
    BY <1>7, <2>1, FetchOK DEF RowClick
  <2>3. QED BY <1>2, <1>3, <2>1, <2>2, DeletionFrame
<1>8. ASSUME NEW q \in Requests, Serve(q), req[q].pc = "delete"
      PROVE  SingleDeletion'
  <2>1. q \in Deletions /\ deleting
    BY <1>8 DEF SingleDeletion, Deletions, DeletePC
  <2>2. /\ concertRow' = [concertRow EXCEPT ![req[q].c] = "deleted"] /\ req[q].c \in Concerts
        /\ Goto(q, "deleted") /\ UNCHANGED deleting
    BY <1>8 DEF Serve, At, dialogs
  <2>3. req[q].c \in Gone'
    BY <2>2 DEF Gone, TypeOK
  <2>4. "deleted" \in PagePC /\ "deleted" \in DeletePC
    BY DEF PagePC, DeletePC
  <2>5. req'[q].pc = "deleted" /\ \A o \in Requests \ {q} : req'[o] = req[o]
    BY <2>2, <2>4, GotoOK
  <2>6. Deletions' = Deletions
    BY <2>1, <2>4, <2>5 DEF Deletions
  <2>7. QED BY <2>1, <2>2, <2>3, <2>6 DEF SingleDeletion
<1>9. ASSUME NEW q \in Requests, (Serve(q) /\ req[q].pc # "delete") \/ ServeFails(q)
      PROVE  SingleDeletion'
  <2>1. UNCHANGED deleting
    BY <1>9 DEF Serve, ServeFails, dialogs
  <2>2. Gone \subseteq Gone'
    <3>1. CASE UNCHANGED concertRow
      BY <3>1 DEF Gone
    <3>2. CASE /\ concertRow[req[q].c] # "deleted"
               /\ \E v \in {"exists", "deleted"} :
                    concertRow' = [concertRow EXCEPT ![req[q].c] = v]
      BY <3>2 DEF Gone, TypeOK
    <3>3. CASE Serve(q) /\ req[q].pc # "delete"
      BY <3>1, <3>2, <3>3 DEF Serve, At
    <3>4. CASE ServeFails(q)
      BY <3>1, <3>2, <3>4 DEF ServeFails, At
    <3>5. QED BY <1>9, <3>3, <3>4
  <2>3. req'[q].pc # "deleted"
    <3>1. CASE ServeFails(q)
      <4>1. {"saveFailed", "halfSaved", "zoneFailed", "deleteFailed", "listed"} \subseteq PagePC
        BY DEF PagePC, SavePC, ZonePC, DeletePC, StatsPC
      <4>2. \E pc \in {"saveFailed", "halfSaved", "zoneFailed", "deleteFailed", "listed"} : Settle(q, pc)
        BY <3>1 DEF ServeFails
      <4>3. QED BY <4>1, <4>2, SettleOK
    <3>2. QED BY <1>9, <3>1, ServeMoves
  <2>4. QED BY <1>9, <2>1, <2>2, <2>3, ServeMoves, DeletionFrame
<1>10. ASSUME NEW q \in Requests, StatsAnswer(q) \/ SaveAnswer(q) \/ ZoneAnswer(q)
      PROVE  SingleDeletion'
  <2>1. req[q].pc \notin DeletePC /\ UNCHANGED <<concertRow, deleting>>
    BY <1>10 DEF StatsAnswer, SaveAnswer, ZoneAnswer, At, DeletePC, dialogs
  <2>2. req'[q].pc \in {"idle", "stats"} /\ \A o \in Requests \ {q} : req'[o] = req[o]
    BY <1>10, SavedOK, FinishOK DEF StatsAnswer, SaveAnswer, ZoneAnswer
  <2>3. QED BY <1>2, <1>3, <2>1, <2>2, DeletionFrame
<1>11. ASSUME NEW q \in Requests, DeleteAnswer(q)
      PROVE  SingleDeletion'
  <2>1. q \in Deletions
    BY <1>11 DEF DeleteAnswer, At, Deletions, DeletePC
  <2>2. Deletions = {q}
    BY <2>1 DEF SingleDeletion
  <2>3. req'[q].pc = "idle" /\ \A o \in Requests \ {q} : req'[o] = req[o]
    BY <1>11, FinishOK DEF DeleteAnswer
  <2>4. Deletions' = {}
    BY <1>2, <2>2, <2>3 DEF Deletions
  <2>5. \A o \in Requests : req'[o].pc # "deleted"
    BY <2>4 DEF Deletions, DeletePC
  <2>6. UNCHANGED concertRow /\ (At(q, "deleted") \/ deleting' = FALSE)
    BY <1>11 DEF DeleteAnswer
  <2>7. deleting' => Gone # {}
    BY <2>6 DEF SingleDeletion, At
  <2>8. QED BY <1>3, <2>4, <2>5, <2>6, <2>7 DEF SingleDeletion
<1>12. CASE \/ \E c \in Concerts : OpenDelete(c)
            \/ \E c \in Maybe : OpenConcert(c)
            \/ OpenZone \/ CloseConcert \/ CloseZone \/ CloseDelete \/ UNCHANGED vars
  BY <1>1, <1>12 DEF OpenDelete, OpenConcert, OpenZone, CloseConcert, CloseZone, CloseDelete, vars
<1>13. QED
  BY <1>4, <1>5, <1>6, <1>7, <1>8, <1>9, <1>10, <1>11, <1>12 DEF Next, Administrator, Answer

\* Closing the dialog and opening it for another concert starts no second
\* deletion while the first is under way, and a failure gives the button back.
THEOREM OneDeletionAtATimeCorrect == Spec => []OneDeletionAtATime
<1>1. Init => SingleDeletion
  BY DEF Init, SingleDeletion, Deletions, Gone, Idle, DeletePC
<1>2. SingleDeletion => OneDeletionAtATime
  <2>1. SUFFICES ASSUME SingleDeletion PROVE Cardinality(Deletions) <= 1
    BY DEF OneDeletionAtATime, Deletions, Gone, SingleDeletion
  <2>2. CASE Deletions = {}
    BY <2>2, FS_EmptySet
  <2>3. CASE Deletions # {}
    <3>1. PICK q \in Deletions : Deletions = {q}
      BY <2>1, <2>3 DEF SingleDeletion
    <3>2. Cardinality({q}) = 1
      BY FS_Singleton
    <3>3. QED BY <3>1, <3>2
  <2>4. QED BY <2>2, <2>3
<1>3. QED BY <1>1, <1>2, TypeInit, TypeStep, DeletionStep, PTL DEF Spec

-----------------------------------------------------------------------------
(* The panel.                                                              *)

\* As long as rows are pressed only between requests, every request in progress
\* was sent for the concert that is selected.
PanelInv ==
    selected # NoConcert /\ ~mixed =>
        /\ \A q \in Requests :
             /\ req[q].pc \in SavePC \cup ZonePC \cup DeletePC => req[q].sel = selected
             /\ req[q].pc \in StatsPC => req[q].c \in {selected, NoConcert}
        /\ ~loading => panel \in {selected, NoConcert}

\* A step of the request q that selects nothing.
LEMMA PanelFrame ==
    ASSUME TypeOK, PanelInv, NEW q \in Requests, UNCHANGED <<selected, mixed>>,
           \A o \in Requests \ {q} : req'[o] = req[o],
           req'[q].pc \in SavePC \cup ZonePC \cup DeletePC =>
             \/ req'[q].sel = selected
             \/ req[q].pc \in SavePC \cup ZonePC \cup DeletePC /\ req'[q].sel = req[q].sel,
           req'[q].pc \in StatsPC =>
             \/ req'[q].c = selected
             \/ req[q].pc \in StatsPC /\ req'[q].c \in {req[q].c, NoConcert}
             \/ req[q].pc \in SavePC \cup ZonePC \cup DeletePC /\ req'[q].c = req[q].sel,
           \/ UNCHANGED panel /\ (loading' \/ UNCHANGED loading)
           \/ req[q].pc \in StatsPC /\ panel' = req[q].c
    PROVE  PanelInv'
<1> SUFFICES ASSUME selected # NoConcert, ~mixed
             PROVE  /\ \A o \in Requests :
                         /\ req'[o].pc \in SavePC \cup ZonePC \cup DeletePC => req'[o].sel = selected
                         /\ req'[o].pc \in StatsPC => req'[o].c \in {selected, NoConcert}
                    /\ ~loading' => panel' \in {selected, NoConcert}
  BY DEF PanelInv
<1>1. /\ \A o \in Requests :
           /\ req[o].pc \in SavePC \cup ZonePC \cup DeletePC => req[o].sel = selected
           /\ req[o].pc \in StatsPC => req[o].c \in {selected, NoConcert}
      /\ ~loading => panel \in {selected, NoConcert}
  BY DEF PanelInv
<1>2. QED BY <1>1

LEMMA PanelStep == TypeOK /\ PanelInv /\ [Next]_vars => PanelInv'
<1> SUFFICES ASSUME TypeOK, PanelInv, [Next]_vars PROVE PanelInv'
  OBVIOUS
<1>1. CASE UNCHANGED <<req, selected, mixed, panel, loading>>
  BY <1>1 DEF PanelInv
<1>2. /\ \A pc \in SavePC \cup ZonePC \cup DeletePC : pc \notin StatsPC
      /\ \A pc \in StatsPC : pc \notin SavePC \cup ZonePC \cup DeletePC
      /\ {"idle", "stats"} \cap (SavePC \cup ZonePC \cup DeletePC) = {}
      /\ "idle" \notin StatsPC /\ "stats" \in StatsPC
  BY DEF SavePC, ZonePC, StatsPC, DeletePC
<1>3. ASSUME NEW q \in Requests, NEW pc \in SavePC \cup ZonePC \cup DeletePC, NEW c \in Maybe,
             Send(q, pc, c), UNCHANGED <<selected, mixed, panel, loading>>
      PROVE  PanelInv'
  <2>1. pc \in PagePC
    BY DEF PagePC
  <2>2. /\ req'[q].pc = pc /\ req'[q].sel = selected
        /\ \A o \in Requests \ {q} : req'[o] = req[o]
    BY <1>3, <2>1, SendOK
  <2>3. QED BY <1>2, <1>3, <2>2, PanelFrame
<1>4. ASSUME NEW q \in Requests,
             SubmitZone(q) \/ SubmitDelete(q) \/ \E c \in Concerts : SubmitConcert(q, c)
      PROVE  PanelInv'
  <2>1. /\ "zone" \in SavePC \cup ZonePC \cup DeletePC
        /\ "delete" \in SavePC \cup ZonePC \cup DeletePC
        /\ "save.concert" \in SavePC \cup ZonePC \cup DeletePC
    BY DEF SavePC, ZonePC, DeletePC
  <2>2. zoneModal.c \in Maybe /\ target \in Maybe /\ Concerts \subseteq Maybe
    BY ZoneForm DEF TypeOK, Maybe
  <2>3. QED BY <1>3, <1>4, <2>1, <2>2 DEF SubmitZone, SubmitDelete, SubmitConcert
<1>5. ASSUME NEW q \in Requests, NEW c \in Concerts, RowClick(q, c)
      PROVE  PanelInv'
  <2>1. c \in Maybe /\ selected' = c
    BY <1>5 DEF RowClick, Maybe
  <2>2. /\ req'[q].pc = "stats" /\ req'[q].c = c /\ loading' = TRUE
        /\ \A o \in Requests \ {q} : req'[o] = req[o]
    BY <1>5, <2>1, FetchOK DEF RowClick
  <2>3. ~mixed' => \A o \in Requests : req[o].pc = "idle"
    <3>1. ~mixed' => \A o \in Requests : req[o] = Idle
      BY <1>5, Zenon DEF RowClick
    <3>2. QED BY <3>1 DEF Idle
  <2>4. QED BY <1>2, <2>1, <2>2, <2>3 DEF PanelInv
<1>6. ASSUME NEW q \in Requests, Serve(q) \/ ServeFails(q)
      PROVE  PanelInv'
  <2>1. UNCHANGED <<selected, panel, loading, mixed>>
    BY <1>6 DEF Serve, ServeFails
  <2>2. req[q].pc \in PagePC /\ PagePC = SavePC \cup ZonePC \cup DeletePC \cup StatsPC
    BY <1>6, ServeMoves DEF PagePC
  <2>3. QED BY <1>2, <1>6, <2>1, <2>2, ServeMoves, PanelFrame
<1>7. ASSUME NEW q \in Requests, StatsAnswer(q)
      PROVE  PanelInv'
  <2>1. req[q].pc \in StatsPC /\ panel' = req[q].c /\ UNCHANGED <<selected, mixed>>
    BY <1>7 DEF StatsAnswer, At, StatsPC
  <2>2. req'[q].pc = "idle" /\ \A o \in Requests \ {q} : req'[o] = req[o]
    BY <1>7, FinishOK DEF StatsAnswer
  <2>3. QED BY <1>2, <2>1, <2>2, PanelFrame
<1>8. ASSUME NEW q \in Requests, SaveAnswer(q) \/ ZoneAnswer(q)
      PROVE  PanelInv'
  <2>1. /\ req[q].pc \in SavePC \cup ZonePC \cup DeletePC
        /\ UNCHANGED <<selected, panel, mixed>>
    BY <1>8 DEF SaveAnswer, ZoneAnswer, At, SavePC, ZonePC
  <2>2. /\ \/ req'[q].pc = "idle" /\ UNCHANGED loading
           \/ req'[q].pc = "stats" /\ req'[q].c = req[q].sel /\ loading' = TRUE
        /\ \A o \in Requests \ {q} : req'[o] = req[o]
    BY <1>8, SavedOK, FinishOK DEF SaveAnswer, ZoneAnswer
  <2>3. QED BY <1>2, <2>1, <2>2, PanelFrame
<1>9. ASSUME NEW q \in Requests, DeleteAnswer(q)
      PROVE  PanelInv'
  <2>1. req'[q].pc = "idle" /\ \A o \in Requests \ {q} : req'[o] = req[o]
    BY <1>9, FinishOK DEF DeleteAnswer
  <2>2. UNCHANGED <<loading, mixed>>
    BY <1>9 DEF DeleteAnswer
  <2>3. CASE selected' = NoConcert
    BY <2>3 DEF PanelInv
  <2>4. CASE UNCHANGED <<selected, panel>>
    BY <1>2, <2>1, <2>2, <2>4, PanelFrame
  <2>5. QED BY <1>9, <2>3, <2>4 DEF DeleteAnswer
<1>10. CASE \/ \E c \in Concerts : OpenDelete(c)
            \/ \E c \in Maybe : OpenConcert(c)
            \/ OpenZone \/ CloseConcert \/ CloseZone \/ CloseDelete \/ UNCHANGED vars
  BY <1>1, <1>10 DEF OpenDelete, OpenConcert, OpenZone, CloseConcert, CloseZone, CloseDelete, vars
<1>11. QED
  BY <1>4, <1>5, <1>6, <1>7, <1>8, <1>9, <1>10 DEF Next, Administrator, Answer

\* The panel shows the zones of the selected concert, across saving, deleting and
\* failing reads in any order, unless a row was pressed among them.
THEOREM PanelShowsSelectedCorrect == Spec => []PanelShowsSelected
<1>1. Init => PanelInv
  BY DEF Init, PanelInv
<1>2. PanelInv => PanelShowsSelected
  BY DEF PanelInv, PanelShowsSelected
<1>3. QED BY <1>1, <1>2, TypeInit, TypeStep, PanelStep, PTL DEF Spec

=============================================================================
