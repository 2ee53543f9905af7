------------------------------ MODULE AdminPage ------------------------------
(***************************************************************************)
(* The administrator's page of concerts (AdminPage.tsx): its rows, the     *)
(* panel with the zones of the selected concert and its three dialogs,     *)
(* which stay mounted with their loading flags while they are closed.      *)
(*                                                                         *)
(* A request q is a job that the page has in progress.  The handlers of    *)
(* ConcertZones answer it: here, with success or with an error.  Saving a  *)
(* concert is a sequence of calls, the concert's and those for the zones   *)
(* added in the form.                                                      *)
(***************************************************************************)
EXTENDS Naturals, FiniteSets

CONSTANTS
    Concerts,
    Requests,  \* jobs of the page in progress at once
    NoConcert

VARIABLES
    concertRow, \* DB: whether each concert exists
    req,        \* the requests in progress
    selected,   \* selectedConcert
    panel,      \* the concert whose zones are in zones
    loading,    \* zonesLoading
    modal,      \* concertModal: the concert it edits, NoConcert to create one
    saving,     \* ConcertModal: saving
    zoneModal,  \* zoneModal: the concert of its zone
    zoneSaving, \* ZoneModal: saving
    target,     \* deleteTarget
    deleting,   \* DeleteDialog: deleting
    mixed       \* history: a row was pressed while a request was in progress

dialogs == <<modal, saving, zoneModal, zoneSaving, target, deleting>>
vars == <<concertRow, req, selected, panel, loading, modal, saving, zoneModal, zoneSaving,
          target, deleting, mixed>>

-----------------------------------------------------------------------------
Maybe == Concerts \cup {NoConcert}

\* A form that is closed, and one with no concert to edit.
Closed == [open |-> FALSE, c |-> NoConcert]
Modal == {Closed} \cup [open : {TRUE}, c : Maybe]

SavePC == {"save.concert", "save.zones", "saved", "halfSaved", "saveFailed"}
ZonePC == {"zone", "zoneSaved", "zoneFailed"}
DeletePC == {"delete", "deleted", "deleteFailed"}
StatsPC == {"stats", "listed"}

\* c: the concert.  sel: selectedConcert when the request was sent.
Idle == [pc |-> "idle", c |-> NoConcert, sel |-> NoConcert]
Request == {Idle} \cup [pc : SavePC \cup ZonePC \cup DeletePC \cup StatsPC, c : Maybe, sel : Maybe]

TypeOK ==
    /\ concertRow \in [Concerts -> {"none", "exists", "deleted"}]
    /\ req \in [Requests -> Request]
    /\ {selected, panel, target} \subseteq Maybe
    /\ {modal, zoneModal} \subseteq Modal
    /\ {loading, saving, zoneSaving, deleting, mixed} \subseteq BOOLEAN

\* The list has come, with no concert in it.
Init ==
    /\ concertRow = [c \in Concerts |-> "none"]
    /\ req = [q \in Requests |-> Idle]
    /\ selected = NoConcert /\ panel = NoConcert /\ loading = FALSE
    /\ modal = Closed /\ saving = FALSE
    /\ zoneModal = Closed /\ zoneSaving = FALSE
    /\ target = NoConcert /\ deleting = FALSE
    /\ mixed = FALSE

-----------------------------------------------------------------------------
(* Requests.                                                               *)

At(q, pc) == req[q].pc = pc

Goto(q, pc) == req' = [req EXCEPT ![q].pc = pc]

\* The concert matters no more to the answer.
Settle(q, pc) == req' = [req EXCEPT ![q].pc = pc, ![q].c = NoConcert]

Finish(q) == req' = [req EXCEPT ![q] = Idle]

Send(q, pc, c) ==
    /\ req[q] = Idle
    /\ req' = [req EXCEPT ![q] = [pc |-> pc, c |-> c, sel |-> selected]]

\* fetchStats, with q free or just answered.
FetchStats(q, c) ==
    /\ req' = [req EXCEPT ![q] = [pc |-> "stats", c |-> c, sel |-> NoConcert]]
    /\ loading' = TRUE

\* The server: a concert that is gone is answered with an error, and any call
\* may fail.  A concert is saved before its zones; an edited one may get none.
Serve(q) ==
    LET c == req[q].c
        exists == c \in Concerts /\ concertRow[c] = "exists" IN
    /\ \/ /\ At(q, "save.concert")
          /\ concertRow[c] = "none" \/ exists
          /\ concertRow' = [concertRow EXCEPT ![c] = "exists"]
          /\ Goto(q, "save.zones")
       \/ /\ At(q, "save.zones")
          /\ Settle(q, "saved")
          /\ UNCHANGED concertRow
       \/ /\ At(q, "zone") /\ exists
          /\ Settle(q, "zoneSaved")
          /\ UNCHANGED concertRow
       \/ /\ At(q, "delete") /\ exists
          /\ concertRow' = [concertRow EXCEPT ![c] = "deleted"]
          /\ Goto(q, "deleted")
       \/ /\ At(q, "stats") /\ exists
          /\ Goto(q, "listed")
          /\ UNCHANGED concertRow
    /\ UNCHANGED <<selected, panel, loading, dialogs, mixed>>

\* Half saved: an edit without new zones fails as a whole.  The page learns of a
\* failure also when the call was done and its answer is lost.
ServeFails(q) ==
    LET c == req[q].c IN
    /\ \/ req[q].pc \in {"save.concert", "save.zones"} /\ Settle(q, "saveFailed")
       \/ At(q, "save.zones") /\ Settle(q, "halfSaved")
       \/ At(q, "zone") /\ Settle(q, "zoneFailed")
       \/ At(q, "delete") /\ Settle(q, "deleteFailed")
       \/ At(q, "stats") /\ Settle(q, "listed")
    /\ \/ UNCHANGED concertRow
       \/ /\ At(q, "save.concert") /\ concertRow[c] # "deleted"
          /\ concertRow' = [concertRow EXCEPT ![c] = "exists"]
       \/ /\ At(q, "delete") /\ concertRow[c] = "exists"
          /\ concertRow' = [concertRow EXCEPT ![c] = "deleted"]
    /\ UNCHANGED <<selected, panel, loading, dialogs, mixed>>

-----------------------------------------------------------------------------
(* The rows and the panel.                                                 *)

\* The list may lag behind: a concert that is gone may still have its row.
HasRow(c) == concertRow[c] # "none"

NoDialog == ~modal.open /\ ~zoneModal.open /\ target = NoConcert

\* handleRowClick
RowClick(q, c) ==
    /\ NoDialog /\ HasRow(c) /\ req[q] = Idle
    /\ selected' = c
    /\ FetchStats(q, c)
    /\ mixed' = (mixed \/ \E o \in Requests : req[o] # Idle)
    /\ UNCHANGED <<concertRow, panel, dialogs>>

\* Mutant of StatsAnswer: after an error the zones stay.
StatsAnswer_Keeps(q) ==
    /\ At(q, "listed")
    /\ panel' = IF req[q].c = NoConcert THEN panel ELSE req[q].c
    /\ loading' = FALSE
    /\ Finish(q)
    /\ UNCHANGED <<concertRow, selected, dialogs, mixed>>

\* The zones of the answer, whichever concert is selected by now, and none
\* after an error.
StatsAnswer(q) ==
    /\ At(q, "listed")
    /\ panel' = req[q].c
    /\ loading' = FALSE
    /\ Finish(q)
    /\ UNCHANGED <<concertRow, selected, dialogs, mixed>>

\* handleSaved of the render in which the request was sent.
HandleSaved(q) ==
    IF req[q].sel = NoConcert THEN Finish(q) /\ UNCHANGED loading ELSE FetchStats(q, req[q].sel)

-----------------------------------------------------------------------------
(* ConcertModal.                                                           *)

OpenConcert(c) ==
    /\ NoDialog
    /\ c \in Concerts => HasRow(c)
    /\ modal' = [open |-> TRUE, c |-> c]
    /\ UNCHANGED <<concertRow, req, selected, panel, loading, saving, zoneModal, zoneSaving,
                   target, deleting, mixed>>

\* Mutant of CloseConcert: the form comes back ready to save.
CloseConcert_Resets ==
    /\ modal.open
    /\ modal' = Closed
    /\ saving' = FALSE
    /\ UNCHANGED <<concertRow, req, selected, panel, loading, zoneModal, zoneSaving,
                   target, deleting, mixed>>

\* Closing the form does not stop the saving.
CloseConcert ==
    /\ modal.open
    /\ modal' = Closed
    /\ UNCHANGED <<concertRow, req, selected, panel, loading, saving, zoneModal, zoneSaving,
                   target, deleting, mixed>>

\* handleSubmit; the form to create one makes a new concert each time.
SubmitConcert(q, c) ==
    /\ modal.open /\ ~saving
    /\ IF modal.c = NoConcert
         THEN concertRow[c] = "none"
         ELSE modal.c = c
    /\ Send(q, "save.concert", c)
    /\ saving' = TRUE
    /\ UNCHANGED <<concertRow, selected, panel, loading, modal, zoneModal, zoneSaving,
                   target, deleting, mixed>>

\* onSaved, and onClose of the form that is open.  When a zone failed, the
\* lists are read again and the form stays what it was.
SaveAnswer(q) ==
    /\ \/ At(q, "saved") /\ HandleSaved(q) /\ modal' = Closed
       \/ At(q, "halfSaved") /\ HandleSaved(q) /\ UNCHANGED modal
       \/ At(q, "saveFailed") /\ Finish(q) /\ UNCHANGED <<loading, modal>>
    /\ saving' = FALSE
    /\ UNCHANGED <<concertRow, selected, panel, zoneModal, zoneSaving, target, deleting, mixed>>

-----------------------------------------------------------------------------
(* ZoneModal and DeleteDialog.                                             *)

OpenZone ==
    /\ NoDialog
    /\ selected # NoConcert /\ ~loading /\ panel # NoConcert
    /\ zoneModal' = [open |-> TRUE, c |-> panel]
    /\ UNCHANGED <<concertRow, req, selected, panel, loading, modal, saving, zoneSaving,
                   target, deleting, mixed>>

CloseZone ==
    /\ zoneModal.open
    /\ zoneModal' = Closed
    /\ UNCHANGED <<concertRow, req, selected, panel, loading, modal, saving, zoneSaving,
                   target, deleting, mixed>>

SubmitZone(q) ==
    /\ zoneModal.open /\ ~zoneSaving
    /\ Send(q, "zone", zoneModal.c)
    /\ zoneSaving' = TRUE
    /\ UNCHANGED <<concertRow, selected, panel, loading, modal, saving, zoneModal,
                   target, deleting, mixed>>

ZoneAnswer(q) ==
    /\ \/ At(q, "zoneSaved") /\ HandleSaved(q) /\ zoneModal' = Closed
       \/ At(q, "zoneFailed") /\ Finish(q) /\ UNCHANGED <<loading, zoneModal>>
    /\ zoneSaving' = FALSE
    /\ UNCHANGED <<concertRow, selected, panel, modal, saving, target, deleting, mixed>>

OpenDelete(c) ==
    /\ NoDialog /\ HasRow(c)
    /\ target' = c
    /\ UNCHANGED <<concertRow, req, selected, panel, loading, modal, saving, zoneModal,
                   zoneSaving, deleting, mixed>>

\* Mutant of CloseDelete: the dialog comes back ready to delete.
CloseDelete_Resets ==
    /\ target # NoConcert
    /\ target' = NoConcert
    /\ deleting' = FALSE
    /\ UNCHANGED <<concertRow, req, selected, panel, loading, modal, saving, zoneModal,
                   zoneSaving, mixed>>

\* Closing the dialog does not stop the deletion.
CloseDelete ==
    /\ target # NoConcert
    /\ target' = NoConcert
    /\ UNCHANGED <<concertRow, req, selected, panel, loading, modal, saving, zoneModal,
                   zoneSaving, deleting, mixed>>

SubmitDelete(q) ==
    /\ target # NoConcert /\ ~deleting
    /\ Send(q, "delete", target)
    /\ deleting' = TRUE
    /\ UNCHANGED <<concertRow, selected, panel, loading, modal, saving, zoneModal, zoneSaving,
                   target, mixed>>

\* handleDeleted: the panel goes if it was the deleted concert's when the
\* request was sent.  After a success deleting stays TRUE.
DeleteAnswer(q) ==
    /\ \/ /\ At(q, "deleted")
          /\ target' = NoConcert
          /\ IF req[q].sel = req[q].c THEN selected' = NoConcert /\ panel' = NoConcert
                                      ELSE UNCHANGED <<selected, panel>>
          /\ UNCHANGED deleting
       \/ At(q, "deleteFailed") /\ deleting' = FALSE /\ UNCHANGED <<target, selected, panel>>
    /\ Finish(q)
    /\ UNCHANGED <<concertRow, loading, modal, saving, zoneModal, zoneSaving, mixed>>

-----------------------------------------------------------------------------
Answer(q) == StatsAnswer(q) \/ SaveAnswer(q) \/ ZoneAnswer(q) \/ DeleteAnswer(q)

Administrator(q) ==
    \/ \E c \in Concerts : RowClick(q, c) \/ OpenDelete(c) \/ SubmitConcert(q, c)
    \/ \E c \in Maybe : OpenConcert(c)
    \/ OpenZone \/ CloseConcert \/ CloseZone \/ CloseDelete
    \/ SubmitZone(q) \/ SubmitDelete(q)

Next == \E q \in Requests : Administrator(q) \/ Serve(q) \/ ServeFails(q) \/ Answer(q)

Spec == Init /\ [][Next]_vars

-----------------------------------------------------------------------------
(* Properties.                                                             *)

\* saving lives as long as the page: closing the form and opening it again
\* does not save a second concert while the first is being saved.
SavingIsOneCall == Cardinality({q \in Requests : req[q].pc \in SavePC}) = IF saving THEN 1 ELSE 0

\* The panel shows the zones of the selected concert, across saving, deleting
\* and failing reads, unless a row was pressed while a request was in progress.
PanelShowsSelected ==
    selected # NoConcert /\ ~loading /\ ~mixed => panel \in {selected, NoConcert}

\* Closing the dialog and opening it for another concert starts no second
\* deletion while the first is under way, whose answer would close the other's
\* dialog; and a deletion that fails always gives the button back.
OneDeletionAtATime ==
    LET inProgress == {q \in Requests : req[q].pc \in DeletePC} IN
    /\ Cardinality(inProgress) <= 1
    /\ inProgress # {} => deleting
    /\ deleting => inProgress # {} \/ \E c \in Concerts : concertRow[c] = "deleted"

=============================================================================
