---------------------------- MODULE SupportPosts ----------------------------
(***************************************************************************)
(* Support posts: post.service.ts over the posts and replies tables, the   *)
(* page of the user who writes them (SupportPage.tsx) and the page of the  *)
(* administrator who answers them (AdminSupportPage.tsx).                  *)
(*                                                                         *)
(* A request q is one HTTP call in progress.  req[q].pc names the database *)
(* call its handler is about to make, or the answer that is on its way to  *)
(* the page; answers arrive in any order.  The user and the administrator  *)
(* have one page each.                                                     *)
(***************************************************************************)
EXTENDS Naturals, FiniteSets

CONSTANTS
    Posts,      \* the posts the user may write
    Requests,   \* HTTP calls in progress at once
    NoPost,     \* not a post
    NoRequest   \* not a request

PostConstants == NoPost \notin Posts /\ NoRequest \notin Requests

VARIABLES
    status,   \* DB: status of each post, "none" before it is written
    reply,    \* DB: the posts that have a reply row
    req,      \* the requests in progress
    list,     \* what each page's list shows
    writing,  \* user page: the form is open; its call, if it is loading
    target,   \* user page: the post whose deletion the dialog asks about
    deleting, \* user page: deleteLoading
    form,     \* admin page: the reply form, its post and its call
    behind    \* history: pages that had two list calls at once or a call fail

db == <<status, reply>>
userPage == <<writing, target, deleting>>
pages == <<list, writing, target, deleting, form, behind>>
vars == <<status, reply, req, list, writing, target, deleting, form, behind>>

-----------------------------------------------------------------------------
Pages == {"user", "admin"}
Listed == [Posts -> {"none", "PENDING", "ANSWERED"}]

HandlerPC == {"create.insert", "delete.find", "delete.row", "reply.findPost",
              "reply.findReply", "reply.tx", "update.find", "update.row"}
AnswerPC == {"created", "createFailed", "deleted", "deleteFailed", "replied", "replyFailed"}

\* raced: history, the post was answered after the deletion's check.
Idle == [pc |-> "idle"]
Request ==
    {Idle}
    \cup [pc : HandlerPC \cup AnswerPC, post : Posts, raced : BOOLEAN]
    \cup [pc : {"list.read"}, page : Pages]
    \cup [pc : {"listed"}, page : Pages, rows : Listed]

CallOrNone == Requests \cup {NoRequest}

TypeOK ==
    /\ status \in [Posts -> {"none", "PENDING", "ANSWERED", "deleted"}]
    /\ reply \subseteq Posts
    /\ req \in [Requests -> Request]
    /\ list \in [Pages -> Listed]
    /\ writing \in [open : BOOLEAN, call : CallOrNone]
    /\ target \in Posts \cup {NoPost}
    /\ deleting \in BOOLEAN
    /\ form \in [post : Posts \cup {NoPost}, edit : BOOLEAN, call : CallOrNone]
    /\ behind \subseteq Pages

NotWriting == [open |-> FALSE, call |-> NoRequest]
NoForm == [post |-> NoPost, edit |-> FALSE, call |-> NoRequest]

\* Both pages are open, their first lists not read yet.
Init ==
    /\ status = [p \in Posts |-> "none"]
    /\ reply = {}
    /\ req = [q \in Requests |-> Idle]
    /\ list = [g \in Pages |-> [p \in Posts |-> "none"]]
    /\ writing = NotWriting
    /\ target = NoPost
    /\ deleting = FALSE
    /\ form = NoForm
    /\ behind = {}

-----------------------------------------------------------------------------
(* Requests.                                                               *)

At(q, pc) == req[q].pc = pc

Goto(q, pc) == req' = [req EXCEPT ![q].pc = pc]

Finish(q) == req' = [req EXCEPT ![q] = Idle]

\* The page sends a call about p.
Send(q, pc, p) ==
    /\ req[q] = Idle
    /\ req' = [req EXCEPT ![q] = [pc |-> pc, post |-> p, raced |-> FALSE]]

\* fetchPosts: a call for the list, with the request q free or just answered.
Fetch(q, g) ==
    /\ req' = [req EXCEPT ![q] = [pc |-> "list.read", page |-> g]]
    /\ behind' = IF \E o \in Requests \ {q} : req[o].pc \in {"list.read", "listed"} /\ req[o].page = g
                 THEN behind \cup {g} ELSE behind

\* The page opens, or the user presses retry.
Open(q, g) ==
    /\ req[q] = Idle
    /\ Fetch(q, g)
    /\ UNCHANGED <<db, list, userPage, form>>

\* Mutant of Rows: posts that are gone are read as well.
Rows_Deleted == [p \in Posts |-> status[p]]

\* The rows of getMyPosts, getAllPosts.
Rows == [p \in Posts |-> IF status[p] = "deleted" THEN "none" ELSE status[p]]

ListRead(q) ==
    /\ At(q, "list.read")
    /\ req' = [req EXCEPT ![q] = [pc |-> "listed", page |-> req[q].page, rows |-> Rows]]
    /\ UNCHANGED <<db, pages>>

\* The list that arrives last is shown, whichever was read last.
ListAnswer(q) ==
    /\ At(q, "listed")
    /\ list' = [list EXCEPT ![req[q].page] = req[q].rows]
    /\ Finish(q)
    /\ UNCHANGED <<db, userPage, form, behind>>

Exists(p) == status[p] \in {"PENDING", "ANSWERED"}

\* What the handler answers when a call of it throws or the row is not there.
Failure(q) ==
    CASE req[q].pc \in {"delete.find", "delete.row"} -> "deleteFailed"
      [] req[q].pc = "create.insert" -> "createFailed"
      [] OTHER -> "replyFailed"

\* A call of the handler throws.
HandlerFails(q) ==
    /\ req[q].pc \in HandlerPC
    /\ Goto(q, Failure(q))
    /\ UNCHANGED <<db, pages>>

\* An answer does not reach its page: what was done fails for the page, and its
\* list stays what it was.
AnswerLost(q) ==
    /\ \/ At(q, "created") /\ Goto(q, "createFailed") /\ behind' = behind \cup {"user"}
       \/ At(q, "deleted") /\ Goto(q, "deleteFailed") /\ behind' = behind \cup {"user"}
       \/ At(q, "replied") /\ Goto(q, "replyFailed") /\ behind' = behind \cup {"admin"}
       \/ /\ req[q].pc \in {"list.read", "listed"}
          /\ Finish(q)
          /\ behind' = behind \cup {req[q].page}
    /\ UNCHANGED <<db, list, userPage, form>>

-----------------------------------------------------------------------------
(* createPost, deletePost.                                                 *)

CreateInsert(q) ==
    /\ At(q, "create.insert")
    /\ status[req[q].post] = "none"
    /\ status' = [status EXCEPT ![req[q].post] = "PENDING"]
    /\ Goto(q, "created")
    /\ UNCHANGED <<reply, pages>>

\* Mutant of DeleteFind: an answered post may be deleted too.
DeleteFind_Unchecked(q) ==
    /\ At(q, "delete.find")
    /\ Goto(q, IF Exists(req[q].post) THEN "delete.row" ELSE "deleteFailed")
    /\ UNCHANGED <<db, pages>>

DeleteFind(q) ==
    /\ At(q, "delete.find")
    /\ Goto(q, IF status[req[q].post] = "PENDING" THEN "delete.row" ELSE "deleteFailed")
    /\ UNCHANGED <<db, pages>>

\* The DELETE takes the reply along, and throws when the row is gone.
DeleteRow(q) ==
    LET p == req[q].post IN
    /\ At(q, "delete.row")
    /\ \/ /\ Exists(p)
          /\ status' = [status EXCEPT ![p] = "deleted"]
          /\ reply' = reply \ {p}
          /\ Goto(q, "deleted")
       \/ /\ ~Exists(p)
          /\ Goto(q, "deleteFailed")
          /\ UNCHANGED db
    /\ UNCHANGED pages

-----------------------------------------------------------------------------
(* createReply, updateReply.                                               *)

ReplyFindPost(q) ==
    /\ At(q, "reply.findPost")
    /\ Goto(q, IF Exists(req[q].post) THEN "reply.findReply" ELSE "replyFailed")
    /\ UNCHANGED <<db, pages>>

ReplyFindReply(q) ==
    /\ At(q, "reply.findReply")
    /\ Goto(q, IF req[q].post \in reply THEN "replyFailed" ELSE "reply.tx")
    /\ UNCHANGED <<db, pages>>

\* Deletions of p past their check.
Raced(p) ==
    [o \in Requests |-> IF At(o, "delete.row") /\ req[o].post = p
                        THEN [req[o] EXCEPT !.raced = TRUE] ELSE req[o]]

\* Mutant of ReplyTx: the reply is inserted and the post stays PENDING.
ReplyTx_NoStatus(q) ==
    LET p == req[q].post IN
    /\ At(q, "reply.tx")
    /\ IF Exists(p) /\ p \notin reply
         THEN /\ reply' = reply \cup {p}
              /\ req' = [Raced(p) EXCEPT ![q].pc = "replied"]
         ELSE Goto(q, "replyFailed") /\ UNCHANGED reply
    /\ UNCHANGED <<status, pages>>

\* One transaction: postId is unique, and a foreign key of the reply.
ReplyTx(q) ==
    LET p == req[q].post IN
    /\ At(q, "reply.tx")
    /\ IF Exists(p) /\ p \notin reply
         THEN /\ reply' = reply \cup {p}
              /\ status' = [status EXCEPT ![p] = "ANSWERED"]
              /\ req' = [Raced(p) EXCEPT ![q].pc = "replied"]
         ELSE Goto(q, "replyFailed") /\ UNCHANGED db
    /\ UNCHANGED pages

\* Finding the post and finding its reply.
UpdateFind(q) ==
    /\ At(q, "update.find")
    /\ Goto(q, IF Exists(req[q].post) /\ req[q].post \in reply THEN "update.row" ELSE "replyFailed")
    /\ UNCHANGED <<db, pages>>

UpdateRow(q) ==
    /\ At(q, "update.row")
    /\ Goto(q, IF req[q].post \in reply THEN "replied" ELSE "replyFailed")
    /\ UNCHANGED <<db, pages>>

-----------------------------------------------------------------------------
(* The user's page.                                                        *)

\* CreateModal's submit, disabled while it is loading.
SubmitPost(q, p) ==
    /\ writing.open /\ writing.call = NoRequest
    /\ status[p] = "none" /\ \A o \in Requests : At(o, "create.insert") => req[o].post # p
    /\ Send(q, "create.insert", p)
    /\ writing' = [writing EXCEPT !.call = q]
    /\ UNCHANGED <<db, list, target, deleting, form, behind>>

\* The form's cross and its backdrop work while it is loading.
OpenOrCloseCreate ==
    /\ writing' = [open |-> ~writing.open, call |-> NoRequest]
    /\ UNCHANGED <<db, req, list, target, deleting, form, behind>>

\* onSuccess closes the form that is open, whichever it is.
CreateAnswer(q) ==
    \/ /\ At(q, "created")
       /\ writing' = NotWriting
       /\ Fetch(q, "user")
       /\ UNCHANGED <<db, list, target, deleting, form>>
    \/ /\ At(q, "createFailed")
       /\ writing' = [writing EXCEPT !.call = IF @ = q THEN NoRequest ELSE @]
       /\ behind' = behind \cup {"user"}
       /\ Finish(q)
       /\ UNCHANGED <<db, list, target, deleting, form>>

\* The delete button of a post the list shows as PENDING.
AskDelete(p) ==
    /\ target = NoPost /\ ~writing.open
    /\ list["user"][p] = "PENDING"
    /\ target' = p
    /\ UNCHANGED <<db, req, list, writing, deleting, form, behind>>

\* Mutant of CancelDelete: the dialog's loading state goes with it.
CancelDelete_Resets ==
    /\ target # NoPost
    /\ target' = NoPost
    /\ deleting' = FALSE
    /\ UNCHANGED <<db, req, list, writing, form, behind>>

\* The dialog's backdrop works while a deletion is in progress.
CancelDelete ==
    /\ target # NoPost
    /\ target' = NoPost
    /\ UNCHANGED <<db, req, list, writing, deleting, form, behind>>

\* handleDeleteConfirm; the button is disabled while deleteLoading.
ConfirmDelete(q) ==
    /\ target # NoPost /\ ~deleting
    /\ Send(q, "delete.find", target)
    /\ deleting' = TRUE
    /\ UNCHANGED <<db, list, writing, target, form, behind>>

\* Mutant of DeleteAnswer: deleteLoading is reset only after a success.
DeleteAnswer_OnlySuccess(q) ==
    /\ \/ At(q, "deleted") /\ Fetch(q, "user") /\ deleting' = FALSE
       \/ /\ At(q, "deleteFailed") /\ Finish(q)
          /\ behind' = behind \cup {"user"}
          /\ UNCHANGED deleting
    /\ target' = NoPost
    /\ UNCHANGED <<db, list, writing, form>>

\* Success or not, the dialog that is open closes.
DeleteAnswer(q) ==
    /\ \/ At(q, "deleted") /\ Fetch(q, "user")
       \/ At(q, "deleteFailed") /\ Finish(q) /\ behind' = behind \cup {"user"}
    /\ target' = NoPost
    /\ deleting' = FALSE
    /\ UNCHANGED <<db, list, writing, form>>

-----------------------------------------------------------------------------
(* The administrator's page.                                               *)

\* The form edits if the list shows an answer, and replies otherwise.
OpenReply(p) ==
    /\ form = NoForm
    /\ list["admin"][p] # "none"
    /\ form' = [post |-> p, edit |-> list["admin"][p] = "ANSWERED", call |-> NoRequest]
    /\ UNCHANGED <<db, req, list, userPage, behind>>

\* The cross and the backdrop work while the form is loading.
CloseReply ==
    /\ form # NoForm
    /\ form' = NoForm
    /\ UNCHANGED <<db, req, list, userPage, behind>>

\* ReplyModal's submit, disabled while it is loading.
SubmitReply(q) ==
    /\ form # NoForm /\ form.call = NoRequest
    /\ Send(q, IF form.edit THEN "update.find" ELSE "reply.findPost", form.post)
    /\ form' = [form EXCEPT !.call = q]
    /\ UNCHANGED <<db, list, userPage, behind>>

\* Mutant of ReplyAnswer: the list is not read again.
ReplyAnswer_NoRetry(q) ==
    \/ /\ At(q, "replied")
       /\ form' = NoForm
       /\ Finish(q)
       /\ UNCHANGED <<db, list, userPage, behind>>
    \/ /\ At(q, "replyFailed")
       /\ form' = [form EXCEPT !.call = IF @ = q THEN NoRequest ELSE @]
       /\ behind' = behind \cup {"admin"}
       /\ Finish(q)
       /\ UNCHANGED <<db, list, userPage>>

\* A success closes the form that is open, whichever it is; after an error the
\* form stays, with what the list said when it opened.
ReplyAnswer(q) ==
    \/ /\ At(q, "replied")
       /\ form' = NoForm
       /\ Fetch(q, "admin")
       /\ UNCHANGED <<db, list, userPage>>
    \/ /\ At(q, "replyFailed")
       /\ form' = [form EXCEPT !.call = IF @ = q THEN NoRequest ELSE @]
       /\ behind' = behind \cup {"admin"}
       /\ Finish(q)
       /\ UNCHANGED <<db, list, userPage>>

-----------------------------------------------------------------------------
Handler(q) ==
    \/ CreateInsert(q) \/ DeleteFind(q) \/ DeleteRow(q)
    \/ ReplyFindPost(q) \/ ReplyFindReply(q) \/ ReplyTx(q)
    \/ UpdateFind(q) \/ UpdateRow(q) \/ ListRead(q)

Answer(q) == ListAnswer(q) \/ CreateAnswer(q) \/ DeleteAnswer(q) \/ ReplyAnswer(q)

User(q) ==
    \/ OpenOrCloseCreate \/ CancelDelete \/ ConfirmDelete(q)
    \/ \E p \in Posts : SubmitPost(q, p) \/ AskDelete(p)

Administrator(q) == CloseReply \/ SubmitReply(q) \/ \E p \in Posts : OpenReply(p)

Next ==
    \E q \in Requests :
        \/ User(q) \/ Administrator(q) \/ \E g \in Pages : Open(q, g)
        \/ Handler(q) \/ HandlerFails(q) \/ Answer(q) \/ AnswerLost(q)

Spec == Init /\ [][Next]_vars

Deletes(q) == req[q].pc \in {"delete.find", "delete.row", "deleted", "deleteFailed"}

\* The call of a deletion is run and answered; nothing more is assumed of the
\* other calls, and nothing of the two people.
Fairness ==
    WF_vars(\E q \in Requests : Deletes(q) /\ (Handler(q) \/ HandlerFails(q) \/ Answer(q)))

FairSpec == Spec /\ Fairness

-----------------------------------------------------------------------------
(* Properties.                                                             *)

\* Whatever deletions and answers of any number of forms overlap, a post is
\* ANSWERED exactly while it has a reply: createReply's transaction, its unique
\* postId and the cascade keep the two tables together.
AnswerAndStatusAgree == reply = {p \in Posts : status[p] = "ANSWERED"}

\* SPEC.md:83: a post is deleted before it is answered.  An answered post is
\* gone only when the answer came between deletePost's check and its DELETE.
AnsweredDeletedOnlyInRace ==
    [][\A p \in reply : p \notin reply' =>
         \E q \in Requests : At(q, "delete.row") /\ req[q].post = p /\ req[q].raced]_vars

\* deleteLoading, one flag for every dialog, is set exactly while a deletion
\* is in progress: closing the dialog and opening another does not start a
\* second one.
DeletingIsOneCall ==
    Cardinality({q \in Requests : Deletes(q)}) = IF deleting THEN 1 ELSE 0

\* Once nothing is in progress the administrator's list shows every answer as
\* given, whichever forms were closed or opened again meanwhile, unless two
\* reads of the list overlapped or a call failed.
RepliesListed ==
    (\A q \in Requests : req[q] = Idle) /\ "admin" \notin behind =>
        \A p \in reply : list["admin"][p] = "ANSWERED"

\* The delete button does not stay disabled.
DeletingEnds == deleting ~> ~deleting

=============================================================================
