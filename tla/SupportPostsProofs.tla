------------------------- MODULE SupportPostsProofs -------------------------
(***************************************************************************)
(* Theorems about SupportPosts, for any posts and any number of requests   *)
(* at once.                                                                *)
(***************************************************************************)
EXTENDS SupportPosts, FiniteSetTheorems, TLAPS

\* A form that is open answers a post.
FormPosted == form = NoForm \/ form.post \in Posts

PostPC == HandlerPC \cup AnswerPC

-----------------------------------------------------------------------------
(* Types.                                                                  *)

\* The kinds of request, told apart by pc.
LEMMA RequestKinds ==
    ASSUME TypeOK, NEW q \in Requests
    PROVE  /\ req[q].pc \in {"idle", "list.read", "listed"} \cup PostPC
           /\ req[q].pc = "idle" <=> req[q] = Idle
           /\ req[q].pc \in PostPC => req[q] \in [pc : PostPC, post : Posts, raced : BOOLEAN]
           /\ req[q].pc \in {"list.read", "listed"} => req[q].page \in Pages
           /\ req[q].pc = "listed" => req[q].rows \in Listed
BY DEF TypeOK, Request, Idle, PostPC, HandlerPC, AnswerPC

LEMMA GotoOK ==
    ASSUME TypeOK, NEW q \in Requests, req[q].pc \in PostPC, NEW pc \in PostPC, Goto(q, pc)
    PROVE  req' \in [Requests -> Request]
<1>1. [req[q] EXCEPT !.pc = pc] \in [pc : PostPC, post : Posts, raced : BOOLEAN]
  BY RequestKinds
<1>2. QED BY <1>1 DEF TypeOK, Goto, Request, PostPC

LEMMA SendOK ==
    ASSUME TypeOK, NEW q \in Requests, NEW p \in Posts, NEW pc \in PostPC, Send(q, pc, p)
    PROVE  req' \in [Requests -> Request]
BY DEF TypeOK, Send, Request, PostPC

LEMMA FetchOK ==
    ASSUME TypeOK, NEW q \in Requests, NEW g \in Pages, Fetch(q, g)
    PROVE  req' \in [Requests -> Request] /\ behind' \subseteq Pages
BY DEF TypeOK, Fetch, Request

LEMMA FinishOK ==
    ASSUME TypeOK, NEW q \in Requests, Finish(q)
    PROVE  req' \in [Requests -> Request]
BY DEF TypeOK, Finish, Request

\* The form of the user and that of the administrator, with their calls.
WritingForm == [open : BOOLEAN, call : CallOrNone]
AnswerForm == [post : Posts \cup {NoPost}, edit : BOOLEAN, call : CallOrNone]

LEMMA WritingFormOK ==
    ASSUME TypeOK
    PROVE  /\ NotWriting \in WritingForm
           /\ [open |-> ~writing.open, call |-> NoRequest] \in WritingForm
           /\ \A c \in CallOrNone : [writing EXCEPT !.call = c] \in WritingForm
           /\ \A q \in Requests :
                [writing EXCEPT !.call = IF @ = q THEN NoRequest ELSE @] \in WritingForm
<1>1. writing \in WritingForm /\ NoRequest \in CallOrNone
  BY DEF TypeOK, WritingForm, CallOrNone
<1>2. NotWriting \in WritingForm /\ [open |-> ~writing.open, call |-> NoRequest] \in WritingForm
  BY <1>1 DEF NotWriting, WritingForm
<1>3. \A c \in CallOrNone : [writing EXCEPT !.call = c] \in WritingForm
  BY <1>1 DEF WritingForm
<1>4. ASSUME NEW q \in Requests
      PROVE  [writing EXCEPT !.call = IF @ = q THEN NoRequest ELSE @] \in WritingForm
  <2>1. (IF writing.call = q THEN NoRequest ELSE writing.call) \in CallOrNone
    BY <1>1 DEF WritingForm
  <2>2. QED BY <1>3, <2>1
<1>5. QED BY <1>2, <1>3, <1>4

LEMMA AnswerFormOK ==
    ASSUME TypeOK
    PROVE  /\ NoForm \in AnswerForm
           /\ \A p \in Posts, e \in BOOLEAN :
                [post |-> p, edit |-> e, call |-> NoRequest] \in AnswerForm
           /\ \A c \in CallOrNone : [form EXCEPT !.call = c] \in AnswerForm
           /\ \A q \in Requests :
                [form EXCEPT !.call = IF @ = q THEN NoRequest ELSE @] \in AnswerForm
<1>1. form \in AnswerForm /\ NoRequest \in CallOrNone
  BY DEF TypeOK, AnswerForm, CallOrNone
<1>2. NoForm \in AnswerForm
  BY <1>1 DEF NoForm, AnswerForm
<1>3. \A p \in Posts, e \in BOOLEAN : [post |-> p, edit |-> e, call |-> NoRequest] \in AnswerForm
  BY <1>1 DEF AnswerForm
<1>4. \A c \in CallOrNone : [form EXCEPT !.call = c] \in AnswerForm
  BY <1>1 DEF AnswerForm
<1>5. ASSUME NEW q \in Requests
      PROVE  [form EXCEPT !.call = IF @ = q THEN NoRequest ELSE @] \in AnswerForm
  <2>1. (IF form.call = q THEN NoRequest ELSE form.call) \in CallOrNone
    BY <1>1 DEF AnswerForm
  <2>2. QED BY <1>4, <2>1
<1>6. QED BY <1>2, <1>3, <1>4, <1>5

LEMMA HandlerType ==
    ASSUME TypeOK, NEW q \in Requests, Handler(q) \/ HandlerFails(q)
    PROVE  TypeOK'
<1> USE DEF At
<1>1. CASE CreateInsert(q)
  <2>1. req' \in [Requests -> Request]
    BY <1>1, GotoOK DEF CreateInsert, PostPC, HandlerPC, AnswerPC
  <2>2. status' \in [Posts -> {"none", "PENDING", "ANSWERED", "deleted"}]
    BY <1>1 DEF CreateInsert, TypeOK
  <2>3. QED BY <1>1, <2>1, <2>2 DEF CreateInsert, TypeOK, pages
<1>2. CASE DeleteFind(q) \/ ReplyFindPost(q) \/ ReplyFindReply(q) \/ UpdateFind(q) \/ UpdateRow(q)
           \/ HandlerFails(q)
  <2>1. req[q].pc \in PostPC /\ \E pc \in PostPC : Goto(q, pc)
    BY <1>2 DEF DeleteFind, ReplyFindPost, ReplyFindReply, UpdateFind, UpdateRow,
       HandlerFails, Failure, PostPC, HandlerPC, AnswerPC
  <2>2. QED
    BY <1>2, <2>1, GotoOK DEF DeleteFind, ReplyFindPost, ReplyFindReply, UpdateFind,
       UpdateRow, HandlerFails, TypeOK, db, pages
<1>3. CASE DeleteRow(q)
  <2>1. req' \in [Requests -> Request]
    BY <1>3, GotoOK DEF DeleteRow, PostPC, HandlerPC, AnswerPC
  <2>2. /\ status' \in [Posts -> {"none", "PENDING", "ANSWERED", "deleted"}]
        /\ reply' \subseteq Posts
    BY <1>3 DEF DeleteRow, TypeOK, db
  <2>3. QED BY <1>3, <2>1, <2>2 DEF DeleteRow, TypeOK, pages
<1>4. CASE ReplyTx(q)
  <2>1. req[q] \in [pc : PostPC, post : Posts, raced : BOOLEAN]
    BY <1>4, RequestKinds DEF ReplyTx, PostPC, HandlerPC
  <2>2. CASE Goto(q, "replyFailed") /\ UNCHANGED db
    <3>1. req' \in [Requests -> Request]
      BY <1>4, <2>2, GotoOK DEF ReplyTx, PostPC, HandlerPC, AnswerPC
    <3>2. QED BY <1>4, <2>2, <3>1 DEF ReplyTx, TypeOK, db, pages
  <2>3. CASE /\ reply' = reply \cup {req[q].post}
             /\ status' = [status EXCEPT ![req[q].post] = "ANSWERED"]
             /\ req' = [Raced(req[q].post) EXCEPT ![q].pc = "replied"]
    <3>1. Raced(req[q].post) \in [Requests -> Request]
      <4>1. ASSUME NEW o \in Requests, At(o, "delete.row")
            PROVE  [req[o] EXCEPT !.raced = TRUE] \in Request
        <5>1. req[o] \in [pc : PostPC, post : Posts, raced : BOOLEAN]
          BY <4>1, RequestKinds DEF PostPC, HandlerPC
        <5>2. [req[o] EXCEPT !.raced = TRUE] \in [pc : PostPC, post : Posts, raced : BOOLEAN]
          BY <5>1
        <5>3. QED BY <5>2 DEF Request, PostPC
      <4>2. QED BY <4>1 DEF Raced, TypeOK
    <3>2. Raced(req[q].post)[q] = req[q]
      BY <1>4 DEF Raced, ReplyTx
    <3>3. [req[q] EXCEPT !.pc = "replied"] \in Request
      <4>1. [req[q] EXCEPT !.pc = "replied"] \in [pc : PostPC, post : Posts, raced : BOOLEAN]
        BY <2>1 DEF PostPC, AnswerPC
      <4>2. QED BY <4>1 DEF Request, PostPC
    <3>4. req' \in [Requests -> Request]
      BY <2>3, <3>1, <3>2, <3>3
    <3>5. QED BY <1>4, <2>1, <2>3, <3>4 DEF ReplyTx, TypeOK, pages
  <2>4. QED BY <1>4, <2>2, <2>3 DEF ReplyTx
<1>5. CASE ListRead(q)
  <2>1. req[q].page \in Pages /\ Rows \in Listed
    BY <1>5, RequestKinds DEF ListRead, Rows, Listed, TypeOK
  <2>2. req' \in [Requests -> Request]
    BY <1>5, <2>1 DEF ListRead, TypeOK, Request
  <2>3. QED BY <1>5, <2>2 DEF ListRead, TypeOK, db, pages
<1>6. QED BY <1>1, <1>2, <1>3, <1>4, <1>5 DEF Handler

LEMMA AnswerType ==
    ASSUME TypeOK, NEW q \in Requests, Answer(q)
    PROVE  TypeOK'
<1> USE DEF At
<1>1. CASE ListAnswer(q)
  <2>1. req[q].page \in Pages /\ req[q].rows \in Listed
    BY <1>1, RequestKinds DEF ListAnswer
  <2>2. QED BY <1>1, <2>1, FinishOK DEF ListAnswer, TypeOK, db, userPage
<1>2. CASE CreateAnswer(q)
  <2>1. req' \in [Requests -> Request] /\ behind' \subseteq Pages
    BY <1>2, FetchOK, FinishOK DEF CreateAnswer, TypeOK, Pages
  <2>2. writing' \in WritingForm
    BY <1>2, WritingFormOK DEF CreateAnswer
  <2>3. QED BY <1>2, <2>1, <2>2 DEF CreateAnswer, TypeOK, db, WritingForm
<1>3. CASE DeleteAnswer(q)
  <2>1. req' \in [Requests -> Request] /\ behind' \subseteq Pages
    BY <1>3, FetchOK, FinishOK DEF DeleteAnswer, TypeOK, Pages
  <2>2. QED BY <1>3, <2>1 DEF DeleteAnswer, TypeOK, db
<1>4. CASE ReplyAnswer(q)
  <2>1. req' \in [Requests -> Request] /\ behind' \subseteq Pages
    BY <1>4, FetchOK, FinishOK DEF ReplyAnswer, TypeOK, Pages
  <2>2. form' \in AnswerForm
    BY <1>4, AnswerFormOK DEF ReplyAnswer
  <2>3. QED BY <1>4, <2>1, <2>2 DEF ReplyAnswer, TypeOK, db, userPage, AnswerForm
<1>5. QED BY <1>1, <1>2, <1>3, <1>4 DEF Answer

LEMMA LostType ==
    ASSUME TypeOK, NEW q \in Requests, AnswerLost(q)
    PROVE  TypeOK'
<1>1. req' \in [Requests -> Request] /\ behind' \subseteq Pages
  <2>1. CASE Finish(q) /\ req[q].pc \in {"list.read", "listed"} /\ behind' = behind \cup {req[q].page}
    BY <2>1, FinishOK, RequestKinds DEF TypeOK
  <2>2. CASE ~(req[q].pc \in {"list.read", "listed"})
    <3>1. req[q].pc \in PostPC /\ \E pc \in PostPC : Goto(q, pc)
      BY <2>2 DEF AnswerLost, At, PostPC, AnswerPC
    <3>2. behind' \subseteq Pages
      BY <2>2 DEF AnswerLost, TypeOK, Pages
    <3>3. QED BY <3>1, <3>2, GotoOK
  <2>3. QED BY <2>1, <2>2 DEF AnswerLost, At
<1>2. QED BY <1>1 DEF AnswerLost, TypeOK, db, userPage

LEMMA PeopleType ==
    ASSUME TypeOK, FormPosted, NEW q \in Requests,
           User(q) \/ Administrator(q) \/ \E g \in Pages : Open(q, g)
    PROVE  TypeOK'
<1>1. ASSUME NEW g \in Pages, Open(q, g)
      PROVE  TypeOK'
  BY <1>1, FetchOK DEF Open, TypeOK, db, userPage
<1>2. ASSUME NEW p \in Posts, SubmitPost(q, p) \/ AskDelete(p)
      PROVE  TypeOK'
  <2>1. CASE SubmitPost(q, p)
    <3>1. req' \in [Requests -> Request]
      BY <2>1, SendOK DEF SubmitPost, PostPC, HandlerPC
    <3>2. writing' \in WritingForm
      BY <2>1, WritingFormOK DEF SubmitPost, CallOrNone
    <3>3. QED BY <2>1, <3>1, <3>2 DEF SubmitPost, TypeOK, db, WritingForm
  <2>2. CASE AskDelete(p)
    BY <2>2 DEF AskDelete, TypeOK, db
  <2>3. QED BY <1>2, <2>1, <2>2
<1>3. CASE OpenOrCloseCreate \/ CancelDelete
  <2>1. writing' \in WritingForm
    BY <1>3, WritingFormOK DEF OpenOrCloseCreate, CancelDelete, TypeOK, WritingForm
  <2>2. target' \in Posts \cup {NoPost}
    BY <1>3 DEF OpenOrCloseCreate, CancelDelete, TypeOK
  <2>3. QED BY <1>3, <2>1, <2>2 DEF OpenOrCloseCreate, CancelDelete, TypeOK, db, WritingForm
<1>4. CASE ConfirmDelete(q)
  <2>1. target \in Posts
    BY <1>4 DEF ConfirmDelete, TypeOK
  <2>2. req' \in [Requests -> Request]
    BY <1>4, <2>1, SendOK DEF ConfirmDelete, PostPC, HandlerPC
  <2>3. QED BY <1>4, <2>2 DEF ConfirmDelete, TypeOK, db
<1>5. CASE SubmitReply(q)
  <2>1. form.post \in Posts
    BY <1>5 DEF SubmitReply, FormPosted
  <2>2. req' \in [Requests -> Request]
    BY <1>5, <2>1, SendOK DEF SubmitReply, PostPC, HandlerPC
  <2>3. form' \in AnswerForm
    BY <1>5, AnswerFormOK DEF SubmitReply, CallOrNone
  <2>4. QED BY <1>5, <2>2, <2>3 DEF SubmitReply, TypeOK, db, userPage, AnswerForm
<1>6. CASE CloseReply \/ \E p \in Posts : OpenReply(p)
  <2>1. form' \in AnswerForm
    BY <1>6, AnswerFormOK DEF CloseReply, OpenReply
  <2>2. UNCHANGED <<db, req, list, userPage, behind>>
    BY <1>6 DEF CloseReply, OpenReply
  <2>3. QED BY <2>1, <2>2 DEF TypeOK, db, userPage, AnswerForm
<1>7. QED BY <1>1, <1>2, <1>3, <1>4, <1>5, <1>6 DEF User, Administrator

LEMMA FormStep ==
    ASSUME PostConstants, TypeOK, FormPosted, [Next]_vars
    PROVE  FormPosted'
<1>1. CASE UNCHANGED form
  BY <1>1 DEF FormPosted, NoForm
<1>2. ASSUME NEW q \in Requests, SubmitReply(q)
      PROVE  FormPosted'
  BY <1>2 DEF SubmitReply, FormPosted, TypeOK
<1>3. ASSUME NEW q \in Requests, ReplyAnswer(q)
      PROVE  FormPosted'
  <2>1. q # NoRequest
    BY PostConstants DEF PostConstants
  <2>2. CASE form' = NoForm
    BY <2>2 DEF FormPosted, NoForm
  <2>3. CASE form' = [form EXCEPT !.call = IF @ = q THEN NoRequest ELSE @]
    <3>1. CASE form = NoForm
      <4>1. form' = NoForm
        BY <2>1, <2>3, <3>1 DEF NoForm
      <4>2. QED BY <4>1 DEF FormPosted, NoForm
    <3>2. CASE form.post \in Posts
      BY <2>3, <3>2 DEF FormPosted, TypeOK
    <3>3. QED BY <3>1, <3>2 DEF FormPosted
  <2>4. QED BY <1>3, <2>2, <2>3 DEF ReplyAnswer
<1>4. ASSUME NEW p \in Posts, OpenReply(p)
      PROVE  FormPosted'
  BY <1>4 DEF OpenReply, FormPosted
<1>5. CASE CloseReply
  BY <1>5 DEF CloseReply, FormPosted, NoForm
<1>6. UNCHANGED form \/ CloseReply \/ (\E p \in Posts : OpenReply(p))
        \/ \E q \in Requests : SubmitReply(q) \/ ReplyAnswer(q)
  BY DEF Next, User, Administrator, Handler, HandlerFails, AnswerLost, Answer, Open,
     OpenOrCloseCreate, CancelDelete, ConfirmDelete, SubmitPost, AskDelete, CreateInsert,
     DeleteFind, DeleteRow, ReplyFindPost, ReplyFindReply, ReplyTx, UpdateFind, UpdateRow,
     ListRead, ListAnswer, CreateAnswer, DeleteAnswer, pages, userPage, vars
<1>7. QED BY <1>1, <1>2, <1>3, <1>4, <1>5, <1>6

LEMMA TypeStep == PostConstants /\ TypeOK /\ FormPosted /\ [Next]_vars => TypeOK' /\ FormPosted'
<1> SUFFICES ASSUME PostConstants, TypeOK, FormPosted, [Next]_vars PROVE TypeOK' /\ FormPosted'
  OBVIOUS
<1>1. CASE UNCHANGED vars
  BY <1>1, FormStep DEF vars, TypeOK
<1>2. CASE Next
  BY <1>2, FormStep, HandlerType, LostType, AnswerType, PeopleType DEF Next
<1>3. QED BY <1>1, <1>2

LEMMA TypeInit == Init => TypeOK /\ FormPosted
<1> SUFFICES ASSUME Init PROVE TypeOK /\ FormPosted
  OBVIOUS
<1>1. req \in [Requests -> Request]
  BY DEF Init, Request
<1>2. writing \in [open : BOOLEAN, call : CallOrNone]
  BY DEF Init, NotWriting, CallOrNone
<1>3. form \in [post : Posts \cup {NoPost}, edit : BOOLEAN, call : CallOrNone] /\ FormPosted
  BY DEF Init, NoForm, CallOrNone, FormPosted
<1>4. QED BY <1>1, <1>2, <1>3 DEF Init, TypeOK, Listed, Pages

\* Tables, requests and pages keep their types.
THEOREM SupportTypeCorrect == ASSUME PostConstants PROVE Spec => []TypeOK
BY TypeInit, TypeStep, PTL DEF Spec

-----------------------------------------------------------------------------
(* Answers.                                                                *)

\* What a step can do to the two tables.
LEMMA TablesFrame ==
    ASSUME [Next]_vars
    PROVE  \/ UNCHANGED db
           \/ \E q \in Requests : CreateInsert(q) \/ DeleteRow(q) \/ ReplyTx(q)
BY DEF Next, User, Administrator, Handler, HandlerFails, AnswerLost, Answer, Open,
   OpenOrCloseCreate, CancelDelete, ConfirmDelete, SubmitPost, AskDelete, CloseReply,
   OpenReply, SubmitReply, DeleteFind, ReplyFindPost, ReplyFindReply, UpdateFind, UpdateRow,
   ListRead, ListAnswer, CreateAnswer, DeleteAnswer, ReplyAnswer, db, vars

LEMMA AgreeStep ==
    ASSUME TypeOK, AnswerAndStatusAgree, [Next]_vars
    PROVE  AnswerAndStatusAgree'
<1>1. CASE UNCHANGED db
  BY <1>1 DEF db, AnswerAndStatusAgree
<1>2. ASSUME NEW q \in Requests, CreateInsert(q) \/ DeleteRow(q) \/ ReplyTx(q)
      PROVE  AnswerAndStatusAgree'
  <2>1. req[q].post \in Posts /\ status \in [Posts -> {"none", "PENDING", "ANSWERED", "deleted"}]
    BY <1>2, RequestKinds DEF CreateInsert, DeleteRow, ReplyTx, At, PostPC, HandlerPC, TypeOK
  <2>2. CASE CreateInsert(q)
    BY <2>1, <2>2 DEF CreateInsert, AnswerAndStatusAgree
  <2>3. CASE DeleteRow(q)
    BY <2>1, <2>3 DEF DeleteRow, AnswerAndStatusAgree, db
  <2>4. CASE ReplyTx(q)
    BY <2>1, <2>4 DEF ReplyTx, AnswerAndStatusAgree, db
  <2>5. QED BY <1>2, <2>2, <2>3, <2>4
<1>3. QED BY <1>1, <1>2, TablesFrame

\* The replies table and the posts' status agree whatever requests overlap.
THEOREM AnswerAndStatusAgreeCorrect == ASSUME PostConstants PROVE Spec => []AnswerAndStatusAgree
<1>1. Init => AnswerAndStatusAgree
  BY DEF Init, AnswerAndStatusAgree
<1>2. QED BY <1>1, TypeInit, TypeStep, AgreeStep, PTL DEF Spec

\* A deletion past its check is of a post without an answer, or is marked.
RacesMarked ==
    \A q \in Requests : At(q, "delete.row") /\ req[q].post \in reply => req[q].raced

LEMMA RacesStep ==
    ASSUME TypeOK, AnswerAndStatusAgree, RacesMarked, [Next]_vars
    PROVE  RacesMarked'
<1>1. SUFFICES ASSUME NEW o \in Requests, At(o, "delete.row")', req'[o].post \in reply'
               PROVE  req'[o].raced
  BY DEF RacesMarked, At
<1>2. req \in [Requests -> Request] /\ \A p \in reply : status[p] = "ANSWERED"
  BY DEF TypeOK, AnswerAndStatusAgree
<1>3. CASE UNCHANGED vars
  BY <1>1, <1>3 DEF vars, RacesMarked, At
<1>4. ASSUME NEW q \in Requests, ReplyTx(q)
      PROVE  req'[o].raced
  <2>1. req[q] \in [pc : PostPC, post : Posts, raced : BOOLEAN]
    BY <1>4, RequestKinds DEF ReplyTx, At, PostPC, HandlerPC
  <2>2. CASE Goto(q, "replyFailed") /\ UNCHANGED db
    <3>1. o # q /\ req'[o] = req[o]
      BY <1>1, <1>2, <2>1, <2>2 DEF Goto, At
    <3>2. QED BY <1>1, <2>2, <3>1 DEF RacesMarked, At, db
  <2>3. CASE /\ reply' = reply \cup {req[q].post}
             /\ req' = [Raced(req[q].post) EXCEPT ![q].pc = "replied"]
    <3>1. Raced(req[q].post)[q] = req[q]
      BY <1>4 DEF Raced, ReplyTx, At
    <3>2. req'[q].pc = "replied"
      BY <2>1, <2>3, <3>1 DEF Raced
    <3>3. o # q /\ req'[o] = Raced(req[q].post)[o]
      BY <1>1, <2>3, <3>2 DEF At, Raced
    <3>4. CASE At(o, "delete.row") /\ req[o].post = req[q].post
      <4>1. req[o] \in [pc : PostPC, post : Posts, raced : BOOLEAN]
        BY <3>4, RequestKinds DEF At, PostPC, HandlerPC
      <4>2. req'[o] = [req[o] EXCEPT !.raced = TRUE]
        BY <3>3, <3>4 DEF Raced
      <4>3. QED BY <4>1, <4>2
    <3>5. CASE ~(At(o, "delete.row") /\ req[o].post = req[q].post)
      <4>1. req'[o] = req[o]
        BY <3>3, <3>5 DEF Raced
      <4>2. At(o, "delete.row") /\ req[o].post \in reply
        BY <1>1, <2>3, <3>5, <4>1 DEF At
      <4>3. QED BY <4>1, <4>2 DEF RacesMarked
    <3>6. QED BY <3>4, <3>5
  <2>4. QED BY <1>4, <2>2, <2>3 DEF ReplyTx
<1>5. ASSUME NEW q \in Requests, DeleteFind(q)
      PROVE  req'[o].raced
  <2>1. req[q] \in [pc : PostPC, post : Posts, raced : BOOLEAN] /\ UNCHANGED db
    BY <1>5, RequestKinds DEF DeleteFind, At, PostPC, HandlerPC
  <2>2. CASE o = q
    <3>1. req'[q].pc = (IF status[req[q].post] = "PENDING" THEN "delete.row" ELSE "deleteFailed")
          /\ req'[q].post = req[q].post
      BY <1>2, <1>5, <2>1 DEF DeleteFind, Goto
    <3>2. req[q].post \notin reply
      BY <1>1, <1>2, <2>2, <3>1 DEF At
    <3>3. QED BY <1>1, <2>1, <2>2, <3>1, <3>2 DEF db
  <2>3. CASE o # q
    BY <1>1, <1>2, <1>5, <2>1, <2>3 DEF DeleteFind, Goto, RacesMarked, At, db
  <2>4. QED BY <2>2, <2>3
<1>6. ASSUME NEW q \in Requests, reply' \subseteq reply,
             \A r \in Requests \ {q} : req'[r] = req[r],
             req'[q].pc = "delete.row" => req'[q] = req[q]
      PROVE  req'[o].raced
  <2>1. req'[o] = req[o]
    BY <1>1, <1>6 DEF At
  <2>2. QED BY <1>1, <1>6, <2>1 DEF RacesMarked, At
<1>7. CASE \E q \in Requests :
             /\ reply' \subseteq reply
             /\ \A r \in Requests \ {q} : req'[r] = req[r]
             /\ req'[q].pc = "delete.row" => req'[q] = req[q]
  BY <1>6, <1>7
<1>8. ASSUME NEW q \in Requests,
             \/ User(q) \/ Administrator(q) \/ (\E g \in Pages : Open(q, g))
             \/ (Handler(q) /\ ~ReplyTx(q) /\ ~DeleteFind(q)) \/ HandlerFails(q)
             \/ Answer(q) \/ AnswerLost(q)
      PROVE  /\ reply' \subseteq reply
             /\ \A r \in Requests \ {q} : req'[r] = req[r]
             /\ req'[q].pc = "delete.row" => req'[q] = req[q]
  <2>1. CASE User(q) \/ Administrator(q) \/ \E g \in Pages : Open(q, g)
    BY <1>2, <2>1 DEF User, Administrator, Open, OpenOrCloseCreate, CancelDelete,
       ConfirmDelete, SubmitPost, AskDelete, CloseReply, OpenReply, SubmitReply, Send, Fetch,
       db
  <2>2. CASE Answer(q)
    BY <1>2, <2>2 DEF Answer, ListAnswer, CreateAnswer, DeleteAnswer, ReplyAnswer, Fetch,
       Finish, Idle, db
  <2>3. CASE ListRead(q)
    BY <1>2, <2>3 DEF ListRead, db
  <2>4. CASE \/ CreateInsert(q) \/ DeleteRow(q) \/ ReplyFindPost(q) \/ ReplyFindReply(q)
             \/ UpdateFind(q) \/ UpdateRow(q) \/ HandlerFails(q)
    <3>1. req[q] \in [pc : PostPC, post : Posts, raced : BOOLEAN]
      BY <2>4, RequestKinds DEF CreateInsert, DeleteRow, ReplyFindPost, ReplyFindReply,
         UpdateFind, UpdateRow, HandlerFails, At, PostPC, HandlerPC
    <3>2. \E pc \in PostPC \ {"delete.row"} : Goto(q, pc)
      BY <2>4 DEF CreateInsert, DeleteRow, ReplyFindPost, ReplyFindReply, UpdateFind,
         UpdateRow, HandlerFails, Failure, PostPC, HandlerPC, AnswerPC
    <3>3. reply' \subseteq reply
      BY <2>4 DEF CreateInsert, DeleteRow, ReplyFindPost, ReplyFindReply, UpdateFind,
         UpdateRow, HandlerFails, db
    <3>4. QED BY <1>2, <3>1, <3>2, <3>3 DEF Goto
  <2>5. CASE AnswerLost(q)
    <3>1. UNCHANGED reply
      BY <2>5 DEF AnswerLost, db
    <3>2. CASE Finish(q)
      BY <1>2, <3>1, <3>2 DEF Finish, Idle
    <3>3. CASE req[q].pc \in PostPC /\ \E pc \in PostPC \ {"delete.row"} : Goto(q, pc)
      <4>1. req[q] \in [pc : PostPC, post : Posts, raced : BOOLEAN]
        BY <3>3, RequestKinds
      <4>2. QED BY <1>2, <3>1, <3>3, <4>1 DEF Goto
    <3>4. QED BY <2>5, <3>2, <3>3 DEF AnswerLost, At, PostPC, AnswerPC
  <2>6. QED BY <1>8, <2>1, <2>2, <2>3, <2>4, <2>5 DEF Handler
<1>9. QED BY <1>3, <1>4, <1>5, <1>7, <1>8 DEF Next

\* An answered post is gone only after a deletion that checked it before the
\* answer.
THEOREM DeletedOnlyInRace == ASSUME PostConstants PROVE Spec => AnsweredDeletedOnlyInRace
<1>1. Init => RacesMarked /\ AnswerAndStatusAgree
  BY DEF Init, RacesMarked, At, Idle, AnswerAndStatusAgree
<1>2. TypeOK /\ RacesMarked /\ [Next]_vars =>
        [\A p \in reply : p \notin reply' =>
           \E q \in Requests : At(q, "delete.row") /\ req[q].post = p /\ req[q].raced]_vars
  <2>1. SUFFICES ASSUME TypeOK, RacesMarked, [Next]_vars, NEW p \in reply, p \notin reply'
                 PROVE  \E q \in Requests : At(q, "delete.row") /\ req[q].post = p /\ req[q].raced
    OBVIOUS
  <2>2. PICK q \in Requests : DeleteRow(q)
    BY <2>1, TablesFrame DEF CreateInsert, ReplyTx, db
  <2>3. At(q, "delete.row") /\ req[q].post = p
    BY <2>1, <2>2 DEF DeleteRow, db
  <2>4. QED BY <2>1, <2>3 DEF RacesMarked
<1>3. QED BY <1>1, <1>2, TypeInit, TypeStep, AgreeStep, RacesStep, PTL
         DEF Spec, AnsweredDeletedOnlyInRace

-----------------------------------------------------------------------------
(* Deletions.                                                              *)

DeletePC == {"delete.find", "delete.row", "deleted", "deleteFailed"}
Deletions == {q \in Requests : req[q].pc \in DeletePC}

\* The flag is set exactly while one deletion is in progress.
OneDeletion == IF deleting THEN \E q \in Requests : Deletions = {q} ELSE Deletions = {}

LEMMA DeletionsStep ==
    ASSUME TypeOK, OneDeletion, [Next]_vars
    PROVE  OneDeletion'
<1>1. req \in [Requests -> Request] /\ deleting \in BOOLEAN
  BY DEF TypeOK
<1>2. CASE UNCHANGED vars
  BY <1>2 DEF vars, OneDeletion, Deletions
<1>3. ASSUME NEW q \in Requests, DeleteAnswer(q)
      PROVE  OneDeletion'
  <2>1. Deletions = {q}
    BY <1>3 DEF DeleteAnswer, At, OneDeletion, Deletions, DeletePC
  <2>2. /\ \A o \in Requests \ {q} : req'[o] = req[o]
        /\ req'[q].pc \notin DeletePC
    BY <1>1, <1>3 DEF DeleteAnswer, Fetch, Finish, Idle, DeletePC
  <2>3. Deletions' = {}
    BY <2>1, <2>2 DEF Deletions
  <2>4. QED BY <1>3, <2>3 DEF DeleteAnswer, OneDeletion
<1>4. ASSUME NEW q \in Requests, ConfirmDelete(q)
      PROVE  OneDeletion'
  <2>1. Deletions = {}
    BY <1>4 DEF ConfirmDelete, OneDeletion
  <2>2. /\ \A o \in Requests \ {q} : req'[o] = req[o]
        /\ req'[q].pc \in DeletePC
    BY <1>1, <1>4 DEF ConfirmDelete, Send, DeletePC
  <2>3. Deletions' = {q}
    BY <2>1, <2>2 DEF Deletions
  <2>4. QED BY <1>4, <2>3 DEF ConfirmDelete, OneDeletion
<1>5. ASSUME UNCHANGED deleting,
             \A o \in Requests : req'[o].pc \in DeletePC <=> req[o].pc \in DeletePC
      PROVE  OneDeletion'
  <2>1. Deletions' = Deletions
    BY <1>5 DEF Deletions
  <2>2. QED BY <1>5, <2>1 DEF OneDeletion
<1>6. ASSUME NEW q \in Requests,
             \/ User(q) /\ ~ConfirmDelete(q)
             \/ Administrator(q) \/ (\E g \in Pages : Open(q, g))
             \/ Handler(q) \/ HandlerFails(q) \/ AnswerLost(q)
             \/ Answer(q) /\ ~DeleteAnswer(q)
      PROVE  /\ UNCHANGED deleting
             /\ \A o \in Requests : req'[o].pc \in DeletePC <=> req[o].pc \in DeletePC
  <2>1. CASE \/ User(q) /\ ~ConfirmDelete(q)
             \/ Administrator(q) \/ \E g \in Pages : Open(q, g)
    BY <1>1, <2>1 DEF User, Administrator, Open, OpenOrCloseCreate, CancelDelete, SubmitPost,
       AskDelete, CloseReply, OpenReply, SubmitReply, Send, Fetch, DeletePC, userPage, Idle
  <2>2. CASE Answer(q) /\ ~DeleteAnswer(q)
    BY <1>1, <2>2 DEF Answer, ListAnswer, CreateAnswer, ReplyAnswer, Fetch, Finish, Idle, At,
       DeletePC, userPage
  <2>3. CASE ListRead(q)
    BY <1>1, <2>3 DEF ListRead, At, pages, DeletePC
  <2>4. CASE ReplyTx(q)
    <3>1. UNCHANGED deleting
      BY <2>4 DEF ReplyTx, pages
    <3>2. req[q] \in [pc : PostPC, post : Posts, raced : BOOLEAN] /\ req[q].pc \notin DeletePC
      BY <2>4, RequestKinds DEF ReplyTx, At, PostPC, HandlerPC, DeletePC
    <3>3. CASE Goto(q, "replyFailed")
      BY <1>1, <3>1, <3>2, <3>3 DEF Goto, DeletePC
    <3>4. CASE req' = [Raced(req[q].post) EXCEPT ![q].pc = "replied"]
      <4>1. ASSUME NEW o \in Requests
            PROVE  Raced(req[q].post)[o].pc = req[o].pc
        <5>1. CASE At(o, "delete.row")
          <6>1. req[o] \in [pc : PostPC, post : Posts, raced : BOOLEAN]
            BY <5>1, RequestKinds DEF At, PostPC, HandlerPC
          <6>2. QED BY <6>1 DEF Raced
        <5>2. CASE ~At(o, "delete.row")
          BY <5>2 DEF Raced
        <5>3. QED BY <5>1, <5>2
      <4>2. Raced(req[q].post)[q] = req[q]
        BY <2>4 DEF Raced, ReplyTx, At
      <4>3. req'[q].pc = "replied"
        BY <3>2, <3>4, <4>2 DEF Raced
      <4>4. \A o \in Requests \ {q} : req'[o].pc = req[o].pc
        BY <3>4, <4>1 DEF Raced
      <4>5. QED BY <3>1, <3>2, <4>3, <4>4 DEF DeletePC
    <3>5. QED BY <2>4, <3>3, <3>4 DEF ReplyTx
  <2>5. CASE (Handler(q) /\ ~ListRead(q) /\ ~ReplyTx(q)) \/ HandlerFails(q)
    <3>1. UNCHANGED deleting
      BY <2>5 DEF Handler, CreateInsert, DeleteFind, DeleteRow, ReplyFindPost, ReplyFindReply,
         UpdateFind, UpdateRow, HandlerFails, pages
    <3>2. req[q].pc \in PostPC /\ req[q] \in [pc : PostPC, post : Posts, raced : BOOLEAN]
      BY <2>5, RequestKinds DEF Handler, CreateInsert, DeleteFind, DeleteRow, ReplyFindPost,
         ReplyFindReply, UpdateFind, UpdateRow, HandlerFails, At, PostPC, HandlerPC
    <3>3. \E pc \in PostPC : Goto(q, pc) /\ (pc \in DeletePC <=> req[q].pc \in DeletePC)
      BY <2>5 DEF Handler, CreateInsert, DeleteFind, DeleteRow, ReplyFindPost, ReplyFindReply,
         UpdateFind, UpdateRow, HandlerFails, Failure, At, PostPC, HandlerPC, AnswerPC, DeletePC
    <3>4. QED BY <1>1, <3>1, <3>2, <3>3 DEF Goto
  <2>6. CASE AnswerLost(q)
    <3>1. UNCHANGED deleting
      BY <2>6 DEF AnswerLost, userPage
    <3>2. CASE Finish(q) /\ req[q].pc \in {"list.read", "listed"}
      BY <1>1, <3>1, <3>2 DEF Finish, Idle, DeletePC
    <3>3. CASE /\ req[q].pc \in PostPC
               /\ \E pc \in PostPC : Goto(q, pc) /\ (pc \in DeletePC <=> req[q].pc \in DeletePC)
      <4>1. req[q] \in [pc : PostPC, post : Posts, raced : BOOLEAN]
        BY <3>3, RequestKinds
      <4>2. QED BY <1>1, <3>1, <3>3, <4>1 DEF Goto
    <3>4. QED BY <2>6, <3>2, <3>3 DEF AnswerLost, At, PostPC, AnswerPC, DeletePC
  <2>7. QED BY <1>6, <2>1, <2>2, <2>3, <2>4, <2>5, <2>6
<1>7. QED BY <1>2, <1>3, <1>4, <1>5, <1>6 DEF Next, User, Answer

\* One flag for every dialog stands for one deletion at a time.
THEOREM DeletingIsOneCallCorrect == ASSUME PostConstants PROVE Spec => []DeletingIsOneCall
<1>1. Init => OneDeletion
  BY DEF Init, OneDeletion, Deletions, Idle, DeletePC
<1>2. TypeOK /\ OneDeletion => DeletingIsOneCall
  <2>1. SUFFICES ASSUME TypeOK, OneDeletion PROVE Cardinality(Deletions) = IF deleting THEN 1 ELSE 0
    BY DEF DeletingIsOneCall, Deletes, Deletions, DeletePC
  <2>2. QED BY <2>1, FS_EmptySet, FS_Singleton DEF OneDeletion, TypeOK
<1>3. QED BY <1>1, <1>2, TypeInit, TypeStep, DeletionsStep, PTL DEF Spec

-----------------------------------------------------------------------------
(* What the administrator's list shows.                                    *)

\* q reads the administrator's list.
Reads(q) == req[q].pc \in {"list.read", "listed"} /\ req[q].page = "admin"

\* The answer of p is shown, or will be: its reply has not come back yet, or the
\* list is read after it was given.
Current(p) ==
    \/ \E q \in Requests : At(q, "replied") /\ req[q].post = p
    \/ \E q \in Requests : At(q, "list.read") /\ Reads(q)
    \/ /\ \A q \in Requests : Reads(q) => At(q, "listed") /\ req[q].rows[p] = "ANSWERED"
       /\ (\E q \in Requests : Reads(q)) \/ list["admin"][p] = "ANSWERED"

ListInv ==
    "admin" \notin behind =>
        /\ \A q, o \in Requests : Reads(q) /\ Reads(o) => q = o
        /\ \A p \in reply : Current(p)

\* A step of q that neither reads the list nor takes an answer to the page; it
\* may be the one that gives the answer.
LEMMA ListFrame ==
    ASSUME ListInv, NEW q \in Requests, UNCHANGED list, behind \subseteq behind',
           ~Reads(q), ~Reads(q)', ~At(q, "replied"),
           \A p \in reply' \ reply : req'[q].pc = "replied" /\ req'[q].post = p,
           \A o \in Requests \ {q} :
              /\ Reads(o)' <=> Reads(o)
              /\ Reads(o) \/ At(o, "replied") => req'[o] = req[o]
    PROVE  ListInv'
<1>1. SUFFICES ASSUME "admin" \notin behind' PROVE ListInv'
  BY DEF ListInv
<1>2. /\ \A u, o \in Requests : Reads(u) /\ Reads(o) => u = o
      /\ \A p \in reply : Current(p)
  BY <1>1 DEF ListInv
<1>3. \A o \in Requests : /\ Reads(o)' <=> Reads(o)
                          /\ Reads(o) \/ At(o, "replied") => req'[o] = req[o]
  OBVIOUS
<1>4. ASSUME NEW p \in reply' PROVE Current(p)'
  <2>1. CASE p \notin reply
    BY <1>4, <2>1 DEF Current, At
  <2>2. CASE p \in reply
    <3>1. Current(p)
      BY <1>2, <2>2
    <3>2. CASE \E o \in Requests : At(o, "replied") /\ req[o].post = p
      BY <1>3, <3>2 DEF Current, At
    <3>3. CASE \E o \in Requests : At(o, "list.read") /\ Reads(o)
      BY <1>3, <3>3 DEF Current, At
    <3>4. CASE /\ \A o \in Requests : Reads(o) => At(o, "listed") /\ req[o].rows[p] = "ANSWERED"
               /\ (\E o \in Requests : Reads(o)) \/ list["admin"][p] = "ANSWERED"
      <4>1. \A o \in Requests : Reads(o)' => At(o, "listed")' /\ req'[o].rows[p] = "ANSWERED"
        BY <1>3, <3>4 DEF At
      <4>2. (\E o \in Requests : Reads(o)') \/ list'["admin"][p] = "ANSWERED"
        BY <1>3, <3>4
      <4>3. QED BY <4>1, <4>2 DEF Current
    <3>5. QED BY <3>1, <3>2, <3>3, <3>4 DEF Current
  <2>3. QED BY <2>1, <2>2
<1>5. \A u, o \in Requests : Reads(u)' /\ Reads(o)' => u = o
  BY <1>2, <1>3
<1>6. QED BY <1>4, <1>5 DEF ListInv

\* The list is asked for: alone, or the page may be behind.
LEMMA ListFetched ==
    ASSUME TypeOK, NEW q \in Requests, Fetch(q, "admin")
    PROVE  ListInv'
<1>1. SUFFICES ASSUME "admin" \notin behind' PROVE ListInv'
  BY DEF ListInv
<1>2. /\ req'[q] = [pc |-> "list.read", page |-> "admin"]
      /\ \A o \in Requests \ {q} : req'[o] = req[o] /\ ~Reads(o)
  BY <1>1 DEF Fetch, TypeOK, Reads
<1>3. /\ At(q, "list.read")' /\ Reads(q)'
      /\ \A o \in Requests \ {q} : ~Reads(o)'
  BY <1>2 DEF At, Reads
<1>4. \A p : Current(p)'
  BY <1>3 DEF Current
<1>5. QED BY <1>3, <1>4 DEF ListInv

\* A step of q whose new state is neither a call for a list nor an answered reply.
LEMMA ListPut ==
    ASSUME TypeOK, ListInv, NEW q \in Requests, UNCHANGED list, behind \subseteq behind',
           ~Reads(q), ~At(q, "replied"), reply' \subseteq reply,
           ~(req'[q].pc \in {"list.read", "listed"} /\ req'[q].page = "admin"),
           \A o \in Requests \ {q} : req'[o] = req[o]
    PROVE  ListInv'
<1>1. ~Reads(q)'
  BY DEF Reads
<1>2. \A o \in Requests \ {q} : Reads(o)' <=> Reads(o)
  BY DEF Reads
<1>3. QED BY <1>1, <1>2, ListFrame

LEMMA ListHandlers ==
    ASSUME TypeOK, AnswerAndStatusAgree, ListInv, NEW q \in Requests,
           Handler(q) \/ HandlerFails(q)
    PROVE  ListInv'
<1>1. req \in [Requests -> Request] /\ UNCHANGED <<list, behind>>
  BY DEF TypeOK, Handler, HandlerFails, CreateInsert, DeleteFind, DeleteRow, ReplyFindPost,
         ReplyFindReply, ReplyTx, UpdateFind, UpdateRow, ListRead, pages
<1>2. CASE ListRead(q)
  <2>1. /\ req'[q] = [pc |-> "listed", page |-> req[q].page, rows |-> Rows]
        /\ \A o \in Requests \ {q} : req'[o] = req[o]
        /\ req[q].pc = "list.read" /\ UNCHANGED reply
    BY <1>1, <1>2 DEF ListRead, At, db
  <2>2. \A o \in Requests : (Reads(o)' <=> Reads(o)) /\ (At(o, "replied") => req'[o] = req[o])
    BY <2>1 DEF Reads, At
  <2>3. SUFFICES ASSUME "admin" \notin behind PROVE ListInv'
    BY <1>1 DEF ListInv
  <2>4. /\ \A u, o \in Requests : Reads(u) /\ Reads(o) => u = o
        /\ \A p \in reply : Current(p)
    BY <2>3 DEF ListInv
  <2>5. ASSUME NEW p \in reply PROVE Current(p)'
    <3>1. CASE Reads(q)
      <4>1. \A o \in Requests : Reads(o)' => o = q
        BY <2>2, <2>4, <3>1
      <4>2. Rows[p] = "ANSWERED"
        BY <2>5 DEF Rows, AnswerAndStatusAgree
      <4>3. Reads(q)' /\ At(q, "listed")' /\ req'[q].rows[p] = "ANSWERED"
        BY <2>1, <2>2, <3>1, <4>2 DEF At
      <4>4. QED BY <4>1, <4>3 DEF Current
    <3>2. CASE ~Reads(q)
      <4>1. \A o \in Requests : Reads(o) => req'[o] = req[o]
        BY <2>1, <3>2
      <4>2. Current(p)
        BY <2>4, <2>5
      <4>3. CASE \E o \in Requests : At(o, "replied") /\ req[o].post = p
        BY <2>2, <4>3 DEF Current, At
      <4>4. CASE \E o \in Requests : At(o, "list.read") /\ Reads(o)
        BY <2>2, <4>1, <4>4 DEF Current, At
      <4>5. CASE /\ \A o \in Requests : Reads(o) => At(o, "listed") /\ req[o].rows[p] = "ANSWERED"
                 /\ (\E o \in Requests : Reads(o)) \/ list["admin"][p] = "ANSWERED"
        <5>1. \A o \in Requests : Reads(o)' => At(o, "listed")' /\ req'[o].rows[p] = "ANSWERED"
          BY <2>2, <4>1, <4>5 DEF At
        <5>2. (\E o \in Requests : Reads(o)') \/ list'["admin"][p] = "ANSWERED"
          BY <1>1, <2>2, <4>5
        <5>3. QED BY <5>1, <5>2 DEF Current
      <4>6. QED BY <4>2, <4>3, <4>4, <4>5 DEF Current
    <3>3. QED BY <3>1, <3>2
  <2>6. \A u, o \in Requests : Reads(u)' /\ Reads(o)' => u = o
    BY <2>2, <2>4
  <2>7. QED BY <2>1, <2>5, <2>6 DEF ListInv
<1>3. ASSUME ~ListRead(q)
      PROVE  req[q].pc \in HandlerPC /\ req[q] \in [pc : PostPC, post : Posts, raced : BOOLEAN]
  BY <1>3, RequestKinds DEF Handler, CreateInsert, DeleteFind, DeleteRow, ReplyFindPost,
     ReplyFindReply, ReplyTx, UpdateFind, UpdateRow, HandlerFails, At, PostPC, HandlerPC
<1>4. CASE ReplyTx(q)
  <2>1. req[q] \in [pc : PostPC, post : Posts, raced : BOOLEAN] /\ req[q].pc = "reply.tx"
    BY <1>4, RequestKinds DEF ReplyTx, At, PostPC, HandlerPC
  <2>2. ~Reads(q) /\ ~At(q, "replied")
    BY <2>1 DEF Reads, At
  <2>3. CASE Goto(q, "replyFailed") /\ UNCHANGED db
    <3>1. req'[q].pc = "replyFailed" /\ \A o \in Requests \ {q} : req'[o] = req[o]
      BY <1>1, <2>1, <2>3 DEF Goto
    <3>2. QED BY <1>1, <2>2, <2>3, <3>1, ListPut DEF db
  <2>4. CASE /\ reply' = reply \cup {req[q].post}
             /\ req' = [Raced(req[q].post) EXCEPT ![q].pc = "replied"]
    <3>1. Raced(req[q].post)[q] = req[q]
      BY <2>1 DEF Raced, At
    <3>2. req'[q].pc = "replied" /\ req'[q].post = req[q].post
      BY <2>1, <2>4, <3>1 DEF Raced
    <3>3. ASSUME NEW o \in Requests \ {q}
          PROVE  /\ Reads(o)' <=> Reads(o)
                 /\ Reads(o) \/ At(o, "replied") => req'[o] = req[o]
      <4>1. req'[o] = Raced(req[q].post)[o]
        BY <2>4 DEF Raced
      <4>2. CASE At(o, "delete.row") /\ req[o].post = req[q].post
        <5>1. req[o] \in [pc : PostPC, post : Posts, raced : BOOLEAN]
          BY <4>2, RequestKinds DEF At, PostPC, HandlerPC
        <5>2. req'[o].pc = "delete.row"
          BY <4>1, <4>2, <5>1 DEF Raced, At
        <5>3. QED BY <4>2, <5>2 DEF Reads, At
      <4>3. CASE ~(At(o, "delete.row") /\ req[o].post = req[q].post)
        <5>1. req'[o] = req[o]
          BY <4>1, <4>3 DEF Raced
        <5>2. QED BY <5>1 DEF Reads
      <4>4. QED BY <4>2, <4>3
    <3>4. ~Reads(q)' /\ \A p \in reply' \ reply : req'[q].pc = "replied" /\ req'[q].post = p
      BY <2>4, <3>2 DEF Reads
    <3>5. QED BY <1>1, <2>2, <3>3, <3>4, ListFrame
  <2>5. QED BY <1>4, <2>3, <2>4 DEF ReplyTx
\* An UPDATE answers "replied" for a reply that is there already.
<1>5. CASE ~ListRead(q) /\ ~ReplyTx(q)
  <2>1. req[q].pc \in HandlerPC /\ req[q] \in [pc : PostPC, post : Posts, raced : BOOLEAN]
    BY <1>3, <1>5
  <2>2. reply' \subseteq reply /\ \E pc \in PostPC : Goto(q, pc)
    BY <1>5 DEF Handler, CreateInsert, DeleteFind, DeleteRow, ReplyFindPost, ReplyFindReply,
       UpdateFind, UpdateRow, HandlerFails, Failure, PostPC, HandlerPC, AnswerPC, db
  <2>3. req'[q].pc \in PostPC /\ \A o \in Requests \ {q} : req'[o] = req[o]
    BY <1>1, <2>1, <2>2 DEF Goto
  <2>4. /\ ~Reads(q) /\ ~At(q, "replied")
        /\ req'[q].pc \notin {"list.read", "listed"}
    BY <2>1, <2>3 DEF Reads, At, PostPC, HandlerPC, AnswerPC
  <2>5. QED BY <1>1, <2>2, <2>3, <2>4, ListPut
<1>6. QED BY <1>2, <1>4, <1>5

LEMMA ListAnswers ==
    ASSUME TypeOK, ListInv, NEW q \in Requests, Answer(q)
    PROVE  ListInv'
<1>1. req \in [Requests -> Request] /\ list \in [Pages -> Listed] /\ UNCHANGED reply
  BY DEF TypeOK, Answer, ListAnswer, CreateAnswer, DeleteAnswer, ReplyAnswer, db
<1>2. CASE ListAnswer(q)
  <2>1. /\ req[q].pc = "listed" /\ req'[q] = Idle /\ UNCHANGED behind
        /\ \A o \in Requests \ {q} : req'[o] = req[o]
        /\ list' = [list EXCEPT ![req[q].page] = req[q].rows]
    BY <1>1, <1>2 DEF ListAnswer, Finish, At
  <2>2. ~Reads(q)' /\ \A o \in Requests \ {q} : Reads(o)' <=> Reads(o)
    BY <2>1 DEF Reads, Idle
  <2>3. SUFFICES ASSUME "admin" \notin behind PROVE ListInv'
    BY <2>1 DEF ListInv
  <2>4. /\ \A u, o \in Requests : Reads(u) /\ Reads(o) => u = o
        /\ \A p \in reply : Current(p)
    BY <2>3 DEF ListInv
  <2>5. ASSUME NEW p \in reply PROVE Current(p)'
    <3>1. Current(p)
      BY <2>4, <2>5
    <3>2. CASE \E o \in Requests : At(o, "replied") /\ req[o].post = p
      BY <2>1, <3>2 DEF Current, At
    <3>3. CASE \E o \in Requests : At(o, "list.read") /\ Reads(o)
      BY <2>1, <2>2, <3>3 DEF Current, At
    <3>4. CASE /\ \A o \in Requests : Reads(o) => At(o, "listed") /\ req[o].rows[p] = "ANSWERED"
               /\ (\E o \in Requests : Reads(o)) \/ list["admin"][p] = "ANSWERED"
      <4>1. \A o \in Requests : Reads(o)' => At(o, "listed")' /\ req'[o].rows[p] = "ANSWERED"
        BY <2>1, <2>2, <3>4 DEF At
      <4>2. CASE Reads(q)
        <5>1. "admin" \in Pages /\ req[q].page = "admin"
          BY <4>2 DEF Pages, Reads
        <5>2. list'["admin"] = req[q].rows
          BY <1>1, <2>1, <5>1
        <5>3. QED BY <3>4, <4>1, <4>2, <5>2 DEF Current
      <4>3. CASE ~Reads(q)
        <5>1. req[q].page # "admin"
          BY <2>1, <4>3 DEF Reads
        <5>2. list'["admin"] = list["admin"]
          BY <1>1, <2>1, <5>1 DEF Pages
        <5>3. (\E o \in Requests : Reads(o)') \/ list'["admin"][p] = "ANSWERED"
          BY <2>2, <3>4, <4>3, <5>2
        <5>4. QED BY <4>1, <5>3 DEF Current
      <4>4. QED BY <4>2, <4>3
    <3>5. QED BY <3>1, <3>2, <3>3, <3>4 DEF Current
  <2>6. \A u, o \in Requests : Reads(u)' /\ Reads(o)' => u = o
    BY <2>2, <2>4
  <2>7. QED BY <1>1, <2>5, <2>6 DEF ListInv
<1>3. CASE ReplyAnswer(q) /\ At(q, "replied")
  BY <1>3, ListFetched DEF ReplyAnswer, At
<1>4. CASE (ReplyAnswer(q) /\ ~At(q, "replied")) \/ CreateAnswer(q) \/ DeleteAnswer(q)
  <2>1. ~Reads(q) /\ ~At(q, "replied") /\ UNCHANGED list
    BY <1>4 DEF ReplyAnswer, CreateAnswer, DeleteAnswer, Reads, At
  <2>2. Fetch(q, "user") \/ (Finish(q) /\ behind \subseteq behind')
    BY <1>4 DEF ReplyAnswer, CreateAnswer, DeleteAnswer
  <2>3. /\ behind \subseteq behind'
        /\ req'[q] = Idle \/ req'[q] = [pc |-> "list.read", page |-> "user"]
        /\ \A o \in Requests \ {q} : req'[o] = req[o]
    BY <1>1, <2>2 DEF Fetch, Finish
  <2>4. ~(req'[q].pc \in {"list.read", "listed"} /\ req'[q].page = "admin")
    BY <2>3 DEF Idle
  <2>5. QED BY <1>1, <2>1, <2>3, <2>4, ListPut
<1>5. QED BY <1>2, <1>3, <1>4 DEF Answer

\* An answer that is lost: the page that does not get it is behind.
LEMMA ListLost ==
    ASSUME TypeOK, ListInv, NEW q \in Requests, AnswerLost(q)
    PROVE  ListInv'
<1>1. /\ req \in [Requests -> Request] /\ UNCHANGED <<reply, list>>
      /\ behind \subseteq behind'
  BY DEF AnswerLost, TypeOK, db
<1>2. SUFFICES ASSUME "admin" \notin behind' PROVE ListInv'
  BY DEF ListInv
<1>3. ~Reads(q) /\ ~At(q, "replied")
  BY <1>2 DEF AnswerLost, Reads, At
<1>4. CASE Finish(q)
  <2>1. req'[q] = Idle /\ \A o \in Requests \ {q} : req'[o] = req[o]
    BY <1>1, <1>4 DEF Finish
  <2>2. QED BY <1>1, <1>3, <2>1, ListPut DEF Idle
<1>5. CASE req[q].pc \in AnswerPC /\ \E pc \in AnswerPC : Goto(q, pc)
  <2>1. req[q] \in [pc : PostPC, post : Posts, raced : BOOLEAN]
    BY <1>5, RequestKinds DEF PostPC
  <2>2. req'[q].pc \in AnswerPC /\ \A o \in Requests \ {q} : req'[o] = req[o]
    BY <1>1, <1>5, <2>1 DEF Goto
  <2>3. req'[q].pc \notin {"list.read", "listed"}
    BY <2>2 DEF AnswerPC
  <2>4. QED BY <1>1, <1>3, <2>2, <2>3, ListPut
<1>6. QED BY <1>4, <1>5 DEF AnswerLost, At, AnswerPC

LEMMA ListPeople ==
    ASSUME TypeOK, ListInv, NEW q \in Requests,
           User(q) \/ Administrator(q) \/ \E g \in Pages : Open(q, g)
    PROVE  ListInv'
<1>1. req \in [Requests -> Request] /\ UNCHANGED <<reply, list>>
  BY DEF TypeOK, User, Administrator, Open, OpenOrCloseCreate, CancelDelete, ConfirmDelete,
         SubmitPost, AskDelete, CloseReply, OpenReply, SubmitReply, db
<1>2. CASE Open(q, "admin")
  BY <1>2, ListFetched DEF Open
<1>3. CASE UNCHANGED <<req, behind>>
  BY <1>1, <1>3 DEF ListInv, Current, Reads, At
<1>4. CASE Open(q, "user") \/ (UNCHANGED behind /\ \E p : \E pc \in HandlerPC : Send(q, pc, p))
  <2>1. req[q] = Idle /\ behind \subseteq behind'
    BY <1>4 DEF Open, Fetch, Send
  <2>2. /\ req'[q].pc \in HandlerPC \/ req'[q] = [pc |-> "list.read", page |-> "user"]
        /\ \A o \in Requests \ {q} : req'[o] = req[o]
    BY <1>1, <1>4 DEF Open, Fetch, Send
  <2>3. ~Reads(q) /\ ~At(q, "replied")
    BY <2>1 DEF Reads, At, Idle
  <2>4. ~(req'[q].pc \in {"list.read", "listed"} /\ req'[q].page = "admin")
    BY <2>2 DEF HandlerPC
  <2>5. QED BY <1>1, <2>1, <2>2, <2>3, <2>4, ListPut
<1>5. \/ Open(q, "admin") \/ Open(q, "user") \/ UNCHANGED <<req, behind>>
      \/ UNCHANGED behind /\ \E p : \E pc \in HandlerPC : Send(q, pc, p)
  BY DEF User, Administrator, OpenOrCloseCreate, CancelDelete, ConfirmDelete, SubmitPost,
         AskDelete, CloseReply, OpenReply, SubmitReply, HandlerPC, Pages
<1>6. QED BY <1>2, <1>3, <1>4, <1>5

LEMMA ListStep ==
    ASSUME TypeOK, AnswerAndStatusAgree, ListInv, [Next]_vars
    PROVE  ListInv'
<1>1. CASE UNCHANGED vars
  BY <1>1 DEF vars, ListInv, Current, Reads, At
<1>2. QED BY <1>1, ListHandlers, ListLost, ListAnswers, ListPeople DEF Next

\* Once no call is in progress the administrator's list shows every answer that
\* was given, unless two reads of it overlapped or a call failed.
THEOREM RepliesListedCorrect == ASSUME PostConstants PROVE Spec => []RepliesListed
<1>1. Init => ListInv /\ AnswerAndStatusAgree
  BY DEF Init, ListInv, Reads, Idle, AnswerAndStatusAgree
<1>2. ListInv => RepliesListed
  <2>1. (\A q \in Requests : req[q] = Idle) => \A q \in Requests : ~Reads(q) /\ ~At(q, "replied")
    BY DEF Idle, Reads, At
  <2>2. QED BY <2>1 DEF ListInv, RepliesListed, Current
<1>3. QED BY <1>1, <1>2, TypeInit, TypeStep, AgreeStep, ListStep, PTL DEF Spec

=============================================================================
