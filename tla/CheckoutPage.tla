---------------------------- MODULE CheckoutPage ----------------------------
(***************************************************************************)
(* The pages of one user who reserves, pays and cancels:                   *)
(* ReservationPage.tsx and ReservationsPage.tsx.                           *)
(*                                                                         *)
(* The server is abstract here, and SeatReservation has its steps: a call  *)
(* creates in one, but reads the reservation that it extends or cancels in *)
(* one step and writes it in another.  Toss is external: its window        *)
(* charges the amount the page gave it, or fails, and says which.          *)
(*                                                                         *)
(* A call q is one promise the page awaits.  Leaving a page keeps its      *)
(* promises running (page = "left"); reloading the browser ends them, but  *)
(* not the request at the server (page = "gone").                          *)
(***************************************************************************)
EXTENDS Naturals, Sequences, FiniteSets

CONSTANTS
    Zones,
    Reservations,   \* the reservations the server may create
    Requests,       \* promises at once
    NoZone, NoReservation

MaxQuantity == 2    \* stands for the code's 4
Seconds == 2        \* stands for 300; a timer of 1 stands for the last minute

VARIABLES
    row,       \* DB: status, choice and extendedAt of each reservation
    admitted,  \* Redis: the user's admitted key
    charged,   \* Toss: what was charged for each reservation
    req,       \* the promises
    page,      \* the page the browser shows
    checkout,  \* state of ReservationPage
    mine,      \* state of ReservationsPage
    crossed,   \* history: two list calls of ReservationsPage at once
    revived    \* history: reservations no longer PENDING that an extension,
               \* past its check by then, wrote PENDING again

server == <<row, admitted, revived>>
vars == <<row, admitted, revived, charged, req, page, checkout, mine, crossed>>

-----------------------------------------------------------------------------
Choices == [zone : Zones, quantity : 1..MaxQuantity]
Statuses == {"none", "PENDING", "CONFIRMED", "CANCELLED", "EXPIRED"}
Listed == [Reservations -> Statuses]
Ids == Reservations \cup {NoReservation}
Places == {"here", "left", "gone"}

\* first: Toss is asked by the handlePay that created the reservation.
PayPC == {"create", "created", "refused", "toss", "paid", "failed"}
OnePC == {"extend", "extending", "extended", "extendFailed",
          "cancel", "cancelling", "cancelled", "cancelFailed"}
AtServer == {"create", "extend", "extending", "cancel", "cancelling"}
Idle == [pc |-> "idle"]
Request ==
    {Idle}
    \cup [pc : PayPC, page : Places, id : Ids, choice : Choices, first : BOOLEAN]
    \cup [pc : OnePC, page : Places, id : Reservations]
    \cup [pc : {"list"}]
    \cup [pc : {"listed"}, rows : Listed]

TypeOK ==
    /\ \A r \in Reservations :
         \/ row[r] = [status |-> "none"]
         \/ row[r] \in [status : Statuses \ {"none"}, choice : Choices, extended : BOOLEAN]
    /\ admitted \in BOOLEAN
    /\ charged \in [Reservations -> Seq([choice : Choices, first : BOOLEAN])]
    /\ req \in [Requests -> Request]
    /\ page \in {"concert", "reservation", "reservations"}
    /\ checkout \in [ready : BOOLEAN, id : Ids, remain : 0..Seconds, extended : BOOLEAN,
                     zone : Zones \cup {NoZone}, quantity : 1..MaxQuantity, paying : BOOLEAN]
    /\ mine \in [list : Listed, loading : BOOLEAN, error : BOOLEAN, target : Ids,
                 cancelling : BOOLEAN, cancelled : SUBSET Reservations]
    /\ crossed \in BOOLEAN
    /\ revived \subseteq Reservations

\* The useStates of the two pages.
NewCheckout == [ready |-> FALSE, id |-> NoReservation, remain |-> Seconds, extended |-> FALSE,
                zone |-> NoZone, quantity |-> 1, paying |-> FALSE]
NewMine == [list |-> [r \in Reservations |-> "none"], loading |-> TRUE, error |-> FALSE,
            target |-> NoReservation, cancelling |-> FALSE, cancelled |-> {}]

\* The user was admitted and is about to open the reservation page.
Init ==
    /\ row = [r \in Reservations |-> [status |-> "none"]]
    /\ admitted = TRUE
    /\ charged = [r \in Reservations |-> <<>>]
    /\ req = [q \in Requests |-> Idle]
    /\ page = "concert"
    /\ checkout = NewCheckout
    /\ mine = NewMine
    /\ crossed = FALSE
    /\ revived = {}

-----------------------------------------------------------------------------
(* Promises and pages.                                                     *)

At(q, pc) == req[q].pc = pc
Here(q) == req[q].page = "here"
Finished(q) == [req EXCEPT ![q] = Idle]
Moved(q, pc) == [req EXCEPT ![q].pc = pc]

\* What becomes of the promises when the page is left (its list is read for
\* nobody), and when the browser loads another: Toss's window closes and
\* answers reach nobody.
Left(f) == [q \in Requests |->
    CASE f[q].pc \in {"idle", "list", "listed"} -> Idle
      [] OTHER -> [f[q] EXCEPT !.page = IF @ = "here" THEN "left" ELSE @]]
Gone(f) == [q \in Requests |-> IF f[q].pc \in AtServer
                               THEN [f[q] EXCEPT !.page = "gone"] ELSE Idle]

ListCall == [pc |-> "list"]

\* Pages mount with new state; ReservationsPage reads its list at once.
Mount(p, q, others) ==
    /\ page' = p
    /\ checkout' = NewCheckout
    /\ mine' = NewMine
    /\ crossed' = FALSE
    /\ req' = IF p = "reservations" THEN [others EXCEPT ![q] = ListCall] ELSE others

\* A link, or the address bar and the reload button.
Visit(q, p) ==
    /\ req[q] = Idle
    /\ \/ p # page /\ Mount(p, q, Left(req))
       \/ Mount(p, q, Gone(req))
    /\ UNCHANGED <<server, charged>>

\* The promise q of a page that is gone: nobody awaits it.
Dropped(q) ==
    /\ req[q].pc \in {"created", "refused", "extended", "extendFailed", "cancelled", "cancelFailed"}
    /\ req[q].page = "gone"
    /\ req' = Finished(q)
    /\ UNCHANGED <<server, charged, page, checkout, mine, crossed>>

-----------------------------------------------------------------------------
(* The server, and the ways a call fails on its way.                       *)

\* POST /reservations needs the admitted key and uses it up, except when it throws.
Create(q) ==
    /\ At(q, "create")
    /\ \/ /\ admitted
          /\ \E r \in Reservations :
               /\ row[r].status = "none"
               /\ row' = [row EXCEPT ![r] = [status |-> "PENDING", choice |-> req[q].choice,
                                             extended |-> FALSE]]
               /\ \/ req' = [req EXCEPT ![q].pc = "created", ![q].id = r]
                  \/ req' = Moved(q, "refused")
          /\ admitted' = FALSE
       \/ /\ admitted' \in {admitted, FALSE}
          /\ req' = Moved(q, "refused")
          /\ UNCHANGED row
    /\ UNCHANGED <<revived, charged, page, checkout, mine, crossed>>

\* POST /reservations/:id/extend: the reservation is read; a call may fail.
Extend(q) ==
    /\ At(q, "extend")
    /\ \/ /\ row[req[q].id].status = "PENDING" /\ ~row[req[q].id].extended
          /\ req' = Moved(q, "extending")
       \/ req' = Moved(q, "extendFailed")
    /\ UNCHANGED <<server, charged, page, checkout, mine, crossed>>

\* Some awaits later it is written PENDING, whatever has become of it; or one of
\* them fails, or the answer is lost.
ExtendWrite(q) ==
    LET r == req[q].id IN
    /\ At(q, "extending")
    /\ \/ /\ row[r].status # "none"
          /\ row' = [row EXCEPT ![r].status = "PENDING", ![r].extended = TRUE]
          /\ revived' = IF row[r].status = "PENDING" THEN revived ELSE revived \cup {r}
          /\ req' \in {Moved(q, "extended"), Moved(q, "extendFailed")}
       \/ req' = Moved(q, "extendFailed") /\ UNCHANGED <<row, revived>>
    /\ UNCHANGED <<admitted, charged, page, checkout, mine, crossed>>

\* DELETE /reservations/:id, in the same way.
Cancel(q) ==
    /\ At(q, "cancel")
    /\ \/ row[req[q].id].status = "PENDING" /\ req' = Moved(q, "cancelling")
       \/ req' = Moved(q, "cancelFailed")
    /\ UNCHANGED <<server, charged, page, checkout, mine, crossed>>

CancelWrite(q) ==
    LET r == req[q].id IN
    /\ At(q, "cancelling")
    /\ \/ /\ row[r].status # "none"
          /\ row' = [row EXCEPT ![r].status = "CANCELLED"]
          /\ req' \in {Moved(q, "cancelled"), Moved(q, "cancelFailed")}
       \/ req' = Moved(q, "cancelFailed") /\ UNCHANGED row
    /\ UNCHANGED <<admitted, revived, charged, page, checkout, mine, crossed>>

\* The expiry worker, and Toss's webhook: CONFIRMED only for what was charged.
\* (An overlap of theirs changes only which final status the row has.)
Settle(r) ==
    /\ row[r].status = "PENDING"
    /\ \E s \in {"EXPIRED", "CANCELLED"} \cup (IF charged[r] # <<>> THEN {"CONFIRMED"} ELSE {}) :
         row' = [row EXCEPT ![r].status = s]
    /\ UNCHANGED <<admitted, revived, charged, req, page, checkout, mine, crossed>>

\* The waiting queue admits the user again.
Admit ==
    /\ ~admitted /\ \E r \in Reservations : row[r].status = "none"
    /\ admitted' = TRUE
    /\ UNCHANGED <<row, revived, charged, req, page, checkout, mine, crossed>>

-----------------------------------------------------------------------------
(* ReservationPage.                                                        *)

\* The concert and the user have been read; without them the page shows an error.
Load ==
    /\ page = "reservation" /\ ~checkout.ready
    /\ checkout' = [checkout EXCEPT !.ready = TRUE]
    /\ UNCHANGED <<server, charged, req, page, mine, crossed>>

\* Zone cards and quantity buttons: enabled also when there is a reservation
\* already, and while the page is paying.
Choose ==
    /\ page = "reservation" /\ checkout.ready
    /\ \/ \E z \in Zones : checkout' = [checkout EXCEPT !.zone = z]
       \/ /\ checkout.zone # NoZone
          /\ \E n \in {checkout.quantity - 1, checkout.quantity + 1} \cap (1..MaxQuantity) :
               checkout' = [checkout EXCEPT !.quantity = n]
    /\ UNCHANGED <<server, charged, req, page, mine, crossed>>

\* The countdown runs from the first render, reservation or not; its end
\* leaves the page, whatever is being awaited.
Tick ==
    /\ page = "reservation"
    /\ IF checkout.remain > 1
         THEN /\ checkout' = [checkout EXCEPT !.remain = @ - 1]
              /\ UNCHANGED <<req, page, mine, crossed>>
         ELSE \E q \in Requests : Mount("concert", q, Left(req))
    /\ UNCHANGED <<server, charged>>

Chosen == [zone |-> checkout.zone, quantity |-> checkout.quantity]

\* Mutant of Pay: the button stays enabled while the page is paying.
Pay_Twice(q) ==
    /\ req[q] = Idle
    /\ page = "reservation" /\ checkout.ready
    /\ checkout.zone # NoZone /\ checkout.remain > 0
    /\ checkout' = [checkout EXCEPT !.paying = TRUE]
    /\ req' = [req EXCEPT ![q] =
         [pc |-> IF checkout.id = NoReservation THEN "create" ELSE "toss", page |-> "here",
          id |-> checkout.id, choice |-> Chosen, first |-> checkout.id = NoReservation]]
    /\ UNCHANGED <<server, charged, page, mine, crossed>>

\* handlePay, behind canPay: creates a reservation only if the page has none.
Pay(q) ==
    /\ req[q] = Idle
    /\ page = "reservation" /\ checkout.ready
    /\ checkout.zone # NoZone /\ checkout.remain > 0 /\ ~checkout.paying
    /\ checkout' = [checkout EXCEPT !.paying = TRUE]
    /\ req' = [req EXCEPT ![q] =
         [pc |-> IF checkout.id = NoReservation THEN "create" ELSE "toss", page |-> "here",
          id |-> checkout.id, choice |-> Chosen, first |-> checkout.id = NoReservation]]
    /\ UNCHANGED <<server, charged, page, mine, crossed>>

\* Mutant of Created: Toss is asked for what the page shows by now.
Created_Shown(q) ==
    /\ At(q, "created") /\ req[q].page # "gone"
    /\ req' = [req EXCEPT ![q].pc = "toss", ![q].choice = IF Here(q) THEN Chosen ELSE @]
    /\ checkout' = IF Here(q) THEN [checkout EXCEPT !.id = req[q].id, !.remain = Seconds]
                              ELSE checkout
    /\ UNCHANGED <<server, charged, page, mine, crossed>>

\* After the POST: on to Toss's window, with the choice handlePay began with.
Created(q) ==
    /\ At(q, "created") /\ req[q].page # "gone"
    /\ req' = Moved(q, "toss")
    /\ checkout' = IF Here(q) THEN [checkout EXCEPT !.id = req[q].id, !.remain = Seconds]
                              ELSE checkout
    /\ UNCHANGED <<server, charged, page, mine, crossed>>

Charge(q) ==
    charged' = [charged EXCEPT ![req[q].id] =
                  Append(@, [choice |-> req[q].choice, first |-> req[q].first])]

\* Toss's window charges or fails.  Its iframe settles the promise; on a
\* phone it has replaced the page and loads successUrl or failUrl.
Toss(q) ==
    /\ At(q, "toss")
    /\ \/ /\ Charge(q)
          /\ \/ req' = Moved(q, "paid") /\ UNCHANGED <<page, checkout, mine, crossed>>
             \/ Mount("reservations", q, Gone(req))
       \/ /\ \/ req' = Moved(q, "failed") /\ UNCHANGED <<page, checkout, mine, crossed>>
             \/ Mount("reservation", q, Gone(req))
          /\ UNCHANGED charged
    /\ UNCHANGED server

\* Paid: to the user's reservations, from whichever page is shown by then.
Paid(q) ==
    /\ At(q, "paid")
    /\ IF page = "reservations"
         THEN req' = Finished(q) /\ UNCHANGED <<page, checkout, mine, crossed>>
         ELSE Mount("reservations", q, Left(req))
    /\ UNCHANGED <<server, charged>>

\* The POST or Toss failed; finally, the page no longer pays.
PayFailed(q) ==
    /\ req[q].pc \in {"refused", "failed"} /\ req[q].page # "gone"
    /\ req' = Finished(q)
    /\ checkout' = IF Here(q) THEN [checkout EXCEPT !.paying = FALSE] ELSE checkout
    /\ UNCHANGED <<server, charged, page, mine, crossed>>

\* handleExtend: the button works in the last minute, until an extension is known.
AskExtend(q) ==
    /\ req[q] = Idle
    /\ page = "reservation" /\ checkout.ready
    /\ checkout.id # NoReservation /\ checkout.remain = 1 /\ ~checkout.extended
    /\ req' = [req EXCEPT ![q] = [pc |-> "extend", page |-> "here", id |-> checkout.id]]
    /\ UNCHANGED <<server, charged, page, checkout, mine, crossed>>

ExtendAnswer(q) ==
    /\ req[q].pc \in {"extended", "extendFailed"} /\ req[q].page # "gone"
    /\ req' = Finished(q)
    /\ checkout' = IF Here(q) /\ At(q, "extended")
                   THEN [checkout EXCEPT !.remain = Seconds, !.extended = TRUE] ELSE checkout
    /\ UNCHANGED <<server, charged, page, mine, crossed>>

-----------------------------------------------------------------------------
(* ReservationsPage.                                                       *)

\* fetch, by a promise q that is free or has just been settled.
Fetch(q) ==
    /\ req' = [req EXCEPT ![q] = ListCall]
    /\ crossed' = (crossed \/ \E o \in Requests \ {q} : req[o].pc \in {"list", "listed"})

Shown == ~mine.loading /\ ~mine.error

Retry(q) ==
    /\ req[q] = Idle
    /\ page = "reservations" /\ mine.error /\ ~mine.loading
    /\ Fetch(q)
    /\ mine' = [mine EXCEPT !.loading = TRUE, !.error = FALSE]
    /\ UNCHANGED <<server, charged, page, checkout>>

List(q) ==
    /\ At(q, "list")
    /\ req' = [req EXCEPT ![q] = [pc |-> "listed", rows |-> [r \in Reservations |-> row[r].status]]]
    /\ UNCHANGED <<server, charged, page, checkout, mine, crossed>>

\* The list, or its failure.
ListAnswer(q) ==
    /\ \/ /\ At(q, "listed")
          /\ mine' = [mine EXCEPT !.list = req[q].rows, !.loading = FALSE]
       \/ /\ At(q, "list")
          /\ mine' = [mine EXCEPT !.error = TRUE, !.loading = FALSE]
    /\ req' = Finished(q)
    /\ UNCHANGED <<server, charged, page, checkout, crossed>>

\* The cancel button of a reservation shown as PENDING.
AskCancel(r) ==
    /\ page = "reservations" /\ Shown
    /\ mine.target = NoReservation /\ mine.list[r] = "PENDING"
    /\ mine' = [mine EXCEPT !.target = r]
    /\ UNCHANGED <<server, charged, req, page, checkout, crossed>>

\* The dialog's backdrop works while a cancellation is in progress.
CloseDialog ==
    /\ mine.target # NoReservation
    /\ mine' = [mine EXCEPT !.target = NoReservation]
    /\ UNCHANGED <<server, charged, req, page, checkout, crossed>>

\* handleCancelConfirm, disabled while cancelLoading.
ConfirmCancel(q) ==
    /\ req[q] = Idle
    /\ mine.target # NoReservation /\ ~mine.cancelling
    /\ req' = [req EXCEPT ![q] = [pc |-> "cancel", page |-> "here", id |-> mine.target]]
    /\ mine' = [mine EXCEPT !.cancelling = TRUE]
    /\ UNCHANGED <<server, charged, page, checkout, crossed>>

\* Mutant of Cancelled: the list is not read again.
Cancelled_NoRetry(q) ==
    /\ At(q, "cancelled") /\ Here(q)
    /\ mine' = [mine EXCEPT !.target = NoReservation, !.cancelling = FALSE,
                            !.cancelled = @ \cup {req[q].id}]
    /\ req' = Finished(q)
    /\ UNCHANGED <<server, charged, page, checkout, crossed>>

\* A success closes the dialog that is open, whichever it is, and reads the list.
Cancelled(q) ==
    /\ At(q, "cancelled") /\ Here(q)
    /\ mine' = [mine EXCEPT !.target = NoReservation, !.cancelling = FALSE,
                            !.cancelled = @ \cup {req[q].id},
                            !.loading = TRUE, !.error = FALSE]
    /\ Fetch(q)
    /\ UNCHANGED <<server, charged, page, checkout>>

\* A failure leaves the dialog as it is; a page that was left does nothing.
CancelFailed(q) ==
    /\ \/ At(q, "cancelFailed") /\ req[q].page # "gone"
       \/ At(q, "cancelled") /\ req[q].page = "left"
    /\ req' = Finished(q)
    /\ mine' = IF Here(q) THEN [mine EXCEPT !.cancelling = FALSE] ELSE mine
    /\ UNCHANGED <<server, charged, page, checkout, crossed>>

-----------------------------------------------------------------------------
Promise(q) ==
    \/ Create(q) \/ Extend(q) \/ ExtendWrite(q) \/ Cancel(q) \/ CancelWrite(q)
    \/ List(q) \/ Toss(q)
    \/ Created(q) \/ Paid(q) \/ PayFailed(q) \/ ExtendAnswer(q)
    \/ ListAnswer(q) \/ Cancelled(q) \/ CancelFailed(q) \/ Dropped(q)

User(q) ==
    \/ \E p \in {"concert", "reservation", "reservations"} : Visit(q, p)
    \/ Choose \/ Pay(q) \/ AskExtend(q)
    \/ Retry(q) \/ ConfirmCancel(q) \/ CloseDialog \/ \E r \in Reservations : AskCancel(r)

Next ==
    \/ Load \/ Tick \/ Admit
    \/ \E r \in Reservations : Settle(r)
    \/ \E q \in Requests : User(q) \/ Promise(q)

Spec == Init /\ [][Next]_vars

-----------------------------------------------------------------------------
(* Properties.                                                             *)

\* However often payment fails and is tried again, the page is left with the
\* window open or the timer ends, no reservation is charged twice: a
\* reservation's id is known to one page, and to one handlePay of it at a time.
ChargedOnce == \A r \in Reservations : Len(charged[r]) <= 1

\* The payment asked for by the handlePay that made the reservation is for the
\* zone and quantity reserved, even if the user chose others meanwhile.  (A
\* later attempt asks for what is chosen by then.)
ChargedAsReserved ==
    \A r \in Reservations : \A i \in 1..Len(charged[r]) :
        charged[r][i].first => charged[r][i].choice = row[r].choice

\* A list of reservations that is shown does not offer one the user has cancelled
\* from that page, whichever dialogs were closed and opened meanwhile and whatever
\* other promises are running; unless two reads of the list overlapped, or an
\* extension that had read the reservation before wrote it PENDING again.
CancelledNotOffered ==
    page = "reservations" /\ Shown /\ ~crossed =>
        \A r \in mine.cancelled \ revived : mine.list[r] # "PENDING"

=============================================================================
