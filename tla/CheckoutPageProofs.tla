------------------------- MODULE CheckoutPageProofs -------------------------
(***************************************************************************)
(* Theorems about CheckoutPage, for any number of zones, reservations and  *)
(* promises at once.                                                       *)
(***************************************************************************)
EXTENDS CheckoutPage, SequenceTheorems, TLAPS

PayRequest == [pc : PayPC, page : Places, id : Ids, choice : Choices, first : BOOLEAN]
OneRequest == [pc : OnePC, page : Places, id : Reservations]
Row == [status : Statuses \ {"none"}, choice : Choices, extended : BOOLEAN]
Checkout == [ready : BOOLEAN, id : Ids, remain : 0..Seconds, extended : BOOLEAN,
             zone : Zones \cup {NoZone}, quantity : 1..MaxQuantity, paying : BOOLEAN]

Mine == [list : Listed, loading : BOOLEAN, error : BOOLEAN, target : Ids,
         cancelling : BOOLEAN, cancelled : SUBSET Reservations]

\* The types a payment depends on.
Typed ==
    /\ row = [r \in Reservations |-> row[r]]
    /\ \A r \in Reservations : row[r] = [status |-> "none"] \/ row[r] \in Row
    /\ charged \in [Reservations -> Seq([choice : Choices, first : BOOLEAN])]
    /\ req \in [Requests -> Request]
    /\ checkout \in Checkout

-----------------------------------------------------------------------------
(* Types.                                                                  *)

\* The pc of a promise tells what kind of promise it is.
LEMMA Kinds ==
    ASSUME Typed, NEW q \in Requests
    PROVE  /\ req[q].pc \in PayPC => req[q] \in PayRequest
           /\ req[q].pc \in OnePC => req[q] \in OneRequest
           /\ req[q].pc \in PayPC \cup OnePC \cup {"idle", "list", "listed"}
<1>1. req[q] \in {Idle} \cup PayRequest \cup OneRequest \cup [pc : {"list"}]
                        \cup [pc : {"listed"}, rows : Listed]
  BY DEF Typed, Request, PayRequest, OneRequest
<1>2. CASE req[q] = Idle
  BY <1>2 DEF Idle, PayPC, OnePC
<1>3. CASE req[q] \in PayRequest
  BY <1>3 DEF PayRequest, PayPC, OnePC
<1>4. CASE req[q] \in OneRequest
  BY <1>4 DEF OneRequest, PayPC, OnePC
<1>5. CASE req[q] \in [pc : {"list"}] \cup [pc : {"listed"}, rows : Listed]
  BY <1>5 DEF PayPC, OnePC
<1>6. QED BY <1>1, <1>2, <1>3, <1>4, <1>5

\* A promise that gets a new state; the others keep theirs.
LEMMA PutOK ==
    ASSUME Typed, NEW q \in Requests, NEW s \in Request, req' = [req EXCEPT ![q] = s]
    PROVE  /\ req' \in [Requests -> Request]
           /\ req'[q] = s
           /\ \A o \in Requests \ {q} : req'[o] = req[o]
BY DEF Typed

LEMMA FinishedOK ==
    ASSUME Typed, NEW q \in Requests, req' = Finished(q)
    PROVE  /\ req' \in [Requests -> Request]
           /\ req'[q].pc = "idle"
           /\ \A o \in Requests \ {q} : req'[o] = req[o]
<1>1. Idle \in Request /\ Idle.pc = "idle"
  BY DEF Idle, Request
<1>2. QED BY <1>1, PutOK DEF Finished

LEMMA MovedPay ==
    ASSUME Typed, NEW q \in Requests, req[q].pc \in PayPC, NEW pc \in PayPC, req' = Moved(q, pc)
    PROVE  /\ req' \in [Requests -> Request]
           /\ req'[q].pc = pc /\ req'[q].page = req[q].page /\ req'[q].id = req[q].id
           /\ req'[q].choice = req[q].choice /\ req'[q].first = req[q].first
           /\ \A o \in Requests \ {q} : req'[o] = req[o]
<1>1. req[q] \in PayRequest
  BY Kinds
<1> DEFINE s == [req[q] EXCEPT !.pc = pc]
<1>2. /\ s \in PayRequest /\ s.pc = pc /\ s.page = req[q].page /\ s.id = req[q].id
      /\ s.choice = req[q].choice /\ s.first = req[q].first
  BY <1>1 DEF PayRequest
<1>3. s \in Request
  BY <1>2 DEF Request, PayRequest
<1>4. req' = [req EXCEPT ![q] = s]
  BY DEF Moved
<1> HIDE DEF s
<1>5. QED BY <1>2, <1>3, <1>4, PutOK

LEMMA MovedOne ==
    ASSUME Typed, NEW q \in Requests, req[q].pc \in OnePC, NEW pc \in OnePC, req' = Moved(q, pc)
    PROVE  /\ req' \in [Requests -> Request]
           /\ req'[q].pc = pc /\ req'[q].id = req[q].id
           /\ \A o \in Requests \ {q} : req'[o] = req[o]
<1>1. req[q] \in OneRequest
  BY Kinds
<1> DEFINE s == [req[q] EXCEPT !.pc = pc]
<1>2. s \in OneRequest /\ s.pc = pc /\ s.id = req[q].id
  BY <1>1 DEF OneRequest
<1>3. s \in Request
  BY <1>2 DEF Request, OneRequest
<1>4. req' = [req EXCEPT ![q] = s]
  BY DEF Moved
<1> HIDE DEF s
<1>5. QED BY <1>2, <1>3, <1>4, PutOK

\* What becomes of a promise when its page is left.
LEMMA LeftOK ==
    ASSUME Typed, NEW q \in Requests
    PROVE  /\ Left(req)[q] \in Request
           /\ Left(req)[q].pc \in PayPC =>
                /\ Left(req)[q].pc = req[q].pc /\ Left(req)[q].id = req[q].id
                /\ Left(req)[q].choice = req[q].choice /\ Left(req)[q].first = req[q].first
                /\ Left(req)[q].page # "here"
<1>1. CASE req[q].pc \in {"idle", "list", "listed"}
  BY <1>1 DEF Left, Idle, Request, PayPC
<1>2. CASE req[q].pc \in PayPC
  <2>1. req[q] \in PayRequest
    BY <1>2, Kinds
  <2> DEFINE s == [req[q] EXCEPT !.page = IF req[q].page = "here" THEN "left" ELSE req[q].page]
  <2>2. /\ s \in PayRequest /\ s.pc = req[q].pc /\ s.id = req[q].id
        /\ s.choice = req[q].choice /\ s.first = req[q].first /\ s.page # "here"
    BY <2>1 DEF PayRequest, Places
  <2>3. s \in Request
    BY <2>2 DEF Request, PayRequest
  <2>4. Left(req)[q] = s
    BY <1>2 DEF Left, PayPC
  <2> HIDE DEF s
  <2>5. QED BY <2>2, <2>3, <2>4
<1>3. CASE req[q].pc \in OnePC
  <2>1. req[q] \in OneRequest
    BY <1>3, Kinds
  <2> DEFINE s == [req[q] EXCEPT !.page = IF req[q].page = "here" THEN "left" ELSE req[q].page]
  <2>2. s \in OneRequest /\ s.pc = req[q].pc
    BY <2>1 DEF OneRequest, Places
  <2>3. s \in Request
    BY <2>2 DEF Request, OneRequest
  <2>4. Left(req)[q] = s
    BY <1>3 DEF Left, OnePC
  <2> HIDE DEF s
  <2>5. QED BY <1>3, <2>2, <2>3, <2>4 DEF PayPC, OnePC
<1>4. QED BY <1>1, <1>2, <1>3, Kinds

\* What becomes of it when the browser loads another page.
LEMMA GoneOK ==
    ASSUME Typed, NEW q \in Requests
    PROVE  /\ Gone(req)[q] \in Request
           /\ Gone(req)[q].pc \in PayPC => Gone(req)[q].pc = "create" /\ Gone(req)[q].page = "gone"
<1>1. CASE req[q].pc = "create"
  <2>1. req[q] \in PayRequest
    BY <1>1, Kinds DEF PayPC
  <2>2. /\ [req[q] EXCEPT !.page = "gone"] \in PayRequest
        /\ [req[q] EXCEPT !.page = "gone"].pc = "create"
        /\ [req[q] EXCEPT !.page = "gone"].page = "gone"
    BY <1>1, <2>1 DEF PayRequest, Places
  <2>3. QED BY <1>1, <2>2 DEF Gone, Request, PayRequest, AtServer
<1>2. CASE req[q].pc \in AtServer \ {"create"}
  <2>1. req[q] \in OneRequest
    BY <1>2, Kinds DEF OnePC, AtServer
  <2>2. /\ [req[q] EXCEPT !.page = "gone"] \in OneRequest
        /\ [req[q] EXCEPT !.page = "gone"].pc = req[q].pc
    BY <2>1 DEF OneRequest, Places
  <2>3. QED BY <1>2, <2>2 DEF Gone, Request, OneRequest, PayPC, AtServer
<1>3. CASE req[q].pc \notin AtServer
  BY <1>3 DEF Gone, Idle, Request, PayPC
<1>4. QED BY <1>1, <1>2, <1>3

LEMMA CheckoutOK ==
    ASSUME Typed
    PROVE  /\ NewCheckout \in Checkout /\ NewCheckout.id = NoReservation /\ ~NewCheckout.paying
           /\ checkout.paying \in BOOLEAN /\ checkout.id \in Ids
           /\ \A z \in Zones : [checkout EXCEPT !.zone = z] \in Checkout
           /\ \A n \in 1..MaxQuantity : [checkout EXCEPT !.quantity = n] \in Checkout
<1>1. NewCheckout \in Checkout /\ NewCheckout.id = NoReservation /\ ~NewCheckout.paying
  BY DEF NewCheckout, Checkout, Ids, Seconds, MaxQuantity
<1>2. QED BY <1>1 DEF Typed, Checkout

\* A page that is mounted pays for nothing and knows no reservation, and the
\* promises that were kept running are no longer its own.
LEMMA MountOK ==
    ASSUME Typed, NEW q \in Requests, NEW p, NEW others, Mount(p, q, others),
           others = Left(req) \/ others = Gone(req)
    PROVE  /\ checkout' \in Checkout /\ checkout'.id = NoReservation
           /\ req' \in [Requests -> Request]
           /\ \A o \in Requests : req'[o].pc \in PayPC =>
                /\ req'[o].page # "here"
                /\ \/ req'[o].pc = "create"
                   \/ /\ req'[o].pc = req[o].pc /\ req'[o].id = req[o].id
                      /\ req'[o].choice = req[o].choice /\ req'[o].first = req[o].first
           /\ others = Gone(req) => \A o \in Requests : req'[o].pc \in PayPC => req'[o].pc = "create"
<1>1. checkout' \in Checkout /\ checkout'.id = NoReservation
  BY CheckoutOK DEF Mount
<1>2. ListCall \in Request /\ ListCall.pc \notin PayPC
  BY DEF ListCall, Request, PayPC
<1>3. others = [o \in Requests |-> others[o]] /\ \A o \in Requests : others[o] \in Request
  BY LeftOK, GoneOK DEF Left, Gone
<1>4. /\ req' = [o \in Requests |-> req'[o]]
      /\ \A o \in Requests : req'[o] = others[o] \/ req'[o] = ListCall
  BY <1>3 DEF Mount
<1>5. req' \in [Requests -> Request]
  BY <1>2, <1>3, <1>4
<1>6. ASSUME NEW o \in Requests, req'[o].pc \in PayPC
      PROVE  /\ req'[o].page # "here"
             /\ \/ req'[o].pc = "create"
                \/ /\ req'[o].pc = req[o].pc /\ req'[o].id = req[o].id
                   /\ req'[o].choice = req[o].choice /\ req'[o].first = req[o].first
             /\ others = Gone(req) => req'[o].pc = "create"
  <2>1. req'[o] = others[o]
    BY <1>2, <1>4, <1>6
  <2>2. CASE others = Gone(req)
    BY <1>6, <2>1, <2>2, GoneOK
  <2>3. CASE others = Left(req) /\ others # Gone(req)
    BY <1>6, <2>1, <2>3, LeftOK
  <2>4. QED BY <2>2, <2>3
<1>7. QED BY <1>1, <1>5, <1>6

-----------------------------------------------------------------------------
(* Payments.                                                               *)

\* q belongs to handlePay of the page that is shown.
Paying(q) == req[q].pc \in PayPC /\ Here(q)

\* q is about to charge r.
Holds(q, r) == req[q].pc \in {"created", "toss"} /\ req[q].id = r

\* The page runs one handlePay at a time.  A reservation is about to be charged by
\* one promise, which is the page's own if the page knows the reservation; by
\* none if it was charged; and then the page that knows it is about to be left.
Payments ==
    /\ \A q, o \in Requests : Paying(q) /\ Paying(o) => q = o
    /\ \A q \in Requests : Paying(q) => checkout.paying /\ page = "reservation"
    /\ \A q \in Requests : Paying(q) /\ req[q].pc \in {"create", "created"} =>
          checkout.id = NoReservation
    /\ \A q, o \in Requests : \A r \in Reservations : Holds(q, r) /\ Holds(o, r) => q = o
    /\ \A q \in Requests : \A r \in Reservations : Holds(q, r) /\ checkout.id = r => Here(q)
    /\ \A r \in Reservations : row[r].status = "none" =>
          charged[r] = <<>> /\ checkout.id # r /\ \A q \in Requests : ~Holds(q, r)
    /\ \A r \in Reservations : charged[r] # <<>> => \A q \in Requests : ~Holds(q, r)
    /\ \A r \in Reservations : charged[r] # <<>> /\ checkout.id = r =>
          \E q \in Requests : Here(q) /\ req[q].pc = "paid"

\* What is about to be charged, and what was, is what was reserved.
Amounts ==
    /\ \A q \in Requests : \A r \in Reservations :
          Holds(q, r) /\ req[q].first => req[q].choice = row[r].choice
    /\ ChargedOnce
    /\ ChargedAsReserved

PayInv == Typed /\ Payments /\ Amounts

LEMMA PayInit == ASSUME NoReservation \notin Reservations, Init PROVE PayInv
<1>1. Init
  OBVIOUS
<1>2. Typed
  <2>1. NewCheckout \in Checkout
    BY DEF NewCheckout, Checkout, Ids, Seconds, MaxQuantity
  <2>2. Idle \in Request /\ <<>> \in Seq([choice : Choices, first : BOOLEAN])
    BY EmptySeq DEF Idle, Request
  <2>3. QED BY <1>1, <2>1, <2>2 DEF Init, Typed
<1>3. Payments
  <2>1. \A q \in Requests : req[q].pc = "idle"
    BY <1>1 DEF Init, Idle
  <2>2. checkout.id = NoReservation
    BY <1>1 DEF Init, NewCheckout
  <2>3. \A r \in Reservations : charged[r] = <<>>
    BY <1>1 DEF Init
  <2>4. QED BY <2>1, <2>2, <2>3 DEF Payments, Paying, Holds, PayPC
<1>4. Amounts
  <2>1. \A r \in Reservations : charged[r] = <<>> /\ Len(charged[r]) = 0
    BY <1>1, EmptySeq DEF Init
  <2>2. QED BY <1>1, <2>1 DEF Init, Amounts, ChargedOnce, ChargedAsReserved, Holds, Idle
<1>5. QED BY <1>2, <1>3, <1>4 DEF PayInv

\* The rows keep their choices, and a row once created stays.
RowsKept ==
    /\ row' = [r \in Reservations |-> row'[r]]
    /\ \A r \in Reservations : row'[r] = [status |-> "none"] \/ row'[r] \in Row
    /\ \A r \in Reservations : row[r].status = "none" <=> row'[r].status = "none"
    /\ \A r \in Reservations : row[r].status # "none" => row'[r].choice = row[r].choice

LEMMA RowStatus ==
    ASSUME Typed, NEW r \in Reservations
    PROVE  row[r].status # "none" <=> row[r] \in Row
BY DEF Typed, Row, Statuses

\* A row that is not empty and is written.
LEMMA RowOK ==
    ASSUME Typed, NEW r \in Reservations, row[r].status # "none",
           \/ \E s \in Statuses \ {"none"} : row' = [row EXCEPT ![r].status = s]
           \/ row' = [row EXCEPT ![r].status = "PENDING", ![r].extended = TRUE]
    PROVE  RowsKept
<1>1. row[r] \in Row
  BY RowStatus
<1>2. PICK s \in Row : row' = [row EXCEPT ![r] = s] /\ s.choice = row[r].choice
  <2>1. CASE \E s \in Statuses \ {"none"} : row' = [row EXCEPT ![r].status = s]
    <3>1. PICK s \in Statuses \ {"none"} : row' = [row EXCEPT ![r].status = s]
      BY <2>1
    <3>2. /\ [row[r] EXCEPT !.status = s] \in Row
          /\ [row[r] EXCEPT !.status = s].choice = row[r].choice
      BY <1>1 DEF Row
    <3>3. QED BY <3>1, <3>2
  <2>2. CASE row' = [row EXCEPT ![r].status = "PENDING", ![r].extended = TRUE]
    <3> DEFINE x == [[row[r] EXCEPT !.status = "PENDING"] EXCEPT !.extended = TRUE]
    <3>1. x \in Row /\ x.choice = row[r].choice
      BY <1>1 DEF Row, Statuses
    <3>2. row' = [row EXCEPT ![r] = x]
      BY <1>1, <2>2 DEF Typed
    <3> HIDE DEF x
    <3>3. QED BY <3>1, <3>2
  <2>3. QED BY <2>1, <2>2
<1>3. s.status # "none"
  BY <1>2 DEF Row, Statuses
<1>4. row'[r] = s /\ \A o \in Reservations \ {r} : row'[o] = row[o]
  BY <1>2 DEF Typed
<1>5. row' = [o \in Reservations |-> row'[o]]
  BY <1>2 DEF Typed
<1>6. QED BY <1>2, <1>3, <1>4, <1>5 DEF RowsKept, Typed

\* Nothing is charged: the amounts are kept if no promise gets a reservation.
LEMMA AmountsFrame ==
    ASSUME PayInv, RowsKept, UNCHANGED charged,
           \A q \in Requests : \A r \in Reservations : Holds(q, r)' =>
              /\ Holds(q, r)
              /\ req'[q].choice = req[q].choice /\ req'[q].first = req[q].first
    PROVE  Amounts'
<1>1. \A q \in Requests : \A r \in Reservations : Holds(q, r) => row'[r].choice = row[r].choice
  BY DEF PayInv, Payments, RowsKept
<1>2. \A r \in Reservations : charged[r] # <<>> => row'[r].choice = row[r].choice
  BY DEF PayInv, Payments, RowsKept
<1>3. ASSUME NEW r \in Reservations, NEW i \in 1..Len(charged[r]) PROVE charged[r] # <<>>
  BY <1>3, EmptySeq
<1>4. ChargedAsReserved'
  BY <1>2, <1>3 DEF PayInv, Amounts, ChargedAsReserved
<1>5. ChargedOnce'
  BY DEF PayInv, Amounts, ChargedOnce
<1>6. QED BY <1>1, <1>4, <1>5 DEF PayInv, Amounts

\* A step that charges nothing and lets promises end only where nobody is shown.
LEMMA PayFrame ==
    ASSUME PayInv, RowsKept, UNCHANGED <<charged, page>>,
           checkout' \in Checkout, checkout'.id = checkout.id,
           checkout'.paying = checkout.paying, req' \in [Requests -> Request],
           \A o \in Requests : \/ req'[o] = req[o]
                               \/ /\ req'[o].pc \notin PayPC
                                  /\ req[o].pc \notin PayPC \/ req[o].page # "here"
    PROVE  PayInv'
<1>1. Typed'
  BY DEF PayInv, Typed, RowsKept
<1>2. \A o \in Requests : \A r \in Reservations :
         Holds(o, r)' => Holds(o, r) /\ req'[o] = req[o]
  BY DEF Holds, PayPC
<1>3. \A o \in Requests : /\ Paying(o)' => Paying(o) /\ req'[o] = req[o]
                          /\ Here(o) /\ req[o].pc = "paid" => req'[o] = req[o]
  BY DEF Paying, Here, PayPC
<1>4. Payments'
  BY <1>2, <1>3 DEF PayInv, Payments, RowsKept, Here
<1>5. Amounts'
  BY <1>2, AmountsFrame
<1>6. QED BY <1>1, <1>4, <1>5 DEF PayInv

\* A page is mounted.
LEMMA PayMount ==
    ASSUME NoReservation \notin Reservations, PayInv, UNCHANGED <<row, charged>>,
           NEW q \in Requests, NEW p,
           Mount(p, q, Left(req)) \/ Mount(p, q, Gone(req))
    PROVE  PayInv'
<1>1. /\ checkout' \in Checkout /\ checkout'.id = NoReservation
      /\ req' \in [Requests -> Request]
      /\ \A o \in Requests : req'[o].pc \in PayPC =>
           /\ req'[o].page # "here"
           /\ \/ req'[o].pc = "create"
              \/ /\ req'[o].pc = req[o].pc /\ req'[o].id = req[o].id
                 /\ req'[o].choice = req[o].choice /\ req'[o].first = req[o].first
  BY MountOK DEF PayInv
<1>2. Typed'
  BY <1>1 DEF PayInv, Typed
<1>3. \A o \in Requests : \A r \in Reservations : Holds(o, r)' =>
         /\ Holds(o, r)
         /\ req'[o].choice = req[o].choice /\ req'[o].first = req[o].first
  BY <1>1 DEF Holds, PayPC
<1>4. \A o \in Requests : ~Paying(o)'
  BY <1>1 DEF Paying, Here
<1>5. Payments'
  BY <1>1, <1>3, <1>4 DEF PayInv, Payments
<1>6. RowsKept
  BY DEF RowsKept, PayInv, Typed
<1>7. Amounts'
  BY <1>3, <1>6, AmountsFrame
<1>8. QED BY <1>2, <1>5, <1>7 DEF PayInv

-----------------------------------------------------------------------------
(* The steps of a payment.                                                 *)

LEMMA PayCreate ==
    ASSUME NoReservation \notin Reservations, PayInv, NEW q \in Requests, Create(q)
    PROVE  PayInv'
<1>1. /\ req[q].pc = "create" /\ UNCHANGED <<charged, page, checkout>>
      /\ Typed /\ req[q] \in PayRequest /\ checkout \in Checkout
  BY Kinds DEF Create, At, PayInv, PayPC, Typed
<1>2. CASE UNCHANGED row /\ req' = Moved(q, "refused")
  <2>1. /\ req' \in [Requests -> Request] /\ req'[q].pc = "refused" /\ req'[q].page = req[q].page
        /\ \A o \in Requests \ {q} : req'[o] = req[o]
    BY <1>1, <1>2, MovedPay DEF PayPC
  <2>2. Typed'
    BY <1>1, <1>2, <2>1 DEF Typed
  <2>3. RowsKept
    BY <1>1, <1>2 DEF RowsKept, Typed
  <2>4. \A o \in Requests : \A r \in Reservations :
           Holds(o, r)' => Holds(o, r) /\ req'[o] = req[o]
    BY <2>1 DEF Holds
  <2>5. \A o \in Requests : Paying(o)' => Paying(o)
    BY <1>1, <2>1 DEF Paying, Here, PayPC
  <2>6. \A o \in Requests : Here(o) /\ req[o].pc = "paid" => req'[o] = req[o]
    BY <1>1, <2>1
  <2>7. Payments'
    BY <1>1, <1>2, <2>1, <2>4, <2>5, <2>6 DEF PayInv, Payments, Here
  <2>8. Amounts'
    BY <1>1, <2>3, <2>4, AmountsFrame
  <2>9. QED BY <2>2, <2>7, <2>8 DEF PayInv
<1>3. ASSUME NEW r \in Reservations, row[r].status = "none",
             row' = [row EXCEPT ![r] = [status |-> "PENDING", choice |-> req[q].choice,
                                        extended |-> FALSE]],
             \/ req' = [req EXCEPT ![q].pc = "created", ![q].id = r]
             \/ req' = Moved(q, "refused")
      PROVE  PayInv'
  <2>1. /\ row'[r].status # "none" /\ row'[r] \in Row /\ row'[r].choice = req[q].choice
        /\ \A o \in Reservations \ {r} : row'[o] = row[o]
        /\ row' = [o \in Reservations |-> row'[o]]
    BY <1>1, <1>3 DEF Typed, Row, Statuses, PayRequest
  <2>2. /\ req' \in [Requests -> Request]
        /\ req'[q].page = req[q].page /\ req'[q].choice = req[q].choice
        /\ \/ req'[q].pc = "refused"
           \/ req'[q].pc = "created" /\ req'[q].id = r
        /\ \A o \in Requests \ {q} : req'[o] = req[o]
    <3>1. CASE req' = Moved(q, "refused")
      BY <1>1, <3>1, MovedPay DEF PayPC
    <3>2. CASE req' = [req EXCEPT ![q].pc = "created", ![q].id = r]
      <4> DEFINE s == [[req[q] EXCEPT !.pc = "created"] EXCEPT !.id = r]
      <4>1. /\ s \in PayRequest /\ s.pc = "created" /\ s.id = r
            /\ s.page = req[q].page /\ s.choice = req[q].choice
        BY <1>1 DEF PayRequest, PayPC, Ids
      <4>2. s \in Request
        BY <4>1 DEF Request, PayRequest
      <4>3. req' = [req EXCEPT ![q] = s]
        BY <1>1, <3>2 DEF Typed
      <4> HIDE DEF s
      <4>4. QED BY <1>1, <4>1, <4>2, <4>3, PutOK
    <3>3. QED BY <1>3, <3>1, <3>2
  <2>3. Typed'
    BY <1>1, <2>1, <2>2 DEF Typed
  <2>4. \A o \in Requests, p \in Reservations : Holds(o, p)' =>
           \/ o # q /\ p # r /\ Holds(o, p) /\ req'[o] = req[o]
           \/ o = q /\ p = r /\ req'[q].pc = "created"
    BY <1>3, <2>2 DEF Holds, PayInv, Payments
  <2>5. \A o \in Requests : Paying(o)' => Paying(o)
    BY <1>1, <2>2 DEF Paying, Here, PayPC
  <2>6. \A o \in Requests : Here(o) /\ req[o].pc = "paid" => req'[o] = req[o]
    BY <1>1, <2>2
  <2>7. charged[r] = <<>> /\ checkout.id # r
    BY <1>3 DEF PayInv, Payments
  <2>8. Payments'
    <3>1. (\A o \in Requests : Paying(o) /\ req[o].pc \in {"create", "created"} =>
             checkout.id = NoReservation)'
      BY <1>1, <2>2, <2>5 DEF PayInv, Payments
    <3>2. (\A p \in Reservations : row[p].status = "none" =>
             charged[p] = <<>> /\ checkout.id # p /\ \A o \in Requests : ~Holds(o, p))'
      BY <1>1, <2>1, <2>4 DEF PayInv, Payments
    <3>3. (\A p \in Reservations : charged[p] # <<>> => \A o \in Requests : ~Holds(o, p))'
      BY <1>1, <2>4, <2>7 DEF PayInv, Payments
    <3>4. (\A o \in Requests : \A p \in Reservations :
             Holds(o, p) /\ checkout.id = p => Here(o))'
      BY <1>1, <2>4, <2>7 DEF PayInv, Payments, Here
    <3>5. (\A o, u \in Requests : \A p \in Reservations : Holds(o, p) /\ Holds(u, p) => o = u)'
      BY <2>4 DEF PayInv, Payments
    <3>6. (\A p \in Reservations : charged[p] # <<>> /\ checkout.id = p =>
             \E o \in Requests : Here(o) /\ req[o].pc = "paid")'
      BY <1>1, <2>6 DEF PayInv, Payments, Here
    <3>7. QED BY <1>1, <2>5, <3>1, <3>2, <3>3, <3>4, <3>5, <3>6 DEF PayInv, Payments
  <2>9. Amounts'
    <3>1. \A p \in Reservations : charged[p] # <<>> => row'[p] = row[p]
      BY <2>1, <2>7
    <3>2. ASSUME NEW p \in Reservations, NEW i \in 1..Len(charged[p]) PROVE charged[p] # <<>>
      BY <3>2, EmptySeq
    <3>3. ChargedAsReserved'
      BY <1>1, <3>1, <3>2 DEF PayInv, Amounts, ChargedAsReserved
    <3>4. ChargedOnce'
      BY <1>1 DEF PayInv, Amounts, ChargedOnce
    <3>5. (\A o \in Requests : \A p \in Reservations :
             Holds(o, p) /\ req[o].first => req[o].choice = row[p].choice)'
      BY <2>1, <2>2, <2>4 DEF PayInv, Amounts
    <3>6. QED BY <3>3, <3>4, <3>5 DEF Amounts
  <2>10. QED BY <2>3, <2>8, <2>9 DEF PayInv
<1>4. QED BY <1>2, <1>3 DEF Create

\* The reservation is known to the page that asked for it, if it is still shown.
LEMMA PayCreated ==
    ASSUME NoReservation \notin Reservations, PayInv, NEW q \in Requests, Created(q)
    PROVE  PayInv'
<1>1. /\ req[q].pc = "created" /\ UNCHANGED <<row, charged, page>>
      /\ Typed /\ req[q] \in PayRequest /\ checkout \in Checkout /\ req' = Moved(q, "toss")
  BY Kinds DEF Created, At, PayInv, PayPC, Typed, server
<1>2. /\ req' \in [Requests -> Request] /\ req'[q].pc = "toss" /\ req'[q].page = req[q].page
      /\ req'[q].id = req[q].id /\ req'[q].choice = req[q].choice /\ req'[q].first = req[q].first
      /\ \A o \in Requests \ {q} : req'[o] = req[o]
  BY <1>1, MovedPay DEF PayPC
<1>3. /\ checkout' \in Checkout /\ checkout'.paying = checkout.paying
      /\ Here(q) => checkout'.id = req[q].id
      /\ ~Here(q) => checkout'.id = checkout.id
  <2>1. CASE Here(q)
    <3>1. req[q].id \in Ids /\ 2 \in 0..2
      BY <1>1 DEF PayRequest
    <3> DEFINE s == [[checkout EXCEPT !.id = req[q].id] EXCEPT !.remain = 2]
    <3>2. s \in Checkout /\ s.paying = checkout.paying /\ s.id = req[q].id
      BY <1>1, <3>1 DEF Checkout, Seconds
    <3>3. checkout' = s
      BY <1>1, <2>1 DEF Created, Checkout, Seconds
    <3> HIDE DEF s
    <3>4. QED BY <2>1, <3>2, <3>3
  <2>2. CASE ~Here(q)
    BY <1>1, <2>2 DEF Created
  <2>3. QED BY <2>1, <2>2
<1>4. Typed'
  BY <1>1, <1>2, <1>3 DEF Typed
<1>5. \A o \in Requests : \A r \in Reservations : Holds(o, r)' <=> Holds(o, r)
  BY <1>1, <1>2 DEF Holds
<1>6. \A o \in Requests : (Paying(o)' <=> Paying(o)) /\ (Here(o)' <=> Here(o))
  BY <1>1, <1>2 DEF Paying, Here, PayPC
<1>7. Here(q) => Paying(q)
  BY <1>1 DEF Paying, PayPC
<1>8. Payments'
  <2>1. (\A o \in Requests : Paying(o) /\ req[o].pc \in {"create", "created"} =>
           checkout.id = NoReservation)'
    BY <1>2, <1>3, <1>6, <1>7 DEF PayInv, Payments
  <2>2. \A r \in Reservations : req[q].id = r => Holds(q, r)
    BY <1>1 DEF Holds
  <2>3. (\A o \in Requests : \A r \in Reservations : Holds(o, r) /\ checkout.id = r => Here(o))'
    <3>1. CASE Here(q)
      BY <1>3, <1>5, <1>6, <2>2, <3>1 DEF PayInv, Payments
    <3>2. CASE ~Here(q)
      BY <1>3, <1>5, <1>6, <3>2 DEF PayInv, Payments
    <3>3. QED BY <3>1, <3>2
  <2>4. (\A r \in Reservations : row[r].status = "none" =>
           charged[r] = <<>> /\ checkout.id # r /\ \A o \in Requests : ~Holds(o, r))'
    BY <1>1, <1>3, <1>5, <2>2 DEF PayInv, Payments
  <2>5. (\A r \in Reservations : charged[r] # <<>> /\ checkout.id = r =>
           \E o \in Requests : Here(o) /\ req[o].pc = "paid")'
    <3>1. \A o \in Requests : req[o].pc = "paid" => req'[o] = req[o]
      BY <1>1, <1>2
    <3>2. QED BY <1>1, <1>3, <1>6, <2>2, <3>1 DEF PayInv, Payments
  <2>6. QED BY <1>1, <1>3, <1>5, <1>6, <2>1, <2>3, <2>4, <2>5 DEF PayInv, Payments
<1>9. Amounts'
  <2>1. RowsKept
    BY <1>1 DEF RowsKept, Typed
  <2>2. \A o \in Requests : req'[o].choice = req[o].choice /\ req'[o].first = req[o].first
    BY <1>2
  <2>3. QED BY <1>1, <1>5, <2>1, <2>2, AmountsFrame
<1>10. QED BY <1>4, <1>8, <1>9 DEF PayInv

\* Toss's window: the one promise that may charge the reservation is settled.
LEMMA PayToss ==
    ASSUME NoReservation \notin Reservations, PayInv, NEW q \in Requests, Toss(q)
    PROVE  PayInv'
<1>1. /\ req[q].pc = "toss" /\ UNCHANGED row
      /\ Typed /\ req[q] \in PayRequest /\ checkout \in Checkout
      /\ charged \in [Reservations -> Seq([choice : Choices, first : BOOLEAN])]
  BY Kinds DEF Toss, At, PayInv, PayPC, Typed, server
<1>2. CASE UNCHANGED charged /\ Mount("reservation", q, Gone(req))
  BY <1>1, <1>2, PayMount
<1>3. ASSUME NEW pc \in {"paid", "failed"}, req' = Moved(q, pc), UNCHANGED <<page, checkout>>
      PROVE  /\ req' \in [Requests -> Request] /\ req'[q].pc = pc
             /\ \A o \in Requests : (Paying(o)' <=> Paying(o)) /\ (Here(o)' <=> Here(o))
             /\ \A o \in Requests \ {q} : req'[o] = req[o]
             /\ \A o \in Requests : \A r \in Reservations :
                   Holds(o, r)' => Holds(o, r) /\ o # q /\ req'[o] = req[o]
  <2>1. /\ req' \in [Requests -> Request] /\ req'[q].pc = pc /\ req'[q].page = req[q].page
        /\ \A o \in Requests \ {q} : req'[o] = req[o]
    BY <1>1, <1>3, MovedPay DEF PayPC
  <2>2. QED BY <1>1, <2>1 DEF Paying, Here, Holds, PayPC
<1>4. CASE UNCHANGED charged /\ req' = Moved(q, "failed") /\ UNCHANGED <<page, checkout, mine, crossed>>
  <2>1. Typed'
    BY <1>1, <1>3, <1>4 DEF Typed
  <2>2. Payments'
    <3>1. \A o \in Requests : req[o].pc = "paid" => req'[o] = req[o]
      BY <1>1, <1>3, <1>4
    <3>2. (\A o \in Requests : Paying(o) /\ req[o].pc \in {"create", "created"} =>
             checkout.id = NoReservation)'
      BY <1>3, <1>4 DEF PayInv, Payments
    <3>3. QED BY <1>1, <1>3, <1>4, <3>1, <3>2 DEF PayInv, Payments
  <2>3. RowsKept
    BY <1>1 DEF RowsKept, Typed
  <2>4. Amounts'
    BY <1>3, <1>4, <2>3, AmountsFrame
  <2>5. QED BY <2>1, <2>2, <2>4 DEF PayInv
<1>5. ASSUME NEW r, r = req[q].id, Charge(q) PROVE
         /\ r \in Reservations =>
               /\ charged'[r] = <<[choice |-> req[q].choice, first |-> req[q].first]>>
               /\ Holds(q, r)
         /\ \A p \in Reservations \ {r} : charged'[p] = charged[p]
         /\ charged' \in [Reservations -> Seq([choice : Choices, first : BOOLEAN])]
         /\ ChargedOnce' /\ ChargedAsReserved'
  <2> DEFINE x == [choice |-> req[q].choice, first |-> req[q].first]
  <2>1. x \in [choice : Choices, first : BOOLEAN]
    BY <1>1 DEF PayRequest
  <2>2. charged' = [charged EXCEPT ![r] = Append(charged[r], x)]
    BY <1>1, <1>5 DEF Charge
  <2>3. \A p \in Reservations \ {r} : charged'[p] = charged[p]
    BY <1>1, <2>2
  <2>4. CASE r \notin Reservations
    <3>1. charged' = charged
      BY <1>1, <2>2, <2>4
    <3>2. QED BY <1>1, <2>4, <3>1 DEF PayInv, Amounts, ChargedOnce, ChargedAsReserved
  <2>5. CASE r \in Reservations
    <3>1. Holds(q, r)
      BY <1>1, <1>5 DEF Holds
    <3>2. charged[r] = <<>> /\ row[r].status # "none"
      BY <2>5, <3>1 DEF PayInv, Payments
    <3> HIDE DEF x
    <3>3. /\ charged'[r] = Append(<<>>, x) /\ <<>> \in Seq([choice : Choices, first : BOOLEAN])
          /\ Len(<<>>) = 0
      BY <1>1, <2>2, <2>5, <3>2, EmptySeq
    <3>4. /\ charged'[r] \in Seq([choice : Choices, first : BOOLEAN])
          /\ Len(charged'[r]) = 1 /\ charged'[r][1] = x /\ charged'[r] = <<x>>
      BY <2>1, <3>3, AppendProperties
    <3>5. charged' \in [Reservations -> Seq([choice : Choices, first : BOOLEAN])]
      BY <1>1, <2>2, <2>5, <3>4
    <3>6. ChargedOnce'
      <4>1. \A p \in Reservations : Len(charged[p]) <= 1
        BY DEF PayInv, Amounts, ChargedOnce
      <4>2. \A p \in Reservations \ {r} : Len(charged'[p]) <= 1
        BY <2>3, <4>1
      <4>3. Len(charged'[r]) <= 1
        BY <3>4
      <4>4. QED BY <4>2, <4>3 DEF ChargedOnce
    <3>7. x.first = req[q].first /\ x.choice = req[q].choice
      BY DEF x
    <3>8. x.first => x.choice = row[r].choice
      BY <1>5, <2>5, <3>1, <3>7 DEF PayInv, Amounts
    <3>9. \A i \in 1..Len(charged'[r]) : i = 1
      BY <3>4
    <3>10. ChargedAsReserved'
      BY <1>1, <2>3, <3>4, <3>8, <3>9 DEF PayInv, Amounts, ChargedAsReserved
    <3>11. QED BY <2>3, <3>1, <3>4, <3>5, <3>6, <3>10 DEF x
  <2>6. QED BY <2>4, <2>5
<1>6. CASE Charge(q) /\ req' = Moved(q, "paid") /\ UNCHANGED <<page, checkout, mine, crossed>>
  <2>1. PICK r : r = req[q].id
    OBVIOUS
  <2>2. Typed'
    BY <1>1, <1>3, <1>5, <1>6, <2>1 DEF Typed
  <2>3. \A p \in Reservations : charged'[p] = charged[p] \/ (p = r /\ Holds(q, p))
    BY <1>5, <1>6, <2>1
  <2>4. Payments'
    <3>1. \A o \in Requests : req[o].pc = "paid" => req'[o] = req[o]
      BY <1>1, <1>3, <1>6
    <3>2. (\A o \in Requests : Paying(o) /\ req[o].pc \in {"create", "created"} =>
             checkout.id = NoReservation)'
      BY <1>3, <1>6 DEF PayInv, Payments
    <3>3. (\A p \in Reservations : charged[p] # <<>> /\ checkout.id = p =>
             \E o \in Requests : Here(o) /\ req[o].pc = "paid")'
      <4>1. ASSUME NEW p \in Reservations, charged'[p] # <<>>, checkout.id = p
            PROVE  \E o \in Requests : Here(o)' /\ req'[o].pc = "paid"
        <5>1. CASE charged'[p] = charged[p]
          BY <1>3, <1>6, <3>1, <4>1, <5>1 DEF PayInv, Payments
        <5>2. CASE Holds(q, p)
          BY <1>3, <1>6, <4>1, <5>2 DEF PayInv, Payments
        <5>3. QED BY <2>3, <5>1, <5>2
      <4>2. QED BY <1>6, <4>1
    <3>4. (\A p \in Reservations : row[p].status = "none" =>
             charged[p] = <<>> /\ checkout.id # p /\ \A o \in Requests : ~Holds(o, p))'
      BY <1>1, <1>3, <1>6, <2>3 DEF PayInv, Payments
    <3>5. (\A p \in Reservations : charged[p] # <<>> => \A o \in Requests : ~Holds(o, p))'
      BY <1>3, <1>6, <2>3 DEF PayInv, Payments
    <3>6. QED BY <1>3, <1>6, <3>2, <3>3, <3>4, <3>5 DEF PayInv, Payments
  <2>5. Amounts'
    BY <1>1, <1>3, <1>5, <1>6, <2>1 DEF PayInv, Amounts
  <2>6. QED BY <2>2, <2>4, <2>5 DEF PayInv
<1>7. CASE Charge(q) /\ Mount("reservations", q, Gone(req))
  <2>1. PICK r : r = req[q].id
    OBVIOUS
  <2>2. /\ checkout' \in Checkout /\ checkout'.id = NoReservation
        /\ req' \in [Requests -> Request]
        /\ \A o \in Requests : req'[o].pc \in PayPC =>
              req'[o].page # "here" /\ req'[o].pc = "create"
    BY <1>1, <1>7, MountOK
  <2>3. Typed'
    BY <1>1, <1>5, <1>7, <2>1, <2>2 DEF Typed
  <2>4. \A o \in Requests : ~Paying(o)' /\ \A p \in Reservations : ~Holds(o, p)'
    BY <2>2 DEF Paying, Here, Holds, PayPC
  <2>5. \A p \in Reservations : charged'[p] = charged[p] \/ row[p].status # "none"
    BY <1>5, <1>7, <2>1 DEF PayInv, Payments
  <2>6. Payments'
    BY <1>1, <2>2, <2>4, <2>5 DEF PayInv, Payments
  <2>7. Amounts'
    BY <1>5, <1>7, <2>1, <2>4 DEF Amounts
  <2>8. QED BY <2>3, <2>6, <2>7 DEF PayInv
<1>8. QED BY <1>2, <1>4, <1>6, <1>7 DEF Toss

\* After the payment: another page, or the button again.
LEMMA PayEnds ==
    ASSUME NoReservation \notin Reservations, PayInv, NEW q \in Requests,
           Paid(q) \/ PayFailed(q) \/ Dropped(q)
    PROVE  PayInv'
<1>1. /\ UNCHANGED <<row, charged>> /\ Typed /\ checkout \in Checkout
      /\ RowsKept
  BY DEF Paid, PayFailed, Dropped, server, PayInv, Typed, RowsKept
<1>2. CASE Paid(q)
  <2>1. CASE page = "reservations"
    <3>1. ~Here(q) /\ req' = Finished(q) /\ UNCHANGED <<page, checkout>>
      BY <1>2, <2>1 DEF Paid, At, PayInv, Payments, Paying, PayPC
    <3>2. QED BY <1>1, <3>1, FinishedOK, PayFrame DEF Here, PayPC
  <2>2. CASE page # "reservations"
    BY <1>1, <1>2, <2>2, PayMount DEF Paid
  <2>3. QED BY <2>1, <2>2
<1>3. CASE (PayFailed(q) /\ ~Here(q)) \/ Dropped(q)
  <2>1. ~Here(q) /\ req' = Finished(q) /\ UNCHANGED <<page, checkout>>
    BY <1>3 DEF PayFailed, Dropped, Here
  <2>2. QED BY <1>1, <2>1, FinishedOK, PayFrame DEF Here, PayPC
<1>4. CASE PayFailed(q) /\ Here(q)
  <2>1. /\ req[q].pc \in {"refused", "failed"} /\ UNCHANGED page
        /\ req' \in [Requests -> Request] /\ req'[q].pc = "idle"
        /\ \A o \in Requests \ {q} : req'[o] = req[o]
    BY <1>1, <1>4, FinishedOK DEF PayFailed
  <2>2. checkout' \in Checkout /\ checkout'.id = checkout.id
    BY <1>1, <1>4 DEF PayFailed, Checkout
  <2>3. Typed'
    BY <1>1, <2>1, <2>2 DEF Typed
  <2>4. Paying(q)
    BY <1>4, <2>1 DEF Paying, PayPC
  <2>5. \A o \in Requests : ~Paying(o)'
    BY <2>1, <2>4 DEF PayInv, Payments, Paying, Here, PayPC
  <2>6. \A r \in Reservations : charged[r] # <<>> => checkout.id # r
    BY <2>1, <2>4 DEF PayInv, Payments, Paying, PayPC
  <2>7. \A o \in Requests : \A r \in Reservations :
           Holds(o, r)' => Holds(o, r) /\ req'[o] = req[o]
    BY <2>1 DEF Holds
  <2>8. Payments'
    BY <1>1, <2>2, <2>5, <2>6, <2>7 DEF PayInv, Payments, Here
  <2>9. Amounts'
    BY <1>1, <2>7, AmountsFrame
  <2>10. QED BY <2>3, <2>8, <2>9 DEF PayInv
<1>5. QED BY <1>2, <1>3, <1>4

\* The button: enabled only while the page is not paying.
LEMMA PayPay ==
    ASSUME NoReservation \notin Reservations, PayInv, NEW q \in Requests, Pay(q)
    PROVE  PayInv'
<1> DEFINE s == [pc |-> IF checkout.id = NoReservation THEN "create" ELSE "toss", page |-> "here",
                 id |-> checkout.id, choice |-> Chosen, first |-> checkout.id = NoReservation]
<1>1. /\ UNCHANGED <<row, charged, page>> /\ Typed /\ checkout \in Checkout
      /\ req[q] = Idle /\ page = "reservation" /\ ~checkout.paying /\ checkout.zone # NoZone
      /\ checkout' = [checkout EXCEPT !.paying = TRUE]
      /\ req' = [req EXCEPT ![q] = s]
  BY DEF Pay, server, PayInv, Typed
<1>2. /\ checkout' \in Checkout /\ checkout'.paying /\ checkout'.id = checkout.id
      /\ checkout.id \in Ids
  BY <1>1 DEF Checkout
<1>3. Chosen \in Choices
  BY <1>1 DEF Checkout, Chosen, Choices
<1>4. /\ s \in Request /\ s.pc \in {"create", "toss"} /\ s.page = "here" /\ s.id = checkout.id
      /\ s.pc = "create" => checkout.id = NoReservation
      /\ s.pc = "toss" => ~s.first
  <2>1. s \in PayRequest
    BY <1>2, <1>3 DEF PayRequest, PayPC, Places
  <2>2. QED BY <2>1 DEF Request, PayRequest
<1> HIDE DEF s
<1>5. /\ req' \in [Requests -> Request] /\ req'[q] = s
      /\ \A o \in Requests \ {q} : req'[o] = req[o]
  BY <1>1, <1>4, PutOK
<1>6. Typed'
  BY <1>1, <1>2, <1>5 DEF Typed
<1>7. \A o \in Requests : ~Paying(o)
  BY <1>1 DEF PayInv, Payments
<1>8. \A o \in Requests : Paying(o)' => o = q
  BY <1>5, <1>7 DEF Paying, Here
<1>9. \A o \in Requests : \A r \in Reservations : Holds(o, r)' =>
         \/ o # q /\ Holds(o, r) /\ req'[o] = req[o]
         \/ o = q /\ r = checkout.id /\ ~s.first
  BY <1>4, <1>5 DEF Holds
\* Nobody else is about to charge the reservation of a page that is not paying.
<1>10. \A o \in Requests : \A r \in Reservations :
          checkout.id = r => ~Holds(o, r) /\ charged[r] = <<>>
  <2>1. ASSUME NEW o \in Requests, NEW r \in Reservations, checkout.id = r, Holds(o, r) PROVE FALSE
    BY <1>7, <2>1 DEF PayInv, Payments, Paying, Holds, PayPC
  <2>2. ASSUME NEW r \in Reservations, checkout.id = r, charged[r] # <<>> PROVE FALSE
    BY <1>7, <2>2 DEF PayInv, Payments, Paying, PayPC
  <2>3. QED BY <2>1, <2>2
<1>11. Payments'
  <2>1. (\A o \in Requests : Paying(o) => checkout.paying /\ page = "reservation")'
    BY <1>1, <1>2
  <2>2. (\A o \in Requests : Paying(o) /\ req[o].pc \in {"create", "created"} =>
           checkout.id = NoReservation)'
    BY <1>2, <1>4, <1>5, <1>8
  <2>3. (\A o, u \in Requests : \A r \in Reservations : Holds(o, r) /\ Holds(u, r) => o = u)'
    BY <1>9, <1>10 DEF PayInv, Payments
  <2>4. (\A o \in Requests : \A r \in Reservations : Holds(o, r) /\ checkout.id = r => Here(o))'
    BY <1>2, <1>4, <1>5, <1>9, <1>10 DEF Here
  <2>5. (\A r \in Reservations : row[r].status = "none" =>
           charged[r] = <<>> /\ checkout.id # r /\ \A o \in Requests : ~Holds(o, r))'
    BY <1>1, <1>2, <1>9 DEF PayInv, Payments
  <2>6. (\A r \in Reservations : charged[r] # <<>> => \A o \in Requests : ~Holds(o, r))'
    BY <1>1, <1>9, <1>10 DEF PayInv, Payments
  <2>7. (\A r \in Reservations : charged[r] # <<>> /\ checkout.id = r =>
           \E o \in Requests : Here(o) /\ req[o].pc = "paid")'
    BY <1>1, <1>2, <1>10
  <2>8. QED BY <1>8, <2>1, <2>2, <2>3, <2>4, <2>5, <2>6, <2>7 DEF Payments
<1>12. Amounts'
  <2>1. (\A o \in Requests : \A r \in Reservations :
           Holds(o, r) /\ req[o].first => req[o].choice = row[r].choice)'
    BY <1>1, <1>5, <1>9 DEF PayInv, Amounts
  <2>2. QED BY <1>1, <2>1 DEF PayInv, Amounts, ChargedOnce, ChargedAsReserved
<1>13. QED BY <1>6, <1>11, <1>12 DEF PayInv

-----------------------------------------------------------------------------
(* The other steps.                                                        *)

LEMMA OtherPromises ==
    ASSUME NoReservation \notin Reservations, PayInv, NEW q \in Requests,
           \/ Extend(q) \/ ExtendWrite(q) \/ Cancel(q) \/ CancelWrite(q)
           \/ List(q) \/ ListAnswer(q) \/ Cancelled(q) \/ CancelFailed(q)
    PROVE  PayInv'
<1>1. Typed /\ checkout \in Checkout
  BY DEF PayInv, Typed
<1>2. UNCHANGED <<charged, page, checkout>>
  BY DEF Extend, ExtendWrite, Cancel, CancelWrite, List, ListAnswer, Cancelled, CancelFailed
<1>3. RowsKept
  <2>1. UNCHANGED row => RowsKept
    BY <1>1 DEF RowsKept, Typed
  <2>2. CASE ExtendWrite(q) \/ CancelWrite(q)
    <3>1. req[q].id \in Reservations
      BY <1>1, <2>2, Kinds DEF ExtendWrite, CancelWrite, At, OnePC, OneRequest
    <3>2. \/ UNCHANGED row
          \/ /\ row[req[q].id].status # "none"
             /\ \/ row' = [row EXCEPT ![req[q].id].status = "PENDING", ![req[q].id].extended = TRUE]
                \/ row' = [row EXCEPT ![req[q].id].status = "CANCELLED"]
      BY <2>2 DEF ExtendWrite, CancelWrite
    <3>3. "CANCELLED" \in Statuses \ {"none"}
      BY DEF Statuses
    <3>4. QED BY <1>1, <2>1, <3>1, <3>2, <3>3, RowOK
  <2>3. CASE Extend(q) \/ Cancel(q) \/ List(q) \/ ListAnswer(q) \/ Cancelled(q) \/ CancelFailed(q)
    BY <2>1, <2>3 DEF Extend, Cancel, List, ListAnswer, Cancelled, CancelFailed, server
  <2>4. QED BY <2>2, <2>3
<1>4. /\ req' \in [Requests -> Request] /\ req'[q].pc \notin PayPC /\ req[q].pc \notin PayPC
      /\ \A o \in Requests \ {q} : req'[o] = req[o]
  <2>1. CASE Extend(q) \/ ExtendWrite(q) \/ Cancel(q) \/ CancelWrite(q)
    <3>1. req[q].pc \in OnePC /\ \E pc \in OnePC : req' = Moved(q, pc)
      BY <2>1 DEF Extend, ExtendWrite, Cancel, CancelWrite, At, OnePC
    <3>2. OnePC \cap PayPC = {}
      BY DEF OnePC, PayPC
    <3>3. QED BY <1>1, <3>1, <3>2, MovedOne
  <2>2. CASE List(q)
    <3> DEFINE s == [pc |-> "listed", rows |-> [r \in Reservations |-> row[r].status]]
    <3>1. \A r \in Reservations : row[r].status \in Statuses
      BY <1>1 DEF Typed, Row, Statuses
    <3>2. s \in Request /\ s.pc \notin PayPC
      BY <3>1 DEF Request, Listed, PayPC
    <3>3. req' = [req EXCEPT ![q] = s] /\ req[q].pc \notin PayPC
      BY <2>2 DEF List, At, PayPC
    <3> HIDE DEF s
    <3>4. QED BY <1>1, <3>2, <3>3, PutOK
  <2>3. CASE ListAnswer(q) \/ CancelFailed(q)
    BY <1>1, <2>3, FinishedOK DEF ListAnswer, CancelFailed, At, PayPC
  <2>4. CASE Cancelled(q)
    <3>1. ListCall \in Request /\ ListCall.pc \notin PayPC
      BY DEF ListCall, Request, PayPC
    <3>2. req' = [req EXCEPT ![q] = ListCall] /\ req[q].pc \notin PayPC
      BY <2>4 DEF Cancelled, Fetch, At, PayPC
    <3>3. QED BY <1>1, <3>1, <3>2, PutOK
  <2>5. QED BY <2>1, <2>2, <2>3, <2>4
<1>5. QED BY <1>1, <1>2, <1>3, <1>4, PayFrame

LEMMA OtherCalls ==
    ASSUME PayInv, NEW q \in Requests, AskExtend(q) \/ Retry(q) \/ ConfirmCancel(q),
           NoReservation \notin Reservations, mine \in Mine
    PROVE  PayInv'
<1>1. Typed /\ checkout \in Checkout /\ checkout.id \in Ids
  BY DEF PayInv, Typed, Checkout
<1>2. UNCHANGED <<row, charged, page, checkout>> /\ req[q].pc \notin PayPC
  BY DEF AskExtend, Retry, ConfirmCancel, server, Idle, PayPC
<1>3. PICK s \in Request : req' = [req EXCEPT ![q] = s] /\ s.pc \notin PayPC
  <2>1. CASE AskExtend(q)
    <3>1. [pc |-> "extend", page |-> "here", id |-> checkout.id] \in Request
      BY <1>1, <2>1 DEF AskExtend, Request, OnePC, Places, Ids
    <3>2. QED BY <2>1, <3>1 DEF AskExtend, PayPC
  <2>2. CASE Retry(q)
    <3>1. ListCall \in Request /\ ListCall.pc \notin PayPC
      BY DEF ListCall, Request, PayPC
    <3>2. QED BY <2>2, <3>1 DEF Retry, Fetch
  <2>3. CASE ConfirmCancel(q)
    <3>1. [pc |-> "cancel", page |-> "here", id |-> mine.target] \in Request
      BY <2>3 DEF ConfirmCancel, Request, OnePC, Places, Ids, Mine
    <3>2. QED BY <2>3, <3>1 DEF ConfirmCancel, PayPC
  <2>4. QED BY <2>1, <2>2, <2>3
<1>4. RowsKept
  BY <1>1, <1>2 DEF RowsKept, Typed
<1>5. QED BY <1>1, <1>2, <1>3, <1>4, PutOK, PayFrame

LEMMA OtherCheckout ==
    ASSUME PayInv, Load \/ Choose \/ \E q \in Requests : ExtendAnswer(q)
    PROVE  PayInv'
<1>1. Typed /\ checkout \in Checkout
  BY DEF PayInv, Typed
<1>2. UNCHANGED <<row, charged, page>>
  BY DEF Load, Choose, ExtendAnswer, server
<1>3. RowsKept
  BY <1>1, <1>2 DEF RowsKept, Typed
<1>4. checkout' \in Checkout /\ checkout'.id = checkout.id /\ checkout'.paying = checkout.paying
  <2>1. CASE Load
    BY <1>1, <2>1 DEF Load, Checkout
  <2>2. CASE Choose
    BY <1>1, <2>2 DEF Choose, Checkout
  <2>3. CASE \E q \in Requests : ExtendAnswer(q)
    <3>1. 2 \in 0..2
      OBVIOUS
    <3>2. \/ checkout' = checkout
          \/ checkout' = [[checkout EXCEPT !.remain = 2] EXCEPT !.extended = TRUE]
      BY <1>1, <2>3 DEF ExtendAnswer, Checkout, Seconds
    <3>3. QED BY <1>1, <3>1, <3>2 DEF Checkout, Seconds
  <2>4. QED BY <2>1, <2>2, <2>3
<1>5. /\ req' \in [Requests -> Request]
      /\ \A o \in Requests : req'[o] = req[o] \/ (req'[o].pc \notin PayPC /\ req[o].pc \notin PayPC)
  <2>1. CASE Load \/ Choose
    BY <1>1, <2>1 DEF Load, Choose, Typed
  <2>2. CASE \E q \in Requests : ExtendAnswer(q)
    BY <1>1, <2>2, FinishedOK DEF ExtendAnswer, PayPC
  <2>3. QED BY <2>1, <2>2
<1>6. QED BY <1>2, <1>3, <1>4, <1>5, PayFrame

\* The page of the reservations keeps its types.
LEMMA MineStep ==
    ASSUME Typed, mine \in Mine, [Next]_vars
    PROVE  mine' \in Mine
<1>1. NewMine \in Mine
  BY DEF NewMine, Mine, Listed, Statuses, Ids
<1>2. ASSUME NEW q \in Requests, Retry(q) \/ ConfirmCancel(q) \/ CancelFailed(q)
      PROVE  mine' \in Mine
  <2>1. \/ mine' = [mine EXCEPT !.loading = TRUE, !.error = FALSE]
        \/ mine' = [mine EXCEPT !.cancelling = TRUE]
        \/ mine' = [mine EXCEPT !.cancelling = FALSE]
        \/ mine' = mine
    BY <1>2 DEF Retry, ConfirmCancel, CancelFailed
  <2>2. QED BY <2>1 DEF Mine
<1>3. ASSUME NEW q \in Requests, ListAnswer(q) PROVE mine' \in Mine
  <2>1. CASE At(q, "listed")
    <3>1. req[q].rows \in Listed
      <4>1. req[q] \in [pc : {"listed"}, rows : Listed]
        BY <2>1 DEF At, Typed, Request, Idle, PayPC, OnePC
      <4>2. QED BY <4>1
    <3>2. mine' = [mine EXCEPT !.list = req[q].rows, !.loading = FALSE]
      BY <1>3, <2>1 DEF ListAnswer, At
    <3>3. QED BY <3>1, <3>2 DEF Mine
  <2>2. CASE ~At(q, "listed")
    BY <1>3, <2>2 DEF ListAnswer, Mine
  <2>3. QED BY <2>1, <2>2
<1>4. ASSUME NEW q \in Requests, Cancelled(q) PROVE mine' \in Mine
  <2>1. req[q].id \in Reservations
    BY <1>4, Kinds DEF Cancelled, At, OnePC, OneRequest
  <2>2. NoReservation \in Ids
    BY DEF Ids
  <2>3. QED BY <1>4, <2>1, <2>2 DEF Cancelled, Mine
<1>5. ASSUME NEW r \in Reservations, AskCancel(r) PROVE mine' \in Mine
  BY <1>5 DEF AskCancel, Mine, Ids
<1>6. CASE CloseDialog
  BY <1>6 DEF CloseDialog, Mine, Ids
<1>7. CASE \/ UNCHANGED vars \/ Load \/ Tick \/ Admit \/ \E r \in Reservations : Settle(r)
  BY <1>1, <1>7 DEF vars, Load, Tick, Mount, Admit, Settle
<1>8. ASSUME NEW q \in Requests,
             \/ Choose \/ Pay(q) \/ AskExtend(q)
             \/ Create(q) \/ Extend(q) \/ ExtendWrite(q) \/ Cancel(q) \/ CancelWrite(q)
             \/ List(q) \/ Created(q) \/ PayFailed(q) \/ ExtendAnswer(q) \/ Dropped(q)
      PROVE  mine' \in Mine
  BY <1>8 DEF Choose, Pay, AskExtend, Create, Extend, ExtendWrite, Cancel, CancelWrite, List,
              Created, PayFailed, ExtendAnswer, Dropped
<1>9. ASSUME NEW q \in Requests, Toss(q) \/ Paid(q) \/ \E p \in {"concert", "reservation", "reservations"} : Visit(q, p)
      PROVE  mine' \in Mine
  BY <1>1, <1>9 DEF Toss, Paid, Visit, Mount
<1>10. QED
  BY <1>2, <1>3, <1>4, <1>5, <1>6, <1>7, <1>8, <1>9, Zenon DEF Next, User, Promise

LEMMA PayStep ==
    ASSUME NoReservation \notin Reservations, PayInv, mine \in Mine, [Next]_vars
    PROVE  PayInv'
<1>1. Typed
  BY DEF PayInv
<1>2. ASSUME UNCHANGED <<charged, page, checkout, req>>, RowsKept PROVE PayInv'
  BY <1>1, <1>2, PayFrame DEF Typed
<1>3. UNCHANGED row => RowsKept
  BY <1>1 DEF RowsKept, Typed
<1>4. CASE UNCHANGED vars \/ Admit \/ CloseDialog \/ \E r \in Reservations : AskCancel(r)
  BY <1>2, <1>3, <1>4 DEF vars, Admit, CloseDialog, AskCancel, server
<1>5. ASSUME NEW r \in Reservations, Settle(r) PROVE PayInv'
  <2>1. /\ row[r].status = "PENDING" /\ UNCHANGED <<charged, page, checkout, req>>
        /\ \E s \in Statuses \ {"none"} : row' = [row EXCEPT ![r].status = s]
    BY <1>5 DEF Settle, Statuses
  <2>2. QED BY <1>1, <1>2, <2>1, RowOK
<1>6. CASE Tick
  <2>1. CASE checkout.remain > 1
    <3>1. /\ UNCHANGED <<row, charged, page, req>>
          /\ checkout' = [checkout EXCEPT !.remain = checkout.remain - 1]
      BY <1>6, <2>1 DEF Tick, server
    <3>2. checkout \in Checkout /\ checkout.remain - 1 \in 0..Seconds
      BY <1>1, <2>1 DEF Typed, Checkout, Seconds
    <3>3. checkout' \in Checkout /\ checkout'.id = checkout.id /\ checkout'.paying = checkout.paying
      BY <3>1, <3>2 DEF Checkout
    <3>4. QED BY <1>1, <1>3, <3>1, <3>3, PayFrame DEF Typed
  <2>2. CASE ~(checkout.remain > 1)
    <3>1. PICK q \in Requests : Mount("concert", q, Left(req))
      BY <1>6, <2>2 DEF Tick
    <3>2. QED BY <1>6, <3>1, PayMount DEF Tick, server
  <2>3. QED BY <2>1, <2>2
<1>7. ASSUME NEW q \in Requests, NEW p, Visit(q, p) PROVE PayInv'
  BY <1>7, PayMount DEF Visit, server
<1>8. QED
  BY <1>4, <1>5, <1>6, <1>7, PayCreate, PayCreated, PayToss, PayEnds, PayPay,
     OtherPromises, OtherCalls, OtherCheckout, Zenon DEF Next, User, Promise

\* What payments do not depend on: the other page, and four variables.
OtherTypes ==
    /\ mine \in Mine
    /\ admitted \in BOOLEAN
    /\ page \in {"concert", "reservation", "reservations"}
    /\ crossed \in BOOLEAN
    /\ revived \subseteq Reservations

LEMMA OtherTypesInit == Init => OtherTypes
<1>1. NewMine \in Mine
  BY DEF NewMine, Mine, Listed, Statuses, Ids
<1>2. QED BY <1>1 DEF Init, OtherTypes

\* The steps that write the table, or the history of extensions.
LEMMA RowWriters ==
    ASSUME [Next]_vars
    PROVE  /\ \/ UNCHANGED row
              \/ \E q \in Requests : Create(q) \/ ExtendWrite(q) \/ CancelWrite(q)
              \/ \E r \in Reservations : Settle(r)
           /\ UNCHANGED revived \/ \E q \in Requests : ExtendWrite(q)
BY Zenon DEF Next, User, Promise, Load, Tick, Admit, Settle, Visit, Choose, Pay, AskExtend,
   Retry, ConfirmCancel, CloseDialog, AskCancel, Create, Extend, Cancel, CancelWrite, List,
   Toss, Created, Paid, PayFailed, ExtendAnswer, ListAnswer, Cancelled, CancelFailed, Dropped,
   server, vars

LEMMA OtherTypesStep ==
    ASSUME Typed, OtherTypes, [Next]_vars
    PROVE  OtherTypes'
<1>1. mine' \in Mine
  BY MineStep DEF OtherTypes
<1>2. admitted' \in BOOLEAN
  <2>1. \/ UNCHANGED admitted
        \/ admitted' \in {TRUE, FALSE, admitted}
    BY Zenon DEF Next, User, Promise, Load, Tick, Admit, Settle, Visit, Choose, Pay, AskExtend,
       Retry, ConfirmCancel, CloseDialog, AskCancel, Create, Extend, ExtendWrite, Cancel,
       CancelWrite, List, Toss, Created, Paid, PayFailed, ExtendAnswer, ListAnswer, Cancelled, CancelFailed, Dropped,
       server, vars
  <2>2. QED BY <2>1 DEF OtherTypes
<1>3. page' \in {"concert", "reservation", "reservations"}
  <2>1. \/ UNCHANGED page
        \/ page' \in {"concert", "reservation", "reservations"}
    BY Zenon DEF Next, User, Promise, Load, Tick, Admit, Settle, Visit, Choose, Pay, AskExtend,
       Retry, ConfirmCancel, CloseDialog, AskCancel, Create, Extend, ExtendWrite, Cancel,
       CancelWrite, List, Toss, Created, Paid, PayFailed, ExtendAnswer, ListAnswer, Cancelled, CancelFailed, Dropped,
       Mount, vars
  <2>2. QED BY <2>1 DEF OtherTypes
<1>4. crossed' \in BOOLEAN
  <2>1. \/ UNCHANGED crossed
        \/ crossed' = FALSE
        \/ \E q \in Requests : Fetch(q)
    BY Zenon DEF Next, User, Promise, Load, Tick, Admit, Settle, Visit, Choose, Pay, AskExtend,
       Retry, ConfirmCancel, CloseDialog, AskCancel, Create, Extend, ExtendWrite, Cancel,
       CancelWrite, List, Toss, Created, Paid, PayFailed, ExtendAnswer, ListAnswer, Cancelled, CancelFailed, Dropped,
       Mount, vars
  <2>2. QED BY <2>1 DEF OtherTypes, Fetch
<1>5. revived' \subseteq Reservations
  <2>1. UNCHANGED revived \/ \E q \in Requests : ExtendWrite(q)
    BY RowWriters
  <2>2. ASSUME NEW q \in Requests, ExtendWrite(q) PROVE revived' \subseteq Reservations
    <3>1. req[q].id \in Reservations
      BY <2>2, Kinds DEF ExtendWrite, At, OnePC, OneRequest
    <3>2. QED BY <2>2, <3>1 DEF ExtendWrite, OtherTypes
  <2>3. QED BY <2>1, <2>2 DEF OtherTypes
<1>6. QED BY <1>1, <1>2, <1>3, <1>4, <1>5 DEF OtherTypes

LEMMA PayAlways ==
    ASSUME NoReservation \notin Reservations PROVE Spec => [](PayInv /\ OtherTypes)
<1>1. Init => PayInv /\ OtherTypes
  BY PayInit, OtherTypesInit
<1>2. PayInv /\ OtherTypes /\ [Next]_vars => PayInv' /\ OtherTypes'
  BY PayStep, OtherTypesStep DEF PayInv, OtherTypes
<1>3. QED BY <1>1, <1>2, PTL DEF Spec

\* The rows, Toss's charges, the promises and the state of both pages keep their types.
THEOREM CheckoutTypeCorrect ==
    ASSUME NoReservation \notin Reservations PROVE Spec => []TypeOK
<1>1. PayInv /\ OtherTypes => TypeOK
  BY DEF PayInv, OtherTypes, Typed, TypeOK, Row, Checkout, Mine
<1>2. QED BY <1>1, PayAlways, PTL

\* However often a payment fails and is tried again, the pages are left or loaded
\* anew with Toss's window open, and the timer ends, no reservation is charged
\* twice.
THEOREM ChargedOnceCorrect ==
    ASSUME NoReservation \notin Reservations PROVE Spec => []ChargedOnce
<1>1. PayInv => ChargedOnce
  BY DEF PayInv, Amounts
<1>2. QED BY <1>1, PayAlways, PTL

\* The payment that handlePay asks for with the reservation it has just made is
\* for the zone and quantity reserved, whatever is chosen while it waits.
THEOREM ChargedAsReservedCorrect ==
    ASSUME NoReservation \notin Reservations PROVE Spec => []ChargedAsReserved
<1>1. PayInv => ChargedAsReserved
  BY DEF PayInv, Amounts
<1>2. QED BY <1>1, PayAlways, PTL

-----------------------------------------------------------------------------
(* What ReservationsPage offers.                                           *)

ListPC == {"list", "listed"}

\* r is not shown as PENDING, or will not be: the list is about to be read, or
\* was read after the cancellation, or its failure is shown.
NotOffered(r) ==
    \/ \E q \in Requests : At(q, "list")
    \/ /\ \A q \in Requests : req[q].pc \in ListPC => At(q, "listed") /\ req[q].rows[r] # "PENDING"
       /\ (\E q \in Requests : req[q].pc \in ListPC) \/ mine.error \/ mine.list[r] # "PENDING"

\* What the user was told is cancelled is so in the table, where it stays so
\* unless an extension revives it.
Kept(r) == r \in revived \/ row[r].status = "CANCELLED"

CancelledInTable ==
    /\ \A q \in Requests : At(q, "cancelled") => Kept(req[q].id)
    /\ \A r \in mine.cancelled : Kept(r)

ListsInv ==
    page = "reservations" /\ ~crossed =>
        /\ \A q, o \in Requests : req[q].pc \in ListPC /\ req[o].pc \in ListPC => q = o
        /\ (\E q \in Requests : req[q].pc \in ListPC) => mine.loading
        /\ \A r \in mine.cancelled \ revived : NotOffered(r)

OfferInv == CancelledInTable /\ ListsInv

\* No step but an extension's takes a row out of CANCELLED, and histories grow.
StayCancelled ==
    /\ \A r \in Reservations : Kept(r) => Kept(r)'
    /\ revived \subseteq revived'

LEMMA CancelledStays ==
    ASSUME Typed, [Next]_vars
    PROVE  StayCancelled
<1>1. CASE UNCHANGED <<row, revived>>
  BY <1>1 DEF StayCancelled, Kept
<1>2. ASSUME NEW r \in Reservations, UNCHANGED revived, row[r].status # "CANCELLED",
             NEW x, row' = [row EXCEPT ![r] = x]
      PROVE  StayCancelled
  BY <1>2 DEF Typed, StayCancelled, Kept
<1>3. ASSUME NEW q \in Requests, Create(q) PROVE StayCancelled
  <2>1. \/ UNCHANGED row
        \/ \E r \in Reservations :
              row[r].status = "none" /\ \E x : row' = [row EXCEPT ![r] = x]
    BY <1>3 DEF Create
  <2>2. UNCHANGED revived
    BY <1>3 DEF Create
  <2>3. QED BY <1>1, <1>2, <2>1, <2>2
<1>4. ASSUME NEW q \in Requests, ExtendWrite(q) PROVE StayCancelled
  <2>1. PICK r \in Reservations : r = req[q].id
    BY <1>4, Kinds DEF ExtendWrite, At, OnePC, OneRequest
  <2>2. CASE /\ row[r].status # "none"
             /\ row' = [row EXCEPT ![r].status = "PENDING", ![r].extended = TRUE]
             /\ revived' = IF row[r].status = "PENDING" THEN revived ELSE revived \cup {r}
    <3>1. \A o \in Reservations \ {r} : row'[o] = row[o]
      BY <2>2 DEF Typed
    <3>2. QED BY <2>2, <3>1 DEF StayCancelled, Kept
  <2>3. QED BY <1>1, <1>4, <2>1, <2>2 DEF ExtendWrite
<1>5. ASSUME NEW q \in Requests, CancelWrite(q) PROVE StayCancelled
  <2>1. PICK r \in Reservations : r = req[q].id
    BY <1>5, Kinds DEF CancelWrite, At, OnePC, OneRequest
  <2>2. CASE row[r].status # "none" /\ row' = [row EXCEPT ![r].status = "CANCELLED"]
    <3>1. row[r] \in Row
      BY <2>2, RowStatus
    <3>2. row'[r].status = "CANCELLED" /\ \A o \in Reservations \ {r} : row'[o] = row[o]
      BY <2>2, <3>1 DEF Typed, Row
    <3>3. UNCHANGED revived
      BY <1>5 DEF CancelWrite
    <3>4. QED BY <3>2, <3>3 DEF StayCancelled, Kept
  <2>3. QED BY <1>1, <1>5, <2>1, <2>2 DEF CancelWrite
<1>6. ASSUME NEW r \in Reservations, Settle(r) PROVE StayCancelled
  <2>1. /\ row[r].status = "PENDING" /\ UNCHANGED revived
        /\ \E x : row' = [row EXCEPT ![r] = x]
    BY <1>6 DEF Settle
  <2>2. QED BY <1>2, <2>1
<1>7. QED BY <1>1, <1>3, <1>4, <1>5, <1>6, RowWriters

\* The promises of the lists are as before, and what the page shows.
LEMMA OfferFrame ==
    ASSUME Typed, OtherTypes, OfferInv, StayCancelled, UNCHANGED <<page, crossed>>,
           mine'.cancelled = mine.cancelled, mine'.list = mine.list, mine'.error = mine.error,
           mine'.loading = mine.loading,
           \A o \in Requests : req[o].pc \in ListPC \/ req'[o].pc \in ListPC => req'[o] = req[o],
           \A o \in Requests : req'[o].pc = "cancelled" =>
              \/ req[o].pc = "cancelled" /\ req'[o].id = req[o].id
              \/ Kept(req[o].id)'
    PROVE  OfferInv'
<1>1. CancelledInTable'
  <2>1. \A o \in Requests : req[o].pc = "cancelled" => req[o].id \in Reservations
    BY Kinds DEF OnePC, OneRequest
  <2>2. mine.cancelled \subseteq Reservations
    BY DEF OtherTypes, Mine
  <2>3. \A o \in Requests : At(o, "cancelled") => Kept(req[o].id)
    BY DEF OfferInv, CancelledInTable
  <2>4. ASSUME NEW o \in Requests, At(o, "cancelled")' PROVE Kept(req[o].id)'
    <3>1. CASE req[o].pc = "cancelled" /\ req'[o].id = req[o].id
      <4>1. PICK r \in Reservations : r = req[o].id
        BY <2>1, <3>1
      <4>2. Kept(r)'
        BY <2>3, <3>1, <4>1 DEF StayCancelled, At
      <4>3. QED BY <3>1, <4>1, <4>2 DEF Kept
    <3>2. QED BY <2>4, <3>1 DEF At
  <2>5. ASSUME NEW r \in mine'.cancelled PROVE Kept(r)'
    BY <2>2, <2>5 DEF OfferInv, CancelledInTable, StayCancelled
  <2>6. QED BY <2>4, <2>5 DEF CancelledInTable
<1>2. ASSUME NEW r, NotOffered(r) PROVE NotOffered(r)'
  <2>1. CASE \E o \in Requests : At(o, "list")
    BY <2>1 DEF NotOffered, At, ListPC
  <2>2. CASE /\ \A o \in Requests : req[o].pc \in ListPC =>
                   At(o, "listed") /\ req[o].rows[r] # "PENDING"
             /\ (\E o \in Requests : req[o].pc \in ListPC) \/ mine.error \/ mine.list[r] # "PENDING"
    <3>1. \A o \in Requests : req'[o].pc \in ListPC => At(o, "listed")' /\ req'[o].rows[r] # "PENDING"
      BY <2>2 DEF At
    <3>2. (\E o \in Requests : req[o].pc \in ListPC) => \E o \in Requests : req'[o].pc \in ListPC
      OBVIOUS
    <3>3. (\E o \in Requests : req'[o].pc \in ListPC) \/ mine'.error \/ mine'.list[r] # "PENDING"
      BY <2>2, <3>2
    <3>4. QED BY <3>1, <3>3 DEF NotOffered
  <2>3. QED BY <1>2, <2>1, <2>2 DEF NotOffered
<1>3. ListsInv'
  <2>1. SUFFICES ASSUME page = "reservations", ~crossed PROVE ListsInv'
    BY DEF ListsInv
  <2>2. /\ \A q, o \in Requests : req[q].pc \in ListPC /\ req[o].pc \in ListPC => q = o
        /\ (\E q \in Requests : req[q].pc \in ListPC) => mine.loading
        /\ \A r \in mine.cancelled \ revived : NotOffered(r)
    BY <2>1 DEF OfferInv, ListsInv
  <2>3. mine'.cancelled \ revived' \subseteq mine.cancelled \ revived
    BY DEF StayCancelled
  <2>4. QED BY <1>2, <2>2, <2>3 DEF ListsInv
<1>4. QED BY <1>1, <1>3 DEF OfferInv

\* A step of one promise that reads no list.
LEMMA OfferOne ==
    ASSUME Typed, OtherTypes, OfferInv, StayCancelled, UNCHANGED <<page, crossed>>,
           mine'.cancelled = mine.cancelled, mine'.list = mine.list, mine'.error = mine.error,
           mine'.loading = mine.loading,
           NEW q \in Requests, \A o \in Requests \ {q} : req'[o] = req[o],
           req[q].pc \notin ListPC, req'[q].pc \notin ListPC,
           req'[q].pc = "cancelled" => Kept(req[q].id)'
    PROVE  OfferInv'
BY OfferFrame

\* A page that is mounted: its user has cancelled nothing, and no list is being
\* read but its own.
LEMMA OfferMount ==
    ASSUME Typed, OfferInv, StayCancelled, NEW q \in Requests, NEW p,
           Mount(p, q, Left(req)) \/ Mount(p, q, Gone(req))
    PROVE  OfferInv'
<1>1. PICK others : (others = Left(req) \/ others = Gone(req)) /\ Mount(p, q, others)
  OBVIOUS
<1>2. ASSUME NEW o \in Requests
      PROVE  /\ others[o].pc \notin ListPC
             /\ others[o].pc = "cancelled" => req[o].pc = "cancelled" /\ others[o].id = req[o].id
  <2>1. CASE others = Left(req)
    <3>1. CASE req[o].pc \in {"idle", "list", "listed"}
      BY <2>1, <3>1 DEF Left, Idle, ListPC
    <3>2. CASE req[o].pc \in PayPC
      <4>1. req[o] \in PayRequest
        BY <3>2, Kinds
      <4>2. others[o].pc = req[o].pc
        BY <2>1, <3>2, <4>1 DEF Left, PayPC, PayRequest
      <4>3. QED BY <3>2, <4>2 DEF PayPC, ListPC
    <3>3. CASE req[o].pc \in OnePC
      <4>1. req[o] \in OneRequest
        BY <3>3, Kinds
      <4>2. others[o].pc = req[o].pc /\ others[o].id = req[o].id
        BY <2>1, <3>3, <4>1 DEF Left, OnePC, OneRequest
      <4>3. QED BY <3>3, <4>2 DEF OnePC, ListPC
    <3>4. QED BY <3>1, <3>2, <3>3, Kinds
  <2>2. CASE others = Gone(req)
    <3>1. CASE req[o].pc = "create"
      <4>1. req[o] \in PayRequest
        BY <3>1, Kinds DEF PayPC
      <4>2. others[o].pc = "create"
        BY <2>2, <3>1, <4>1 DEF Gone, PayRequest, AtServer
      <4>3. QED BY <4>2 DEF ListPC
    <3>2. CASE req[o].pc \in AtServer \ {"create"}
      <4>1. req[o] \in OneRequest
        BY <3>2, Kinds DEF OnePC, AtServer
      <4>2. others[o].pc = req[o].pc
        BY <2>2, <3>2, <4>1 DEF Gone, OneRequest
      <4>3. QED BY <3>2, <4>2 DEF ListPC, AtServer
    <3>3. CASE req[o].pc \notin AtServer
      BY <2>2, <3>3 DEF Gone, Idle, ListPC
    <3>4. QED BY <3>1, <3>2, <3>3
  <2>3. QED BY <1>1, <2>1, <2>2
<1>3. /\ others = [o \in Requests |-> others[o]]
      /\ page' = p /\ mine' = NewMine
      /\ p # "reservations" => req' = others
      /\ p = "reservations" => req' = [others EXCEPT ![q] = ListCall]
  BY <1>1 DEF Mount, Left, Gone
<1>4. /\ \A o \in Requests \ {q} : req'[o] = others[o]
      /\ p = "reservations" => req'[q] = ListCall
      /\ p # "reservations" => req'[q] = others[q]
  BY <1>3
<1>5. mine'.cancelled = {} /\ mine'.loading
  BY <1>3 DEF NewMine
<1>6. \A o \in Requests : req'[o].pc = "cancelled" =>
         req[o].pc = "cancelled" /\ req'[o].id = req[o].id
  BY <1>2, <1>4 DEF ListCall
<1>7. \A o \in Requests : req[o].pc = "cancelled" => req[o].id \in Reservations
  BY Kinds DEF OnePC, OneRequest
<1>8. CancelledInTable'
  BY <1>5, <1>6, <1>7 DEF OfferInv, CancelledInTable, StayCancelled, At
<1>9. \A o \in Requests : req'[o].pc \in ListPC => o = q
  BY <1>2, <1>4
<1>10. QED BY <1>5, <1>8, <1>9 DEF OfferInv, ListsInv

\* The list is asked for, alone or crossing another: after a retry, and after
\* a cancellation.
LEMMA OfferFetch ==
    ASSUME Typed, OtherTypes, OfferInv, UNCHANGED <<row, revived, page>>,
           NEW q \in Requests, Retry(q) \/ Cancelled(q)
    PROVE  OfferInv'
<1>1. /\ req'[q] = ListCall
      /\ \A o \in Requests \ {q} : req'[o] = req[o]
      /\ crossed' = (crossed \/ \E o \in Requests \ {q} : req[o].pc \in ListPC)
  BY DEF Retry, Cancelled, Fetch, Typed, ListPC
<1>2. mine \in Mine /\ \A r \in mine.cancelled : Kept(r)
  BY DEF OtherTypes, OfferInv, CancelledInTable
<1>3. mine'.loading /\ \A r \in mine'.cancelled : Kept(r)
  <2>1. CASE Retry(q)
    <3>1. mine'.cancelled = mine.cancelled /\ mine'.loading
      BY <1>2, <2>1 DEF Retry, Mine
    <3>2. QED BY <1>2, <3>1
  <2>2. CASE Cancelled(q)
    <3>1. /\ mine'.cancelled = mine.cancelled \cup {req[q].id} /\ At(q, "cancelled")
          /\ mine'.loading
      BY <1>2, <2>2 DEF Cancelled, Mine
    <3>2. QED BY <1>2, <3>1 DEF OfferInv, CancelledInTable
  <2>3. QED BY <2>1, <2>2
<1>4. CancelledInTable'
  BY <1>1, <1>3 DEF OfferInv, CancelledInTable, At, ListCall, Kept
<1>5. ASSUME ~crossed' PROVE \A o \in Requests : req'[o].pc \in ListPC => o = q
  BY <1>1, <1>5
<1>6. At(q, "list")'
  BY <1>1 DEF At, ListCall
<1>7. \A r : NotOffered(r)'
  BY <1>6 DEF NotOffered
<1>8. QED BY <1>3, <1>4, <1>5, <1>7 DEF OfferInv, ListsInv

\* The list is read: no cancelled reservation is PENDING in it.
LEMMA OfferList ==
    ASSUME Typed, OtherTypes, OfferInv, NEW q \in Requests, List(q)
    PROVE  OfferInv'
<1>1. /\ req'[q] = [pc |-> "listed", rows |-> [r \in Reservations |-> row[r].status]]
      /\ req[q].pc = "list" /\ \A o \in Requests \ {q} : req'[o] = req[o]
      /\ UNCHANGED <<row, revived, page, mine, crossed>>
  BY DEF List, At, Typed, server
<1>2. CancelledInTable'
  BY <1>1 DEF OfferInv, CancelledInTable, At, Kept
<1>3. \A o \in Requests : req'[o].pc \in ListPC <=> req[o].pc \in ListPC
  BY <1>1 DEF ListPC
<1>4. SUFFICES ASSUME page = "reservations", ~crossed PROVE ListsInv'
  BY <1>1, <1>2 DEF OfferInv, ListsInv
<1>5. /\ \A u, o \in Requests : req[u].pc \in ListPC /\ req[o].pc \in ListPC => u = o
      /\ (\E o \in Requests : req[o].pc \in ListPC) => mine.loading
  BY <1>4 DEF OfferInv, ListsInv
<1>6. \A o \in Requests : req'[o].pc \in ListPC => o = q
  BY <1>1, <1>3, <1>5 DEF ListPC
<1>7. ASSUME NEW r \in mine.cancelled \ revived PROVE NotOffered(r)'
  <2>1. r \in Reservations /\ row[r].status = "CANCELLED"
    BY <1>7 DEF OtherTypes, Mine, OfferInv, CancelledInTable, Kept
  <2>2. At(q, "listed")' /\ req'[q].rows[r] # "PENDING" /\ req'[q].pc \in ListPC
    BY <1>1, <2>1 DEF At, ListPC
  <2>3. QED BY <1>6, <2>2 DEF NotOffered
<1>8. QED BY <1>1, <1>3, <1>5, <1>7 DEF ListsInv

\* The list is shown, or its failure.
LEMMA OfferListAnswer ==
    ASSUME Typed, OtherTypes, OfferInv, NEW q \in Requests, ListAnswer(q)
    PROVE  OfferInv'
<1>1. /\ req'[q] = Idle /\ req[q].pc \in ListPC
      /\ \A o \in Requests \ {q} : req'[o] = req[o]
      /\ UNCHANGED <<row, revived, page, crossed>> /\ mine \in Mine
  BY DEF ListAnswer, Finished, At, Typed, OtherTypes, server, ListPC
<1>2. /\ mine'.cancelled = mine.cancelled
      /\ \/ At(q, "listed") /\ mine'.list = req[q].rows /\ mine'.error = mine.error
         \/ At(q, "list") /\ mine'.error
  <2>1. CASE At(q, "listed")
    <3>1. mine' = [mine EXCEPT !.list = req[q].rows, !.loading = FALSE]
      BY <2>1 DEF ListAnswer, At
    <3>2. QED BY <1>1, <2>1, <3>1 DEF Mine
  <2>2. CASE At(q, "list")
    <3>1. mine' = [mine EXCEPT !.error = TRUE, !.loading = FALSE]
      BY <2>2 DEF ListAnswer, At
    <3>2. QED BY <1>1, <2>2, <3>1 DEF Mine
  <2>3. QED BY <1>1, <2>1, <2>2 DEF At, ListPC
<1>3. CancelledInTable'
  BY <1>1, <1>2 DEF OfferInv, CancelledInTable, At, Idle, Kept
<1>4. SUFFICES ASSUME page = "reservations", ~crossed PROVE ListsInv'
  BY <1>1, <1>3 DEF OfferInv, ListsInv
<1>5. /\ \A u, o \in Requests : req[u].pc \in ListPC /\ req[o].pc \in ListPC => u = o
      /\ \A r \in mine.cancelled \ revived : NotOffered(r)
  BY <1>4 DEF OfferInv, ListsInv
<1>6. \A o \in Requests : req'[o].pc \notin ListPC
  BY <1>1, <1>5 DEF Idle, ListPC
<1>7. ASSUME NEW r \in mine.cancelled \ revived PROVE mine'.error \/ mine'.list[r] # "PENDING"
  <2>1. CASE At(q, "list")
    BY <1>2, <2>1 DEF At
  <2>2. CASE At(q, "listed")
    <3>1. \A o \in Requests : ~At(o, "list")
      BY <1>1, <1>5, <2>2 DEF At, ListPC
    <3>2. req[q].rows[r] # "PENDING"
      BY <1>1, <1>5, <1>7, <3>1 DEF NotOffered
    <3>3. QED BY <1>2, <2>2, <3>2 DEF At
  <2>3. QED BY <1>2, <2>1, <2>2
<1>8. QED BY <1>1, <1>2, <1>6, <1>7 DEF ListsInv, NotOffered

\* The promises of payments, extensions and cancellations.
LEMMA OfferPromise ==
    ASSUME Typed, OtherTypes, OfferInv, StayCancelled, NEW q \in Requests, Promise(q)
    PROVE  OfferInv'
<1>1. ASSUME UNCHANGED <<page, mine, crossed>>, req'[q].pc \in (PayPC \cup OnePC \cup {"idle"}) \ {"cancelled"},
             \A o \in Requests \ {q} : req'[o] = req[o], req[q].pc \notin ListPC
      PROVE  OfferInv'
  BY <1>1, OfferOne DEF PayPC, OnePC, ListPC
<1>2. CASE Create(q)
  <2>1. req[q] \in PayRequest /\ req[q].pc = "create" /\ UNCHANGED <<page, mine, crossed>>
    BY <1>2, Kinds DEF Create, At, PayPC
  <2>2. req'[q].pc \in {"created", "refused"} /\ \A o \in Requests \ {q} : req'[o] = req[o]
    <3>1. CASE req' = Moved(q, "refused")
      BY <2>1, <3>1, MovedPay DEF PayPC
    <3>2. CASE \E r \in Reservations : req' = [req EXCEPT ![q].pc = "created", ![q].id = r]
      BY <2>1, <3>2 DEF Typed, PayRequest
    <3>3. QED BY <1>2, <3>1, <3>2 DEF Create
  <2>3. QED BY <1>1, <2>1, <2>2 DEF PayPC, ListPC
<1>3. CASE Extend(q) \/ ExtendWrite(q) \/ Cancel(q)
  <2>1. /\ req[q].pc \in {"extend", "extending", "cancel"} /\ UNCHANGED <<page, mine, crossed>>
        /\ \E pc \in {"extending", "extended", "extendFailed", "cancelling", "cancelFailed"} :
             req' = Moved(q, pc)
    BY <1>3 DEF Extend, ExtendWrite, Cancel, At
  <2>2. /\ req'[q].pc \in {"extending", "extended", "extendFailed", "cancelling", "cancelFailed"}
        /\ \A o \in Requests \ {q} : req'[o] = req[o]
    BY <2>1, MovedOne DEF OnePC
  <2>3. QED BY <1>1, <2>1, <2>2 DEF OnePC, ListPC
<1>4. CASE CancelWrite(q)
  <2>1. /\ req[q].pc = "cancelling" /\ UNCHANGED <<page, mine, crossed>>
        /\ \/ req' = Moved(q, "cancelFailed")
           \/ /\ req' = Moved(q, "cancelled")
              /\ row' = [row EXCEPT ![req[q].id].status = "CANCELLED"]
              /\ row[req[q].id].status # "none"
    BY <1>4 DEF CancelWrite, At
  <2>2. CASE req' = Moved(q, "cancelFailed")
    <3>1. req'[q].pc = "cancelFailed" /\ \A o \in Requests \ {q} : req'[o] = req[o]
      BY <2>1, <2>2, MovedOne DEF OnePC
    <3>2. QED BY <1>1, <2>1, <3>1 DEF OnePC, ListPC
  <2>3. CASE req' = Moved(q, "cancelled") /\ req' # Moved(q, "cancelFailed")
    <3>1. /\ req'[q].pc = "cancelled" /\ req'[q].id = req[q].id
          /\ \A o \in Requests \ {q} : req'[o] = req[o]
      BY <2>1, <2>3, MovedOne DEF OnePC
    <3>2. PICK r \in Reservations : r = req[q].id
      BY <2>1, Kinds DEF OnePC, OneRequest
    <3>3. row[r] \in Row /\ row' = [row EXCEPT ![r].status = "CANCELLED"]
      BY <2>1, <2>3, <3>2, RowStatus
    <3>4. row'[r].status = "CANCELLED"
      BY <3>3 DEF Typed, Row
    <3>5. Kept(req[q].id)'
      BY <3>1, <3>2, <3>4 DEF Kept
    <3>6. QED BY <2>1, <3>1, <3>5, OfferOne DEF ListPC
  <2>4. QED BY <2>1, <2>2, <2>3
<1>5. CASE Created(q)
  <2>1. req[q].pc = "created" /\ UNCHANGED <<page, mine, crossed>> /\ req' = Moved(q, "toss")
    BY <1>5 DEF Created, At
  <2>2. req'[q].pc = "toss" /\ \A o \in Requests \ {q} : req'[o] = req[o]
    BY <2>1, MovedPay DEF PayPC
  <2>3. QED BY <1>1, <2>1, <2>2 DEF PayPC, ListPC
<1>6. CASE Toss(q)
  <2>1. CASE Mount("reservations", q, Gone(req)) \/ Mount("reservation", q, Gone(req))
    BY <2>1, OfferMount
  <2>2. CASE UNCHANGED <<page, mine, crossed>> /\ \E pc \in {"paid", "failed"} : req' = Moved(q, pc)
    <3>1. req[q].pc = "toss"
      BY <1>6 DEF Toss, At
    <3>2. req'[q].pc \in {"paid", "failed"} /\ \A o \in Requests \ {q} : req'[o] = req[o]
      BY <2>2, <3>1, MovedPay DEF PayPC
    <3>3. QED BY <1>1, <2>2, <3>1, <3>2 DEF PayPC, ListPC
  <2>3. QED BY <1>6, <2>1, <2>2 DEF Toss
<1>7. ASSUME UNCHANGED <<page, crossed>>, req' = Finished(q), req[q].pc \notin ListPC,
             mine'.cancelled = mine.cancelled, mine'.list = mine.list, mine'.error = mine.error,
             mine'.loading = mine.loading
      PROVE  OfferInv'
  BY <1>7, FinishedOK, OfferOne DEF ListPC
<1>8. CASE Paid(q)
  BY <1>7, <1>8, OfferMount DEF Paid, At, ListPC
<1>9. CASE PayFailed(q) \/ ExtendAnswer(q) \/ Dropped(q)
  BY <1>7, <1>9 DEF PayFailed, ExtendAnswer, Dropped, ListPC
<1>10. CASE CancelFailed(q)
  <2>1. req[q].pc \notin ListPC /\ UNCHANGED <<page, crossed>> /\ req' = Finished(q)
    BY <1>10 DEF CancelFailed, At, ListPC
  <2>2. mine' = mine \/ mine' = [mine EXCEPT !.cancelling = FALSE]
    BY <1>10 DEF CancelFailed
  <2>3. /\ mine'.cancelled = mine.cancelled /\ mine'.list = mine.list
        /\ mine'.error = mine.error /\ mine'.loading = mine.loading
    BY <2>2 DEF OtherTypes, Mine
  <2>4. QED BY <1>7, <2>1, <2>3
<1>11. CASE List(q) \/ ListAnswer(q)
  BY <1>11, OfferList, OfferListAnswer
<1>12. CASE Cancelled(q)
  BY <1>12, OfferFetch DEF Cancelled, server
<1>13. QED
  BY <1>2, <1>3, <1>4, <1>5, <1>6, <1>8, <1>9, <1>10, <1>11, <1>12 DEF Promise

\* What the user does.
LEMMA OfferUser ==
    ASSUME Typed, OtherTypes, OfferInv, StayCancelled, NEW q \in Requests, User(q)
    PROVE  OfferInv'
<1>1. ASSUME NEW p, Visit(q, p) PROVE OfferInv'
  BY <1>1, OfferMount DEF Visit
<1>2. CASE Choose \/ CloseDialog \/ \E r \in Reservations : AskCancel(r)
  <2>1. UNCHANGED <<req, row, page, crossed>> /\ (mine' = mine \/ \E t : mine' = [mine EXCEPT !.target = t])
    BY <1>2 DEF Choose, CloseDialog, AskCancel, server
  <2>2. /\ mine'.cancelled = mine.cancelled /\ mine'.list = mine.list
        /\ mine'.error = mine.error /\ mine'.loading = mine.loading
    BY <2>1 DEF OtherTypes, Mine
  <2>3. QED BY <2>1, <2>2, OfferFrame
<1>3. CASE Pay(q) \/ AskExtend(q) \/ ConfirmCancel(q)
  <2>1. req[q] = Idle /\ UNCHANGED <<row, page, crossed>>
    BY <1>3 DEF Pay, AskExtend, ConfirmCancel, server
  <2>2. mine' = mine \/ mine' = [mine EXCEPT !.cancelling = TRUE]
    BY <1>3 DEF Pay, AskExtend, ConfirmCancel
  <2>3. /\ mine'.cancelled = mine.cancelled /\ mine'.list = mine.list
        /\ mine'.error = mine.error /\ mine'.loading = mine.loading
    BY <2>2 DEF OtherTypes, Mine
  <2>4. /\ req'[q].pc \in {"create", "toss", "extend", "cancel"}
        /\ \A o \in Requests \ {q} : req'[o] = req[o]
    BY <1>3 DEF Pay, AskExtend, ConfirmCancel, Typed
  <2>5. req[q].pc \notin ListPC /\ req'[q].pc \notin ListPC /\ req'[q].pc # "cancelled"
    BY <2>1, <2>4 DEF Idle, ListPC
  <2>6. QED BY <2>1, <2>3, <2>4, <2>5, OfferOne
<1>4. CASE Retry(q)
  BY <1>4, OfferFetch DEF Retry, server
<1>5. QED BY <1>1, <1>2, <1>3, <1>4 DEF User

LEMMA OfferStep ==
    ASSUME Typed, OtherTypes, OfferInv, [Next]_vars
    PROVE  OfferInv'
<1>1. StayCancelled
  BY CancelledStays
<1>2. CASE UNCHANGED <<req, page, mine, crossed>>
  BY <1>1, <1>2, OfferFrame
<1>3. CASE Tick
  BY <1>1, <1>2, <1>3, OfferMount DEF Tick
<1>4. CASE UNCHANGED vars \/ Load \/ Admit \/ \E r \in Reservations : Settle(r)
  BY <1>2, <1>4 DEF vars, Load, Admit, Settle
<1>5. QED BY <1>1, <1>3, <1>4, OfferPromise, OfferUser DEF Next

\* A list that is shown offers no reservation the user has cancelled from that
\* page, whatever dialogs were opened and closed meanwhile and whatever other
\* promises run, unless two reads of the list crossed or an extension that had
\* read the reservation before wrote it PENDING again.
THEOREM CancelledNotOfferedCorrect ==
    ASSUME NoReservation \notin Reservations PROVE Spec => []CancelledNotOffered
<1>1. Init => OfferInv
  BY DEF Init, Idle, NewMine, OfferInv, CancelledInTable, ListsInv, At
<1>2. PayInv /\ OtherTypes /\ OfferInv /\ [Next]_vars => OfferInv'
  BY OfferStep DEF PayInv
<1>3. OfferInv => CancelledNotOffered
  <2>1. SUFFICES ASSUME OfferInv, page = "reservations", Shown, ~crossed,
                        NEW r \in mine.cancelled \ revived
                 PROVE  mine.list[r] # "PENDING"
    BY DEF CancelledNotOffered
  <2>2. \A q \in Requests : req[q].pc \notin ListPC
    BY <2>1 DEF OfferInv, ListsInv, Shown
  <2>3. QED BY <2>1, <2>2 DEF OfferInv, ListsInv, NotOffered, Shown, At, ListPC
<1>4. QED BY <1>1, <1>2, <1>3, PayAlways, PTL DEF Spec

=============================================================================
