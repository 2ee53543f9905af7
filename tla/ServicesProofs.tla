--------------------------- MODULE ServicesProofs ---------------------------
(***************************************************************************)
(* The theorems of the five components hold of Services, for any instances *)
(* of them: what a behaviour of Services does to the variables of one      *)
(* component is a behaviour of that component.                             *)
(*                                                                         *)
(* CatalogueP, PageP and CheckoutP are the theorem modules of the three    *)
(* components that Services has as instances; their definitions are the    *)
(* same as those of the instances, once unfolded.                          *)
(***************************************************************************)
EXTENDS Services, SupportPostsProofs, SessionsProofs, TLAPS

CatalogueP == INSTANCE ConcertZonesProofs WITH concertRow <- zoneConcert, req <- zoneReq

PageP == INSTANCE AdminPageProofs WITH
    Concerts <- PageConcerts, req <- pageReq, target <- deleteTarget, deleting <- deletingConcert

CheckoutP == INSTANCE CheckoutPageProofs WITH req <- payReq


-----------------------------------------------------------------------------
(* Concerts and zones.                                                     *)

LEMMA SameCatalogueInit == Catalogue!Init <=> CatalogueP!Init
BY DEF Catalogue!Idle, CatalogueP!Idle, Catalogue!Init, CatalogueP!Init

LEMMA SameCatalogueNext == Catalogue!Next <=> CatalogueP!Next
BY DEF Catalogue!tables, CatalogueP!tables, Catalogue!redis, CatalogueP!redis,
   Catalogue!Idle, CatalogueP!Idle, Catalogue!At, CatalogueP!At, Catalogue!Goto,
   CatalogueP!Goto, Catalogue!Finish, CatalogueP!Finish, Catalogue!Send, CatalogueP!Send,
   Catalogue!SendConcert, CatalogueP!SendConcert, Catalogue!SendZone, CatalogueP!SendZone,
   Catalogue!ConcertExists, CatalogueP!ConcertExists, Catalogue!ZoneExists,
   CatalogueP!ZoneExists, Catalogue!Unless, CatalogueP!Unless, Catalogue!HandlerFails,
   CatalogueP!HandlerFails, Catalogue!CreateConcert, CatalogueP!CreateConcert,
   Catalogue!OpenSale, CatalogueP!OpenSale, Catalogue!UpdateConcert,
   CatalogueP!UpdateConcert, Catalogue!DeleteFind, CatalogueP!DeleteFind,
   Catalogue!DeleteRow, CatalogueP!DeleteRow, Catalogue!CreateCheck,
   CatalogueP!CreateCheck, Catalogue!CreateInsert, CatalogueP!CreateInsert,
   Catalogue!CreateStock, CatalogueP!CreateStock, Catalogue!Busy, CatalogueP!Busy,
   Catalogue!ChangeFind, CatalogueP!ChangeFind, Catalogue!ChangeRow, CatalogueP!ChangeRow,
   Catalogue!ChangeStock, CatalogueP!ChangeStock, Catalogue!RemoveFind,
   CatalogueP!RemoveFind, Catalogue!RemoveRow, CatalogueP!RemoveRow, Catalogue!RemoveStock,
   CatalogueP!RemoveStock, Catalogue!Sell, CatalogueP!Sell, Catalogue!Handler,
   CatalogueP!Handler, Catalogue!Next, CatalogueP!Next

LEMMA SameCatalogueTypes == Catalogue!TypeOK <=> CatalogueP!TypeOK
BY DEF Catalogue!ConcertPC, CatalogueP!ConcertPC, Catalogue!ZonePC, CatalogueP!ZonePC,
   Catalogue!Idle, CatalogueP!Idle, Catalogue!Request, CatalogueP!Request,
   Catalogue!TypeOK, CatalogueP!TypeOK

LEMMA CatalogueBehaves == ServicesSpec => CatalogueP!Spec
<1>1. ServicesInit => CatalogueP!Init
  BY SameCatalogueInit DEF ServicesInit
<1>2. [ServicesNext]_servicesVars => [CatalogueP!Next]_(CatalogueP!vars)
  <2>1. UNCHANGED zoneVars => UNCHANGED CatalogueP!vars
    BY DEF zoneVars, CatalogueP!vars
  <2>2. [ServicesNext]_servicesVars => Catalogue!Next \/ UNCHANGED zoneVars
    BY DEF ServicesNext, servicesVars
  <2>3. QED BY <2>1, <2>2, SameCatalogueNext
<1>3. QED BY <1>1, <1>2, PTL DEF ServicesSpec, CatalogueP!Spec

\* The seats that were sold stay out of a zone's stock, whatever changes of its
\* total come one after another and whatever is sold meanwhile.
THEOREM SoldSeatsStayOutInServices ==
    ASSUME ServiceConstants PROVE ServicesSpec => []SoldSeatsStayOut
<1>1. CatalogueP!SoldSeatsStayOut => SoldSeatsStayOut
  BY DEF SoldSeatsStayOut, Catalogue!ZoneExists, CatalogueP!ZoneExists, Catalogue!Busy,
     CatalogueP!Busy, Catalogue!SoldSeatsStayOut, CatalogueP!SoldSeatsStayOut
<1>2. CatalogueP!ZoneConstants
  BY DEF ServiceConstants, Catalogue!ZoneConstants, CatalogueP!ZoneConstants
<1>3. QED BY <1>1, <1>2, CatalogueBehaves, CatalogueP!SoldSeatsStayOutCorrect, PTL

\* The page never shows fewer seats as remaining than can still be taken.
THEOREM RemainCoversStockInServices ==
    ASSUME ServiceConstants PROVE ServicesSpec => []RemainCoversStock
<1>1. CatalogueP!RemainCoversStock => RemainCoversStock
  BY DEF RemainCoversStock, Catalogue!ZoneExists, CatalogueP!ZoneExists, Catalogue!Busy,
     CatalogueP!Busy, Catalogue!RemainCoversStock, CatalogueP!RemainCoversStock
<1>2. CatalogueP!ZoneConstants
  BY DEF ServiceConstants, Catalogue!ZoneConstants, CatalogueP!ZoneConstants
<1>3. QED BY <1>1, <1>2, CatalogueBehaves, CatalogueP!RemainCoversStockCorrect, PTL


-----------------------------------------------------------------------------
(* The administrator's page.                                               *)

LEMMA SamePageInit == Page!Init <=> PageP!Init
BY DEF Page!Closed, PageP!Closed, Page!Idle, PageP!Idle, Page!Init, PageP!Init

LEMMA SamePageNext == Page!Next <=> PageP!Next
BY DEF Page!dialogs, PageP!dialogs, Page!Maybe, PageP!Maybe, Page!Closed, PageP!Closed,
   Page!Idle, PageP!Idle, Page!At, PageP!At, Page!Goto, PageP!Goto, Page!Settle,
   PageP!Settle, Page!Finish, PageP!Finish, Page!Send, PageP!Send, Page!FetchStats,
   PageP!FetchStats, Page!Serve, PageP!Serve, Page!ServeFails, PageP!ServeFails,
   Page!HasRow, PageP!HasRow, Page!NoDialog, PageP!NoDialog, Page!RowClick, PageP!RowClick,
   Page!StatsAnswer, PageP!StatsAnswer, Page!HandleSaved, PageP!HandleSaved,
   Page!OpenConcert, PageP!OpenConcert, Page!CloseConcert, PageP!CloseConcert,
   Page!SubmitConcert, PageP!SubmitConcert, Page!SaveAnswer, PageP!SaveAnswer,
   Page!OpenZone, PageP!OpenZone, Page!CloseZone, PageP!CloseZone, Page!SubmitZone,
   PageP!SubmitZone, Page!ZoneAnswer, PageP!ZoneAnswer, Page!OpenDelete, PageP!OpenDelete,
   Page!CloseDelete, PageP!CloseDelete, Page!SubmitDelete, PageP!SubmitDelete,
   Page!DeleteAnswer, PageP!DeleteAnswer, Page!Answer, PageP!Answer, Page!Administrator,
   PageP!Administrator, Page!Next, PageP!Next

LEMMA SamePageTypes == Page!TypeOK <=> PageP!TypeOK
BY DEF Page!Maybe, PageP!Maybe, Page!Closed, PageP!Closed, Page!Modal, PageP!Modal,
   Page!SavePC, PageP!SavePC, Page!ZonePC, PageP!ZonePC, Page!DeletePC, PageP!DeletePC,
   Page!StatsPC, PageP!StatsPC, Page!Idle, PageP!Idle, Page!Request, PageP!Request,
   Page!TypeOK, PageP!TypeOK

LEMMA PageBehaves == ServicesSpec => PageP!Spec
<1>1. ServicesInit => PageP!Init
  BY SamePageInit DEF ServicesInit
<1>2. [ServicesNext]_servicesVars => [PageP!Next]_(PageP!vars)
  <2>1. UNCHANGED pageVars => UNCHANGED PageP!vars
    BY DEF pageVars, PageP!vars
  <2>2. [ServicesNext]_servicesVars => Page!Next \/ UNCHANGED pageVars
    BY DEF ServicesNext, servicesVars
  <2>3. QED BY <2>1, <2>2, SamePageNext
<1>3. QED BY <1>1, <1>2, PTL DEF ServicesSpec, PageP!Spec

\* Closing the form and opening it again does not save a second concert.
THEOREM SavingIsOneCallInServices ==
    ASSUME ServiceConstants PROVE ServicesSpec => []SavingIsOneCall
<1>1. PageP!SavingIsOneCall => SavingIsOneCall
  BY DEF SavingIsOneCall, Page!SavePC, PageP!SavePC, Page!SavingIsOneCall,
     PageP!SavingIsOneCall, Page!Cardinality, PageP!Cardinality
<1>2. QED BY <1>1, PageBehaves, PageP!SavingIsOneCallCorrect, PTL

\* The panel shows the zones of the selected concert, across saving, deleting and
\* failing reads.
THEOREM PanelShowsSelectedInServices ==
    ASSUME ServiceConstants PROVE ServicesSpec => []PanelShowsSelected
<1>1. PageP!PanelShowsSelected => PanelShowsSelected
  BY DEF PanelShowsSelected, Page!PanelShowsSelected, PageP!PanelShowsSelected
<1>2. QED BY <1>1, PageBehaves, PageP!PanelShowsSelectedCorrect, PTL

\* One deletion is under way at a time, and a failure gives the button back.
THEOREM OneDeletionAtATimeInServices ==
    ASSUME ServiceConstants PROVE ServicesSpec => []OneDeletionAtATime
<1>1. PageP!OneDeletionAtATime => OneDeletionAtATime
  BY DEF OneDeletionAtATime, Page!DeletePC, PageP!DeletePC, Page!OneDeletionAtATime,
     PageP!OneDeletionAtATime, Page!Cardinality, PageP!Cardinality
<1>2. QED BY <1>1, PageBehaves, PageP!OneDeletionAtATimeCorrect, PTL


-----------------------------------------------------------------------------
(* The pages for paying and cancelling.                                    *)

LEMMA SameCheckoutInit == Checkout!Init <=> CheckoutP!Init
BY DEF Checkout!Seconds, CheckoutP!Seconds, Checkout!Idle, CheckoutP!Idle,
   Checkout!NewCheckout, CheckoutP!NewCheckout, Checkout!NewMine, CheckoutP!NewMine,
   Checkout!Init, CheckoutP!Init

LEMMA SameCheckoutNext == Checkout!Next <=> CheckoutP!Next
BY DEF Checkout!MaxQuantity, CheckoutP!MaxQuantity, Checkout!Seconds, CheckoutP!Seconds,
   Checkout!server, CheckoutP!server, Checkout!AtServer, CheckoutP!AtServer, Checkout!Idle,
   CheckoutP!Idle, Checkout!NewCheckout, CheckoutP!NewCheckout, Checkout!NewMine,
   CheckoutP!NewMine, Checkout!At, CheckoutP!At, Checkout!Here, CheckoutP!Here,
   Checkout!Finished, CheckoutP!Finished, Checkout!Moved, CheckoutP!Moved, Checkout!Left,
   CheckoutP!Left, Checkout!Gone, CheckoutP!Gone, Checkout!ListCall, CheckoutP!ListCall,
   Checkout!Mount, CheckoutP!Mount, Checkout!Visit, CheckoutP!Visit, Checkout!Dropped,
   CheckoutP!Dropped, Checkout!Create, CheckoutP!Create, Checkout!Extend, CheckoutP!Extend,
   Checkout!ExtendWrite, CheckoutP!ExtendWrite, Checkout!Cancel, CheckoutP!Cancel,
   Checkout!CancelWrite, CheckoutP!CancelWrite, Checkout!Settle, CheckoutP!Settle,
   Checkout!Admit, CheckoutP!Admit, Checkout!Load, CheckoutP!Load, Checkout!Choose,
   CheckoutP!Choose, Checkout!Tick, CheckoutP!Tick, Checkout!Chosen, CheckoutP!Chosen,
   Checkout!Pay, CheckoutP!Pay, Checkout!Created, CheckoutP!Created, Checkout!Charge,
   CheckoutP!Charge, Checkout!Toss, CheckoutP!Toss, Checkout!Paid, CheckoutP!Paid,
   Checkout!PayFailed, CheckoutP!PayFailed, Checkout!AskExtend, CheckoutP!AskExtend,
   Checkout!ExtendAnswer, CheckoutP!ExtendAnswer, Checkout!Fetch, CheckoutP!Fetch,
   Checkout!Shown, CheckoutP!Shown, Checkout!Retry, CheckoutP!Retry, Checkout!List,
   CheckoutP!List, Checkout!ListAnswer, CheckoutP!ListAnswer, Checkout!AskCancel,
   CheckoutP!AskCancel, Checkout!CloseDialog, CheckoutP!CloseDialog,
   Checkout!ConfirmCancel, CheckoutP!ConfirmCancel, Checkout!Cancelled,
   CheckoutP!Cancelled, Checkout!CancelFailed, CheckoutP!CancelFailed, Checkout!Promise,
   CheckoutP!Promise, Checkout!User, CheckoutP!User, Checkout!Next, CheckoutP!Next

LEMMA SameCheckoutTypes == Checkout!TypeOK <=> CheckoutP!TypeOK
BY DEF Checkout!MaxQuantity, CheckoutP!MaxQuantity, Checkout!Seconds, CheckoutP!Seconds,
   Checkout!Choices, CheckoutP!Choices, Checkout!Statuses, CheckoutP!Statuses,
   Checkout!Listed, CheckoutP!Listed, Checkout!Ids, CheckoutP!Ids, Checkout!Places,
   CheckoutP!Places, Checkout!PayPC, CheckoutP!PayPC, Checkout!OnePC, CheckoutP!OnePC,
   Checkout!Idle, CheckoutP!Idle, Checkout!Request, CheckoutP!Request, Checkout!TypeOK,
   CheckoutP!TypeOK

LEMMA CheckoutBehaves == ServicesSpec => CheckoutP!Spec
<1>1. ServicesInit => CheckoutP!Init
  BY SameCheckoutInit DEF ServicesInit
<1>2. [ServicesNext]_servicesVars => [CheckoutP!Next]_(CheckoutP!vars)
  <2>1. UNCHANGED checkoutVars => UNCHANGED CheckoutP!vars
    BY DEF checkoutVars, CheckoutP!vars
  <2>2. [ServicesNext]_servicesVars => Checkout!Next \/ UNCHANGED checkoutVars
    BY DEF ServicesNext, servicesVars
  <2>3. QED BY <2>1, <2>2, SameCheckoutNext
<1>3. QED BY <1>1, <1>2, PTL DEF ServicesSpec, CheckoutP!Spec

\* No reservation is charged twice, whatever pages are left, loaded and paid from.
THEOREM ChargedOnceInServices ==
    ASSUME ServiceConstants PROVE ServicesSpec => []ChargedOnce
<1>1. CheckoutP!ChargedOnce => ChargedOnce
  BY DEF ChargedOnce, Checkout!ChargedOnce, CheckoutP!ChargedOnce
<1>2. NoReservation \notin Reservations
  BY DEF ServiceConstants
<1>3. QED BY <1>1, <1>2, CheckoutBehaves, CheckoutP!ChargedOnceCorrect, PTL

\* The first payment of a reservation is for the zone and quantity reserved.
THEOREM ChargedAsReservedInServices ==
    ASSUME ServiceConstants PROVE ServicesSpec => []ChargedAsReserved
<1>1. CheckoutP!ChargedAsReserved => ChargedAsReserved
  BY DEF ChargedAsReserved, Checkout!ChargedAsReserved, CheckoutP!ChargedAsReserved
<1>2. NoReservation \notin Reservations
  BY DEF ServiceConstants
<1>3. QED BY <1>1, <1>2, CheckoutBehaves, CheckoutP!ChargedAsReservedCorrect, PTL

\* A reservation that was cancelled is not offered again, unless an extension that
\* had read it before wrote it PENDING.
THEOREM CancelledNotOfferedInServices ==
    ASSUME ServiceConstants PROVE ServicesSpec => []CancelledNotOffered
<1>1. CheckoutP!CancelledNotOffered => CancelledNotOffered
  BY DEF CancelledNotOffered, Checkout!Shown, CheckoutP!Shown,
     Checkout!CancelledNotOffered, CheckoutP!CancelledNotOffered
<1>2. NoReservation \notin Reservations
  BY DEF ServiceConstants
<1>3. QED BY <1>1, <1>2, CheckoutBehaves, CheckoutP!CancelledNotOfferedCorrect, PTL


-----------------------------------------------------------------------------
(* Types.                                                                  *)

LEMMA SupportBehaves == ServicesSpec => Spec
<1>1. ServicesInit => Init
  BY DEF ServicesInit
<1>2. [ServicesNext]_servicesVars => [Next]_vars
  BY DEF ServicesNext, servicesVars
<1>3. QED BY <1>1, <1>2, PTL DEF ServicesSpec, Spec

LEMMA SessionBehaves == ServicesSpec => SessionSpec
<1>1. ServicesInit => SessionInit
  BY DEF ServicesInit
<1>2. [ServicesNext]_servicesVars => [SessionNext]_sessionVars
  BY DEF ServicesNext, servicesVars
<1>3. QED BY <1>1, <1>2, PTL DEF ServicesSpec, SessionSpec

\* The tables, the calls in progress, the pages and the localStorage keep their
\* types.
THEOREM TypesCorrect == ASSUME ServiceConstants PROVE ServicesSpec => []TypesOK
<1>1. /\ PostConstants /\ SessionConstants /\ CatalogueP!ZoneConstants
      /\ NoReservation \notin Reservations
  BY DEF ServiceConstants, Catalogue!ZoneConstants, CatalogueP!ZoneConstants
<1>2. ServicesInit => scene \in Scenes
  BY DEF ServicesInit
<1>3. scene \in Scenes /\ [ServicesNext]_servicesVars => (scene \in Scenes)'
  BY DEF ServicesNext, servicesVars
<1>4. /\ scene \in Scenes /\ TypeOK /\ SessionTypeOK
      /\ CatalogueP!TypeOK /\ PageP!TypeOK /\ CheckoutP!TypeOK
      => TypesOK
  BY SameCatalogueTypes, SamePageTypes, SameCheckoutTypes DEF TypesOK, Scenes
<1>5. QED
  BY <1>1, <1>2, <1>3, <1>4, SupportBehaves, SessionBehaves, CatalogueBehaves, PageBehaves,
     CheckoutBehaves, SupportTypeCorrect, SessionTypeCorrect, CatalogueP!ZoneTypeCorrect,
     PageP!PageTypeCorrect, CheckoutP!CheckoutTypeCorrect, PTL DEF ServicesSpec

=============================================================================
