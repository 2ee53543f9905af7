------------------------------ MODULE Services ------------------------------
(***************************************************************************)
(* The five components that share no state with each other: support posts, *)
(* sessions, concerts and zones, the administrator's page, and the pages   *)
(* for paying and cancelling.  A behaviour is a behaviour of one of them,  *)
(* the scene; the others stay in their initial states.                     *)
(***************************************************************************)
EXTENDS SupportPosts, Sessions, Integers

CONSTANTS
    Concerts, Zones, ConcertOf, Quantities,   \* the catalogue
    PageConcerts, NoConcert, NoZone,          \* the administrator's page
    Reservations, NoReservation               \* paying and cancelling

VARIABLES
    scene,
    zoneConcert, zoneRow, total, remain, stock, keys, zoneReq, sold, clash,
    concertRow, pageReq, selected, panel, loading, modal, saving, zoneModal, zoneSaving,
    deleteTarget, deletingConcert, mixed,
    row, admitted, revived, charged, payReq, page, checkout, mine, crossed

zoneVars == <<zoneConcert, zoneRow, total, remain, stock, keys, zoneReq, sold, clash>>
pageVars == <<concertRow, pageReq, selected, panel, loading, modal, saving, zoneModal,
              zoneSaving, deleteTarget, deletingConcert, mixed>>
checkoutVars == <<row, admitted, revived, charged, payReq, page, checkout, mine, crossed>>

-----------------------------------------------------------------------------
Catalogue == INSTANCE ConcertZones WITH concertRow <- zoneConcert, req <- zoneReq

Page == INSTANCE AdminPage WITH
    Concerts <- PageConcerts, req <- pageReq, target <- deleteTarget, deleting <- deletingConcert

Checkout == INSTANCE CheckoutPage WITH req <- payReq

ServiceConstants ==
    /\ PostConstants
    /\ SessionConstants
    /\ Catalogue!ZoneConstants
    /\ NoReservation \notin Reservations

Scenes == {"support", "session", "catalogue", "page", "checkout"}

ServicesInit ==
    /\ scene \in Scenes
    /\ Init /\ SessionInit /\ Catalogue!Init /\ Page!Init /\ Checkout!Init

ServicesNext ==
    /\ UNCHANGED scene
    /\ \/ /\ scene = "support" /\ Next
          /\ UNCHANGED <<sessionVars, zoneVars, pageVars, checkoutVars>>
       \/ /\ scene = "session" /\ SessionNext
          /\ UNCHANGED <<vars, zoneVars, pageVars, checkoutVars>>
       \/ /\ scene = "catalogue" /\ Catalogue!Next
          /\ UNCHANGED <<vars, sessionVars, pageVars, checkoutVars>>
       \/ /\ scene = "page" /\ Page!Next
          /\ UNCHANGED <<vars, sessionVars, zoneVars, checkoutVars>>
       \/ /\ scene = "checkout" /\ Checkout!Next
          /\ UNCHANGED <<vars, sessionVars, zoneVars, pageVars>>

servicesVars == <<scene, vars, sessionVars, zoneVars, pageVars, checkoutVars>>

\* The calls of the support pages run; in the other scenes there is none.
ServicesSpec == ServicesInit /\ [][ServicesNext]_servicesVars /\ Fairness

-----------------------------------------------------------------------------
(* The properties of the modules that are instances.                       *)

\* Every variable of the five components has its type: their tables, the calls
\* in progress, and what the pages and the localStorage hold.
TypesOK ==
    CASE scene = "support" -> TypeOK
      [] scene = "session" -> SessionTypeOK
      [] scene = "catalogue" -> Catalogue!TypeOK
      [] scene = "page" -> Page!TypeOK
      [] scene = "checkout" -> Checkout!TypeOK

\* The seats that were sold stay out of a zone's stock when its total changes.
SoldSeatsStayOut == Catalogue!SoldSeatsStayOut

\* remainQuantity is never below the seats that can still be taken.
RemainCoversStock == Catalogue!RemainCoversStock

\* No concert is saved twice by closing the form and opening it again.
SavingIsOneCall == Page!SavingIsOneCall

\* The panel shows the zones of the selected concert.
PanelShowsSelected == Page!PanelShowsSelected

\* One deletion is under way at a time, and a failure gives the button back.
OneDeletionAtATime == Page!OneDeletionAtATime

\* No reservation is charged twice.
ChargedOnce == Checkout!ChargedOnce

\* The first payment asked for is for what was reserved.
ChargedAsReserved == Checkout!ChargedAsReserved

\* A cancelled reservation is not offered again, unless an extension revived it.
CancelledNotOffered == Checkout!CancelledNotOffered

=============================================================================
