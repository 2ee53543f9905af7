------------------------- MODULE MCSeatReservation -------------------------
(* Instances of SeatReservation for TLC: the users' requests.              *)
EXTENDS SeatReservation, TLC

CONSTANTS alice, z1, a1, a2, h1, h2, worker

MCUsers == {alice}
MCZones == {z1}

\* Alice asks for two of the three seats, and then for two again.
MCReservations == {a1, a2}
MCOneReservation == {a1}
MCOwner == [r \in Reservations |-> alice]
MCZone == [r \in Reservations |-> z1]
MCQty == [r \in Reservations |-> 2]
MCTotal == [z \in Zones |-> 3]

MCOneHandler == {h1}
MCTwoHandlers == {h1, h2}
=============================================================================
