----------------------------- MODULE SeatLedger -----------------------------
(***************************************************************************)
(* What the reservation service promises: a ledger of the seats of each    *)
(* zone.  Taking seats, giving them back and settling a reservation happen *)
(* in an order that keeps a paid reservation's seats and returns all       *)
(* others once, except for the reservations whose requests overlapped or   *)
(* failed: those are contested, and only the sum is kept for them.         *)
(* SeatReservation implements it with handlers, scripts and jobs.          *)
(***************************************************************************)
EXTENDS Integers

CONSTANTS
    Zones, Reservations,
    Zone, Qty,     \* the zone and the number of seats of each reservation
    Total          \* the number of seats of each zone

VARIABLES
    free,      \* the seats of each zone that can be taken
    held,      \* how many times each reservation's seats are taken
    status,    \* the status of each reservation
    contested  \* the reservations whose requests overlapped or failed

vars == <<free, held, status, contested>>

Final == {"CONFIRMED", "CANCELLED", "EXPIRED"}

Init ==
    /\ free = Total
    /\ held = [r \in Reservations |-> 0]
    /\ status = [r \in Reservations |-> "none"]
    /\ contested = {}

\* The entries of r: its seats leave the zone or come back.
Out(r) ==
    /\ free[Zone[r]] >= Qty[r]
    /\ free' = [free EXCEPT ![Zone[r]] = @ - Qty[r]]
    /\ held' = [held EXCEPT ![r] = @ + 1]

Back(r) ==
    /\ free' = [free EXCEPT ![Zone[r]] = @ + Qty[r]]
    /\ held' = [held EXCEPT ![r] = @ - 1]

Ask(r) ==
    /\ status[r] = "none"
    /\ status' = [status EXCEPT ![r] = "PENDING"]
    /\ UNCHANGED <<free, held, contested>>

Take(r) ==
    /\ status[r] = "PENDING" /\ held[r] = 0
    /\ Out(r)
    /\ UNCHANGED <<status, contested>>

\* Before or after the reservation is settled, but not if it is paid.
GiveBack(r) ==
    /\ status[r] # "CONFIRMED" /\ held[r] = 1
    /\ Back(r)
    /\ UNCHANGED <<status, contested>>

\* Only a reservation that holds its seats is paid.
Settle(r) ==
    /\ status[r] = "PENDING"
    /\ \E s \in Final :
         /\ s = "CONFIRMED" => held[r] = 1
         /\ status' = [status EXCEPT ![r] = s]
    /\ UNCHANGED <<free, held, contested>>

\* Requests overlap or fail.
Contest ==
    /\ contested' \in SUBSET Reservations /\ contested \subseteq contested'
    /\ UNCHANGED <<free, held, status>>

\* An entry or a change of status of a contested reservation.
Dispute(r) ==
    /\ r \in contested
    /\ \/ (Out(r) \/ Back(r)) /\ UNCHANGED status
       \/ /\ \E s \in Final \cup {"PENDING"} : status' = [status EXCEPT ![r] = s]
          /\ UNCHANGED <<free, held>>
    /\ UNCHANGED contested

Next ==
    \/ \E r \in Reservations : Ask(r) \/ Take(r) \/ GiveBack(r) \/ Settle(r) \/ Dispute(r)
    \/ Contest

Spec == Init /\ [][Next]_vars

=============================================================================
