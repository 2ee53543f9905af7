----------------------------- MODULE MCServices -----------------------------
(***************************************************************************)
(* An instance of Services for TLC.                                        *)
(***************************************************************************)
EXTENDS Services, TLC

CONSTANTS
    t1, t2, call1, call2, call3,     \* the tabs and their calls
    c1, z1                           \* a concert and its zone

\* Two calls of one tab and one of another, in which the user logs in and out.
MCTabOf == call1 :> t1 @@ call2 :> t1 @@ call3 :> t2

MCConcertOf == z1 :> c1

ASSUME MCServiceConstants == ServiceConstants

=============================================================================
