--------------------------- MODULE MCWaitingQueue ---------------------------
(* Instances of WaitingQueue for TLC.                                      *)
EXTENDS WaitingQueue, TLC

CONSTANTS cron, expiry, r1, r2

MCAdmitters == {cron, expiry}
MCCron == {cron}
MCOneRequest == {r1}
MCTwoRequests == {r1, r2}
RequestSymmetry == Permutations(MCTwoRequests)
=============================================================================
