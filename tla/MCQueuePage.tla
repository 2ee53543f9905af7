---------------------------- MODULE MCQueuePage ----------------------------
(* Instances of QueuePage for TLC.                                         *)
EXTENDS QueuePage, TLC

CONSTANTS cron, r1, r2

MCAdmitters == {cron}
MCOneRequest == {r1}
MCTwoRequests == {r1, r2}

RequestSymmetry == Permutations(MCTwoRequests)
=============================================================================
