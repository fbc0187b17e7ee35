---------------------------- MODULE MCTallyJobs ----------------------------
(* TallyQueues on a small instance: two request threads and overlapping    *)
(* ranges, or two threads of the request worker and three checks.          *)
EXTENDS TallyQueues

CONSTANTS v1, v2, u1, u2, w1, w2
=============================================================================
