--------------------------- MODULE MCRetryWorker ---------------------------
(* RetryWorker on small instances.                                         *)
EXTENDS RetryWorker

CONSTANTS r1, r2, t1, t2
=============================================================================
