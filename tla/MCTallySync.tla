---------------------------- MODULE MCTallySync ----------------------------
(* TallySync on small instances, and what a comment of the program says    *)
(* that it does not do.                                                    *)
EXTENDS TallySync

CONSTANTS b1, c1, c2, l1, l2, w1, w2, u1

(* "Tally confirmed that this payload was rejected, so the next attempt    *)
(* must use current settings" (sync_worker.py:230): a batch shown as FAILED *)
(* has no voucher in Tally, and none on its way, that the next payload     *)
(* could double.                                                           *)
FailedWasRejected ==
    \A b \in Batches : status[b] = "FAILED" => Reachable(b) = {}
=============================================================================
