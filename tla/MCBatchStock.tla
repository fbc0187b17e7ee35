---------------------------- MODULE MCBatchStock ----------------------------
(* BatchStock with a scan that overlaps a submit.                          *)
EXTENDS BatchStock, TLC

CONSTANTS b2, c1, c2, s1

OneSale == b2 :> "SALE"

(* "Submitted sale serials become `SOLD`" (user-manual.md:126): no serial  *)
(* of a submitted sale has been left where it was.                         *)
SubmittedBecomesSold ==
    \A b \in Batches : TypeOf[b] = "SALE" /\ status[b] = "SUBMITTED" => items[b] \subseteq Moved(b)
=============================================================================
