---------------------------- MODULE VoucherOnce ----------------------------
(***************************************************************************)
(* What the synchronisation promises, without saying how: Tally gets one   *)
(* voucher of a batch, never a second or a changed one, and the program    *)
(* shows a batch as synced only when that voucher is there.                *)
(***************************************************************************)
CONSTANTS Batches, Payloads

VARIABLES vouchers,   \* the vouchers Tally holds of each batch
          confirmed   \* the batches shown as synced

Init ==
    /\ vouchers  = [b \in Batches |-> {}]
    /\ confirmed = {}

(* Tally imports a voucher of a batch it has nothing of.                   *)
Post(b, p) ==
    /\ vouchers[b] = {}
    /\ vouchers' = [vouchers EXCEPT ![b] = {p}]
    /\ UNCHANGED confirmed

(* The program learns that it did.                                         *)
Confirm(b) ==
    /\ vouchers[b] # {} /\ b \notin confirmed
    /\ confirmed' = confirmed \cup {b}
    /\ UNCHANGED vouchers

Next == \E b \in Batches : Confirm(b) \/ \E p \in Payloads : Post(b, p)

Spec == Init /\ [][Next]_<<vouchers, confirmed>>
=============================================================================
