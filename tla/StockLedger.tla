---------------------------- MODULE StockLedger ----------------------------
(***************************************************************************)
(* What submitting batches promises about stock, without saying how: a     *)
(* batch moves some serials at once, each from a status the batch accepts, *)
(* and each move is entered in the serial's history with the status the    *)
(* serial really had.                                                      *)
(***************************************************************************)
EXTENDS Sequences

CONSTANTS Serials, Statuses,
          Moves         \* <<b, from, to>>: batch b may take a serial so

VARIABLES stock, ledger

Init ==
    /\ stock  \in [Serials -> Statuses]
    /\ ledger = [s \in Serials |-> <<>>]

(* Batch b moves the serials of S to the status to.                        *)
Move(b, to, S) ==
    /\ \A s \in S : <<b, stock[s], to>> \in Moves
    /\ stock'  = [s \in Serials |-> IF s \in S THEN to ELSE stock[s]]
    /\ ledger' = [s \in Serials |->
                    IF s \in S
                    THEN Append(ledger[s], [batch |-> b, from |-> stock[s], to |-> to])
                    ELSE ledger[s]]

Next == \E m \in Moves, S \in SUBSET Serials : Move(m[1], m[3], S)

Spec == Init /\ [][Next]_<<stock, ledger>>
=============================================================================
