----------------------------- MODULE MCSubmits -----------------------------
(* Submits on a small instance: two clerks with a purchase, a sale and a   *)
(* return of one serial; one request thread and a worker started twice.    *)
EXTENDS Submits, TLC

CONSTANTS b1, b2, b3, c1, c2, s1, t1, t2

Lifecycle == b1 :> "PURCHASE" @@ b2 :> "SALE" @@ b3 :> "SALES_RETURN"
=============================================================================
