------------------------------ MODULE MCTrade ------------------------------
(* Trade on a small instance: one clerk and a unit that is sold, returned  *)
(* and sold again; two clerks who price a batch; two accounts.             *)
EXTENDS Trade, TLC

CONSTANTS b1, b2, b3, b4, c1, c2, s1, d1, d2, p, q, super, admin, k1, k2

Resale == b1 :> "PURCHASE" @@ b2 :> "SALE" @@ b3 :> "SALES_RETURN" @@ b4 :> "SALE"

Alike == Permutations(Threads)

Deal(type, of) ==
    [type |-> type, of |-> of, inter |-> FALSE, cgst |-> None, sgst |-> None, igst |-> None]
Same == 1 :> p @@ 2 :> p
Both == 1 :> p @@ 2 :> q
Scanned ==
    {Deal("SALE", Both), Deal("PURCHASE", Same), [Deal("SALE", Both) EXCEPT !.inter = TRUE],
     [Deal("SALES_RETURN", Same) EXCEPT !.cgst = 200, !.sgst = 300]}

Pricing(default, discount, gst) == [default |-> default, discount |-> discount, gst |-> gst]
Old == p :> Pricing(3333, 1000, 500) @@ q :> Pricing(3333, 0, 500)
New == p :> Pricing(0, 0, 25) @@ q :> Pricing(3333, 333, 1200)
Priced_at == {Old, New}

(* The sides that rest do so in one state.                                 *)
MCInit ==
    /\ TradeInit
    /\ side # "money" => deal = Deal("SALE", Both) /\ product = Old
    /\ side # "stock" => stock = [x \in Serials |-> "IN_STOCK"]
MCSpec == MCInit /\ [][TradeNext]_every
=============================================================================
