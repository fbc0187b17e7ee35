------------------------------- MODULE Trade -------------------------------
(***************************************************************************)
(* The stock side and the money side of batches, BatchStock and Voucher,   *)
(* and the accounts of those who work, Accounts.  The code lets them meet  *)
(* only where Voucher and BatchStock say so; they share no state here, so  *)
(* `side` chooses the one that moves.                                      *)
(***************************************************************************)
EXTENDS BatchStock

CONSTANTS
    Threads,                                              \* request threads of the other two
    Items, Deals, Products, Catalogues, Rates, Mapped, WithIgst, Shared, Named,
    MaxEdits,                                             \* see Voucher
    Accounts, Supers, Admins, Companies                   \* see Accounts

Pricings == [default : Nat, discount : 0..10000, gst : Nat]
Rights   == [active : BOOLEAN, deleted : BOOLEAN]

(* Rates and prices are columns of numbers that are NULL or not; the forms *)
(* refuse a discount of more than 100 %.  A batch has finitely many items. *)
ASSUME MoneyAssumption ==
    /\ Rates \subseteq Nat /\ None \notin Nat
    /\ Catalogues \subseteq [Products -> Pricings]
    /\ IsFiniteSet(Items)
    /\ \A d \in Deals : /\ d.of \in [Items -> Products] /\ d.inter \in BOOLEAN
                         /\ {d.cgst, d.sgst, d.igst} \subseteq Nat \cup {None}

(* bootstrap.py creates the first super admin.                             *)
ASSUME PeopleAssumption ==
    /\ Supers # {} /\ Supers \subseteq Accounts /\ Admins \subseteq Accounts
    /\ None \notin Rights

VARIABLES deal, paid, product, rate, open, typed, crossed, edits, side
money == <<deal, paid, product, rate, open, typed, crossed, edits>>
V == INSTANCE Voucher WITH status <- paid, Clerks <- Threads

VARIABLES users, works, companies, access, granted, request, chosen, interfered
people == <<users, works, companies, access, granted, request, chosen, interfered>>
A == INSTANCE Accounts WITH config <- granted, req <- request, crossed <- interfered

TradeInit == Init /\ V!Init /\ A!Init /\ side \in {"stock", "money", "people"}
TradeNext ==
    /\ \/ side = "stock" /\ Next /\ UNCHANGED <<money, people>>
       \/ side = "money" /\ V!Next /\ UNCHANGED <<vars, people>>
       \/ side = "people" /\ A!Next /\ UNCHANGED <<vars, money>>
    /\ UNCHANGED side
every == <<vars, money, people, side>>
TradeSpec == TradeInit /\ [][TradeNext]_every

-----------------------------------------------------------------------------
(* Voucher: only overlapping requests lose a rate that a clerk typed.      *)
TypedRateKept == V!TypedRateKept
(* Voucher: XML, workbook and pre-invoice balance, agree, and charge the   *)
(* discounted prices.                                                      *)
SumsAgree == side = "money" => V!SumsAgree
(* Voucher: product edits do not reach a submitted batch.                  *)
ValuationKept == V!ValuationKept

(* Accounts: somebody who may manage accounts remains.                     *)
ManagerRemains == A!ManagerRemains
(* Accounts: an account sees what was chosen for it.                       *)
AccessAsChosen == A!AccessAsChosen
(* Accounts: a deleted account is not used again.                          *)
DeletedStaysOut == A!DeletedStaysOut
=============================================================================
