----------------------------- MODULE Warehouse -----------------------------
(***************************************************************************)
(* The warehouse: the labels of its units (QrLabels), the audits of its    *)
(* stock (Audit) and the pages about it (Reports).  They share no state    *)
(* here, so `part` chooses the one that moves, and the others rest.        *)
(***************************************************************************)
EXTENDS QrLabels, Integers

CONSTANTS
    Serials, MaxAssignments, Auditors, Managers, MaxTime, MaxBatches,   \* see Audit
    Products, Warehouses, Expiries, Deliveries, Handled, Dates,         \* see Reports
    MaxEntries                                                          \* its MaxMoves

VARIABLES now, stock, asg, batches, items, findings, audit, outdated
auditVars == <<now, stock, asg, batches, items, findings, audit, outdated>>
A == INSTANCE Audit WITH reports <- findings, req <- audit,
                         Assignments <- 1..MaxAssignments

VARIABLES day, units, ledger
reportVars == <<day, units, ledger>>
R == INSTANCE Reports WITH rows <- units, MaxMoves <- MaxEntries

(* A column that is NULL has no value.                                     *)
Windows == [starts : A!Times, ends : A!Times, expected : SUBSET Serials]
ASSUME AuditAssumption ==
    /\ {MaxAssignments, MaxTime, MaxBatches} \subseteq Nat
    /\ None \notin Windows \cup A!Findings

Bought == [product : Products, expiry : Expiries \cup {None}, at : Warehouses]
ASSUME DeliveryAssumption ==
    /\ Deliveries \subseteq Seq(Bought)
    /\ \A d \in Deliveries : Handled \subseteq DOMAIN d

(* A day is a number, and a table has finitely many rows.                  *)
ASSUME PageAssumption ==
    /\ Dates \subseteq Nat /\ Expiries \subseteq Int /\ None \notin Int
    /\ IsFiniteSet(Products) /\ IsFiniteSet(Warehouses)

VARIABLE part
every == <<vars, auditVars, reportVars, part>>

WarehouseInit ==
    /\ Init /\ A!Init
    /\ day = 0 /\ ledger = <<>>
    /\ \/ part = "labels"  /\ units = <<>>
       \/ part = "audits"  /\ units = <<>>
       \/ part = "reports" /\ R!Init
WarehouseNext ==
    /\ \/ part = "labels"  /\ Next   /\ UNCHANGED <<auditVars, reportVars>>
       \/ part = "audits"  /\ A!Next /\ UNCHANGED <<vars, reportVars>>
       \/ part = "reports" /\ R!Next /\ UNCHANGED <<vars, auditVars>>
    /\ UNCHANGED part
WarehouseSpec == WarehouseInit /\ [][WarehouseNext]_every

-----------------------------------------------------------------------------
(* The types of each part: its rows and requests refer to rows that exist.  *)
Types == TypeOK /\ A!TypeOK /\ R!TypeOK
(* Audit: the findings are complete, of one reconciliation, and true.      *)
FindingsTrue == A!FindingsTrue
(* Audit: after a report page nothing that is over is left open.           *)
ExpiredIsComplete == A!ExpiredIsComplete

(* Reports: the pages agree with each other and with the stock.            *)
PagesAgree == part = "reports" => R!PagesAgree
(* Reports: the projection is what the best order of selling leaves over.  *)
ProjectionIsExact == part = "reports" => R!ProjectionIsExact
=============================================================================
