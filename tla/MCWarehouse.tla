---------------------------- MODULE MCWarehouse ----------------------------
(* Warehouse on a small instance: two clerks and two labels; an auditor    *)
(* and a manager; three units of two products in two warehouses.           *)
EXTENDS Warehouse, TLC

CONSTANTS l1, l2, c1, c2, d1, s1, s2, auditor, manager, p, q, w1, w2

Interchangeable == Permutations(Clerks)

Unit(product, expiry, at) == [product |-> product, expiry |-> expiry, at |-> at]
Orders == {<<Unit(p, 120, w1), Unit(p, 190, w1), Unit(p, 190, w2)>>,
           <<Unit(p, 190, w1), Unit(p, 120, w1), Unit(q, None, w1)>>,
           <<Unit(p, None, w2), Unit(p, 120, w1), Unit(p, 120, w1)>>}

(* The parts that rest do so in one state.                                 *)
MCInit == WarehouseInit /\ (part # "audits" => stock = {})
MCSpec == MCInit /\ [][WarehouseNext]_every
=============================================================================
