------------------------------ MODULE Reports ------------------------------
(***************************************************************************)
(* What the report pages compute from the serials, the stock ledger and    *)
(* the newest audit findings (services/expiry.py, stock_movement.py,       *)
(* director_reports.py, losses.py).                                        *)
(*                                                                         *)
(* The stock side is any history of sales, returns, issues, moves,         *)
(* replaced labels, findings and days: the pages are operators over what   *)
(* it leaves behind, each as one consistent read.  Days and thresholds are *)
(* those of the code with its default settings; quotients are exact.  A    *)
(* label is inactive when it is INVALID, and only then.                    *)
(***************************************************************************)
EXTENDS Integers, Sequences, FiniteSets, FiniteSetsExt

CONSTANTS
    Products,    \* all active and created on day 0
    Warehouses,  \* each of a warehouse level of its own
    Expiries,    \* expiry dates, as days
    Deliveries,  \* BOUND: what was bought, sequences of [product, expiry, at]
    Handled,     \* BOUND: serials somebody moves, relabels or looks for
    Dates,       \* BOUND: the days on which somebody works or reads a page
    MaxMoves,    \* BOUND: rows of the ledger
    None

VARIABLES
    day,
    rows,      \* serials, in the order of creation
    ledger     \* inventory_transactions that move a unit in or out

vars == <<day, rows, ledger>>

Init ==
    /\ day = 0 /\ ledger = <<>>
    /\ \E d \in Deliveries :
         rows = [r \in DOMAIN d |-> [product |-> d[r].product, expiry |-> d[r].expiry, at |-> d[r].at,
                                     status |-> "IN_STOCK", missing |-> FALSE]]

-----------------------------------------------------------------------------
(* What happens to the stock.                                              *)
Entry(type, r, to, reason) ==
    [type |-> type, row |-> r, to |-> to, reason |-> reason, day |-> day]

Reshelved(reason) == "IN_STOCK"            \* variant: damaged goods go back to the shelf
Returned(reason)  == IF reason \in {"DAMAGED", "EXPIRED"} THEN "DAMAGED" ELSE "IN_STOCK"

Trade(type, r, from, status, to, reason) ==
    /\ rows[r].status = from /\ Len(ledger) < MaxMoves
    /\ rows' = [rows EXCEPT ![r].status = status]
    /\ ledger' = Append(ledger, Entry(type, r, to, reason))
    /\ UNCHANGED day

Sell(r) == Trade("SALE", r, "IN_STOCK", "SOLD", "SOLD", None)
ReturnSale(r, reason) ==
    LET to == IF reason \in {"DAMAGED", "EXPIRED"} THEN "DAMAGED" ELSE "IN_STOCK"
    IN Trade("SALES_RETURN", r, "SOLD", Returned(reason), to, reason)
Issue(r, reason) == Trade("ISSUE", r, "IN_STOCK", "ISSUED", "ISSUED", reason)

Move(r, to) ==
    /\ rows[r].status = "IN_STOCK"
    /\ rows' = [rows EXCEPT ![r].at = to]
    /\ UNCHANGED <<day, ledger>>

Replace(r) ==
    /\ rows[r].status \in {"IN_STOCK", "DAMAGED"}
    /\ rows' = Append([rows EXCEPT ![r].status = "INVALID"],
                      [rows[r] EXCEPT !.status = "IN_STOCK", !.missing = FALSE])
    /\ UNCHANGED <<day, ledger>>

(* An audit finds a unit, or does not.                                     *)
Find(r, missing) ==
    /\ rows[r].status = "IN_STOCK"
    /\ rows' = [rows EXCEPT ![r].missing = missing]
    /\ UNCHANGED <<day, ledger>>

Pass(d) == d > day /\ day' = d /\ UNCHANGED <<rows, ledger>>

Next ==
    \/ \E r \in DOMAIN rows :
         \/ Sell(r)
         \/ \E reason \in {"DAMAGED", "CUSTOMER"} : ReturnSale(r, reason)
         \/ \E reason \in {"THEFT", "SAMPLE"} : Issue(r, reason)
    \/ \E r \in Handled :
         \/ Replace(r)
         \/ \E to \in Warehouses : Move(r, to)
         \/ \E missing \in BOOLEAN : Find(r, missing)
    \/ \E d \in Dates : Pass(d)

Spec == Init /\ [][Next]_vars

-----------------------------------------------------------------------------
(* stock_serials, and the same condition in the other modules.             *)
Stock == {r \in DOMAIN rows : rows[r].status \in {"IN_STOCK", "RETURNED"}}
Of(S, p) == {r \in S : rows[r].product = p}
Greater(a, b) == IF a >= b THEN a ELSE b
Sales(p, from) ==
    {k \in DOMAIN ledger : /\ ledger[k].type = "SALE" /\ ledger[k].to = "SOLD"
                           /\ rows[ledger[k].row].product = p /\ ledger[k].day >= from}

-----------------------------------------------------------------------------
(* services/expiry.py.                                                     *)
ExpiryBatch(r) == [product |-> rows[r].product, expiry |-> rows[r].expiry, at |-> rows[r].at]
Before(S, horizon) == {r \in S : rows[r].expiry # None /\ rows[r].expiry <= day + horizon}
ExpiryBatchRows(S, horizon) == {ExpiryBatch(r) : r \in Before(S, horizon)}
Qty(S, b) == Cardinality({r \in S : ExpiryBatch(r) = b})
DaysLeft(b) == b.expiry - day

(* sales_velocity_by_product: a third of the sales of 90 days and today.   *)
Velocity(p)  == Cardinality(Sales(p, day - 90))
Unclamped(b)      == (Velocity(b.product) * DaysLeft(b)) \div 90      \* variant: expired ones
ExpectedSales(b)  == (Velocity(b.product) * Greater(DaysLeft(b), 0)) \div 90
UnsoldStock(S, b) == Greater(Qty(S, b) - ExpectedSales(b), 0)
ExpiryRiskRows(S) == {b \in ExpiryBatchRows(S, 365) : UnsoldStock(S, b) > 0 \/ DaysLeft(b) <= 90}
HighRisk(S, b) == DaysLeft(b) <= 30 \/ 100 * UnsoldStock(S, b) >= 65 * Qty(S, b)

DaysSince(p) ==
    IF Sales(p, 0) = {} THEN day ELSE day - Max({ledger[k].day : k \in Sales(p, 0)})
SleepingRows(S) == {p \in Products : Of(S, p) # {} /\ DaysSince(p) >= 30}
DeadFrom90(days) == days > 90              \* variant: an off-by-one at the threshold
DeadFrom(days)   == days >= 90
Sleeping(p) == IF DeadFrom(DaysSince(p)) THEN "Dead Stock"
               ELSE IF DaysSince(p) >= 60 THEN "Slow Moving" ELSE "Watch"

HeatmapQty(S, w) ==
    SumFunction([b \in {x \in ExpiryBatchRows(S, 90) : x.at = w} |-> Qty(S, b)])

-----------------------------------------------------------------------------
(* services/stock_movement.py: a row for each product and warehouse with   *)
(* stock or sales; a sale counts where its serial is now.                  *)
Key(r) == [product |-> rows[r].product, at |-> rows[r].at]
ExpiryMatches(r, period) ==
    LET e == rows[r].expiry IN
    CASE period = "any"     -> TRUE
      [] period = "none"    -> e = None
      [] period = "expired" -> e # None /\ e < day
      [] OTHER              -> e # None /\ day <= e /\ e <= day + 365

SoldIn(k, from) ==
    Cardinality({n \in DOMAIN ledger : /\ ledger[n].type = "SALE" /\ ledger[n].to = "SOLD"
                                       /\ Key(ledger[n].row) = k /\ ledger[n].day >= from})
UnitsSold(k) == SoldIn(k, day - 89)
GroupStock(S, k) == Cardinality({r \in S : Key(r) = k})
MovementRows(S) == {Key(r) : r \in S} \cup {Key(ledger[n].row) : n \in {m \in DOMAIN ledger :
                        ledger[m].type = "SALE" /\ ledger[m].day >= day - 89}}
CurrentStock(S, period) ==
    LET matching == {r \in S : ExpiryMatches(r, period)}
    IN SumFunction([k \in MovementRows(matching) |-> GroupStock(matching, k)])

MovementStatus(stock, sold) ==
    IF stock = 0 /\ sold > 0               THEN "Fast Moving"
    ELSE IF sold = 0 \/ 10 * sold < stock THEN "Dead Stock"
    ELSE IF 10 * sold < 4 * stock         THEN "Slow Moving"
    ELSE IF 10 * sold <= 8 * stock        THEN "Medium Moving"
    ELSE "Fast Moving"

(* _expiry_projection: what expires up to each date, less what is sold by  *)
(* then; the worst of them.                                                *)
ThisDateOnly(S, k, e) == Cardinality({r \in S : Key(r) = k /\ rows[r].expiry = e})   \* variant
Cumulative(S, k, e) ==
    Cardinality({r \in S : Key(r) = k /\ rows[r].expiry # None /\ rows[r].expiry <= e})
ProjectedSales(k, e) == (UnitsSold(k) * Greater(e - day, 0)) \div 90
EstimatedUnsold(S, k) ==
    Max({0} \cup {Cumulative(S, k, e) - ProjectedSales(k, e) :
                    e \in {rows[r].expiry : r \in {x \in S : Key(x) = k}} \ {None}})

(* product_inventory_metrics.                                              *)
RowsOf(S, p) == {k \in MovementRows(S) : k.product = p}
SystemStock(S, p) == SumFunction([k \in RowsOf(S, p) |-> GroupStock(S, k)])
SoldOf(S, p) == SumFunction([k \in RowsOf(S, p) |-> UnitsSold(k)])
EverMissing(S)  == {r \in DOMAIN rows : rows[r].missing}        \* variant: sold ones too
CurrentMissing(S) == {r \in S : rows[r].missing}
AvailableStock(S, p) == Greater(SystemStock(S, p) - Cardinality(Of(CurrentMissing(S), p)), 0)
DaysRemaining(available, sold) == Greater(1, (90 * available + sold - 1) \div sold)

-----------------------------------------------------------------------------
(* services/director_reports.py.                                           *)
TotalStock(S) == Cardinality(S)
ProductRow(S, p) == Cardinality(Of(S, p))
AllRows(S, w) == {r \in DOMAIN rows : rows[r].at = w /\ rows[r].status # "SOLD"}     \* variant
WarehouseRow(S, w) == {r \in S : rows[r].at = w}
ExpiringToday(S, w) == {r \in S : rows[r].at = w /\ rows[r].expiry # None
                                  /\ rows[r].expiry < day + 30}                    \* variant
ExpiringSoon(S, w) == {r \in S : rows[r].at = w /\ rows[r].expiry # None
                                 /\ rows[r].expiry <= day + 30}

(* services/losses.py.                                                     *)
LossFactors == {"TRANSPORTATION", "THEFT", "OTHER"}
Aliases     == {"DAMAGE", "DAMAGED", "EXPIRED"}
EveryIssue(e) == e.type = "ISSUE" \/ (e.to = "DAMAGED" /\ e.reason \in Aliases)    \* variant
IsLoss(e) == \/ e.type = "ISSUE" /\ e.reason \in LossFactors \cup Aliases
             \/ e.to = "DAMAGED" /\ e.reason \in Aliases
LossQuantity == Cardinality({n \in DOMAIN ledger : IsLoss(ledger[n])})

-----------------------------------------------------------------------------
(* Properties.                                                             *)

LastOf(r) == CHOOSE n \in DOMAIN ledger :
                /\ ledger[n].row = r
                /\ \A m \in DOMAIN ledger : ledger[m].row = r => m <= n
Moved(r) == \E n \in DOMAIN ledger : ledger[n].row = r

(* Types; a serial has the status its last row of the ledger gave it.      *)
TypeOK ==
    /\ day \in Dates \cup {0}
    /\ rows \in Seq([product : Products, expiry : Expiries \cup {None}, at : Warehouses,
                     missing : BOOLEAN,
                     status : {"IN_STOCK", "SOLD", "DAMAGED", "ISSUED", "INVALID"}])
    /\ \A r \in DOMAIN rows : Moved(r) /\ rows[r].status # "INVALID"
          => rows[r].status = ledger[LastOf(r)].to

(* The stock of the movement report (whole, or as the three expiry filters *)
(* cut it up), of the director's totals, product rows and warehouse rows   *)
(* is one number.                                                          *)
StockAgrees ==
    LET S == Stock
    IN /\ CurrentStock(S, "any") = TotalStock(S)
       /\ (\A r \in S : rows[r].expiry = None \/ rows[r].expiry <= day + 365)
            => TotalStock(S) = CurrentStock(S, "none") + CurrentStock(S, "expired")
                               + CurrentStock(S, "365")
       /\ TotalStock(S) = SumFunction([p \in Products |-> ProductRow(S, p)])
       /\ TotalStock(S) =
            SumFunction([w \in Warehouses |-> Cardinality(WarehouseRow(S, w))])

(* The director's "expiring soon" are the units of the expiry page's rows  *)
(* of 30 days, with those already expired, and the heatmap has those of 90. *)
ExpiringAgrees ==
    LET S == Stock IN
    \A w \in Warehouses :
        /\ Cardinality(ExpiringSoon(S, w)) =
             SumFunction([b \in {x \in ExpiryBatchRows(S, 30) : x.at = w} |-> Qty(S, b)])
        /\ HeatmapQty(S, w) = Cardinality({r \in WarehouseRow(S, w) :
                                   rows[r].expiry # None /\ rows[r].expiry - day <= 90})

(* Dead stock on the expiry page is dead stock in every row of the movement *)
(* report; and a product of at least 90 days that has not sold in the      *)
(* window of that report is dead stock on the expiry page.                 *)
DeadAgrees ==
    LET S == Stock
        dead == {p \in SleepingRows(S) : Sleeping(p) = "Dead Stock"}
    IN /\ \A p \in dead : \A k \in RowsOf(S, p) :
             MovementStatus(GroupStock(S, k), UnitsSold(k)) = "Dead Stock"
       /\ \A p \in Products : /\ Of(S, p) # {} /\ day >= 90
                              /\ \A k \in RowsOf(S, p) : UnitsSold(k) = 0
                              => p \in dead

(* The units the movement report expects to lose are exactly those that no *)
(* order of selling, at the pace of the report, sells before they expire.  *)
Saved(S, k) ==
    {T \in SUBSET {r \in S : Key(r) = k /\ rows[r].expiry # None} :
        \A e \in Expiries : Cardinality({r \in T : rows[r].expiry <= e}) <= ProjectedSales(k, e)}
ProjectionIsExact ==
    LET S == Stock IN
    \A k \in MovementRows(S) :
        LET dated == {r \in S : Key(r) = k /\ rows[r].expiry # None}
        IN EstimatedUnsold(S, k) =
             Cardinality(dated) - Max({Cardinality(T) : T \in Saved(S, k)})

(* The expiry page, which gives each of its rows all the sales of the      *)
(* product, never expects to lose more of a row than the movement report   *)
(* expects of the whole product in that warehouse; and what it calls a     *)
(* high risk for the units left over, the movement report does too.        *)
PageIsMilder ==
    LET S == Stock IN
    \A b \in ExpiryRiskRows(S) :
        LET k == [product |-> b.product, at |-> b.at] IN
        /\ UnsoldStock(S, b) <= EstimatedUnsold(S, k)
        /\ HighRisk(S, b) /\ DaysLeft(b) > 30 => EstimatedUnsold(S, k) > 0

(* "physically available stock" (stock_movement.py:407) counts each unit   *)
(* in stock that the newest audit of it did not miss, sold, returned, moved *)
(* and relabelled as it may be; it lasts for the days the page says and    *)
(* not a day less.                                                         *)
AvailableIsOnHand ==
    LET S == Stock IN
    \A p \in Products :
        LET available == AvailableStock(S, p)  sold == SoldOf(S, p)  n == DaysRemaining(available, sold)
        IN /\ available = Cardinality({r \in Of(S, p) : ~rows[r].missing})
           /\ sold > 0 /\ available > 0 =>
                n * sold >= 90 * available /\ (n = 1 \/ (n - 1) * sold < 90 * available)

(* A loss is one unit: the losses reported are the serials issued for a    *)
(* loss reason and those that came back damaged, relabelled since or not.  *)
LossesAreUnits ==
    LossQuantity = Cardinality({r \in DOMAIN rows : Moved(r) /\
        LET e == ledger[LastOf(r)]
        IN e.to = "DAMAGED" \/ (e.to = "ISSUED" /\ e.reason \in LossFactors \cup Aliases)})

(* What the pages say about the same stock is the same, and what it is.    *)
PagesAgree ==
    /\ StockAgrees /\ ExpiringAgrees /\ DeadAgrees /\ PageIsMilder
    /\ AvailableIsOnHand /\ LossesAreUnits
=============================================================================
