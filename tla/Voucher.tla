------------------------------ MODULE Voucher ------------------------------
(* What a batch is worth and how that reaches the books: the rates clerks  *)
(* type on the items of a draft, the submit that fills in the rates nobody *)
(* typed, product edits, and the three papers made of the same batch: the  *)
(* Tally XML (tally.py), the Tally workbook (tally_excel.py) and the GST   *)
(* breakup of the pre-invoice (preinvoice.py).  Money is in paise, a tax   *)
(* or discount rate in hundredths of a percent; every item is one piece.   *)
(* A submit is also refused when a unit has moved meanwhile (BatchStock):  *)
(* here that is what refuses a second submit.                              *)
EXTENDS Integers, FiniteSets, Functions

CONSTANTS
    Items,      \* the items of the batch
    Deals,      \* the batches a clerk can fill: type, inter, cgst, sgst, igst, of
    Products,
    Catalogues, \* what the products can be: default rate, discount, gst
    Rates,      \* the rates a clerk or a product page can type
    Mapped,     \* the GST rates that sales_gst_ledger_mappings lists
    WithIgst,   \* those whose line names an IGST ledger
    Shared,     \* what all of those lines call by the same name
    Named,      \* the ledgers the settings name: purchase, cgst, sgst, round_off
    Clerks,
    MaxEdits,   \* bounds the product edits
    None

VARIABLES
    deal,       \* Batch: its type, treatment, the rates older ones have, its products
    status,     \* Batch.status
    product,    \* Product: default_rate, sales_discount_rate, gst_rate
    rate,       \* BatchItem.rate of each item
    open,       \* per clerk, what the request under way has read
    typed,      \* what was typed last for each item
    crossed,    \* the items that a request with an older view will not write right
    edits
vars == <<deal, status, product, rate, open, typed, crossed, edits>>

Taxes == {"cgst", "sgst", "igst"}

(* Decimal.quantize with ROUND_HALF_UP, for n / d not below zero.          *)
HalfUp(n, d) == (2 * n + d) \div (2 * d)
Or(value, other) == IF value # None THEN value ELSE other

Init ==
    /\ deal \in Deals
    /\ product \in Catalogues
    /\ status = "DRAFT"
    /\ rate = [i \in Items |-> None]
    /\ open = [c \in Clerks |-> None]
    /\ typed = [i \in Items |-> None]
    /\ crossed = {}
    /\ edits = 0

-----------------------------------------------------------------------------
(* Rates.                                                                  *)

(* A request for one item, or for all items of a product (batch_detail).   *)
OpenRate(c, S, r) ==
    /\ open[c] = None /\ status = "DRAFT"
    /\ open' = [open EXCEPT ![c] = [of |-> S, new |-> r, seen |-> [i \in S |-> rate[i]]]]
    /\ UNCHANGED <<deal, status, product, rate, typed, crossed, edits>>

(* The commit writes the items whose rate is not the one that was read;    *)
(* Blind are the items on which a request trusts what it has read.         *)
Written(c) ==
    [i \in Items |-> IF i \in open[c].of /\ open[c].seen[i] # open[c].new
                       THEN open[c].new ELSE rate[i]]
Blind(d) ==
    IF open[d] = None THEN {} ELSE {i \in open[d].of : open[d].seen[i] = open[d].new}
SetRate(c) ==
    /\ open[c] # None /\ open[c].new # None
    /\ rate' = Written(c)
    /\ typed' = [i \in Items |-> IF i \in open[c].of THEN open[c].new ELSE typed[i]]
    /\ crossed' = crossed \cup (open[c].of \cap UNION {Blind(d) : d \in Clerks \ {c}})
    /\ open' = [open EXCEPT ![c] = None]
    /\ UNCHANGED <<deal, status, product, edits>>

(* The submit reads the batch with its items and their products.           *)
OpenSubmit(c) ==
    /\ open[c] = None /\ status = "DRAFT"
    /\ open' = [open EXCEPT ![c] = [of |-> Items, new |-> None, seen |-> rate, at |-> product]]
    /\ UNCHANGED <<deal, status, product, rate, typed, crossed, edits>>

(* group.get("rate") or product.default_rate: a rate of zero counts as     *)
(* none.                                                                   *)
ChargedFor(stored, default) == IF stored \in {None, 0} THEN default ELSE stored
Charged(i) == ChargedFor(rate[i], product[deal.of[i]].default)

(* validate_priced_batch, then the default rate for the items without one. *)
KeptAsIs(c) == rate                     \* variant: the items are left as they are
WrittenBack(c) ==                       \* variant: every rate that was read is written
    [i \in Items |-> Or(open[c].seen[i], open[c].at[deal.of[i]].default)]
Filled(c) ==
    [i \in Items |-> IF open[c].seen[i] = None THEN open[c].at[deal.of[i]].default ELSE rate[i]]
Submit(c) ==
    /\ open[c] # None /\ open[c].new = None
    /\ open' = [open EXCEPT ![c] = None]
    /\ IF /\ status = "DRAFT"
          /\ \A i \in Items : ChargedFor(open[c].seen[i], open[c].at[deal.of[i]].default) > 0
         THEN /\ status' = "SUBMITTED"
              /\ rate' = Filled(c)
         ELSE UNCHANGED <<status, rate>>
    /\ UNCHANGED <<deal, product, typed, crossed, edits>>

(* A manager saves the prices and taxes of a product.                      *)
EditPricing(p, new) ==
    /\ new # product[p]
    /\ edits < MaxEdits /\ edits' = edits + 1
    /\ product' = [product EXCEPT ![p] = new]
    /\ UNCHANGED <<deal, status, rate, open, typed, crossed>>

Next ==
    \/ \E c \in Clerks :
          \/ \E i \in Items, r \in Rates : OpenRate(c, {i}, r)
          \/ \E p \in Products, r \in Rates : OpenRate(c, {i \in Items : deal.of[i] = p}, r)
          \/ SetRate(c) \/ OpenSubmit(c) \/ Submit(c)
    \/ \E p \in Products, k \in Catalogues : EditPricing(p, k[p])

Spec == Init /\ [][Next]_vars

-----------------------------------------------------------------------------
(* calculate_voucher_summary.                                              *)
SalesSide == deal.type \in {"SALE", "SALES_RETURN"}
Inter == SalesSide /\ deal.inter
Entered == SalesSide /\ ~Inter /\ (deal.cgst # None \/ deal.sgst # None)

(* One line for the items of one product at one rate.                      *)
Group(i) == <<deal.of[i], Or(rate[i], product[deal.of[i]].default)>>

GstOf(p) ==
    IF Inter THEN Or(deal.igst, p.gst)
    ELSE IF Entered THEN Or(deal.cgst, 0) + Or(deal.sgst, 0)
    ELSE p.gst
Exclusive(amount, gst) == amount        \* variant: the tax comes on top of the price
TaxableOf(amount, gst) == IF SalesSide THEN HalfUp(amount * 10000, 10000 + gst) ELSE amount
TaxOf(taxable, percent) == HalfUp(taxable * percent, 10000)

Line(g) ==
    LET goods == product[g[1]]
        gross == ChargedFor(g[2], goods.default) * Cardinality({i \in Items : Group(i) = g})
        amount == gross - (IF SalesSide THEN TaxOf(gross, goods.discount) ELSE 0)
        gst == GstOf(goods)
        taxable == TaxableOf(amount, gst)
        half == IF Inter THEN 0 ELSE TaxOf(taxable, HalfUp(gst, 2))
    IN  [of |-> g, gst |-> gst, amount |-> amount, taxable |-> taxable,
         cgst |-> half, sgst |-> half, igst |-> IF Inter THEN TaxOf(taxable, gst) ELSE 0]
Lines == {Line(Group(i)) : i \in Items}

Total(of, S) == SumFunction([l \in S |-> l[of]])
WithoutIgst(lines) ==                   \* variant: IGST is forgotten in the total
    Total("taxable", lines) + Total("cgst", lines) + Total("sgst", lines)
BeforeRoundOff(lines) == Total("taxable", lines) +
                  Total("cgst", lines) + Total("sgst", lines) + Total("igst", lines)
FinalValue(lines) == 100 * HalfUp(BeforeRoundOff(lines), 100)
RoundOff(lines) == FinalValue(lines) - BeforeRoundOff(lines)

-----------------------------------------------------------------------------
(* The postings: a positive amount is a credit.                            *)
Sign == IF deal.type = "SALE" THEN 1 ELSE -1
Posting(of, ledger, amount) == [of |-> of, ledger |-> ledger, amount |-> amount]
Party == <<"party", "batch", 0>>
MappedLedger(k, gst) ==
    IF k = "igst" /\ gst \notin WithIgst THEN None
    ELSE <<k, "mapping", IF k \in Shared THEN 0 ELSE gst>>
GlobalLedger(k, gst) == IF k \in Named THEN <<k, "settings", 0>> ELSE <<k, "default", gst>>

PartyPosting(lines) == Posting(<<"party">>, Party, -Sign * FinalValue(lines))
ItemPostings(lines, ledgerOf) ==
    {Posting(<<"line", l.of>>, ledgerOf[l], Sign * l.taxable) : l \in lines}
RoundOffPostings(lines) ==
    IF RoundOff(lines) = 0 THEN {}
    ELSE {Posting(<<"round_off">>, GlobalLedger("round_off", 0), Sign * RoundOff(lines))}
PurchaseTaxes(lines) ==
    {Posting(<<"tax", k>>, GlobalLedger(k, 0), -Total(k, lines))
        : k \in {t \in {"cgst", "sgst"} : Total(t, lines) > 0}}

(* build_voucher_xml: taxes are added up per rate, and a missing name      *)
(* refuses the voucher.                                                    *)
Sharing(lines, gst) == {l \in lines : l.gst = gst}
XmlRefused(lines) ==
    \/ "round_off" \notin Named
    \/ /\ SalesSide
       /\ \E l \in lines : \/ l.gst \notin Mapped
                           \/ Total("igst", Sharing(lines, l.gst)) > 0 /\ l.gst \notin WithIgst
    \/ /\ ~SalesSide
       /\ \/ "purchase" \notin Named
          \/ \E k \in {"cgst", "sgst"} : Total(k, lines) > 0 /\ k \notin Named

XmlSalesTaxes(lines) ==
    {Posting(<<"tax", x>>, MappedLedger(x[1], x[2]), Sign * Total(x[1], Sharing(lines, x[2])))
        : x \in {y \in Taxes \X {l.gst : l \in lines} : Total(y[1], Sharing(lines, y[2])) > 0}}
Xml(lines) ==
    {PartyPosting(lines)} \cup RoundOffPostings(lines) \cup
    IF SalesSide
      THEN ItemPostings(lines, [l \in lines |-> MappedLedger("sales", l.gst)]) \cup XmlSalesTaxes(lines)
      ELSE ItemPostings(lines, [l \in lines |-> GlobalLedger("purchase", 0)]) \cup PurchaseTaxes(lines)

(* _accounting_voucher_rows: taxes are added up per ledger name, and a     *)
(* missing name is replaced.                                               *)
SettingsFirst(k, l) ==                  \* variant: the mapping is only a fallback
    IF k \in Named THEN GlobalLedger(k, 0) ELSE MappedLedger(k, l.gst)
ExcelLedger(k, l) == IF l.gst \in Mapped THEN MappedLedger(k, l.gst) ELSE GlobalLedger(k, l.gst)
ExcelSalesTaxes(lines) ==
    LET names == UNION {{ExcelLedger(k, l) : k \in {t \in Taxes : l[t] # 0}} : l \in lines}
        on(name) == SumFunction([k \in Taxes |-> Total(k, {l \in lines : ExcelLedger(k, l) = name})])
    IN  {Posting(<<"tax", name>>, name, Sign * on(name)) : name \in {n \in names : on(n) # 0}}
Excel(lines) ==
    {PartyPosting(lines)} \cup RoundOffPostings(lines) \cup
    IF SalesSide
      THEN ItemPostings(lines, [l \in lines |-> ExcelLedger("sales", l)]) \cup ExcelSalesTaxes(lines)
      ELSE ItemPostings(lines, [l \in lines |-> GlobalLedger("purchase", 0)]) \cup PurchaseTaxes(lines)

(* The breakup: a row per GST rate, with the IGST columns or the two       *)
(* others.                                                                 *)
BreakupColumns(lines) == IF Total("igst", lines) > 0 THEN {"igst"} ELSE {"cgst", "sgst"}
BreakupRows(lines) ==
    {[gst |-> g, taxable |-> Total("taxable", Sharing(lines, g)),
      tax |-> SumFunction([k \in BreakupColumns(lines) |-> Total(k, Sharing(lines, g))])]
        : g \in {l.gst : l \in lines}}

-----------------------------------------------------------------------------
(* A rate that a clerk typed is the rate of the item, submitted or not,    *)
(* unless another request about that item was under way at that moment;    *)
(* and every item has moved at some rate, typed or not (inventory.py:347   *)
(* fills in only the rates that nobody typed).                             *)
TypedRateKept ==
    /\ \A i \in Items \ crossed : typed[i] # None => rate[i] = typed[i]
    /\ status = "SUBMITTED" => \A i \in Items : rate[i] # None

(* The sums on the papers of one batch.  Both vouchers balance, whatever   *)
(* was rounded on the way (voucher.py:60, tally.py:152, tally_excel.py:200): *)
(* debits and credits are equal.                                           *)
Balanced(postings) == Total("amount", postings) = 0

(* The papers agree: the workbook posts to every ledger what the XML posts *)
(* to it, and the breakup of the pre-invoice shows the tax that the        *)
(* voucher charges.                                                        *)
On(postings, ledger) == Total("amount", {x \in postings : x.ledger = ledger})
PapersAgree(lines, xml, excel) ==
    LET rows == BreakupRows(lines)
    IN  /\ XmlRefused(lines) \/ \A x \in xml \cup excel : On(xml, x.ledger) = On(excel, x.ledger)
        /\ deal.type = "SALE" =>
              Total("taxable", rows) + Total("tax", rows) = BeforeRoundOff(lines)

(* A customer pays the discounted prices: taking the tax out of a price    *)
(* and adding it again costs at most a paisa per line when the rate halves *)
(* evenly and is below 100 %, the round-off at most half a rupee.          *)
Slack(l) ==
    (30000 + l.gst + (IF l.gst % 2 = 0 THEN 0 ELSE 2 * l.taxable)) \div 20000
CustomerPays(lines) ==
    SalesSide =>
        LET off == FinalValue(lines) - Total("amount", lines)
            slack == 50 + SumFunction([l \in lines |-> Slack(l)])
        IN  -slack <= off /\ off <= slack

SumsAgree ==
    LET lines == Lines
        xml == Xml(lines)
        excel == Excel(lines)
    IN  Balanced(xml) /\ Balanced(excel) /\ PapersAgree(lines, xml, excel) /\ CustomerPays(lines)

(* "Preserve the valuation used when the stock moved; product rates can    *)
(* change later" (inventory.py:348): after the submit no product edit      *)
(* changes what an item is charged at, unless a zero is its rate.          *)
ValuationKept ==
    [][status = "SUBMITTED" =>
         \A i \in Items : rate[i] # 0 /\ rate'[i] = rate[i] => Charged(i)' = Charged(i)]_vars
=============================================================================
