----------------------------- MODULE BatchStock -----------------------------
(***************************************************************************)
(* How serials get into a draft batch, out of it, and out of or into stock *)
(* when it is submitted: the request handlers of routers/batches.py (scan, *)
(* fefo, items/delete, items/rate, products/rate, submit) with the         *)
(* services they call (inventory.py, sale_returns.py,                      *)
(* shelf_verification.py, expiry.py).                                      *)
(*                                                                         *)
(* A request loads the batch first and decides on what it loaded; SQLite   *)
(* takes its write lock at the first write, so the writes of a request are *)
(* one step, but what it read before may be stale by then.                 *)
(***************************************************************************)
EXTENDS Naturals, Sequences, FiniteSets

CONSTANTS
    Serials,    \* serial numbers of one product, in the order of their FEFO key
    Batches,    \* batches, all of them created
    TypeOf,     \* batches.batch_type
    Damaged,    \* sales returns with reason_code DAMAGED or EXPIRED
    Clerks,     \* request threads
    Shelves,    \* storage locations, known by their QR code
    Interval,   \* products.shelf_verification_interval
    Priced,     \* TRUE when products.default_rate is positive
    Opening,    \* statuses serials may have when the behaviour starts
    None        \* SQL NULL, an idle request thread

(* AUDIT and QR_ASSIGNMENT batches have workflows of their own.            *)
BatchTypes == {"PURCHASE", "RECEIVE", "SALE", "SALES_RETURN", "PURCHASE_RETURN", "ISSUE"}
ShelfControlled == {"PURCHASE", "RECEIVE"}
FefoTypes       == {"SALE", "ISSUE", "PURCHASE_RETURN"}
VoucherTypes    == {"PURCHASE", "RECEIVE", "SALE", "SALES_RETURN"}
SerialStatuses  == {"GENERATED", "PURCHASED", "RECEIVED", "IN_STOCK", "SOLD", "RETURNED",
                    "PURCHASE_RETURN", "ISSUED", "AUDITED", "DAMAGED", "MISSING", "INVALID",
                    "REPLACED"}
Operations == {"scan", "fefo", "remove", "rate", "rate_all", "return", "shelf", "submit"}

ASSUME SerialsAssumption == Serials \subseteq Nat
ASSUME TypeAssumption == TypeOf \in [Batches -> BatchTypes]
ASSUME IntervalAssumption == Interval \in Nat \ {0}
ASSUME PricedAssumption == Priced \in BOOLEAN
ASSUME OpeningAssumption == Opening \subseteq SerialStatuses
ASSUME NoneAssumption == None \notin Shelves

VARIABLES
    stock,      \* serials.status
    place,      \* serials.location_id
    ledger,     \* inventory_transactions of each serial, oldest first
    status,     \* batches.status: "DRAFT", or "SUBMITTED" for all that follow
    items,      \* batch_items: the serials of each batch
    rated,      \* those whose rate is set
    shelved,    \* those whose shelf_verified_at is set
    returns,    \* serials of the batch's SALE_RETURN logs in PENDING_SHELF
    voucher,    \* serials in the payload the sync worker built, NULL before
    req,        \* per request thread: the request it handles
    view        \* per request thread: the items a submit has loaded

dbVars == <<stock, place, ledger, status, items, rated, shelved, returns, voucher>>
vars   == <<dbVars, req, view>>

Request == [op : Operations, batch : Batches, serials : SUBSET Serials,
            pc : {"open", "checked"}]
View    == [items : SUBSET Serials, rated : SUBSET Serials, shelved : SUBSET Serials,
            stock : [Serials -> SerialStatuses]]
Entry   == [batch : Batches, from : SerialStatuses, to : SerialStatuses]

Init ==
    /\ stock   \in [Serials -> Opening]
    /\ place   = [s \in Serials |-> None]
    /\ ledger  = [s \in Serials |-> <<>>]
    /\ status  = [b \in Batches |-> "DRAFT"]
    /\ items   = [b \in Batches |-> {}]
    /\ rated   = [b \in Batches |-> {}]
    /\ shelved = [b \in Batches |-> {}]
    /\ returns = [b \in Batches |-> {}]
    /\ voucher = [b \in Batches |-> None]
    /\ req     = [c \in Clerks |-> None]
    /\ view    = [c \in Clerks |-> None]

-----------------------------------------------------------------------------
(* The rules of services/inventory.py.                                     *)

(* serial_allowed_for_batch: the statuses a batch type accepts.            *)
AllowedFrom(type) ==
    CASE type \in {"PURCHASE", "RECEIVE"}     -> {"GENERATED", "PURCHASE_RETURN"}
      [] type \in {"SALE", "PURCHASE_RETURN"} -> {"IN_STOCK", "RETURNED"}
      [] type = "SALES_RETURN"                -> {"SOLD"}
      [] type = "ISSUE"                       -> {"IN_STOCK"}

(* apply_batch_statuses: the status a submitted serial gets.               *)
ScanAction(b) == TypeOf[b] \* variant: the action written to the scan log
Target(b) ==
    CASE TypeOf[b] \in {"PURCHASE", "RECEIVE"} -> "IN_STOCK"
      [] TypeOf[b] = "SALE"                    -> "SOLD"
      [] TypeOf[b] = "SALES_RETURN"            -> IF b \in Damaged THEN "DAMAGED" ELSE "IN_STOCK"
      [] TypeOf[b] = "PURCHASE_RETURN"         -> "PURCHASE_RETURN"
      [] TypeOf[b] = "ISSUE"                   -> "ISSUED"

InDraft == UNION {items[b] : b \in {d \in Batches : status[d] = "DRAFT"}}
InSubmitted(b, s) ==       \* variant: the wrong batches are searched
    \E d \in Batches \ {b} : status[d] = "SUBMITTED" /\ s \in items[d]
InOtherDraft(b, s) == \E d \in Batches \ {b} : status[d] = "DRAFT" /\ s \in items[d]

(* fefo_candidate_serials for a batch type; one product, so in key order.  *)
FefoCandidates(type) == {s \in Serials \ InDraft : stock[s] \in AllowedFrom(type)}

(* validate_fefo_scan: another candidate expires first.                    *)
FefoRefuses(b, s) ==
    /\ TypeOf[b] \in FefoTypes /\ stock[s] \in AllowedFrom(TypeOf[b])
    /\ \E t \in FefoCandidates(TypeOf[b]) : t < s

PendingOnReceipt(b, its, verified) ==   \* variant: purchases are forgotten
    IF TypeOf[b] = "RECEIVE" THEN its \ verified ELSE {}
PendingShelf(b, its, verified) ==
    IF TypeOf[b] \in ShelfControlled THEN its \ verified ELSE {}

-----------------------------------------------------------------------------
(* Requests.                                                               *)

OpenAny(c, op, b, s) ==    \* variant: the status of the batch is not looked at
    /\ req[c] = None
    /\ req'  = [req EXCEPT ![c] = [op |-> op, batch |-> b, pc |-> "open",
                                 serials |-> IF op = "rate_all" THEN items[b] ELSE {s}]]
    /\ view' = [view EXCEPT ![c] = IF op # "submit" THEN None
                  ELSE [items |-> items[b], rated |-> rated[b],
                        shelved |-> shelved[b], stock |-> stock]]
    /\ UNCHANGED dbVars

(* A handler loads the batch and finds it a draft; the rate of a product   *)
(* loads the items with it, submit their serials too.  (One that finds it  *)
(* submitted changes nothing.)                                             *)
Open(c, op, b, s) ==
    /\ req[c] = None
    /\ status[b] = "DRAFT"
    /\ req'  = [req EXCEPT ![c] = [op |-> op, batch |-> b, pc |-> "open",
                                 serials |-> IF op = "rate_all" THEN items[b] ELSE {s}]]
    /\ view' = [view EXCEPT ![c] = IF op # "submit" THEN None
                  ELSE [items |-> items[b], rated |-> rated[b],
                        shelved |-> shelved[b], stock |-> stock]]
    /\ UNCHANGED dbVars

Asked(c, op, pc) == req[c] # None /\ req[c].op = op /\ req[c].pc = pc

Done(c) ==
    /\ req'  = [req EXCEPT ![c] = None]
    /\ view' = [view EXCEPT ![c] = None]

(* A request is refused, or fails (the database stays locked).             *)
Fail(c) ==
    /\ req[c] # None
    /\ Done(c)
    /\ UNCHANGED dbVars

(* ensure_sale_scan_allowed, ensure_product_scan_allowed and the checks of *)
(* add_serial_to_batch, up to the INSERT.                                  *)
CheckScan(c) ==
    /\ Asked(c, "scan", "open")
    /\ LET b == req[c].batch
       IN  /\ returns[b] = {}
           /\ Cardinality(PendingShelf(b, items[b], shelved[b])) < Interval
           /\ \A s \in req[c].serials :
                 /\ stock[s] \in AllowedFrom(TypeOf[b])
                 /\ ~FefoRefuses(b, s)
                 /\ s \notin items[b]
                 /\ ~InOtherDraft(b, s)
    /\ req' = [req EXCEPT ![c].pc = "checked"]
    /\ UNCHANGED <<dbVars, view>>

(* add_fefo_serials_to_batch takes the first n candidates.                 *)
CheckPick(c, n) ==
    /\ Asked(c, "fefo", "open")
    /\ TypeOf[req[c].batch] \in FefoTypes
    /\ LET found == FefoCandidates(TypeOf[req[c].batch])
       IN  /\ Cardinality(found) >= n
           /\ req' = [req EXCEPT ![c].pc = "checked",
                        ![c].serials = {s \in found : Cardinality({t \in found : t < s}) < n}]
    /\ UNCHANGED <<dbVars, view>>

(* The INSERTs of either, one transaction; (batch, serial) is unique.      *)
Insert(c) ==
    LET b == req[c].batch
    IN  /\ Asked(c, "scan", "checked") \/ Asked(c, "fefo", "checked")
        /\ req[c].serials \cap items[b] = {}
        /\ items' = [items EXCEPT ![b] = @ \cup req[c].serials]
        /\ Done(c)
        /\ UNCHANGED <<stock, place, ledger, status, rated, shelved, returns, voucher>>

(* DELETE of the items, with the rate and the shelf mark they carry.       *)
DropItems(b, gone) ==
    /\ items'   = [items EXCEPT ![b] = @ \ gone]
    /\ rated'   = [rated EXCEPT ![b] = @ \ gone]
    /\ shelved' = [shelved EXCEPT ![b] = @ \ gone]

(* remove_batch_item                                                       *)
Remove(c) ==
    /\ Asked(c, "remove", "open")
    /\ req[c].serials \subseteq items[req[c].batch]
    /\ DropItems(req[c].batch, req[c].serials)
    /\ Done(c)
    /\ UNCHANGED <<stock, place, ledger, status, returns, voucher>>

(* update_batch_item_rate, update_product_rate_in_batch; an item that is   *)
(* gone fails the UPDATE.                                                  *)
Rate(c) ==
    LET b == req[c].batch
    IN  /\ Asked(c, "rate", "open") \/ Asked(c, "rate_all", "open")
        /\ req[c].serials # {} /\ req[c].serials \subseteq items[b]
        /\ rated' = [rated EXCEPT ![b] = @ \cup req[c].serials]
        /\ Done(c)
        /\ UNCHANGED <<stock, place, ledger, status, items, shelved, returns, voucher>>

(* scan_sale_return_product: out of the sale, to be put on a shelf.  What  *)
(* it looked up is written whether or not it is still so.                  *)
CheckReturn(c) ==
    /\ Asked(c, "return", "open")
    /\ TypeOf[req[c].batch] = "SALE" /\ returns[req[c].batch] = {}
    /\ req[c].serials \subseteq items[req[c].batch]
    /\ req' = [req EXCEPT ![c].pc = "checked"]
    /\ UNCHANGED <<dbVars, view>>

Return(c) ==
    LET b == req[c].batch
    IN  /\ Asked(c, "return", "checked")
        /\ DropItems(b, req[c].serials)
        /\ returns' = [returns EXCEPT ![b] = @ \cup req[c].serials]
        /\ Done(c)
        /\ UNCHANGED <<stock, place, ledger, status, voucher>>

(* verify_sale_return_on_shelf, verify_pending_items_on_shelf: what is     *)
(* pending, and then the place of it; an item that is gone fails.          *)
CheckShelf(c) ==
    LET b == req[c].batch
        pending == IF TypeOf[b] = "SALE" THEN returns[b]
                                         ELSE PendingShelf(b, items[b], shelved[b])
    IN  /\ Asked(c, "shelf", "open")
        /\ pending # {}
        /\ req' = [req EXCEPT ![c] = [@ EXCEPT !.pc = "checked", !.serials = pending]]
        /\ UNCHANGED <<dbVars, view>>

ScanShelf(c, l) ==
    LET b == req[c].batch
    IN  /\ Asked(c, "shelf", "checked")
        /\ place' = [s \in Serials |-> IF s \in req[c].serials THEN l ELSE place[s]]
        /\ \/ /\ TypeOf[b] = "SALE"
              /\ returns' = [returns EXCEPT ![b] = @ \ req[c].serials]
              /\ UNCHANGED shelved
           \/ /\ TypeOf[b] # "SALE" /\ req[c].serials \subseteq items[b]
              /\ shelved' = [shelved EXCEPT ![b] = @ \cup req[c].serials]
              /\ UNCHANGED returns
        /\ Done(c)
        /\ UNCHANGED <<stock, ledger, status, items, rated, voucher>>

(* validate_sale_returns_complete                                          *)
ReturnsIgnored(b) == TRUE  \* variant
ReturnsComplete(b) == returns[b] = {}

(* submit_batch, up to the first write: what it loaded must be complete.   *)
ValidateSubmit(c) ==
    /\ Asked(c, "submit", "open")
    /\ LET b == req[c].batch
           v == view[c]
       IN  /\ ReturnsComplete(b)
           /\ Priced \/ v.items \subseteq v.rated
           /\ v.items # {}
           /\ PendingShelf(b, v.items, v.shelved) = {}
           /\ \A s \in v.items : v.stock[s] \in AllowedFrom(TypeOf[b])
    /\ req' = [req EXCEPT ![c].pc = "checked"]
    /\ UNCHANGED <<dbVars, view>>

(* The UPDATE of each serial finds the status that was loaded; the default *)
(* rate is written to items that had none, which must still be there.      *)
Unclaimed(v) == TRUE       \* variant: an UPDATE by primary key alone
Claimed(v) == \A s \in v.items : stock[s] = v.stock[s]

ApplySubmit(c) ==
    LET b == req[c].batch
        v == view[c]
    IN  /\ Asked(c, "submit", "checked")
        /\ Claimed(v)
        /\ v.items \ v.rated \subseteq items[b]
        /\ stock'  = [s \in Serials |-> IF s \in v.items THEN Target(b) ELSE stock[s]]
        /\ ledger' = [s \in Serials |->
                        IF s \in v.items
                        THEN Append(ledger[s], [batch |-> b, from |-> v.stock[s], to |-> Target(b)])
                        ELSE ledger[s]]
        /\ status' = [status EXCEPT ![b] = "SUBMITTED"]
        /\ rated'  = [rated EXCEPT ![b] = @ \cup (v.items \ v.rated)]
        /\ Done(c)
        /\ UNCHANGED <<place, items, shelved, returns, voucher>>

(* The sync worker builds the batch's voucher from the items it finds.     *)
BuildEarly(b) ==           \* variant: drafts are taken as well
    /\ TypeOf[b] \in VoucherTypes /\ voucher[b] = None
    /\ voucher' = [voucher EXCEPT ![b] = items[b]]
    /\ UNCHANGED <<stock, place, ledger, status, items, rated, shelved, returns, req, view>>
BuildVoucher(b) ==
    /\ status[b] = "SUBMITTED" /\ TypeOf[b] \in VoucherTypes
    /\ voucher[b] = None
    /\ voucher' = [voucher EXCEPT ![b] = items[b]]
    /\ UNCHANGED <<stock, place, ledger, status, items, rated, shelved, returns, req, view>>

Handle(c) ==
    \/ CheckScan(c) \/ Insert(c) \/ Remove(c) \/ Rate(c)
    \/ CheckReturn(c) \/ Return(c) \/ CheckShelf(c)
    \/ ValidateSubmit(c) \/ ApplySubmit(c) \/ Fail(c)
    \/ \E n \in 1..Cardinality(Serials) : CheckPick(c, n)
    \/ \E l \in Shelves : ScanShelf(c, l)

Next ==
    \/ \E c \in Clerks, op \in Operations, b \in Batches, s \in Serials : Open(c, op, b, s)
    \/ \E c \in Clerks : Handle(c)
    \/ \E b \in Batches : BuildVoucher(b)

Spec == Init /\ [][Next]_vars

-----------------------------------------------------------------------------
(* Properties that hold whatever requests overlap.                         *)

TypeOK ==
    /\ stock \in [Serials -> SerialStatuses]
    /\ place \in [Serials -> Shelves \cup {None}]
    /\ ledger \in [Serials -> Seq(Entry)]
    /\ status \in [Batches -> {"DRAFT", "SUBMITTED"}]
    /\ items \in [Batches -> SUBSET Serials]
    /\ rated \in [Batches -> SUBSET Serials]
    /\ shelved \in [Batches -> SUBSET Serials]
    /\ returns \in [Batches -> SUBSET Serials]
    /\ voucher \in [Batches -> (SUBSET Serials) \cup {None}]
    /\ req \in [Clerks -> Request \cup {None}]
    /\ view \in [Clerks -> View \cup {None}]

(* The stock ledger is a history: every entry starts from the status the   *)
(* one before it left, and the last one left the status the serial has.    *)
LedgerChains ==
    \A s \in Serials :
        /\ \A i \in 1..Len(ledger[s]) - 1 : ledger[s][i].to = ledger[s][i + 1].from
        /\ ledger[s] # <<>> => ledger[s][Len(ledger[s])].to = stock[s]

(* Every change of stock is a move of module StockLedger: by a batch that  *)
(* accepts the status the serial has at that moment, entered in the ledger *)
(* with that status.  No overlap of submits sells, returns or issues a     *)
(* serial from a status another batch has just taken away.                 *)
Ledger == INSTANCE StockLedger WITH
    Statuses <- SerialStatuses,
    Moves <- {m \in Batches \X SerialStatuses \X SerialStatuses :
                m[2] \in AllowedFrom(TypeOf[m[1]]) /\ m[3] = Target(m[1])}
LedgerKept == Ledger!Spec

(* The serials a batch has moved.                                          *)
Moved(b) == {s \in Serials : \E i \in DOMAIN ledger[s] : ledger[s][i].batch = b}

(* A serial a purchase took into stock has been put on a shelf before.     *)
TakenInIsOnShelf ==
    \A b \in Batches : TypeOf[b] \in ShelfControlled =>
        \A s \in Moved(b) : place[s] # None

-----------------------------------------------------------------------------
(* Properties that hold when requests do not overlap.                      *)

(* A submitted batch lists exactly the serials it has moved, and so does   *)
(* the voucher that is built of it.                                        *)
SubmittedIsMoved ==
    \A b \in Batches : status[b] = "SUBMITTED" => items[b] = Moved(b)
VoucherIsMoved ==
    \A b \in Batches : voucher[b] # None => voucher[b] = Moved(b)

(* A serial is in one open batch at most.                                  *)
OneOpenBatch ==
    \A b, d \in Batches :
        b # d /\ status[b] = "DRAFT" /\ status[d] = "DRAFT" => items[b] \cap items[d] = {}

(* A sale is not submitted before its returned serials are on a shelf.     *)
ReturnsShelved == \A b \in Batches : status[b] = "SUBMITTED" => returns[b] = {}

(* A batch moves a serial once.                                            *)
MovedOnce ==
    \A s \in Serials : \A i, j \in DOMAIN ledger[s] :
        ledger[s][i].batch = ledger[s][j].batch => i = j

(* The five together: a submitted batch is its items, its voucher and its  *)
(* moves at once, complete and one time only.                              *)
OrderlyBatches ==
    SubmittedIsMoved /\ VoucherIsMoved /\ OneOpenBatch /\ ReturnsShelved /\ MovedOnce
=============================================================================
