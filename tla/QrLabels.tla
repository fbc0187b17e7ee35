------------------------------ MODULE QrLabels ------------------------------
(***************************************************************************)
(* The labels of the units in the warehouse: they are generated, printed,  *)
(* moved from one storage location to another and replaced when damaged    *)
(* (services/assignment.py, label_printing.py, relocation.py,              *)
(* replacement.py).  A label is a row of serials, numbered in the order of *)
(* creation, which is the FEFO order of the one product modelled.          *)
(*                                                                         *)
(* A request looks at rows and writes later.  Prints and moves write only  *)
(* where the row is still as it should be; a replacement writes what it    *)
(* has seen, and a shelf scan what waits in its draft, in use or not.      *)
(* Sales and purchases appear as Trade: BatchStock tells how they come     *)
(* about.  Ghost: `goods` is what has happened to each unit.               *)
(***************************************************************************)
EXTENDS Naturals, Sequences, FiniteSets

CONSTANTS
    Locations,
    Clerks,      \* request threads
    Drafts,      \* batches with scans or returns that wait for a shelf
    Printed,     \* BOUND: labels somebody prints
    Handed,      \* BOUND: labels somebody scans into a draft
    Toggled,     \* BOUND: locations somebody closes and opens
    MaxLabels,   \* BOUND: rows of serials
    MaxMoves,    \* BOUND: rows of stock_relocations
    None

ASSUME BoundsAssumption == {MaxLabels, MaxMoves} \subseteq Nat
ASSUME SubsetsAssumption == {Printed, Handed} \subseteq SUBSET Nat /\ Toggled \subseteq Locations
ASSUME NoneAssumption   == None \notin Locations /\ None \notin Nat

Statuses    == {"GENERATED", "IN_STOCK", "SOLD", "DAMAGED", "INVALID"}
Movable     == {"IN_STOCK"}
Replaceable == {"GENERATED", "IN_STOCK", "DAMAGED"}
Places      == Locations \cup {None}
Labels      == 1..MaxLabels
Row         == [unit : Labels, status : Statuses, active : BOOLEAN, place : Places,
                printed : BOOLEAN, next : Labels \cup {None}]

VARIABLES
    rows,      \* serials
    open,      \* the active storage_locations
    moves,     \* stock_relocations: what was moved, from where, to where
    prints,    \* label_print_logs of purchase users: how many of each label
    scanned,   \* batch_items without a shelf, scan_logs in PENDING_SHELF
    req,       \* per thread: the request it is in, with what it has seen
    goods,     \* ghost: status and place of each unit, by what was done with it
    crossed,   \* ghost: units whose label changed under a replacement
    untold       \* ghost: units last put on a shelf by a label out of use

vars == <<rows, open, moves, prints, scanned, req, goods, crossed, untold>>

Init ==
    /\ rows = <<>> /\ moves = <<>> /\ goods = <<>>
    /\ open = Locations
    /\ prints = [s \in Labels |-> 0]
    /\ req = [t \in Clerks |-> None]
    /\ scanned = [d \in Drafts |-> {}]
    /\ crossed = {} /\ untold = {}

Idle(t) == req[t] = None
In(t, op) == ~Idle(t) /\ req[t].op = op
Done(t) == req' = [req EXCEPT ![t] = None]
Rows    == DOMAIN rows
UnitsOf(S) == {rows[s].unit : s \in S}

NewRow(unit, status, place) ==
    [unit |-> unit, status |-> status, active |-> TRUE, place |-> place,
     printed |-> FALSE, next |-> None]

-----------------------------------------------------------------------------
(* generate_serials: the number above the greatest one; the unique         *)
(* constraint refuses one that somebody else was faster to take, and then  *)
(* it starts again.                                                        *)
Generate(t, status) ==
    /\ Idle(t) /\ Len(rows) < MaxLabels
    /\ rows' = Append(rows, NewRow(Len(goods) + 1, status, None))
    /\ goods' = Append(goods, [status |-> status, place |-> None])
    /\ UNCHANGED <<open, moves, prints, scanned, req, crossed, untold>>

-----------------------------------------------------------------------------
(* record_serial_label_prints.                                             *)
OpenPrint(t, s, admin) ==
    /\ Idle(t) /\ (admin \/ ~rows[s].printed)
    /\ req' = [req EXCEPT ![t] = [op |-> "print", serial |-> s, admin |-> admin]]
    /\ UNCHANGED <<rows, open, moves, prints, scanned, goods, crossed, untold>>

AsChecked(s)  == TRUE               \* variant: without the condition of the UPDATE
Unprinted(s)  == ~rows[s].printed

RecordPrint(t) ==
    /\ In(t, "print")
    /\ LET s == req[t].serial
       IN /\ rows' = IF req[t].admin \/ Unprinted(s)
                     THEN [rows EXCEPT ![s].printed = TRUE] ELSE rows
          /\ prints' = IF ~req[t].admin /\ Unprinted(s)
                       THEN [prints EXCEPT ![s] = @ + 1] ELSE prints
    /\ Done(t)
    /\ UNCHANGED <<open, moves, scanned, goods, crossed, untold>>

-----------------------------------------------------------------------------
(* relocate_stock: the first units of the place, moved all or not at all.  *)
Candidates(from) == {s \in Rows : /\ rows[s].active /\ rows[s].status \in Movable
                                  /\ rows[s].place = from}
FirstOf(S, n) == {s \in S : Cardinality({r \in S : r < s}) < n}
Chosen(from) == {FirstOf(Candidates(from), n) : n \in 1 .. Cardinality(Candidates(from))}
                \cup {{s} : s \in Candidates(from)}                \* or one serial

OpenMove(t, from, to, serials) ==
    /\ Idle(t) /\ to \in open /\ to # from
    /\ serials \in Chosen(from)
    /\ req' = [req EXCEPT ![t] = [op |-> "move", from |-> from, to |-> to,
                                  serials |-> serials]]
    /\ UNCHANGED <<rows, open, moves, prints, scanned, goods, crossed, untold>>

Placed(S, l) == [s \in Rows |-> IF s \in S THEN [rows[s] EXCEPT !.place = l] ELSE rows[s]]
Put(U, l) == [u \in DOMAIN goods |-> IF u \in U THEN [goods[u] EXCEPT !.place = l] ELSE goods[u]]

OnPlace(s, from)       == rows[s].place = from                                \* variant
FromAnywhere(s, from)  == rows[s].active /\ rows[s].status \in Movable        \* variant
StillThere(s, from)    == /\ rows[s].active /\ rows[s].status \in Movable
                          /\ rows[s].place = from

Move(t) ==
    /\ In(t, "move") /\ Len(moves) < MaxMoves
    /\ LET from == req[t].from  to == req[t].to  serials == req[t].serials
       IN IF \A s \in serials : StillThere(s, from)
          THEN /\ rows' = Placed(serials, to)
               /\ moves' = Append(moves, [serials |-> serials, from |-> from, to |-> to])
               /\ goods' = Put(UnitsOf(serials), to)
               /\ untold' = untold \ UnitsOf(serials)
          ELSE UNCHANGED <<rows, moves, goods, untold>>
    /\ Done(t)
    /\ UNCHANGED <<open, prints, scanned, crossed>>

Toggle(l) ==
    /\ open' = IF l \in open THEN open \ {l} ELSE open \cup {l}
    /\ UNCHANGED <<rows, moves, prints, scanned, req, goods, crossed, untold>>

-----------------------------------------------------------------------------
(* replace_barcode_serial.                                                 *)
OpenReplace(t, s) ==
    /\ Idle(t) /\ rows[s].active /\ rows[s].status \in Replaceable
    /\ req' = [req EXCEPT ![t] = [op |-> "replace", serial |-> s,
                                  seen |-> [rows[s] EXCEPT !.printed = FALSE]]]   \* not used
    /\ UNCHANGED <<rows, open, moves, prints, scanned, goods, crossed, untold>>

ReplacementStatusFor(status) == IF status = "GENERATED" THEN "GENERATED" ELSE "IN_STOCK"

OldMislinked(r, n) == [r EXCEPT !.status = "INVALID", !.active = FALSE, !.next = n + 1]  \* variant
OldKept(r, n)    == [r EXCEPT !.next = n]        \* variant: the old label stays in use
OldRetired(r, n) == [r EXCEPT !.status = "INVALID", !.active = FALSE, !.next = n]
SameSeen(r, seen) == /\ r.status = seen.status /\ r.active = seen.active
                     /\ r.place = seen.place

Replace(t) ==
    /\ In(t, "replace") /\ Len(rows) < MaxLabels
    /\ LET s == req[t].serial  seen == req[t].seen  u == seen.unit
           status == ReplacementStatusFor(seen.status)
       IN /\ rows' = Append([rows EXCEPT ![s] = OldRetired(rows[s], Len(rows) + 1)],
                            NewRow(u, status, seen.place))
          /\ IF SameSeen(rows[s], seen)
             THEN goods' = [goods EXCEPT ![u].status = status] /\ UNCHANGED crossed
             ELSE crossed' = crossed \cup {u} /\ UNCHANGED goods
    /\ Done(t)
    /\ UNCHANGED <<open, moves, prints, scanned, untold>>

-----------------------------------------------------------------------------
(* Batches: a submit writes where the status is as expected and the label  *)
(* active.                                                                 *)
TradedTo(status) ==
    CASE status = "GENERATED" -> {"IN_STOCK"}
      [] status = "IN_STOCK"  -> {"SOLD"}
      [] status = "SOLD"      -> {"IN_STOCK", "DAMAGED"}
      [] OTHER                -> {}

Trade(s, status) ==
    /\ rows[s].active /\ status \in TradedTo(rows[s].status)
    /\ rows' = [rows EXCEPT ![s].status = status]
    /\ goods' = [goods EXCEPT ![rows[s].unit].status = status]
    /\ UNCHANGED <<open, moves, prints, scanned, req, crossed, untold>>

-----------------------------------------------------------------------------
(* Shelf scans.  An audit takes in every label in use, so its drafts do    *)
(* all that those of purchases and returns do.  Only a shelf scan looks at *)
(* what waits in a draft.                                                  *)
Scan(d, s) ==
    /\ rows[s].active /\ s \notin scanned[d]
    /\ scanned' = [scanned EXCEPT ![d] = @ \cup {s}]
    /\ UNCHANGED <<rows, open, moves, prints, req, goods, crossed, untold>>

(* verify_pending_items_on_shelf, verify_sale_return_on_shelf: what waits, *)
(* but for scans that are not committed yet.  Of the values it sets, the   *)
(* ORM writes those that differ from the ones it has loaded.               *)
OpenShelve(t, d, l, serials) ==
    /\ Idle(t) /\ l \in open
    /\ serials # {} /\ serials \subseteq scanned[d]
    /\ req' = [req EXCEPT ![t] = [op |-> "shelve", draft |-> d, to |-> l, serials |-> serials,
                                  written |-> {s \in serials : rows[s].place # l}]]
    /\ UNCHANGED <<rows, open, moves, prints, scanned, goods, crossed, untold>>

Shelve(t) ==
    /\ In(t, "shelve")
    /\ LET d == req[t].draft  l == req[t].to
           written == req[t].written  serials == req[t].serials
           told == written \cup {s \in serials : ~rows[s].active}
       IN /\ rows' = Placed(written, l)
          /\ scanned' = [scanned EXCEPT ![d] = @ \ serials]
          /\ goods' = Put(UnitsOf(told), l)
          /\ untold' = (untold \cup UnitsOf(told)) \ UnitsOf({s \in written : rows[s].active})
    /\ Done(t)
    /\ UNCHANGED <<open, moves, prints, crossed>>

(* remove_batch_item: a shelf scan under way will not find the item that   *)
(* it has loaded, and fails as a whole.                                    *)
ShelfScan(t, d, s) == In(t, "shelve") /\ req[t].draft = d /\ s \in req[t].serials
Remove(d, s) ==
    /\ s \in scanned[d] \/ \E t \in Clerks : ShelfScan(t, d, s)
    /\ scanned' = [scanned EXCEPT ![d] = @ \ {s}]
    /\ req' = [t \in Clerks |-> IF ShelfScan(t, d, s) THEN None ELSE req[t]]
    /\ UNCHANGED <<rows, open, moves, prints, goods, crossed, untold>>

Open(t) ==
    \/ \E status \in {"GENERATED", "IN_STOCK"} : Generate(t, status)
    \/ \E s \in Rows \cap Printed, admin \in BOOLEAN : OpenPrint(t, s, admin)
    \/ \E from \in Places, to \in Locations, serials \in SUBSET Rows : OpenMove(t, from, to, serials)
    \/ \E d \in Drafts, l \in Locations, serials \in SUBSET Rows : OpenShelve(t, d, l, serials)
    \/ \E s \in Rows : OpenReplace(t, s)

Next ==
    \/ \E t \in Clerks : Open(t) \/ RecordPrint(t) \/ Move(t) \/ Shelve(t) \/ Replace(t)
    \/ \E s \in Rows, status \in Statuses : Trade(s, status)
    \/ \E d \in Drafts, s \in Rows \cap Handed : Scan(d, s) \/ Remove(d, s)
    \/ \E l \in Toggled : Toggle(l)

Spec == Init /\ [][Next]_vars

-----------------------------------------------------------------------------
(* Properties.                                                             *)

Request ==
    [op : {"print"}, serial : Labels, admin : BOOLEAN]
    \cup [op : {"move"}, from : Places, to : Locations, serials : SUBSET Labels]
    \cup [op : {"shelve"}, draft : Drafts, to : Locations, serials : SUBSET Labels,
          written : SUBSET Labels]
    \cup [op : {"replace"}, serial : Labels, seen : Row]

(* Types, and a request is about labels that exist.                        *)
TypeOK ==
    /\ rows \in Seq(Row) /\ Len(rows) <= MaxLabels
    /\ \A s \in Rows : rows[s].unit \in DOMAIN goods
    /\ open \subseteq Locations
    /\ moves \in Seq([serials : SUBSET Labels, from : Places, to : Locations])
    /\ prints \in [Labels -> Nat]
    /\ scanned \in [Drafts -> SUBSET Rows]
    /\ req \in [Clerks -> Request \cup {None}]
    /\ \A t \in Clerks : /\ In(t, "print") \/ In(t, "replace") => req[t].serial \in Rows
                         /\ In(t, "move") => req[t].serials \subseteq Rows
                         /\ In(t, "shelve") => /\ req[t].serials \subseteq Rows
                                               /\ req[t].written \subseteq req[t].serials
                         /\ In(t, "replace") => req[t].seen.unit = rows[req[t].serial].unit
    /\ goods \in Seq([status : Statuses, place : Places])
    /\ crossed \subseteq DOMAIN goods /\ untold \subseteq DOMAIN goods

(* "A label replacement is the same physical unit" (replacement.py:57):    *)
(* whatever was moved, sold and relabelled, and whichever requests         *)
(* overlapped, each unit has one label in use, which shows where the unit  *)
(* is and whether it is sold - unless the label changed between the read   *)
(* and the write of a replacement, which does not look again.  The place   *)
(* is wrong, until the next move or shelf scan, where a label was replaced *)
(* while it waited in a draft: the shelf scan then writes the old label.   *)
Live(u) == {s \in Rows : rows[s].active /\ rows[s].unit = u}
LabelFollowsGoods ==
    \A u \in DOMAIN goods \ crossed :
        \E s \in Labels : /\ Live(u) = {s}
                          /\ rows[s].status = goods[u].status
                          /\ rows[s].place = goods[u].place \/ u \in untold

(* "Purchase users can print each QR only once" (user-manual.md:65), also  *)
(* when two of them click together.                                        *)
PrintedOnce == \A s \in Labels : prints[s] <= 1

(* One unit has one label, printed once, that tells the truth about it.    *)
LabelsAreTrue == LabelFollowsGoods /\ PrintedOnce

(* What one step does to labels: a row of stock_relocations says from      *)
(* where its units were taken, so that of two people who move the same     *)
(* units only the first has moved them; and a replaced label is never      *)
(* moved, sold, taken in or brought back into use, not even by a request   *)
(* that had looked at it before it was replaced - but a shelf scan gives   *)
(* it the place of the shelf where it waited in the draft.                 *)
MovedFromThere ==
    \A k \in DOMAIN moves' \ DOMAIN moves : \A s \in moves'[k].serials :
        rows[s].place = moves'[k].from /\ rows'[s].place = moves'[k].to
ByShelfScan(s) ==
    \E t \in Clerks : /\ In(t, "shelve") /\ req'[t] = None /\ s \in req[t].written
                      /\ rows'[s] = [rows[s] EXCEPT !.place = req[t].to]
RetiredForGood == \A s \in Rows : ~rows[s].active => SameSeen(rows'[s], rows[s]) \/ ByShelfScan(s)

LabelHistory == [][MovedFromThere /\ RetiredForGood]_vars
=============================================================================
