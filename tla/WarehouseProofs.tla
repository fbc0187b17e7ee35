-------------------------- MODULE WarehouseProofs --------------------------
(* The warehouse floor.  First the labels: however many people print,      *)
(* move, sell and replace them at one time, each unit keeps one label that *)
(* tells the truth about it.  Then the audits: their findings are true and *)
(* become complete.  Then the report pages: what they say about the stock  *)
(* is the same on each, and what it is.                                    *)
EXTENDS Warehouse, SequenceTheorems, SumProofs

(* A label that is out of use is INVALID; a replacement goes on only with  *)
(* a label that was in use when it looked.                                 *)
Retired   == \A s \in Rows : ~rows[s].active => rows[s].status = "INVALID"
SeenInUse == \A t \in Clerks : In(t, "replace") => req[t].seen.active

(* No unit is without a row; the number of a new one is within the bound.  *)
UnitsLabelled == Len(goods) <= Len(rows)

(* What was printed by a purchase user is marked as printed.               *)
PrintMarked == \A s \in Labels : /\ prints[s] \in {0, 1}
                                 /\ prints[s] = 1 => s \in Rows /\ rows[s].printed

TypeInv == TypeOK /\ UnitsLabelled
Inv == TypeInv /\ Retired /\ SeenInUse /\ PrintMarked /\ LabelFollowsGoods

-----------------------------------------------------------------------------
(* Facts about data.                                                       *)
LEMMA Appended ==
    ASSUME NEW S, NEW q \in Seq(S), NEW e \in S
    PROVE  /\ Append(q, e) \in Seq(S)
           /\ Len(q) \in Nat /\ Len(Append(q, e)) = Len(q) + 1
           /\ DOMAIN Append(q, e) = DOMAIN q \cup {Len(q) + 1}
           /\ Len(q) + 1 \notin DOMAIN q
           /\ \A i \in DOMAIN q : Append(q, e)[i] = q[i]
           /\ Append(q, e)[Len(q) + 1] = e
OBVIOUS

LEMMA MaxExists ==
    ASSUME NEW n \in Nat, NEW S \in SUBSET (1..n), S # {}
    PROVE  \E m \in S : \A k \in S : k <= m
<1> DEFINE T == {n - k : k \in S}
           Less == {d \in Nat \X Nat : d[1] < d[2]}
<1>1. T \subseteq Nat /\ T # {}
  <2>1. PICK k \in S : TRUE
    OBVIOUS
  <2>2. n - k \in T
    BY <2>1
  <2>3. ASSUME NEW i \in S PROVE n - i \in Nat
    OBVIOUS
  <2> QED BY <2>2, <2>3
<1>2. IsWellFoundedOn(Less, Nat)
  BY NatLessThanWellFounded DEF OpToRel
<1> HIDE DEF Less
<1>3. PICK x \in T : \A y \in T : <<y, x>> \notin Less
  <2> HIDE DEF T
  <2> QED BY <1>1, <1>2, WFMin
<1>4. PICK m \in S : x = n - m
  BY <1>3
<1>5. ASSUME NEW k \in S PROVE k <= m
  <2>1. n - k \in T /\ n - k \in Nat /\ n - m \in Nat
    OBVIOUS
  <2>2. ~(n - k < n - m)
    BY <1>3, <1>4, <2>1 DEF Less
  <2> QED BY <2>1, <2>2
<1> QED BY <1>5

LEMMA RowsTyped ==
    ASSUME TypeOK
    PROVE  /\ Rows = 1..Len(rows) /\ Len(rows) \in Nat /\ Rows \subseteq Labels
           /\ \A s \in Rows : /\ rows[s] \in Row
                              /\ rows[s].unit \in DOMAIN goods
           /\ DOMAIN goods = 1..Len(goods) /\ Len(goods) \in Nat
           /\ \A u \in DOMAIN goods : goods[u] \in [status : Statuses, place : Places]
<1>1. rows \in Seq(Row) /\ Len(rows) <= MaxLabels /\ MaxLabels \in Nat
    BY BoundsAssumption DEF TypeOK
<1>2. goods \in Seq([status : Statuses, place : Places])
    BY DEF TypeOK
<1>3. Rows = 1..Len(rows) /\ Len(rows) \in Nat /\ Rows \subseteq Labels
    BY <1>1 DEF Rows, Labels
<1>4. \A s \in Rows : rows[s] \in Row
    BY <1>1 DEF Rows
<1>5. \A s \in Rows : rows[s].unit \in DOMAIN goods
    BY DEF TypeOK
<1>6. DOMAIN goods = 1..Len(goods) /\ Len(goods) \in Nat
    BY <1>2
<1>7. \A u \in DOMAIN goods : goods[u] \in [status : Statuses, place : Places]
    BY <1>2, <1>6, ElementOfSeq
<1> QED BY <1>3, <1>4, <1>5, <1>6, <1>7

LEMMA RequestFields ==
    ASSUME TypeOK, NEW t \in Clerks, ~Idle(t)
    PROVE  /\ req[t] \in Request
           /\ In(t, "print") => req[t].serial \in Rows /\ req[t].admin \in BOOLEAN
           /\ In(t, "move")  => /\ req[t].serials \subseteq Rows
                                /\ req[t].from \in Places /\ req[t].to \in Locations
           /\ In(t, "shelve") => /\ req[t].serials \subseteq Rows /\ req[t].to \in Locations
                                 /\ req[t].written \subseteq req[t].serials
           /\ In(t, "replace") => /\ req[t].serial \in Rows /\ req[t].seen \in Row
                                  /\ req[t].seen.unit = rows[req[t].serial].unit
<1>1. req[t] \in Request
    BY DEF TypeOK, Idle
<1>2. /\ In(t, "print") => req[t].admin \in BOOLEAN
      /\ In(t, "move")  => req[t].from \in Places /\ req[t].to \in Locations
      /\ In(t, "shelve") => req[t].to \in Locations
      /\ In(t, "replace") => req[t].seen \in Row
    BY <1>1 DEF In, Request
<1>3. /\ In(t, "print") \/ In(t, "replace") => req[t].serial \in Rows
      /\ In(t, "move") => req[t].serials \subseteq Rows
      /\ In(t, "shelve") => req[t].serials \subseteq Rows /\ req[t].written \subseteq req[t].serials
      /\ In(t, "replace") => req[t].seen.unit = rows[req[t].serial].unit
    BY DEF TypeOK
<1> QED BY <1>1, <1>2, <1>3

(* An element of a sequence is exchanged for one of the same set.          *)
LEMMA Exchanged ==
    ASSUME NEW S, NEW q \in Seq(S), NEW p \in [DOMAIN q -> S]
    PROVE  p \in Seq(S) /\ Len(p) = Len(q) /\ DOMAIN p = DOMAIN q
OBVIOUS

-----------------------------------------------------------------------------
(* Types.                                                                  *)

RequestOK(t) ==
    /\ req[t] \in Request \cup {None}
    /\ In(t, "print") \/ In(t, "replace") => req[t].serial \in Rows
    /\ In(t, "move") => req[t].serials \subseteq Rows
    /\ In(t, "shelve") => req[t].serials \subseteq Rows /\ req[t].written \subseteq req[t].serials
    /\ In(t, "replace") => req[t].seen.unit = rows[req[t].serial].unit
Requests == req = [t \in Clerks |-> req[t]] /\ \A t \in Clerks : RequestOK(t)

LEMMA RequestsTyped ==
    Requests <=> /\ req \in [Clerks -> Request \cup {None}]
                 /\ \A t \in Clerks : /\ In(t, "print") \/ In(t, "replace") => req[t].serial \in Rows
                                      /\ In(t, "move") => req[t].serials \subseteq Rows
                                      /\ In(t, "shelve") => /\ req[t].serials \subseteq Rows
                                                            /\ req[t].written \subseteq req[t].serials
                                      /\ In(t, "replace") => req[t].seen.unit = rows[req[t].serial].unit
BY DEF Requests, RequestOK

(* Requests stay sound when no label goes, none changes its unit, and      *)
(* those whose request is another one have a sound one.                    *)
LEMMA RequestsKept ==
    ASSUME TypeOK, Rows \subseteq Rows',
           \A s \in Rows : rows'[s].unit = rows[s].unit,
           NEW t \in Clerks, NEW r, req' = [req EXCEPT ![t] = r], RequestOK(t)'
    PROVE  Requests'
<1>1. Requests
    BY RequestsTyped DEF TypeOK
<1>2. \A c \in Clerks \ {t} : req'[c] = req[c]
    BY <1>1 DEF Requests
<1>3. ASSUME NEW c \in Clerks \ {t} PROVE RequestOK(c)'
    BY <1>1, <1>2 DEF Requests, RequestOK, In, Idle
<1>4. req' = [c \in Clerks |-> req'[c]]
    BY <1>1 DEF Requests
<1> QED BY <1>3, <1>4 DEF Requests
(* The rows and the goods are as they should be.                           *)
RowsOK  == /\ rows \in Seq(Row) /\ Len(rows) <= MaxLabels
           /\ \A s \in Rows : rows[s].unit \in DOMAIN goods
GoodsOK == /\ goods \in Seq([status : Statuses, place : Places])
           /\ crossed \subseteq DOMAIN goods /\ untold \subseteq DOMAIN goods
OtherOK == /\ open \subseteq Locations
           /\ moves \in Seq([serials : SUBSET Labels, from : Places, to : Locations])
           /\ prints \in [Labels -> Nat]
           /\ scanned \in [Drafts -> SUBSET Rows]

LEMMA DraftsKept ==
    ASSUME TypeOK, scanned' = scanned, Rows \subseteq Rows'
    PROVE  scanned' \in [Drafts -> SUBSET Rows']
BY DEF TypeOK

LEMMA TypeOKParts == TypeOK <=> RowsOK /\ GoodsOK /\ OtherOK /\ Requests
BY RequestsTyped DEF TypeOK, RowsOK, GoodsOK, OtherOK

LEMMA TypeOKNext == RowsOK' /\ GoodsOK' /\ OtherOK' /\ Requests' => TypeOK'
BY DEF TypeOK, RowsOK, GoodsOK, OtherOK, Requests, RequestOK

LEMMA InitTyped == Init => TypeOK
<1> SUFFICES ASSUME Init PROVE TypeOK
    OBVIOUS
<1>1. RowsOK
    BY BoundsAssumption DEF Init, RowsOK, Rows
<1>2. GoodsOK /\ OtherOK
    BY DEF Init, GoodsOK, OtherOK
<1>3. Requests
    BY DEF Init, Requests, RequestOK, In, Idle
<1> QED BY <1>1, <1>2, <1>3, TypeOKParts

(* A row that is changed in place keeps its unit.                          *)
LEMMA ChangeTyped ==
    ASSUME TypeOK, NEW p, p \in [Rows -> Row], \A s \in Rows : p[s].unit = rows[s].unit,
           rows' = p, goods' \in Seq([status : Statuses, place : Places]),
           DOMAIN goods' = DOMAIN goods
    PROVE  /\ RowsOK' /\ Rows' = Rows
           /\ \A s \in Rows : rows'[s].unit = rows[s].unit
<1>1. rows \in Seq(Row) /\ Rows = DOMAIN rows
    BY DEF TypeOK, Rows
<1>2. p \in Seq(Row) /\ Len(p) = Len(rows) /\ DOMAIN p = DOMAIN rows
    BY <1>1, Exchanged
<1>3. Rows' = Rows
    BY <1>1, <1>2 DEF Rows
<1>4. \A s \in Rows : rows'[s].unit \in DOMAIN goods
    BY DEF TypeOK
<1> QED BY <1>2, <1>3, <1>4 DEF RowsOK, TypeOK
(* A new row comes after rows that may be changed in place.                *)
LEMMA AdditionTyped ==
    ASSUME TypeOK, NEW p \in [Rows -> Row], \A s \in Rows : p[s].unit = rows[s].unit,
           NEW x \in Row, rows' = Append(p, x), Len(rows) < MaxLabels,
           goods' \in Seq([status : Statuses, place : Places]),
           DOMAIN goods \subseteq DOMAIN goods', x.unit \in DOMAIN goods'
    PROVE  /\ RowsOK' /\ Rows' = Rows \cup {Len(rows) + 1}
           /\ Len(rows) + 1 \notin Rows /\ Len(rows) + 1 \in Labels
           /\ rows'[Len(rows) + 1] = x
           /\ \A s \in Rows : rows'[s] = p[s] /\ rows'[s].unit = rows[s].unit
<1>1. rows \in Seq(Row) /\ Rows = DOMAIN rows
    BY DEF TypeOK, Rows
<1>2. p \in Seq(Row) /\ Len(p) = Len(rows) /\ DOMAIN p = DOMAIN rows
    BY <1>1, Exchanged
<1>3. /\ rows' \in Seq(Row) /\ Len(p) \in Nat /\ Len(rows') = Len(p) + 1
      /\ DOMAIN rows' = DOMAIN p \cup {Len(p) + 1} /\ Len(p) + 1 \notin DOMAIN p
      /\ \A i \in DOMAIN p : rows'[i] = p[i]
      /\ rows'[Len(p) + 1] = x
    BY <1>2, Appended
<1>4. Rows' = Rows \cup {Len(rows) + 1}
    BY <1>1, <1>2, <1>3 DEF Rows
<1>5. MaxLabels \in Nat /\ Len(rows) \in Nat
    BY <1>2, <1>3, BoundsAssumption
<1>6. Len(rows') <= MaxLabels /\ Len(rows) + 1 \in Labels
    BY <1>2, <1>3, <1>5 DEF Labels
<1>7. \A s \in Rows : rows'[s] = p[s] /\ rows'[s].unit = rows[s].unit
    BY <1>1, <1>2, <1>3
<1>8. \A s \in Rows' : rows'[s].unit \in DOMAIN goods'
    BY <1>2, <1>3, <1>4, <1>7 DEF TypeOK
<1> QED BY <1>1, <1>2, <1>3, <1>4, <1>6, <1>7, <1>8 DEF RowsOK

(* A request that is over.                                                 *)
LEMMA DoneSound ==
    ASSUME NEW t \in Clerks, TypeOK, Done(t), Rows \subseteq Rows',
           \A s \in Rows : rows'[s].unit = rows[s].unit
    PROVE  Requests'
<1>1. req' = [req EXCEPT ![t] = None]
    BY DEF Done
<1>2. RequestOK(t)'
    BY <1>1 DEF TypeOK, RequestOK, In, Idle
<1> QED BY <1>1, <1>2, RequestsKept

(* Requests that go on while labels change.                                *)
LEMMA WaitSound ==
    ASSUME TypeOK, req' = req, Rows \subseteq Rows',
           \A s \in Rows : rows'[s].unit = rows[s].unit
    PROVE  Requests'
<1>1. Requests
    BY TypeOKParts
<1> QED BY <1>1 DEF Requests, RequestOK, In, Idle

LEMMA NewRowTyped ==
    ASSUME NEW u \in Labels, NEW status \in Statuses, NEW place \in Places
    PROVE  NewRow(u, status, place) \in Row
BY DEF NewRow, Row

(* What happens to a unit is written to its entry in goods.                *)
LEMMA GoodsExchanged ==
    ASSUME TypeOK, NEW g \in [DOMAIN goods -> [status : Statuses, place : Places]], goods' = g
    PROVE  /\ goods' \in Seq([status : Statuses, place : Places])
           /\ DOMAIN goods' = DOMAIN goods /\ Len(goods') = Len(goods)
BY Exchanged DEF TypeOK

LEMMA GoodsSet ==
    ASSUME TypeOK, NEW u \in DOMAIN goods, NEW status \in Statuses, NEW place \in Places
    PROVE  /\ [goods EXCEPT ![u].status = status] \in
                    [DOMAIN goods -> [status : Statuses, place : Places]]
           /\ [goods EXCEPT ![u].place = place] \in
                    [DOMAIN goods -> [status : Statuses, place : Places]]
<1>1. goods = [v \in DOMAIN goods |-> goods[v]]
    BY DEF TypeOK
<1>2. \A v \in DOMAIN goods : goods[v] \in [status : Statuses, place : Places]
    BY RowsTyped
<1> QED BY <1>1, <1>2

(* What is moved or shelved: only the place of labels and units changes.   *)
LEMMA PlacedFields ==
    ASSUME TypeOK, NEW S, NEW l \in Places
    PROVE  /\ Placed(S, l) \in [Rows -> Row]
           /\ \A s \in Rows : /\ Placed(S, l)[s].unit = rows[s].unit
                              /\ Placed(S, l)[s].status = rows[s].status
                              /\ Placed(S, l)[s].active = rows[s].active
                              /\ Placed(S, l)[s].printed = rows[s].printed
                              /\ s \in S => Placed(S, l)[s].place = l
                              /\ s \notin S => Placed(S, l)[s] = rows[s]
BY RowsTyped DEF Placed, Row

LEMMA PutFields ==
    ASSUME TypeOK, NEW U, NEW l \in Places
    PROVE  /\ Put(U, l) \in [DOMAIN goods -> [status : Statuses, place : Places]]
           /\ \A u \in DOMAIN goods : /\ Put(U, l)[u].status = goods[u].status
                                      /\ u \in U => Put(U, l)[u].place = l
                                      /\ u \notin U => Put(U, l)[u] = goods[u]
BY RowsTyped DEF Put

LEMMA RowsSame ==
    ASSUME TypeInv, rows' = rows, goods' = goods, crossed' = crossed, untold' = untold
    PROVE  RowsOK' /\ GoodsOK' /\ UnitsLabelled'
BY DEF TypeInv, TypeOK, RowsOK, GoodsOK, Rows, UnitsLabelled

LEMMA NewRequest ==
    ASSUME TypeInv, rows' = rows, NEW t \in Clerks, NEW r \in Request,
           req' = [req EXCEPT ![t] = r], RequestOK(t)'
    PROVE  Requests'
<1>1. Rows' = Rows /\ TypeOK
    BY DEF Rows, TypeInv
<1> QED BY <1>1, RequestsKept

(* One action after the other.                                             *)
LEMMA GenerateTyped ==
    ASSUME TypeInv, NEW t \in Clerks, NEW status \in {"GENERATED", "IN_STOCK"},
           Generate(t, status)
    PROVE  /\ TypeInv'
           /\ Len(goods) + 1 \notin DOMAIN goods
           /\ DOMAIN goods' = DOMAIN goods \cup {Len(goods) + 1}
           /\ \A u \in DOMAIN goods : goods'[u] = goods[u]
           /\ goods'[Len(goods) + 1] = [status |-> status, place |-> None]
           /\ Rows' = Rows \cup {Len(rows) + 1} /\ Len(rows) + 1 \notin Rows
           /\ Len(rows) + 1 \in Labels
           /\ rows'[Len(rows) + 1] = NewRow(Len(goods) + 1, status, None)
           /\ \A s \in Rows : rows'[s] = rows[s]
<1> DEFINE g == [status |-> status, place |-> None]
           x == NewRow(Len(goods) + 1, status, None)
<1>1. TypeOK /\ Len(rows) < MaxLabels /\ Len(goods) <= Len(rows)
      /\ rows' = Append(rows, x) /\ goods' = Append(goods, g)
      /\ MaxLabels \in Nat /\ Len(rows) \in Nat /\ Len(goods) \in Nat
    BY BoundsAssumption, RowsTyped DEF TypeInv, UnitsLabelled, Generate
<1>2. g \in [status : Statuses, place : Places] /\ status \in Statuses /\ None \in Places
    BY DEF Statuses, Places
<1>3. goods \in Seq([status : Statuses, place : Places])
    BY <1>1 DEF TypeOK
<1>4. /\ goods' \in Seq([status : Statuses, place : Places])
      /\ Len(goods') = Len(goods) + 1
      /\ DOMAIN goods' = DOMAIN goods \cup {Len(goods) + 1}
      /\ Len(goods) + 1 \notin DOMAIN goods
      /\ \A u \in DOMAIN goods : goods'[u] = goods[u]
      /\ goods'[Len(goods) + 1] = g
    BY <1>1, <1>2, <1>3, Appended
<1>5. Len(goods) + 1 \in Labels
    BY <1>1 DEF Labels
<1>6. x \in Row /\ x.unit = Len(goods) + 1
    BY <1>2, <1>5, NewRowTyped DEF NewRow
<1>7. rows \in [Rows -> Row]
    BY <1>1, RowsTyped DEF TypeOK, Rows
<1>8. /\ RowsOK' /\ Rows' = Rows \cup {Len(rows) + 1}
      /\ Len(rows) + 1 \notin Rows /\ Len(rows) + 1 \in Labels
      /\ rows'[Len(rows) + 1] = x
      /\ \A s \in Rows : rows'[s] = rows[s] /\ rows'[s].unit = rows[s].unit
    BY <1>1, <1>4, <1>6, <1>7, AdditionTyped
<1>9. GoodsOK' /\ OtherOK'
    BY <1>1, <1>4, <1>8, DraftsKept DEF GoodsOK, OtherOK, TypeOK, Generate
<1>10. Requests'
    BY <1>1, <1>8, WaitSound DEF Generate
<1>11. UnitsLabelled'
    <2>1. rows \in Seq(Row)
        BY <1>1 DEF TypeOK
    <2>2. Len(rows') = Len(rows) + 1
        BY <1>1, <1>6, <2>1
    <2> QED BY <1>1, <1>4, <2>2 DEF UnitsLabelled
<1> QED BY <1>4, <1>8, <1>9, <1>10, <1>11, TypeOKNext DEF TypeInv
(* A request that is opened changes nothing but the requests.              *)
Opening(t) == \/ \E s \in Rows \cap Printed, admin \in BOOLEAN : OpenPrint(t, s, admin)
              \/ \E from \in Places, to \in Locations, serials \in SUBSET Rows :
                     OpenMove(t, from, to, serials)
              \/ \E d \in Drafts, l \in Locations, serials \in SUBSET Rows :
                     OpenShelve(t, d, l, serials)
              \/ \E s \in Rows : OpenReplace(t, s)

LEMMA OpeningUnchanged ==
    ASSUME NEW t \in Clerks, Opening(t)
    PROVE  UNCHANGED <<rows, open, moves, prints, scanned, goods, crossed, untold>>
BY DEF Opening, OpenPrint, OpenMove, OpenShelve, OpenReplace

LEMMA OpeningTyped ==
    ASSUME TypeInv, NEW t \in Clerks, Opening(t)
    PROVE  TypeInv'
<1>1. UNCHANGED <<rows, open, moves, prints, scanned, goods, crossed, untold>>
    BY OpeningUnchanged
<1>2. TypeOK /\ Rows \subseteq Labels /\ Rows' = Rows /\ req \in [Clerks -> Request \cup {None}]
    BY <1>1, RowsTyped DEF TypeInv, TypeOK, Rows
<1>3. RowsOK' /\ GoodsOK' /\ OtherOK' /\ UnitsLabelled'
    BY <1>1, <1>2, RowsSame DEF OtherOK, TypeOK
<1>4. Requests'
    <2>1. ASSUME NEW s \in Rows, NEW admin \in BOOLEAN, OpenPrint(t, s, admin)
          PROVE  Requests'
        <3> DEFINE r == [op |-> "print", serial |-> s, admin |-> admin]
        <3>1. r \in Request
            BY <1>2 DEF Request
        <3>2. req' = [req EXCEPT ![t] = r]
            BY <2>1 DEF OpenPrint
        <3>3. req'[t] = r
            BY <1>2, <3>2
        <3>4. RequestOK(t)'
            BY <1>2, <3>1, <3>3 DEF RequestOK, In, Idle
        <3> QED BY <1>1, <3>1, <3>2, <3>4, NewRequest
    <2>2. ASSUME NEW from \in Places, NEW to \in Locations, NEW serials \in SUBSET Rows,
                 OpenMove(t, from, to, serials)
          PROVE  Requests'
        <3> DEFINE r == [op |-> "move", from |-> from, to |-> to, serials |-> serials]
        <3>1. r \in Request
            BY <1>2 DEF Request
        <3>2. req' = [req EXCEPT ![t] = r]
            BY <2>2 DEF OpenMove
        <3>3. req'[t] = r
            BY <1>2, <3>2
        <3>4. RequestOK(t)'
            BY <1>2, <3>1, <3>3 DEF RequestOK, In, Idle
        <3> QED BY <1>1, <3>1, <3>2, <3>4, NewRequest
    <2>4. ASSUME NEW d \in Drafts, NEW l \in Locations, NEW serials \in SUBSET Rows,
                 OpenShelve(t, d, l, serials)
          PROVE  Requests'
        <3> DEFINE written == {s \in serials : rows[s].place # l}
                   r == [op |-> "shelve", draft |-> d, to |-> l, serials |-> serials,
                         written |-> written]
        <3>1. written \subseteq serials
            OBVIOUS
        <3>2. req' = [req EXCEPT ![t] = r]
            BY <2>4 DEF OpenShelve
        <3> HIDE DEF written
        <3>3. r \in Request
            BY <1>2, <3>1 DEF Request
        <3>4. req'[t] = r
            BY <1>2, <3>2
        <3>5. RequestOK(t)'
            BY <1>2, <3>1, <3>3, <3>4 DEF RequestOK, In, Idle
        <3> QED BY <1>1, <3>2, <3>3, <3>5, NewRequest
    <2>3. ASSUME NEW s \in Rows, OpenReplace(t, s)
          PROVE  Requests'
        <3> DEFINE seen == [rows[s] EXCEPT !.printed = FALSE]
                   r == [op |-> "replace", serial |-> s, seen |-> seen]
        <3>1. rows[s] \in Row
            BY <1>2, RowsTyped
        <3>2. seen \in Row /\ seen.unit = rows[s].unit
            BY <3>1 DEF Row
        <3>3. req' = [req EXCEPT ![t] = r]
            BY <2>3 DEF OpenReplace
        <3> HIDE DEF seen
        <3>4. r \in Request
            BY <1>2, <3>2 DEF Request
        <3>5. req'[t] = r
            BY <1>2, <3>3
        <3>6. RequestOK(t)'
            BY <1>1, <1>2, <3>2, <3>4, <3>5 DEF RequestOK, In, Idle
        <3> QED BY <1>1, <3>3, <3>4, <3>6, NewRequest
    <2> QED BY <2>1, <2>2, <2>3, <2>4 DEF Opening
<1> QED BY <1>3, <1>4, TypeOKNext DEF TypeInv

(* The rows after an action that changes rows in place.                    *)
LEMMA PrintTyped ==
    ASSUME TypeInv, NEW t \in Clerks, RecordPrint(t)
    PROVE  /\ TypeInv' /\ Rows' = Rows /\ req[t].serial \in Rows
           /\ \A s \in Rows : /\ rows'[s].unit = rows[s].unit
                              /\ rows'[s].status = rows[s].status
                              /\ rows'[s].active = rows[s].active
                              /\ rows'[s].place = rows[s].place
<1> DEFINE s0 == req[t].serial
           p == IF req[t].admin \/ Unprinted(s0) THEN [rows EXCEPT ![s0].printed = TRUE] ELSE rows
<1>1. TypeOK /\ In(t, "print") /\ ~Idle(t) /\ rows' = p
    BY DEF RecordPrint, In, TypeInv
<1>2. s0 \in Rows /\ Rows \subseteq Labels
    BY <1>1, RequestFields, RowsTyped
<1>3. rows \in [Rows -> Row]
    BY <1>1, RowsTyped DEF TypeOK, Rows
<1>4. /\ p \in [Rows -> Row]
      /\ \A s \in Rows : /\ p[s].unit = rows[s].unit
                         /\ p[s].status = rows[s].status
                         /\ p[s].active = rows[s].active
                         /\ p[s].place = rows[s].place
    BY <1>2, <1>3 DEF Row
<1> HIDE DEF p
<1>5. goods' = goods /\ crossed' = crossed /\ open' = open /\ moves' = moves
    BY DEF RecordPrint
<1>6. goods' \in Seq([status : Statuses, place : Places])
    BY <1>1, <1>5 DEF TypeOK
<1>7. RowsOK' /\ Rows' = Rows /\ \A s \in Rows : rows'[s].unit = rows[s].unit
    BY <1>1, <1>4, <1>5, <1>6, ChangeTyped
<1>8. prints' \in [Labels -> Nat]
    <2>1. prints \in [Labels -> Nat] /\ s0 \in Labels
        BY <1>1, <1>2 DEF TypeOK
    <2>2. \/ prints' = [prints EXCEPT ![s0] = @ + 1]
          \/ prints' = prints
        BY DEF RecordPrint
    <2> QED BY <2>1, <2>2
<1>9. GoodsOK' /\ OtherOK'
    BY <1>1, <1>5, <1>6, <1>7, <1>8, DraftsKept DEF GoodsOK, OtherOK, TypeOK, RecordPrint
<1>10. Requests'
    BY <1>1, <1>7, DoneSound DEF RecordPrint
<1>11. UnitsLabelled'
    BY <1>1, <1>3, <1>4, <1>5, Exchanged DEF TypeInv, UnitsLabelled, TypeOK, Rows
<1> QED BY <1>1, <1>2, <1>4, <1>7, <1>9, <1>10, <1>11, TypeOKNext DEF TypeInv

LEMMA MoveTyped ==
    ASSUME TypeInv, NEW t \in Clerks, Move(t)
    PROVE  /\ TypeInv' /\ Rows' = Rows /\ DOMAIN goods' = DOMAIN goods
           /\ \A s \in Rows : /\ rows'[s].unit = rows[s].unit
                              /\ rows'[s].status = rows[s].status
                              /\ rows'[s].active = rows[s].active
                              /\ rows'[s].printed = rows[s].printed
<1> DEFINE serials == req[t].serials  from == req[t].from  to == req[t].to
           p == Placed(serials, to)  g == Put(UnitsOf(serials), to)
           m == [serials |-> serials, from |-> from, to |-> to]
<1>1. TypeOK /\ In(t, "move") /\ ~Idle(t)
    BY DEF Move, In, TypeInv
<1>2. /\ serials \subseteq Rows /\ from \in Places /\ to \in Locations /\ to \in Places
      /\ Rows \subseteq Labels
    BY <1>1, RequestFields, RowsTyped DEF Places
<1>3. rows \in [Rows -> Row] /\ rows \in Seq(Row)
    BY <1>1, RowsTyped DEF TypeOK, Rows
<1>4. /\ p \in [Rows -> Row]
      /\ \A s \in Rows : /\ p[s].unit = rows[s].unit
                         /\ p[s].status = rows[s].status
                         /\ p[s].active = rows[s].active
                         /\ p[s].printed = rows[s].printed
    BY <1>1, <1>2, PlacedFields
<1>5. g \in [DOMAIN goods -> [status : Statuses, place : Places]]
    BY <1>1, <1>2, PutFields
<1>6. m \in [serials : SUBSET Labels, from : Places, to : Locations]
    BY <1>2
<1>7. CASE rows' = p /\ goods' = g /\ moves' = Append(moves, m)
    <2> HIDE DEF p, g, m
    <2>1. /\ goods' \in Seq([status : Statuses, place : Places])
          /\ DOMAIN goods' = DOMAIN goods /\ Len(goods') = Len(goods)
        BY <1>1, <1>5, <1>7, GoodsExchanged
    <2>2. RowsOK' /\ Rows' = Rows /\ \A s \in Rows : rows'[s].unit = rows[s].unit
        BY <1>1, <1>4, <1>7, <2>1, ChangeTyped
    <2>3. Len(rows') = Len(rows)
        BY <1>3, <1>4, <1>7, Exchanged DEF Rows
    <2>4. moves' \in Seq([serials : SUBSET Labels, from : Places, to : Locations])
        BY <1>1, <1>6, <1>7, Appended DEF TypeOK
    <2>5. GoodsOK' /\ OtherOK'
        BY <1>1, <2>1, <2>2, <2>4, DraftsKept DEF GoodsOK, OtherOK, TypeOK, Move
    <2>6. Requests'
        BY <1>1, <2>2, DoneSound DEF Move
    <2>7. UnitsLabelled'
        BY <2>1, <2>3 DEF TypeInv, UnitsLabelled
    <2> QED BY <1>4, <1>7, <2>1, <2>2, <2>5, <2>6, <2>7, TypeOKNext DEF TypeInv
<1>8. CASE UNCHANGED <<rows, moves, goods, untold>>
    <2>2. Rows' = Rows
        BY <1>8 DEF Rows
    <2>1. RowsOK' /\ GoodsOK' /\ UnitsLabelled' /\ OtherOK'
        BY <1>1, <1>8, <2>2, RowsSame DEF Move, OtherOK, TypeOK
    <2>3. Requests'
        BY <1>1, <1>8, <2>2, DoneSound DEF Move
    <2> QED BY <1>8, <2>1, <2>2, <2>3, TypeOKNext DEF TypeInv
<1> QED BY <1>7, <1>8 DEF Move

LEMMA ToggleTyped ==
    ASSUME TypeInv, NEW l \in Toggled, Toggle(l)
    PROVE  TypeInv'
<1>1. TypeOK /\ UNCHANGED <<rows, moves, prints, scanned, req, goods, crossed, untold>> /\ Rows' = Rows
    BY DEF Toggle, TypeInv, Rows
<1>2. open' \subseteq Locations
    BY <1>1, SubsetsAssumption DEF Toggle, TypeOK
<1>3. RowsOK' /\ GoodsOK' /\ UnitsLabelled' /\ OtherOK'
    BY <1>1, <1>2, RowsSame DEF OtherOK, TypeOK
<1>4. Requests'
    BY <1>1, WaitSound
<1> QED BY <1>3, <1>4, TypeOKNext DEF TypeInv

LEMMA ReplaceTyped ==
    ASSUME TypeInv, NEW t \in Clerks, Replace(t)
    PROVE  LET s0 == req[t].serial  n == Len(rows) + 1  seen == req[t].seen
           IN /\ TypeInv' /\ Rows' = Rows \cup {n} /\ n \notin Rows /\ n \in Labels
              /\ s0 \in Rows /\ seen \in Row /\ seen.unit = rows[s0].unit
              /\ seen.unit \in DOMAIN goods /\ DOMAIN goods' = DOMAIN goods
              /\ rows'[n] = NewRow(seen.unit, ReplacementStatusFor(seen.status), seen.place)
              /\ rows'[s0] = OldRetired(rows[s0], n)
              /\ \A s \in Rows \ {s0} : rows'[s] = rows[s]
<1> DEFINE s0 == req[t].serial  seen == req[t].seen  u == seen.unit  n == Len(rows) + 1
           status == ReplacementStatusFor(seen.status)
           p == [rows EXCEPT ![s0] = OldRetired(rows[s0], n)]
           x == NewRow(u, status, seen.place)
<1>1. /\ TypeOK /\ In(t, "replace") /\ ~Idle(t)
      /\ Len(rows) < MaxLabels /\ Len(rows) \in Nat /\ MaxLabels \in Nat
      /\ rows' = Append(p, x)
    BY RowsTyped, BoundsAssumption DEF Replace, In, TypeInv
<1>2. s0 \in Rows /\ seen \in Row /\ seen.unit = rows[s0].unit /\ u \in DOMAIN goods
    BY <1>1, RequestFields, RowsTyped
<1>3. rows \in [Rows -> Row] /\ rows \in Seq(Row)
    BY <1>1, RowsTyped DEF TypeOK, Rows
<1>4. n \in Labels
    BY <1>1 DEF Labels
<1>5. OldRetired(rows[s0], n) \in Row /\ OldRetired(rows[s0], n).unit = rows[s0].unit
    BY <1>2, <1>3, <1>4 DEF OldRetired, Row, Statuses
<1>6. status \in Statuses /\ u \in Labels /\ seen.place \in Places
    BY <1>2 DEF Row, ReplacementStatusFor, Statuses
<1>7. x \in Row /\ x.unit = u
    BY <1>6, NewRowTyped DEF NewRow
<1>8. /\ p \in [Rows -> Row] /\ p[s0] = OldRetired(rows[s0], n)
      /\ \A s \in Rows \ {s0} : p[s] = rows[s]
      /\ \A s \in Rows : p[s].unit = rows[s].unit
    BY <1>2, <1>3, <1>5
<1> HIDE DEF p, x, n, status
<1>9. /\ goods' \in Seq([status : Statuses, place : Places])
      /\ DOMAIN goods' = DOMAIN goods /\ Len(goods') = Len(goods)
      /\ crossed' \subseteq DOMAIN goods
    <2>1. CASE goods' = [goods EXCEPT ![u].status = status] /\ crossed' = crossed
        BY <1>1, <1>2, <1>6, <2>1, GoodsSet, GoodsExchanged DEF TypeOK
    <2>2. CASE goods' = goods /\ crossed' = crossed \cup {u}
        BY <1>1, <1>2, <2>2 DEF TypeOK
    <2> QED BY <2>1, <2>2 DEF Replace, status
<1>10. /\ RowsOK' /\ Rows' = Rows \cup {n} /\ n \notin Rows /\ rows'[n] = x
       /\ \A s \in Rows : rows'[s] = p[s] /\ rows'[s].unit = rows[s].unit
    BY <1>1, <1>2, <1>7, <1>8, <1>9, AdditionTyped DEF n
<1>11. GoodsOK' /\ OtherOK'
    BY <1>1, <1>9, <1>10, DraftsKept DEF GoodsOK, OtherOK, TypeOK, Replace
<1>12. Requests'
    BY <1>1, <1>10, DoneSound DEF Replace
<1>13. UnitsLabelled'
    <2>1. p \in Seq(Row) /\ Len(p) = Len(rows)
        BY <1>3, <1>8, Exchanged DEF Rows
    <2>2. Len(rows') = Len(rows) + 1 /\ Len(goods) <= Len(rows) /\ Len(goods) \in Nat
        BY <1>1, <1>7, <2>1, Appended, RowsTyped DEF TypeInv, UnitsLabelled
    <2> QED BY <1>1, <1>9, <2>2 DEF UnitsLabelled
<1> QED BY <1>2, <1>4, <1>8, <1>9, <1>10, <1>11, <1>12, <1>13, TypeOKNext DEF TypeInv, n, x, status

LEMMA TradeTyped ==
    ASSUME TypeInv, NEW s0 \in Rows, NEW status \in Statuses, Trade(s0, status)
    PROVE  /\ TypeInv' /\ Rows' = Rows /\ DOMAIN goods' = DOMAIN goods
           /\ rows'[s0] = [rows[s0] EXCEPT !.status = status]
           /\ \A s \in Rows \ {s0} : rows'[s] = rows[s]
<1> DEFINE p == [rows EXCEPT ![s0].status = status]
           g == [goods EXCEPT ![rows[s0].unit].status = status]
<1>1. TypeOK /\ rows' = p /\ goods' = g
    BY DEF Trade, TypeInv
<1>2. rows \in [Rows -> Row] /\ rows \in Seq(Row) /\ rows[s0].unit \in DOMAIN goods
    BY <1>1, RowsTyped DEF TypeOK, Rows
<1>3. /\ p \in [Rows -> Row] /\ p[s0] = [rows[s0] EXCEPT !.status = status]
      /\ \A s \in Rows \ {s0} : p[s] = rows[s]
      /\ \A s \in Rows : p[s].unit = rows[s].unit
    BY <1>2 DEF Row
<1>4. g \in [DOMAIN goods -> [status : Statuses, place : Places]]
    <2>1. \E l \in Places : TRUE
        BY DEF Places
    <2> QED BY <1>1, <1>2, <2>1, GoodsSet
<1> HIDE DEF p, g
<1>5. /\ goods' \in Seq([status : Statuses, place : Places])
      /\ DOMAIN goods' = DOMAIN goods /\ Len(goods') = Len(goods)
    BY <1>1, <1>4, GoodsExchanged
<1>6. RowsOK' /\ Rows' = Rows /\ \A s \in Rows : rows'[s].unit = rows[s].unit
    BY <1>1, <1>3, <1>5, ChangeTyped
<1>7. GoodsOK' /\ OtherOK'
    BY <1>1, <1>5, <1>6, DraftsKept DEF GoodsOK, OtherOK, TypeOK, Trade
<1>8. Requests'
    BY <1>1, <1>6, WaitSound DEF Trade
<1>9. UnitsLabelled'
    BY <1>1, <1>2, <1>3, <1>5, Exchanged DEF TypeInv, UnitsLabelled, Rows
<1> QED BY <1>1, <1>3, <1>5, <1>6, <1>7, <1>8, <1>9, TypeOKNext DEF TypeInv

LEMMA ShelveTyped ==
    ASSUME TypeInv, NEW t \in Clerks, Shelve(t)
    PROVE  /\ TypeInv' /\ Rows' = Rows /\ DOMAIN goods' = DOMAIN goods
           /\ \A s \in Rows : /\ rows'[s].unit = rows[s].unit
                              /\ rows'[s].status = rows[s].status
                              /\ rows'[s].active = rows[s].active
                              /\ rows'[s].printed = rows[s].printed
<1> DEFINE d == req[t].draft  l == req[t].to  written == req[t].written
           serials == req[t].serials  told == written \cup {s \in serials : ~rows[s].active}
           p == Placed(written, l)  g == Put(UnitsOf(told), l)
<1>1. /\ TypeOK /\ In(t, "shelve") /\ ~Idle(t)
      /\ rows' = p /\ goods' = g /\ scanned' = [scanned EXCEPT ![d] = @ \ serials]
      /\ untold' = (untold \cup UnitsOf(told)) \ UnitsOf({s \in written : rows[s].active})
    BY DEF Shelve, In, TypeInv
<1>2. /\ serials \subseteq Rows /\ written \subseteq serials /\ l \in Places
      /\ told \subseteq Rows
    BY <1>1, RequestFields DEF Places
<1>3. UnitsOf(told) \subseteq DOMAIN goods
    BY <1>1, <1>2, RowsTyped DEF UnitsOf
<1>4. /\ p \in [Rows -> Row]
      /\ \A s \in Rows : /\ p[s].unit = rows[s].unit
                         /\ p[s].status = rows[s].status
                         /\ p[s].active = rows[s].active
                         /\ p[s].printed = rows[s].printed
    BY <1>1, <1>2, PlacedFields
<1>5. g \in [DOMAIN goods -> [status : Statuses, place : Places]]
    BY <1>1, <1>2, PutFields
<1> HIDE DEF p, g, told
<1>6. /\ goods' \in Seq([status : Statuses, place : Places])
      /\ DOMAIN goods' = DOMAIN goods /\ Len(goods') = Len(goods)
    BY <1>1, <1>5, GoodsExchanged
<1>7. RowsOK' /\ Rows' = Rows /\ \A s \in Rows : rows'[s].unit = rows[s].unit
    BY <1>1, <1>4, <1>6, ChangeTyped
<1>8. scanned' \in [Drafts -> SUBSET Rows']
    BY <1>1, <1>7 DEF TypeOK
<1>9. GoodsOK' /\ OtherOK'
    BY <1>1, <1>3, <1>6, <1>8 DEF GoodsOK, OtherOK, TypeOK, Shelve
<1>10. Requests'
    BY <1>1, <1>7, DoneSound DEF Shelve
<1>11. UnitsLabelled'
    <2>1. rows \in Seq(Row) /\ Rows = DOMAIN rows
        BY <1>1 DEF TypeOK, Rows
    <2> QED BY <1>1, <1>4, <1>6, <2>1, Exchanged DEF TypeInv, UnitsLabelled
<1> QED BY <1>1, <1>4, <1>6, <1>7, <1>9, <1>10, <1>11, TypeOKNext DEF TypeInv

LEMMA ScanTyped ==
    ASSUME TypeInv, NEW d \in Drafts, NEW s0 \in Rows, Scan(d, s0)
    PROVE  TypeInv'
<1>1. TypeOK /\ UNCHANGED <<rows, open, moves, prints, req, goods, crossed, untold>> /\ Rows' = Rows
    BY DEF Scan, TypeInv, Rows
<1>2. scanned' \in [Drafts -> SUBSET Rows']
    BY <1>1 DEF Scan, TypeOK
<1>3. RowsOK' /\ GoodsOK' /\ UnitsLabelled' /\ OtherOK'
    BY <1>1, <1>2, RowsSame DEF OtherOK, TypeOK
<1>4. Requests'
    BY <1>1, WaitSound
<1> QED BY <1>3, <1>4, TypeOKNext DEF TypeInv

LEMMA RemoveTyped ==
    ASSUME TypeInv, NEW d \in Drafts, NEW s0 \in Rows, Remove(d, s0)
    PROVE  TypeInv'
<1>1. TypeOK /\ UNCHANGED <<rows, open, moves, prints, goods, crossed, untold>> /\ Rows' = Rows
    BY DEF Remove, TypeInv, Rows
<1>2. scanned' \in [Drafts -> SUBSET Rows']
    BY <1>1 DEF Remove, TypeOK
<1>3. RowsOK' /\ GoodsOK' /\ UnitsLabelled' /\ OtherOK'
    BY <1>1, <1>2, RowsSame DEF OtherOK, TypeOK
<1>4. Requests'
    <2>1. req' = [t \in Clerks |-> req'[t]] /\ \A t \in Clerks : req'[t] \in {None, req[t]}
        BY DEF Remove
    <2>2. ASSUME NEW t \in Clerks PROVE RequestOK(t)'
        <3>1. RequestOK(t)
            BY <1>1, TypeOKParts DEF Requests
        <3>2. CASE req'[t] = None
            BY <3>2 DEF RequestOK, In, Idle
        <3>3. CASE req'[t] = req[t]
            BY <1>1, <3>1, <3>3 DEF RequestOK, In, Idle
        <3> QED BY <2>1, <3>2, <3>3
    <2> QED BY <2>1, <2>2 DEF Requests
<1> QED BY <1>3, <1>4, TypeOKNext DEF TypeInv
Acts == \/ \E t \in Clerks, status \in {"GENERATED", "IN_STOCK"} : Generate(t, status)
        \/ \E t \in Clerks : Opening(t) \/ RecordPrint(t) \/ Move(t) \/ Shelve(t) \/ Replace(t)
        \/ \E s \in Rows, status \in Statuses : Trade(s, status)
        \/ \E d \in Drafts, s \in Rows : Scan(d, s) \/ Remove(d, s)
        \/ \E l \in Toggled : Toggle(l)

LEMMA NextActs == Next => Acts
BY DEF Next, Open, Acts, Opening

LEMMA StutterTyped ==
    ASSUME TypeInv, UNCHANGED vars
    PROVE  TypeInv'
<1>1. TypeOK /\ rows' = rows /\ goods' = goods /\ crossed' = crossed /\ untold' = untold /\ req' = req
      /\ UNCHANGED <<open, moves, prints, scanned>> /\ Rows' = Rows
    BY DEF vars, TypeInv, Rows
<1>2. RowsOK' /\ GoodsOK' /\ UnitsLabelled' /\ OtherOK'
    BY <1>1, RowsSame DEF OtherOK, TypeOK
<1>3. Requests'
    BY <1>1, WaitSound
<1> QED BY <1>2, <1>3, TypeOKNext DEF TypeInv

LEMMA TypePreserved == TypeInv /\ [Next]_vars => TypeInv'
BY NextActs, StutterTyped, GenerateTyped, OpeningTyped, PrintTyped, MoveTyped, ReplaceTyped,
   TradeTyped, ShelveTyped, ScanTyped, RemoveTyped, ToggleTyped DEF Acts

(* Types: the requests only ever name labels that exist, and every unit    *)
(* has a row.                                                              *)
THEOREM TypeCorrect == Spec => []TypeOK
<1>1. Init => TypeInv
    BY InitTyped DEF Init, TypeInv, UnitsLabelled
<1>2. TypeInv => TypeOK
    BY DEF TypeInv
<1> QED BY <1>1, <1>2, TypePreserved, PTL DEF Spec

-----------------------------------------------------------------------------
(* A label that was replaced.                                              *)
LEMMA RetiredKept ==
    ASSUME TypeInv, Retired, [Next]_vars
    PROVE  Retired' /\ RetiredForGood
<1> USE DEF Retired, RetiredForGood, SameSeen
<1>1. ASSUME rows' = rows PROVE Retired' /\ RetiredForGood
    BY <1>1 DEF Rows
<1>2. ASSUME NEW t \in Clerks, NEW status \in {"GENERATED", "IN_STOCK"}, Generate(t, status)
      PROVE  Retired' /\ RetiredForGood
    BY <1>2, GenerateTyped DEF NewRow
<1>3. ASSUME NEW t \in Clerks, RecordPrint(t) PROVE Retired' /\ RetiredForGood
    BY <1>3, PrintTyped
<1>4. ASSUME NEW t \in Clerks, Move(t) PROVE Retired' /\ RetiredForGood
    <2>1. Rows' = Rows
          /\ \A s \in Rows : rows'[s].status = rows[s].status /\ rows'[s].active = rows[s].active
        BY <1>4, MoveTyped
    <2>2. \A s \in Rows : ~rows[s].active => rows'[s].place = rows[s].place
        BY <1>4 DEF Move, StillThere, Placed
    <2> QED BY <2>1, <2>2
<1>5. ASSUME NEW t \in Clerks, Replace(t) PROVE Retired' /\ RetiredForGood
    <2> DEFINE s0 == req[t].serial  n == Len(rows) + 1
    <2>0. /\ Rows' = Rows \cup {n} /\ n \notin Rows /\ s0 \in Rows
          /\ rows'[n] = NewRow(req[t].seen.unit, ReplacementStatusFor(req[t].seen.status),
                              req[t].seen.place)
          /\ rows'[s0] = OldRetired(rows[s0], n)
          /\ \A s \in Rows \ {s0} : rows'[s] = rows[s]
        BY <1>5, ReplaceTyped
    <2> HIDE DEF s0, n
    <2>1. rows'[n].active /\ rows[s0] \in Row
        BY <2>0, RowsTyped DEF NewRow, TypeInv
    <2>2. /\ rows'[s0].status = "INVALID" /\ rows'[s0].active = FALSE
          /\ rows'[s0].place = rows[s0].place /\ rows[s0].active \in BOOLEAN
        BY <2>0, <2>1 DEF OldRetired, Row
    <2>3. Retired'
        BY <2>0, <2>1, <2>2
    <2>4. RetiredForGood
        BY <2>0, <2>1, <2>2
    <2> QED BY <2>3, <2>4
<1>6. ASSUME NEW s0 \in Rows, NEW status \in Statuses, Trade(s0, status)
      PROVE  Retired' /\ RetiredForGood
    <2>1. rows[s0] \in Row /\ rows[s0].active
        BY <1>6, RowsTyped DEF TypeInv, Trade
    <2>2. /\ Rows' = Rows /\ rows'[s0] = [rows[s0] EXCEPT !.status = status]
          /\ \A s \in Rows \ {s0} : rows'[s] = rows[s]
        BY <1>6, TradeTyped
    <2>3. rows'[s0].active
        BY <2>1, <2>2 DEF Row
    <2> QED BY <2>1, <2>2, <2>3
<1>7. ASSUME NEW t \in Clerks, Shelve(t)
      PROVE  Retired' /\ RetiredForGood
    <2>1. Rows' = Rows
          /\ \A s \in Rows : rows'[s].status = rows[s].status /\ rows'[s].active = rows[s].active
        BY <1>7, ShelveTyped
    <2>2. rows' = Placed(req[t].written, req[t].to) /\ In(t, "shelve")
        BY <1>7 DEF Shelve
    <2>3. req'[t] = None
        BY <1>7 DEF Shelve, Done, TypeInv, TypeOK
    <2>4. ASSUME NEW s \in Rows PROVE SameSeen(rows'[s], rows[s]) \/ ByShelfScan(s)
        <3>1. CASE s \in req[t].written
            BY <2>2, <2>3, <3>1 DEF ByShelfScan, Placed
        <3>2. CASE s \notin req[t].written
            BY <2>2, <3>2 DEF Placed
        <3> QED BY <3>1, <3>2
    <2> QED BY <2>1, <2>4
<1>8. ASSUME NEW t \in Clerks, Opening(t) PROVE rows' = rows
    BY <1>8, OpeningUnchanged
<1>9. ASSUME NEW l \in Toggled, Toggle(l) PROVE rows' = rows
    BY <1>9 DEF Toggle
<1>10. ASSUME UNCHANGED vars PROVE rows' = rows
    BY <1>10 DEF vars
<1>11. ASSUME NEW d, NEW s, Scan(d, s) \/ Remove(d, s) PROVE rows' = rows
    BY <1>11 DEF Scan, Remove
<1> QED
    <2> HIDE DEF Retired, RetiredForGood, SameSeen
    <2> QED BY <1>1, <1>2, <1>3, <1>4, <1>5, <1>6, <1>7, <1>8, <1>9, <1>10, <1>11, NextActs DEF Acts

(* What a replacement goes on with.                                        *)
LEMMA SeenKept ==
    ASSUME TypeInv, SeenInUse, [Next]_vars
    PROVE  SeenInUse'
<1> USE DEF SeenInUse, In, Idle
<1>1. ASSUME req' = req PROVE SeenInUse'
    BY <1>1
<1>2. req \in [Clerks -> Request \cup {None}]
    BY DEF TypeInv, TypeOK
<1>3. ASSUME NEW t \in Clerks, Done(t) PROVE SeenInUse'
    BY <1>2, <1>3 DEF Done
<1>4. ASSUME NEW t \in Clerks, NEW s \in Rows, NEW admin \in BOOLEAN, OpenPrint(t, s, admin)
      PROVE  SeenInUse'
    BY <1>2, <1>4 DEF OpenPrint
<1>5. ASSUME NEW t \in Clerks, NEW from, NEW to, NEW serials, OpenMove(t, from, to, serials)
      PROVE  SeenInUse'
    BY <1>2, <1>5 DEF OpenMove
<1>13. ASSUME NEW t \in Clerks, NEW d, NEW l, NEW serials, OpenShelve(t, d, l, serials)
      PROVE  SeenInUse'
    <2> DEFINE written == {s \in serials : rows[s].place # l}
    <2>1. req' = [req EXCEPT ![t] = [op |-> "shelve", draft |-> d, to |-> l, serials |-> serials,
                                     written |-> written]]
        BY <1>13 DEF OpenShelve
    <2> HIDE DEF written
    <2> QED BY <1>2, <2>1
<1>6. ASSUME NEW t \in Clerks, NEW s \in Rows, OpenReplace(t, s)
      PROVE  SeenInUse'
    <2> DEFINE seen == [rows[s] EXCEPT !.printed = FALSE]
    <2>1. rows[s] \in Row /\ rows[s].active
        BY <1>6, RowsTyped DEF OpenReplace, TypeInv
    <2>2. seen.active
        BY <2>1 DEF Row
    <2>3. req' = [req EXCEPT ![t] = [op |-> "replace", serial |-> s, seen |-> seen]]
        BY <1>6 DEF OpenReplace
    <2> HIDE DEF seen
    <2> QED BY <1>2, <2>2, <2>3
<1>7. ASSUME NEW t \in Clerks, RecordPrint(t) \/ Move(t) \/ Shelve(t) \/ Replace(t) PROVE Done(t)
    BY <1>7 DEF RecordPrint, Move, Shelve, Replace
<1>8. ASSUME NEW t \in Clerks, NEW status, Generate(t, status) PROVE req' = req
    BY <1>8 DEF Generate
<1>9. ASSUME NEW s, NEW status, Trade(s, status) PROVE req' = req
    BY <1>9 DEF Trade
<1>10. ASSUME NEW d, NEW s, Scan(d, s) PROVE req' = req
    BY <1>10 DEF Scan
<1>14. ASSUME NEW d, NEW s, Remove(d, s) PROVE SeenInUse'
    <2>1. \A t \in Clerks : req'[t] \in {None, req[t]}
        BY <1>14 DEF Remove
    <2> QED BY <2>1
<1>11. ASSUME NEW l, Toggle(l) PROVE req' = req
    BY <1>11 DEF Toggle
<1>12. ASSUME UNCHANGED vars PROVE req' = req
    BY <1>12 DEF vars
<1> QED
    <2> HIDE DEF SeenInUse, In, Idle
    <2>1. ASSUME NEW t \in Clerks, Opening(t) PROVE SeenInUse'
        BY <1>4, <1>5, <1>6, <1>13, <2>1 DEF Opening
    <2> QED BY <1>1, <1>3, <1>7, <1>8, <1>9, <1>10, <1>11, <1>12, <1>14, <2>1, NextActs DEF Acts
-----------------------------------------------------------------------------
(* Printing.                                                               *)

MarkOK(s) == prints[s] \in {0, 1} /\ (prints[s] = 1 => s \in Rows /\ rows[s].printed)

LEMMA PrintsKept ==
    ASSUME TypeInv, PrintMarked, [Next]_vars
    PROVE  PrintMarked'
<1>1. \A s \in Labels : MarkOK(s)
    BY DEF PrintMarked, MarkOK
<1>2. ASSUME prints' = prints, Rows \subseteq Rows',
             \A s \in Rows : rows[s].printed => rows'[s].printed
      PROVE  PrintMarked'
    BY <1>1, <1>2 DEF PrintMarked, MarkOK
<1>3. ASSUME NEW t \in Clerks, NEW status \in {"GENERATED", "IN_STOCK"}, Generate(t, status)
      PROVE  PrintMarked'
    <2>1. Rows \subseteq Rows' /\ \A s \in Rows : rows'[s] = rows[s]
        BY <1>3, GenerateTyped
    <2> QED BY <1>2, <1>3, <2>1 DEF Generate
<1>4. ASSUME NEW t \in Clerks, RecordPrint(t) PROVE PrintMarked'
    <2> DEFINE s0 == req[t].serial
    <2>1. Rows' = Rows /\ s0 \in Rows /\ rows \in [Rows -> Row] /\ Rows \subseteq Labels
          /\ prints \in [Labels -> Nat]
        BY <1>4, PrintTyped, RowsTyped DEF TypeInv, TypeOK, Rows
    <2>2. \A s \in Rows : rows[s].printed => rows'[s].printed
        BY <1>4, <2>1 DEF RecordPrint, Row
    <2>3. CASE ~req[t].admin /\ Unprinted(s0)
        <3>1. rows'[s0].printed
            BY <1>4, <2>1, <2>3 DEF RecordPrint, Row
        <3>2. prints' = [prints EXCEPT ![s0] = @ + 1]
            BY <1>4, <2>3 DEF RecordPrint
        <3>3. prints[s0] = 0
            BY <1>1, <2>1, <2>3 DEF MarkOK, Unprinted
        <3>4. prints'[s0] = 1 /\ \A s \in Labels \ {s0} : prints'[s] = prints[s]
            BY <2>1, <3>2, <3>3
        <3> QED BY <1>1, <2>1, <2>2, <3>1, <3>4 DEF PrintMarked, MarkOK
    <2>4. CASE prints' = prints
        BY <1>2, <2>1, <2>2, <2>4
    <2> QED BY <1>4, <2>3, <2>4 DEF RecordPrint
<1>5. ASSUME NEW t \in Clerks, Move(t) PROVE PrintMarked'
    <2>1. Rows' = Rows /\ \A s \in Rows : rows'[s].printed = rows[s].printed
        BY <1>5, MoveTyped
    <2> QED BY <1>2, <1>5, <2>1 DEF Move
<1>6. ASSUME NEW t \in Clerks, Replace(t) PROVE PrintMarked'
    <2> DEFINE s0 == req[t].serial  n == Len(rows) + 1
    <2>1. /\ Rows \subseteq Rows' /\ s0 \in Rows
          /\ rows'[s0] = OldRetired(rows[s0], n)
          /\ \A s \in Rows \ {s0} : rows'[s] = rows[s]
        BY <1>6, ReplaceTyped
    <2> HIDE DEF s0, n
    <2>2. rows[s0] \in Row
        BY <2>1, RowsTyped DEF TypeInv
    <2>3. rows'[s0].printed = rows[s0].printed
        BY <2>1, <2>2 DEF OldRetired, Row
    <2> QED BY <1>2, <1>6, <2>1, <2>3 DEF Replace
<1>7. ASSUME NEW s0 \in Rows, NEW status \in Statuses, Trade(s0, status) PROVE PrintMarked'
    <2>1. Rows' = Rows /\ rows'[s0] = [rows[s0] EXCEPT !.status = status]
          /\ \A s \in Rows \ {s0} : rows'[s] = rows[s]
        BY <1>7, TradeTyped
    <2>2. rows[s0] \in Row
        BY RowsTyped DEF TypeInv
    <2>3. rows'[s0].printed = rows[s0].printed
        BY <2>1, <2>2 DEF Row
    <2> QED BY <1>2, <1>7, <2>1, <2>3 DEF Trade
<1>8. ASSUME NEW t \in Clerks, Shelve(t) PROVE PrintMarked'
    <2>1. Rows' = Rows /\ \A s \in Rows : rows'[s].printed = rows[s].printed
        BY <1>8, ShelveTyped
    <2> QED BY <1>2, <1>8, <2>1 DEF Shelve
<1>13. ASSUME NEW d, NEW s, Scan(d, s) \/ Remove(d, s) PROVE rows' = rows /\ prints' = prints
    BY <1>13 DEF Scan, Remove
<1>9. ASSUME rows' = rows, prints' = prints PROVE PrintMarked'
    BY <1>2, <1>9 DEF Rows
<1>10. ASSUME NEW t \in Clerks, Opening(t) PROVE rows' = rows /\ prints' = prints
    BY <1>10, OpeningUnchanged
<1>11. ASSUME NEW l, Toggle(l) PROVE rows' = rows /\ prints' = prints
    BY <1>11 DEF Toggle
<1>12. ASSUME UNCHANGED vars PROVE rows' = rows /\ prints' = prints
    BY <1>12 DEF vars
<1> QED BY <1>3, <1>4, <1>5, <1>6, <1>7, <1>8, <1>9, <1>10, <1>11, <1>12, <1>13, NextActs DEF Acts

-----------------------------------------------------------------------------
(* The label of a unit.                                                    *)

LabelOf(s, u) ==
    /\ s \in Rows /\ rows[s].active /\ rows[s].unit = u
    /\ \A r \in Rows : rows[r].active /\ rows[r].unit = u => r = s
    /\ rows[s].status = goods[u].status
    /\ rows[s].place = goods[u].place \/ u \in untold
Follows == \A u \in DOMAIN goods \ crossed : \E s \in Rows : LabelOf(s, u)

LEMMA FollowsNow == LabelFollowsGoods => Follows
<1> SUFFICES ASSUME LabelFollowsGoods, NEW u \in DOMAIN goods \ crossed
             PROVE  \E s \in Rows : LabelOf(s, u)
    BY DEF Follows
<1>1. PICK s \in Labels : /\ Live(u) = {s}
                          /\ rows[s].status = goods[u].status
                          /\ rows[s].place = goods[u].place \/ u \in untold
    BY DEF LabelFollowsGoods
<1> QED BY <1>1 DEF Live, LabelOf

LEMMA FollowsNext == Rows' \subseteq Labels /\ Follows' => LabelFollowsGoods'
<1> SUFFICES ASSUME Rows' \subseteq Labels, Follows', NEW u \in DOMAIN goods' \ crossed'
             PROVE  \E s \in Labels : /\ Live(u)' = {s}
                                      /\ rows'[s].status = goods'[u].status
                                      /\ rows'[s].place = goods'[u].place \/ u \in untold'
    BY DEF LabelFollowsGoods
<1>1. PICK s \in Rows' : LabelOf(s, u)'
    BY DEF Follows
<1> QED BY <1>1 DEF Live, LabelOf

(* A change in place of the row of one unit that is in use, written to the *)
(* unit as well, leaves every label what it was.                           *)
LEMMA OneRowChanged ==
    ASSUME TypeInv, Follows, Rows' = Rows, DOMAIN goods' = DOMAIN goods, crossed' = crossed,
           untold' = untold,
           NEW s0 \in Rows, NEW u0, rows[s0].active, rows'[s0].active,
           rows[s0].unit = u0, rows'[s0].unit = u0,
           \A s \in Rows \ {s0} : rows'[s] = rows[s],
           \A u \in DOMAIN goods \ {u0} : goods'[u] = goods[u],
           LabelOf(s0, u0) => /\ rows'[s0].status = goods'[u0].status
                              /\ rows'[s0].place = goods'[u0].place \/ u0 \in untold
    PROVE  Follows'
<1> SUFFICES ASSUME NEW u \in DOMAIN goods \ crossed PROVE \E s \in Rows : LabelOf(s, u)'
    BY DEF Follows
<1>1. PICK s \in Rows : LabelOf(s, u)
    BY DEF Follows
<1>2. CASE u = u0
    <2>1. s = s0
        BY <1>1, <1>2 DEF LabelOf
    <2> QED BY <1>1, <1>2, <2>1 DEF LabelOf
<1>3. CASE u # u0
    <2>1. s # s0
        BY <1>1, <1>3 DEF LabelOf
    <2> QED BY <1>1, <1>3, <2>1 DEF LabelOf
<1> QED BY <1>2, <1>3

LEMMA GenerateFollows ==
    ASSUME TypeInv, Follows, NEW t \in Clerks, NEW status \in {"GENERATED", "IN_STOCK"},
           Generate(t, status)
    PROVE  Follows'
<1>1. PICK n, v :
      /\ v \notin DOMAIN goods /\ DOMAIN goods' = DOMAIN goods \cup {v}
      /\ \A u \in DOMAIN goods : goods'[u] = goods[u]
      /\ goods'[v] = [status |-> status, place |-> None]
      /\ Rows' = Rows \cup {n} /\ n \notin Rows
      /\ rows'[n] = NewRow(v, status, None)
      /\ \A s \in Rows : rows'[s] = rows[s]
    BY GenerateTyped
<1>2. /\ rows'[n].active /\ rows'[n].unit = v
      /\ rows'[n].status = goods'[v].status /\ rows'[n].place = goods'[v].place
    BY <1>1 DEF NewRow
<1>3. \A s \in Rows : rows[s].unit # v
    BY <1>1, RowsTyped DEF TypeInv
<1>4. crossed' = crossed /\ untold' = untold
    BY DEF Generate
<1> SUFFICES ASSUME NEW u \in DOMAIN goods' \ crossed' PROVE \E s \in Rows' : LabelOf(s, u)'
    BY DEF Follows
<1>5. CASE u = v
    <2>1. LabelOf(n, v)'
        BY <1>1, <1>2, <1>3 DEF LabelOf
    <2> QED BY <1>1, <1>5, <2>1
<1>6. CASE u # v
    <2>1. PICK s \in Rows : LabelOf(s, u)
        BY <1>1, <1>4, <1>6 DEF Follows
    <2>2. s \in Rows' /\ u \in DOMAIN goods /\ goods'[u] = goods[u] /\ rows'[s] = rows[s]
        BY <1>1, <1>6
    <2>3. ASSUME NEW r \in Rows', rows'[r].active, rows'[r].unit = u PROVE r = s
        <3>1. r \in Rows /\ rows'[r] = rows[r]
            BY <1>1, <1>2, <1>6, <2>3
        <3> QED BY <2>1, <2>3, <3>1 DEF LabelOf
    <2>4. LabelOf(s, u)'
        BY <1>4, <2>1, <2>2, <2>3 DEF LabelOf
    <2> QED BY <2>2, <2>4
<1> QED BY <1>5, <1>6
(* What is moved are labels in use, so what is written to the units is     *)
(* what is written to their labels.                                        *)
LEMMA MoveFollows ==
    ASSUME TypeInv, Follows, NEW t \in Clerks, Move(t)
    PROVE  Follows'
<1> DEFINE serials == req[t].serials  to == req[t].to
<1>1. /\ Rows' = Rows /\ DOMAIN goods' = DOMAIN goods /\ crossed' = crossed
      /\ \A s \in Rows : /\ rows'[s].unit = rows[s].unit /\ rows'[s].status = rows[s].status
                         /\ rows'[s].active = rows[s].active
    BY MoveTyped DEF Move
<1>2. serials \subseteq Rows
    BY RequestFields DEF Move, TypeInv, In
<1> SUFFICES ASSUME NEW u \in DOMAIN goods \ crossed PROVE \E s \in Rows : LabelOf(s, u)'
    BY <1>1 DEF Follows
<1>3. PICK s \in Rows : LabelOf(s, u)
    BY DEF Follows
<1>4. rows[s] \in Row /\ goods[u] \in [status : Statuses, place : Places]
    BY RowsTyped DEF TypeInv
<1>5. CASE UNCHANGED <<rows, goods, untold>>
    BY <1>1, <1>3, <1>5 DEF LabelOf
<1>6. CASE /\ \A r \in serials : rows[r].active
           /\ rows' = Placed(serials, to) /\ goods' = Put(UnitsOf(serials), to)
           /\ untold' = untold \ UnitsOf(serials)
    <2>1. s \in serials <=> u \in UnitsOf(serials)
        BY <1>2, <1>3, <1>6 DEF LabelOf, UnitsOf
    <2>2. TypeOK /\ to \in Places
        BY RequestFields DEF Move, TypeInv, In, Places
    <2>3. /\ goods'[u].status = goods[u].status
          /\ s \in serials => rows'[s].place = to /\ goods'[u].place = to
          /\ s \notin serials => rows'[s] = rows[s] /\ goods'[u] = goods[u]
        BY <1>6, <2>1, <2>2, PlacedFields, PutFields
    <2>4. rows'[s].place = goods'[u].place \/ u \in untold'
        BY <1>3, <1>6, <2>1, <2>3 DEF LabelOf
    <2> HIDE DEF serials, to
    <2> QED BY <1>1, <1>3, <2>3, <2>4 DEF LabelOf
<1> QED BY <1>5, <1>6 DEF Move, StillThere

(* If the label is as the replacement has seen it, the new one says what   *)
(* the old one said; if not, the unit counts as crossed.                   *)
LEMMA ReplaceFollows ==
    ASSUME TypeInv, Follows, SeenInUse, NEW t \in Clerks, Replace(t)
    PROVE  Follows'
<1>1. PICK s0, n, seen, status :
        /\ s0 = req[t].serial /\ seen = req[t].seen /\ status = ReplacementStatusFor(seen.status)
        /\ Rows' = Rows \cup {n} /\ n \notin Rows /\ s0 \in Rows /\ seen \in Row
        /\ seen.unit = rows[s0].unit /\ seen.unit \in DOMAIN goods
        /\ DOMAIN goods' = DOMAIN goods
        /\ rows'[n] = NewRow(seen.unit, status, seen.place)
        /\ rows'[s0] = OldRetired(rows[s0], n)
        /\ \A s \in Rows \ {s0} : rows'[s] = rows[s]
    BY ReplaceTyped
<1>2. /\ rows'[n].active /\ rows'[n].unit = seen.unit
      /\ rows'[n].status = status /\ rows'[n].place = seen.place
    BY <1>1 DEF NewRow
<1>3. rows[s0] \in Row /\ ~rows'[s0].active /\ rows'[s0].unit = rows[s0].unit
    BY <1>1, RowsTyped DEF TypeInv, OldRetired, Row
<1>4. /\ \/ /\ SameSeen(rows[s0], seen) /\ crossed' = crossed
            /\ goods' = [goods EXCEPT ![seen.unit].status = status]
         \/ crossed' = crossed \cup {seen.unit} /\ goods' = goods
      /\ untold' = untold
    BY <1>1 DEF Replace
<1>5. seen.active
    BY <1>1 DEF Replace, SeenInUse
<1> SUFFICES ASSUME NEW u \in DOMAIN goods' \ crossed' PROVE \E s \in Rows' : LabelOf(s, u)'
    BY DEF Follows
<1>6. PICK s \in Rows : LabelOf(s, u)
    BY <1>1, <1>4 DEF Follows
<1>7. CASE u # seen.unit
    <2>1. s # s0 /\ s \in Rows' /\ rows'[s] = rows[s] /\ goods'[u] = goods[u]
        BY <1>1, <1>4, <1>6, <1>7 DEF LabelOf
    <2>2. ASSUME NEW r \in Rows', rows'[r].active, rows'[r].unit = u PROVE r = s
        <3>1. r \in Rows /\ rows'[r] = rows[r]
            BY <1>1, <1>2, <1>3, <1>7, <2>2
        <3> QED BY <1>6, <2>2, <3>1 DEF LabelOf
    <2>3. LabelOf(s, u)'
        BY <1>4, <1>6, <2>1, <2>2 DEF LabelOf
    <2> QED BY <2>1, <2>3
<1>8. CASE u = seen.unit
    <2>1. /\ SameSeen(rows[s0], seen)
          /\ goods' = [goods EXCEPT ![seen.unit].status = status]
        BY <1>4, <1>8
    <2>2. s = s0
        BY <1>1, <1>5, <1>6, <1>8, <2>1 DEF LabelOf, SameSeen
    <2>3. goods[u] \in [status : Statuses, place : Places] /\ goods = [v \in DOMAIN goods |-> goods[v]]
        BY <1>1, <1>8, RowsTyped DEF TypeInv, TypeOK
    <2>4. goods'[u].status = status /\ goods'[u].place = goods[u].place
        BY <1>1, <1>8, <2>1, <2>3
    <2>5. goods[u].place = seen.place \/ u \in untold
        BY <1>6, <2>1, <2>2 DEF LabelOf, SameSeen
    <2>6. ASSUME NEW r \in Rows', rows'[r].active, rows'[r].unit = u PROVE r = n
        <3>1. CASE r \in Rows
            <4>1. r # s0 /\ rows'[r] = rows[r]
                BY <1>1, <1>3, <2>6, <3>1
            <4> QED BY <1>6, <2>2, <2>6, <3>1, <4>1 DEF LabelOf
        <3> QED BY <1>1, <3>1
    <2>7. rows'[n].place = goods'[u].place \/ u \in untold'
        BY <1>2, <1>4, <2>4, <2>5
    <2>8. LabelOf(n, u)'
        BY <1>1, <1>2, <1>8, <2>4, <2>6, <2>7 DEF LabelOf
    <2> QED BY <1>1, <2>8
<1> QED BY <1>7, <1>8

LEMMA TradeFollows ==
    ASSUME TypeInv, Follows, NEW s0 \in Rows, NEW status \in Statuses, Trade(s0, status)
    PROVE  Follows'
<1>1. PICK u0 : u0 = rows[s0].unit
    OBVIOUS
<1>2. /\ Rows' = Rows /\ DOMAIN goods' = DOMAIN goods
      /\ rows'[s0] = [rows[s0] EXCEPT !.status = status]
      /\ \A s \in Rows \ {s0} : rows'[s] = rows[s]
    BY TradeTyped
<1>3. /\ rows[s0] \in Row /\ rows[s0].active /\ u0 \in DOMAIN goods
      /\ goods[u0] \in [status : Statuses, place : Places]
      /\ goods = [v \in DOMAIN goods |-> goods[v]]
      /\ crossed' = crossed /\ untold' = untold /\ goods' = [goods EXCEPT ![u0].status = status]
    BY <1>1, RowsTyped DEF TypeInv, TypeOK, Trade
<1>4. /\ rows'[s0].active /\ rows'[s0].unit = u0
      /\ rows'[s0].status = status /\ rows'[s0].place = rows[s0].place
    BY <1>1, <1>2, <1>3 DEF Row
<1>5. /\ goods'[u0].status = status /\ goods'[u0].place = goods[u0].place
      /\ \A u \in DOMAIN goods \ {u0} : goods'[u] = goods[u]
    BY <1>3
<1>6. LabelOf(s0, u0) => /\ rows'[s0].status = goods'[u0].status
                         /\ rows'[s0].place = goods'[u0].place \/ u0 \in untold
    BY <1>4, <1>5 DEF LabelOf
<1>7. rows[s0].unit = u0
    BY <1>1
<1> QED BY <1>2, <1>3, <1>4, <1>5, <1>6, <1>7, OneRowChanged

(* A shelf scan writes the places of labels, in use or not: of the units   *)
(* whose label is out of use it makes `untold`.                              *)
LEMMA ShelveFollows ==
    ASSUME TypeInv, Follows, NEW t \in Clerks, Shelve(t)
    PROVE  Follows'
<1> DEFINE l == req[t].to  written == req[t].written  serials == req[t].serials
           told == written \cup {s \in serials : ~rows[s].active}
           used == {s \in written : rows[s].active}
<1>1. /\ TypeOK /\ Rows' = Rows /\ DOMAIN goods' = DOMAIN goods /\ crossed' = crossed
      /\ \A s \in Rows : /\ rows'[s].unit = rows[s].unit /\ rows'[s].status = rows[s].status
                         /\ rows'[s].active = rows[s].active
    BY ShelveTyped DEF Shelve, TypeInv
<1>2. written \subseteq Rows /\ l \in Places
    BY <1>1, RequestFields DEF Shelve, In, Places
<1>3. /\ rows' = Placed(written, l) /\ goods' = Put(UnitsOf(told), l)
      /\ untold' = (untold \cup UnitsOf(told)) \ UnitsOf(used)
    BY DEF Shelve
<1> SUFFICES ASSUME NEW u \in DOMAIN goods \ crossed PROVE \E s \in Rows : LabelOf(s, u)'
    BY <1>1 DEF Follows
<1>4. PICK s \in Rows : LabelOf(s, u)
    BY DEF Follows
<1>5. /\ s \in written => rows'[s].place = l /\ u \in UnitsOf(told)
      /\ s \notin written => rows'[s] = rows[s]
    BY <1>1, <1>2, <1>3, <1>4, PlacedFields DEF LabelOf, UnitsOf
<1>6. u \in UnitsOf(used) => s \in written
    BY <1>2, <1>4 DEF UnitsOf, LabelOf
<1> HIDE DEF told, used, written, l
<1>7. /\ goods'[u].status = goods[u].status
      /\ u \in UnitsOf(told) => goods'[u].place = l
      /\ u \notin UnitsOf(told) => goods'[u] = goods[u]
    BY <1>1, <1>2, <1>3, PutFields
<1>8. rows'[s].place = goods'[u].place \/ u \in untold'
    BY <1>3, <1>4, <1>5, <1>6, <1>7 DEF LabelOf
<1> QED BY <1>1, <1>4, <1>7, <1>8 DEF LabelOf

LEMMA PrintFollows ==
    ASSUME TypeInv, Follows, NEW t \in Clerks, RecordPrint(t)
    PROVE  Follows'
<1>1. /\ Rows' = Rows /\ goods' = goods /\ crossed' = crossed /\ untold' = untold
      /\ \A s \in Rows : /\ rows'[s].unit = rows[s].unit
                         /\ rows'[s].status = rows[s].status
                         /\ rows'[s].active = rows[s].active
                         /\ rows'[s].place = rows[s].place
    BY PrintTyped DEF RecordPrint
<1> SUFFICES ASSUME NEW u \in DOMAIN goods \ crossed PROVE \E s \in Rows : LabelOf(s, u)'
    BY <1>1 DEF Follows
<1>2. PICK s \in Rows : LabelOf(s, u)
    BY DEF Follows
<1> QED BY <1>1, <1>2 DEF LabelOf

LEMMA FollowsKept ==
    ASSUME TypeInv, SeenInUse, Follows, [Next]_vars
    PROVE  Follows'
<1>1. ASSUME rows' = rows, goods' = goods, crossed' = crossed, untold' = untold PROVE Follows'
    BY <1>1 DEF Follows, LabelOf, Rows
<1>2. ASSUME NEW t \in Clerks, Opening(t)
      PROVE  rows' = rows /\ goods' = goods /\ crossed' = crossed /\ untold' = untold
    BY <1>2, OpeningUnchanged
<1>3. ASSUME NEW l, Toggle(l)
      PROVE  rows' = rows /\ goods' = goods /\ crossed' = crossed /\ untold' = untold
    BY <1>3 DEF Toggle
<1>4. ASSUME UNCHANGED vars
      PROVE  rows' = rows /\ goods' = goods /\ crossed' = crossed /\ untold' = untold
    BY <1>4 DEF vars
<1>5. ASSUME NEW d, NEW s, Scan(d, s) \/ Remove(d, s)
      PROVE  rows' = rows /\ goods' = goods /\ crossed' = crossed /\ untold' = untold
    BY <1>5 DEF Scan, Remove
<1> QED BY <1>1, <1>2, <1>3, <1>4, <1>5, NextActs, GenerateFollows, PrintFollows, MoveFollows,
           ReplaceFollows, TradeFollows, ShelveFollows DEF Acts

-----------------------------------------------------------------------------
(* What one step adds to stock_relocations.                                *)
LEMMA MovesTrue ==
    ASSUME TypeInv, [Next]_vars
    PROVE  MovedFromThere
<1>1. ASSUME moves' = moves PROVE MovedFromThere
    BY <1>1 DEF MovedFromThere
<1>2. ASSUME NEW t \in Clerks, Move(t) PROVE MovedFromThere
    <2> DEFINE m == [serials |-> req[t].serials, from |-> req[t].from, to |-> req[t].to]
    <2>1. CASE moves' = moves
        BY <1>1, <2>1
    <2>2. CASE /\ \A s \in req[t].serials : StillThere(s, req[t].from)
               /\ rows' = Placed(req[t].serials, req[t].to)
               /\ moves' = Append(moves, m)
        <3>1. /\ req[t].serials \subseteq Rows /\ req[t].from \in Places /\ req[t].to \in Locations
              /\ Rows \subseteq Labels
            BY <1>2, RequestFields, RowsTyped DEF Move, TypeInv, In
        <3>2. m \in [serials : SUBSET Labels, from : Places, to : Locations]
            BY <3>1
        <3>3. moves \in Seq([serials : SUBSET Labels, from : Places, to : Locations])
            BY DEF TypeInv, TypeOK
        <3>4. \A k \in DOMAIN moves' \ DOMAIN moves : moves'[k] = m
            <4> HIDE DEF m
            <4> QED BY <2>2, <3>2, <3>3, Appended
        <3>5. \A s \in req[t].serials : rows[s].place = req[t].from /\ rows'[s].place = req[t].to
            <4> TAKE s \in req[t].serials
            <4>1. rows[s] \in Row /\ s \in Rows
                BY <3>1, RowsTyped DEF TypeInv
            <4> QED BY <2>2, <4>1 DEF StillThere, Placed, Row
        <3> QED BY <3>4, <3>5 DEF MovedFromThere
    <2> QED BY <1>2, <2>1, <2>2 DEF Move
<1>3. ASSUME NEW t \in Clerks, RecordPrint(t) \/ Shelve(t) \/ Replace(t) PROVE moves' = moves
    BY <1>3 DEF RecordPrint, Shelve, Replace
<1>4. ASSUME NEW t \in Clerks, Opening(t) PROVE moves' = moves
    BY <1>4, OpeningUnchanged
<1>5. ASSUME NEW t \in Clerks, NEW status, Generate(t, status) PROVE moves' = moves
    BY <1>5 DEF Generate
<1>6. ASSUME NEW s, NEW status, Trade(s, status) PROVE moves' = moves
    BY <1>6 DEF Trade
<1>7. ASSUME NEW d, NEW s, Scan(d, s) \/ Remove(d, s) PROVE moves' = moves
    BY <1>7 DEF Scan, Remove
<1>8. ASSUME NEW l, Toggle(l) PROVE moves' = moves
    BY <1>8 DEF Toggle
<1>9. ASSUME UNCHANGED vars PROVE moves' = moves
    BY <1>9 DEF vars
<1> QED BY <1>1, <1>2, <1>3, <1>4, <1>5, <1>6, <1>7, <1>8, <1>9, NextActs DEF Acts

-----------------------------------------------------------------------------

LEMMA InitInv == Init => Inv
<1> SUFFICES ASSUME Init PROVE Inv
    OBVIOUS
<1>1. rows = <<>> /\ goods = <<>> /\ Rows = {}
    BY DEF Init, Rows
<1>2. TypeInv
    BY <1>1, InitTyped DEF TypeInv, UnitsLabelled
<1>3. Retired /\ SeenInUse /\ PrintMarked
    BY <1>1 DEF Init, Retired, SeenInUse, In, Idle, PrintMarked
<1>4. LabelFollowsGoods
    BY <1>1 DEF LabelFollowsGoods
<1> QED BY <1>2, <1>3, <1>4 DEF Inv

LEMMA InvPreserved == Inv /\ [Next]_vars => Inv'
<1> SUFFICES ASSUME Inv, [Next]_vars PROVE Inv'
    OBVIOUS
<1>1. TypeInv /\ Retired /\ SeenInUse /\ PrintMarked /\ Follows
    BY FollowsNow DEF Inv
<1>2. TypeInv' /\ Retired' /\ SeenInUse' /\ PrintMarked' /\ Follows'
    BY <1>1, TypePreserved, RetiredKept, SeenKept, PrintsKept, FollowsKept
<1>3. Rows' \subseteq Labels
    <2>1. rows' \in Seq(Row) /\ Len(rows') <= MaxLabels /\ MaxLabels \in Nat
        BY <1>2, BoundsAssumption DEF TypeInv, TypeOK
    <2> QED BY <2>1 DEF Rows, Labels
<1> QED BY <1>2, <1>3, FollowsNext DEF Inv

(* However the requests of any number of clerks overlap, each unit has one *)
(* label in use, which tells the truth, unless a replacement crossed with  *)
(* another change of it or its place was last scanned on an older label;   *)
(* and no purchase user prints a label twice.                              *)
THEOREM LabelsAreTrueCorrect == Spec => []LabelsAreTrue
<1>1. PrintMarked => PrintedOnce
    BY DEF PrintMarked, PrintedOnce
<1>2. Inv => LabelsAreTrue
    BY <1>1 DEF Inv, LabelsAreTrue
<1> QED BY <1>2, InitInv, InvPreserved, PTL DEF Spec

(* stock_relocations tells from where each unit was taken, and a label     *)
(* that was replaced is never moved, sold or taken in again.               *)
THEOREM LabelHistoryCorrect == Spec => LabelHistory
<1>1. Inv /\ [Next]_vars => [MovedFromThere /\ RetiredForGood]_vars
    BY RetiredKept, MovesTrue DEF Inv
<1> QED BY <1>1, InitInv, InvPreserved, PTL DEF Spec, LabelHistory

-----------------------------------------------------------------------------
(* Audits.                                                                 *)

Asgs  == 1..MaxAssignments
Round == [asg : Asgs, open : BOOLEAN]
At(t, op) == ~A!Idle(t) /\ audit[t].op = op

(* A request is about rows that are there.                                 *)
Known(t) ==
    /\ At(t, "scan") \/ At(t, "submit") => audit[t].batch \in DOMAIN batches
    /\ At(t, "extend") => audit[t].asg \in A!Made
    /\ At(t, "refresh") => DOMAIN audit[t].deadlines \subseteq A!Made

WindowsOK  == asg \in [Asgs -> Windows \cup {None}] /\ now \in A!Times /\ stock \subseteq Serials
RoundsOK   == /\ batches \in Seq(Round) /\ Len(batches) <= MaxBatches
              /\ \A b \in DOMAIN batches : batches[b].asg \in A!Made
              /\ \A a \in A!Made : A!BatchesOf(a) # {}
ItemsOK    == items \subseteq A!Item /\ \A i \in items : i.batch \in DOMAIN batches
FindingsOK == findings \subseteq A!Report /\ \A r \in findings : r.asg \in A!Made
SentOK     == audit \in [A!Threads -> A!Request \cup {None}] /\ \A t \in A!Threads : Known(t)
AuditOK    == /\ WindowsOK /\ RoundsOK /\ ItemsOK /\ FindingsOK /\ SentOK
              /\ outdated \subseteq A!Made

AuditInv == AuditOK /\ A!OneReport

LEMMA WindowOf ==
    ASSUME AuditOK, NEW a \in A!Made
    PROVE  /\ a \in Asgs /\ asg[a] \in Windows
           /\ asg[a].starts \in A!Times /\ asg[a].ends \in A!Times
           /\ asg[a].expected \subseteq Serials
<1>1. a \in Asgs /\ asg[a] \in Windows
  BY DEF AuditOK, WindowsOK, Asgs, A!Made
<1> QED BY <1>1 DEF Windows

LEMMA RoundOf ==
    ASSUME AuditOK, NEW b \in DOMAIN batches
    PROVE  /\ batches[b] \in Round /\ batches[b].asg \in A!Made
           /\ batches[b].open \in BOOLEAN
<1>1. batches \in Seq(Round) /\ batches[b].asg \in A!Made
  BY DEF AuditOK, RoundsOK
<1>2. batches[b] \in Round
  BY <1>1, ElementOfSeq
<1> QED BY <1>1, <1>2 DEF Round

LEMMA AuditTyped == AuditOK => A!TypeOK
<1> SUFFICES ASSUME AuditOK PROVE A!TypeOK
  OBVIOUS
<1>1. ASSUME NEW a \in A!Made
      PROVE  asg[a].starts \in A!Times /\ asg[a].ends \in A!Times /\ asg[a].expected \subseteq Serials
  BY WindowOf
<1>2. \A b \in DOMAIN batches : batches[b].open \in BOOLEAN
  BY RoundOf
<1> QED
  BY <1>1, <1>2 DEF AuditOK, WindowsOK, RoundsOK, ItemsOK, FindingsOK, SentOK, A!TypeOK

LEMMA SentFields ==
    ASSUME AuditOK, NEW t \in A!Threads
    PROVE  /\ At(t, "scan") => audit[t].batch \in DOMAIN batches /\ audit[t].serial \in Serials
           /\ At(t, "submit") => audit[t].batch \in DOMAIN batches /\ audit[t].ends \in A!Times
           /\ At(t, "extend") => /\ audit[t].asg \in A!Made /\ audit[t].ends \in A!Times
                                 /\ audit[t].moment \in A!Times
           /\ At(t, "refresh") => /\ audit[t].moment \in A!Times
                                  /\ DOMAIN audit[t].deadlines \subseteq A!Made
                                  /\ \A a \in DOMAIN audit[t].deadlines :
                                        audit[t].deadlines[a] \in A!Times
<1>1. Known(t) /\ audit[t] \in A!Request \cup {None}
  BY DEF AuditOK, SentOK
<1>2. CASE A!Idle(t)
  BY <1>2 DEF At
<1>3. CASE ~A!Idle(t)
  <2>1. audit[t] \in A!Request
    BY <1>1, <1>3 DEF A!Idle
  <2>2. \/ audit[t] \in [op : {"scan"}, batch : 1..MaxBatches, serial : Serials]
        \/ audit[t] \in [op : {"submit"}, batch : 1..MaxBatches, ends : A!Times]
        \/ audit[t] \in [op : {"extend"}, asg : Asgs, ends : A!Times, moment : A!Times]
        \/ \E d \in SUBSET Asgs :
              audit[t] \in [op : {"refresh"}, moment : A!Times, deadlines : [d -> A!Times]]
    BY <2>1 DEF A!Request, Asgs
  <2> QED BY <1>1, <2>2 DEF Known, At
<1> QED BY <1>2, <1>3

LEMMA LatestIs ==
    ASSUME AuditOK, NEW a \in A!Made
    PROVE  A!Latest(a) \in DOMAIN batches /\ A!Latest(a) \in 1..MaxBatches
<1>1. A!BatchesOf(a) \in SUBSET (1..Len(batches)) /\ Len(batches) \in Nat /\ A!BatchesOf(a) # {}
  BY DEF AuditOK, RoundsOK, A!BatchesOf
<1>2. \E m \in A!BatchesOf(a) : \A k \in A!BatchesOf(a) : k <= m
  BY <1>1, MaxExists
<1>3. A!Latest(a) \in A!BatchesOf(a)
  BY <1>2 DEF A!Latest
<1>4. 1..Len(batches) \subseteq 1..MaxBatches /\ DOMAIN batches = 1..Len(batches)
  BY <1>1, AuditAssumption DEF AuditOK, RoundsOK
<1> QED BY <1>1, <1>3, <1>4

(* What a reconciliation writes.                                           *)
LEMMA WrittenIs ==
    ASSUME AuditOK, NEW a \in A!Made, NEW anchor \in 1..MaxBatches, NEW ends, NEW moment,
           NEW w, w = A!Written(a, anchor, ends, moment)
    PROVE  /\ w \in A!Report /\ w.asg = a
           /\ \A s \in asg[a].expected : w.found[s] # None
           /\ moment > ends => \A s \in Serials : w.found[s] # "PENDING"
           /\ A!FoundAs(w, "VERIFIED") = asg[a].expected \cap A!Counted(a, ends)
           /\ A!FoundAs(w, "EXTRA") = A!Counted(a, ends) \ asg[a].expected
<1> DEFINE C == A!Counted(a, ends)
<1>1. asg[a].expected \subseteq Serials
  BY WindowOf
<1>2. C \subseteq Serials
  BY DEF A!Counted
<1>3. /\ w = [asg |-> a, batch |-> anchor,
              found |-> [s \in Serials |-> A!MakeFinding(a, s, C, moment > ends)]]
      /\ a \in Asgs
  BY DEF A!Written, A!Made, Asgs
<1> HIDE DEF C
<1>4. /\ \A s \in Serials : A!MakeFinding(a, s, C, moment > ends) \in A!Findings \cup {None}
      /\ None \notin A!Findings
  BY AuditAssumption DEF A!MakeFinding, A!Findings
<1>5. None \notin {"VERIFIED", "MISSING", "PENDING", "EXTRA"}
  BY <1>4 DEF A!Findings
<1>6. w \in A!Report /\ w.asg = a
  BY <1>3, <1>4 DEF A!Report, Asgs
<1>7. \A s \in Serials : w.found[s] = A!MakeFinding(a, s, C, moment > ends)
  BY <1>3
<1>8. \A s \in asg[a].expected : w.found[s] # None
  BY <1>1, <1>5, <1>7 DEF A!MakeFinding
<1>9. moment > ends => \A s \in Serials : w.found[s] # "PENDING"
  BY <1>5, <1>7 DEF A!MakeFinding
<1>10. /\ A!FoundAs(w, "VERIFIED") = asg[a].expected \cap C
       /\ A!FoundAs(w, "EXTRA") = C \ asg[a].expected
  BY <1>1, <1>2, <1>5, <1>7 DEF A!FoundAs, A!MakeFinding
<1> QED BY <1>6, <1>8, <1>9, <1>10 DEF C
(* Steps that only open a request, or end one.                             *)
tables == <<stock, asg, batches, items, findings>>

LEMMA Asked ==
    ASSUME AuditOK, NEW t \in A!Threads, NEW r \in A!Request,
           UNCHANGED <<now, tables, outdated>>, audit' = [audit EXCEPT ![t] = r], Known(t)'
    PROVE  AuditOK' /\ \A u \in A!Threads \ {t} : audit'[u] = audit[u]
<1>1. /\ audit' \in [A!Threads -> A!Request \cup {None}]
      /\ \A u \in A!Threads \ {t} : audit'[u] = audit[u]
  BY DEF AuditOK, SentOK
<1>2. ASSUME NEW u \in A!Threads \ {t} PROVE Known(u)'
  BY <1>1 DEF AuditOK, SentOK, Known, At, A!Idle, A!Made, tables
<1>3. SentOK'
  BY <1>1, <1>2 DEF SentOK
<1>4. WindowsOK' /\ RoundsOK' /\ ItemsOK' /\ FindingsOK' /\ outdated' \subseteq A!Made'
  BY DEF AuditOK, WindowsOK, RoundsOK, ItemsOK, FindingsOK, A!Made, A!BatchesOf, tables
<1> QED BY <1>1, <1>3, <1>4 DEF AuditOK

LEMMA Answered ==
    ASSUME AuditOK, NEW t \in A!Threads, audit' = [audit EXCEPT ![t] = None],
           DOMAIN batches \subseteq DOMAIN batches', A!Made \subseteq A!Made'
    PROVE  /\ SentOK' /\ A!Idle(t)'
           /\ \A u \in A!Threads \ {t} : audit'[u] = audit[u]
<1>1. /\ audit' \in [A!Threads -> A!Request \cup {None}] /\ audit'[t] = None
      /\ \A u \in A!Threads \ {t} : audit'[u] = audit[u]
  BY DEF AuditOK, SentOK
<1>2. ASSUME NEW u \in A!Threads \ {t} PROVE Known(u)'
  BY <1>1 DEF AuditOK, SentOK, Known, At, A!Idle
<1>3. Known(t)' /\ A!Idle(t)'
  BY <1>1 DEF Known, At, A!Idle
<1> QED BY <1>1, <1>2, <1>3 DEF SentOK

LEMMA Waiting ==
    ASSUME AuditOK, audit' = audit,
           DOMAIN batches \subseteq DOMAIN batches', A!Made \subseteq A!Made'
    PROVE  SentOK'
<1>1. ASSUME NEW u \in A!Threads PROVE Known(u)'
  BY DEF AuditOK, SentOK, Known, At, A!Idle
<1> QED BY <1>1 DEF AuditOK, SentOK

(* A further batch.                                                        *)
LEMMA RoundAdded ==
    ASSUME AuditOK, NEW a \in Asgs, batches' = Append(batches, [asg |-> a, open |-> TRUE]),
           Len(batches) < MaxBatches, A!Made' = A!Made \cup {a}
    PROVE  /\ RoundsOK' /\ DOMAIN batches' = DOMAIN batches \cup {Len(batches) + 1}
           /\ Len(batches) + 1 \notin DOMAIN batches
           /\ batches'[Len(batches) + 1] = [asg |-> a, open |-> TRUE]
           /\ \A b \in DOMAIN batches : batches'[b] = batches[b]
<1> DEFINE x == [asg |-> a, open |-> TRUE]
<1>1. x \in Round /\ batches \in Seq(Round) /\ Len(batches) < MaxBatches /\ MaxBatches \in Nat
  BY AuditAssumption DEF AuditOK, RoundsOK, Round
<1>2. /\ batches' \in Seq(Round) /\ Len(batches') = Len(batches) + 1 /\ Len(batches) \in Nat
      /\ DOMAIN batches' = DOMAIN batches \cup {Len(batches) + 1}
      /\ Len(batches) + 1 \notin DOMAIN batches
      /\ batches'[Len(batches) + 1] = x
      /\ \A b \in DOMAIN batches : batches'[b] = batches[b]
  BY <1>1, Appended
<1>3. Len(batches') <= MaxBatches
  BY <1>1, <1>2
<1>4. \A b \in DOMAIN batches' : batches'[b].asg \in A!Made'
  BY <1>2 DEF AuditOK, RoundsOK
<1>5. ASSUME NEW c \in A!Made' PROVE A!BatchesOf(c)' # {}
  <2>1. CASE c = a
    BY <1>2, <2>1 DEF A!BatchesOf
  <2>2. CASE c # a
    <3>1. PICK b \in DOMAIN batches : batches[b].asg = c
      BY <2>2 DEF AuditOK, RoundsOK, A!BatchesOf
    <3> QED BY <1>2, <3>1 DEF A!BatchesOf
  <2> QED BY <2>1, <2>2
<1> QED BY <1>2, <1>3, <1>4, <1>5 DEF RoundsOK

(* The findings of the assignments in D are written anew.                  *)
LEMMA Rewritten ==
    ASSUME AuditOK, NEW D \in SUBSET A!Made, NEW W,
           \A a \in D : W[a] \in A!Report /\ W[a].asg = a,
           findings' = {r \in findings : r.asg \notin D} \cup {W[a] : a \in D},
           A!Made' = A!Made
    PROVE  /\ FindingsOK'
           /\ \A r \in findings' : r.asg \in D => r = W[r.asg]
           /\ \A r \in findings' : r.asg \notin D => r \in findings
           /\ \A a \in D : W[a] \in findings'
           /\ \A r \in findings : r.asg \notin D => r \in findings'
<1>1. findings \subseteq A!Report /\ \A r \in findings : r.asg \in A!Made
  BY DEF AuditOK, FindingsOK
<1>2. FindingsOK'
  BY <1>1 DEF FindingsOK
<1> QED BY <1>2

LEMMA OneOfEach ==
    ASSUME AuditInv, NEW D \in SUBSET A!Made, NEW W,
           \A r \in findings' : r.asg \in D => r = W[r.asg],
           \A r \in findings' : r.asg \notin D => r \in findings,
           \A a \in D : \A s \in asg[a].expected : W[a].found[s] # None,
           \A a \in A!Made : asg'[a].expected = asg[a].expected
    PROVE  A!OneReport'
<1>1. A!OneReport /\ \A r \in findings : r.asg \in A!Made
  BY DEF AuditInv, AuditOK, FindingsOK
<1>2. \A r, q \in findings' : r.asg = q.asg => r = q
  BY <1>1 DEF A!OneReport
<1>3. \A r \in findings' : \A s \in asg'[r.asg].expected : r.found[s] # None
  BY <1>1 DEF A!OneReport
<1> QED BY <1>2, <1>3 DEF A!OneReport

LEMMA AuditInit == A!Init => AuditInv
<1> SUFFICES ASSUME A!Init PROVE AuditInv
  OBVIOUS
<1>1. A!Made = {} /\ batches = <<>> /\ findings = {} /\ items = {} /\ outdated = {}
  BY DEF A!Init, A!Made
<1>2. WindowsOK
  <2>1. 0 \in A!Times
    BY AuditAssumption DEF A!Times
  <2> QED BY <2>1 DEF A!Init, WindowsOK, Asgs
<1>3. RoundsOK /\ ItemsOK /\ FindingsOK
  BY <1>1, AuditAssumption DEF RoundsOK, ItemsOK, FindingsOK
<1>4. SentOK
  BY DEF A!Init, SentOK, Known, At, A!Idle
<1>5. A!OneReport
  BY <1>1 DEF A!OneReport
<1> QED BY <1>1, <1>2, <1>3, <1>4, <1>5 DEF AuditInv, AuditOK

(* Assignments and batches.                                                *)
LEMMA AssignStep ==
    ASSUME AuditOK, NEW t \in Managers, NEW starts \in A!Times, NEW ends \in A!Times,
           A!Assign(t, starts, ends)
    PROVE  AuditOK' /\
           \E a \in Asgs \ A!Made :
              /\ A!Made' = A!Made \cup {a}
              /\ asg' = [asg EXCEPT ![a] = [starts |-> starts, ends |-> ends, expected |-> stock]]
              /\ asg'[a].ends > now /\ asg'[a].ends \in A!Times
              /\ \A c \in A!Made : asg'[c] = asg[c]
              /\ batches' = Append(batches, [asg |-> a, open |-> TRUE])
              /\ DOMAIN batches' = DOMAIN batches \cup {Len(batches) + 1}
              /\ Len(batches) + 1 \notin DOMAIN batches
              /\ batches'[Len(batches) + 1] = [asg |-> a, open |-> TRUE]
              /\ \A b \in DOMAIN batches : batches'[b] = batches[b]
<1>1. PICK a \in Asgs \ A!Made :
        /\ asg' = [asg EXCEPT ![a] = [starts |-> starts, ends |-> ends, expected |-> stock]]
        /\ batches' = Append(batches, [asg |-> a, open |-> TRUE])
  BY DEF A!Assign, A!WithAnchor, Asgs
<1>2. /\ UNCHANGED <<now, stock, items, findings, audit, outdated>> /\ Len(batches) < MaxBatches
      /\ now < ends
  BY DEF A!Assign
<1> DEFINE x == [starts |-> starts, ends |-> ends, expected |-> stock]
<1>3. x \in Windows /\ x # None /\ asg \in [Asgs -> Windows \cup {None}] /\ x.ends = ends
  BY AuditAssumption DEF AuditOK, WindowsOK, Windows
<1>4. asg'[a] = x /\ asg' \in [Asgs -> Windows \cup {None}] /\ \A c \in Asgs \ {a} : asg'[c] = asg[c]
  BY <1>1, <1>3
<1>5. A!Made' = A!Made \cup {a} /\ \A c \in A!Made : asg'[c] = asg[c]
  BY <1>3, <1>4 DEF A!Made, Asgs
<1>6. /\ RoundsOK' /\ DOMAIN batches' = DOMAIN batches \cup {Len(batches) + 1}
      /\ Len(batches) + 1 \notin DOMAIN batches
      /\ batches'[Len(batches) + 1] = [asg |-> a, open |-> TRUE]
      /\ \A b \in DOMAIN batches : batches'[b] = batches[b]
  BY <1>1, <1>2, <1>5, RoundAdded
<1>7. SentOK'
  BY <1>2, <1>5, <1>6, Waiting
<1>8. WindowsOK' /\ ItemsOK' /\ FindingsOK' /\ outdated' \subseteq A!Made'
  BY <1>2, <1>4, <1>5, <1>6 DEF AuditOK, WindowsOK, ItemsOK, FindingsOK
<1>9. AuditOK'
  BY <1>6, <1>7, <1>8 DEF AuditOK
<1> QED BY <1>1, <1>2, <1>3, <1>4, <1>5, <1>6, <1>9

LEMMA NewBatchStep ==
    ASSUME AuditOK, NEW t \in Auditors, NEW a \in A!Made, A!NewBatch(t, a)
    PROVE  /\ AuditOK'
           /\ DOMAIN batches' = DOMAIN batches \cup {Len(batches) + 1}
           /\ Len(batches) + 1 \notin DOMAIN batches
           /\ batches'[Len(batches) + 1] = [asg |-> a, open |-> TRUE]
           /\ \A b \in DOMAIN batches : batches'[b] = batches[b]
<1>1. /\ UNCHANGED <<now, stock, asg, items, findings, audit, outdated>> /\ Len(batches) < MaxBatches
      /\ batches' = Append(batches, [asg |-> a, open |-> TRUE])
  BY DEF A!NewBatch
<1>2. a \in Asgs /\ A!Made' = A!Made /\ A!Made \cup {a} = A!Made
  BY <1>1 DEF A!Made, Asgs
<1>3. /\ RoundsOK' /\ DOMAIN batches' = DOMAIN batches \cup {Len(batches) + 1}
      /\ Len(batches) + 1 \notin DOMAIN batches
      /\ batches'[Len(batches) + 1] = [asg |-> a, open |-> TRUE]
      /\ \A b \in DOMAIN batches : batches'[b] = batches[b]
  BY <1>1, <1>2, RoundAdded
<1>4. SentOK'
  BY <1>1, <1>2, <1>3, Waiting
<1>5. WindowsOK' /\ ItemsOK' /\ FindingsOK' /\ outdated' \subseteq A!Made'
  BY <1>1, <1>2, <1>3 DEF AuditOK, WindowsOK, ItemsOK, FindingsOK
<1> QED BY <1>3, <1>4, <1>5 DEF AuditOK

(* Requests that are opened.                                               *)
Asking(t) ==
    \/ t \in Auditors /\ \E b \in DOMAIN batches, s \in Serials : A!CheckScan(t, b, s)
    \/ t \in Auditors /\ \E b \in DOMAIN batches : A!OpenSubmit(t, b)
    \/ t \in Managers /\ \E a \in A!Made, ends \in A!Times : A!OpenExtend(t, a, ends)
    \/ t \in Managers /\ A!OpenRefresh(t)

LEMMA AskingStep ==
    ASSUME AuditOK, NEW t \in A!Threads, Asking(t)
    PROVE  /\ AuditOK' /\ UNCHANGED <<now, tables, outdated>>
           /\ A!Idle(t) /\ \A u \in A!Threads \ {t} : audit'[u] = audit[u]
<1>1. now \in A!Times /\ A!Made \subseteq Asgs /\ \A a \in A!Made : asg[a].ends \in A!Times
  BY WindowOf DEF AuditOK, WindowsOK
<1>2. DOMAIN batches \subseteq 1..MaxBatches
  BY AuditAssumption DEF AuditOK, RoundsOK
<1>3. DOMAIN audit = A!Threads
  BY DEF AuditOK, SentOK
<1>4. ASSUME NEW b \in DOMAIN batches, NEW s \in Serials, A!CheckScan(t, b, s)
      PROVE  \E r \in A!Request : audit' = [audit EXCEPT ![t] = r] /\ Known(t)'
  <2> DEFINE r == [op |-> "scan", batch |-> b, serial |-> s]
  <2>1. audit' = [audit EXCEPT ![t] = r] /\ UNCHANGED batches
    BY <1>4 DEF A!CheckScan, A!rows
  <2>2. r \in A!Request
    BY <1>2 DEF A!Request
  <2>3. Known(t)'
    BY <1>3, <2>1 DEF Known, At
  <2> QED BY <2>1, <2>2, <2>3
<1>5. ASSUME NEW b \in DOMAIN batches, A!OpenSubmit(t, b)
      PROVE  \E r \in A!Request : audit' = [audit EXCEPT ![t] = r] /\ Known(t)'
  <2> DEFINE r == [op |-> "submit", batch |-> b, ends |-> asg[batches[b].asg].ends]
  <2>1. audit' = [audit EXCEPT ![t] = r] /\ UNCHANGED batches
    BY <1>5 DEF A!OpenSubmit, A!rows
  <2>2. r \in A!Request
    BY <1>1, <1>2, RoundOf DEF A!Request
  <2>3. Known(t)'
    BY <1>3, <2>1 DEF Known, At
  <2> QED BY <2>1, <2>2, <2>3
<1>6. ASSUME NEW a \in A!Made, NEW ends \in A!Times, A!OpenExtend(t, a, ends)
      PROVE  \E r \in A!Request : audit' = [audit EXCEPT ![t] = r] /\ Known(t)'
  <2> DEFINE r == [op |-> "extend", asg |-> a, ends |-> ends, moment |-> now]
  <2>1. audit' = [audit EXCEPT ![t] = r] /\ UNCHANGED asg
    BY <1>6 DEF A!OpenExtend, A!rows
  <2>2. r \in A!Request
    BY <1>1 DEF A!Request, Asgs
  <2>3. Known(t)'
    BY <1>3, <2>1 DEF Known, At, A!Made
  <2> QED BY <2>1, <2>2, <2>3
<1>7. ASSUME A!OpenRefresh(t)
      PROVE  \E r \in A!Request : audit' = [audit EXCEPT ![t] = r] /\ Known(t)'
  <2> DEFINE due == {a \in {c \in A!Made : asg[c].ends < now} : A!Due(a)}
             d == [a \in due |-> asg[a].ends]
             r == [op |-> "refresh", moment |-> now, deadlines |-> d]
  <2>1. audit' = [audit EXCEPT ![t] = r] /\ UNCHANGED asg
    BY <1>7 DEF A!OpenRefresh, A!rows
  <2>2. due \in SUBSET A!Made /\ due \in SUBSET Asgs
    BY <1>1
  <2>3. d \in [due -> A!Times]
    BY <1>1, <2>2
  <2> HIDE DEF due, d
  <2>4. r \in A!Request
    <3>1. r \in [op : {"refresh"}, moment : A!Times, deadlines : [due -> A!Times]]
      BY <1>1, <2>3
    <3>2. r \in UNION {[op : {"refresh"}, moment : A!Times, deadlines : [c -> A!Times]] :
                          c \in SUBSET Asgs}
      BY <2>2, <3>1
    <3> QED BY <3>2 DEF A!Request, Asgs
  <2>5. audit'[t] = r /\ r.deadlines = d /\ DOMAIN d = due /\ A!Made' = A!Made
    BY <1>3, <2>1, <2>3 DEF A!Made
  <2>6. Known(t)'
    BY <2>2, <2>5 DEF Known, At
  <2> QED BY <2>1, <2>4, <2>6
<1>8. A!Idle(t) /\ UNCHANGED <<now, tables, outdated>>
  BY DEF Asking, A!CheckScan, A!OpenSubmit, A!OpenExtend, A!OpenRefresh, A!rows, tables
<1>9. PICK r \in A!Request : audit' = [audit EXCEPT ![t] = r] /\ Known(t)'
  BY <1>4, <1>5, <1>6, <1>7 DEF Asking
<1> QED BY <1>8, <1>9, Asked
(* Requests that write.                                                    *)
LEMMA InsertStep ==
    ASSUME AuditOK, NEW t \in A!Threads, A!Insert(t)
    PROVE  /\ AuditOK' /\ At(t, "scan")
           /\ UNCHANGED <<now, stock, asg, batches, findings, outdated>>
           /\ items' = items \cup {[batch |-> audit[t].batch, serial |-> audit[t].serial, at |-> now]}
           /\ A!Idle(t)' /\ \A u \in A!Threads \ {t} : audit'[u] = audit[u]
<1> DEFINE i == [batch |-> audit[t].batch, serial |-> audit[t].serial, at |-> now]
<1>1. /\ At(t, "scan") /\ UNCHANGED <<now, stock, asg, batches, findings, outdated>>
      /\ items' = items \cup {i} /\ audit' = [audit EXCEPT ![t] = None]
  BY DEF A!Insert, At, A!Done
<1>2. i \in A!Item /\ i.batch \in DOMAIN batches
  <2>1. audit[t].batch \in DOMAIN batches /\ audit[t].serial \in Serials
    BY <1>1, SentFields
  <2>2. DOMAIN batches \subseteq 1..MaxBatches /\ now \in A!Times
    BY AuditAssumption DEF AuditOK, RoundsOK, WindowsOK
  <2> QED BY <2>1, <2>2 DEF A!Item
<1>3. A!Made' = A!Made /\ DOMAIN batches' = DOMAIN batches
  BY <1>1 DEF A!Made
<1>4. SentOK' /\ A!Idle(t)' /\ \A u \in A!Threads \ {t} : audit'[u] = audit[u]
  BY <1>1, <1>3, Answered
<1>5. ItemsOK'
  BY <1>1, <1>2 DEF AuditOK, ItemsOK
<1>6. WindowsOK' /\ RoundsOK' /\ FindingsOK' /\ outdated' \subseteq A!Made'
  BY <1>1, <1>3 DEF AuditOK, WindowsOK, RoundsOK, FindingsOK, A!Made, A!BatchesOf
<1> QED BY <1>1, <1>4, <1>5, <1>6 DEF AuditOK

LEMMA RemoveStep ==
    ASSUME AuditOK, NEW t \in A!Threads, NEW i \in items, A!Remove(t, i)
    PROVE  /\ AuditOK' /\ batches[i.batch].open /\ items' = items \ {i}
           /\ UNCHANGED <<now, stock, asg, batches, findings, audit, outdated>>
<1>1. /\ batches[i.batch].open /\ items' = items \ {i}
      /\ UNCHANGED <<now, stock, asg, batches, findings, audit, outdated>>
  BY DEF A!Remove
<1>2. A!Made' = A!Made
  BY <1>1 DEF A!Made
<1>3. ItemsOK'
  BY <1>1 DEF AuditOK, ItemsOK
<1>4. SentOK'
  BY <1>1, <1>2, Waiting
<1>5. WindowsOK' /\ RoundsOK' /\ FindingsOK' /\ outdated' \subseteq A!Made'
  BY <1>1, <1>2 DEF AuditOK, WindowsOK, RoundsOK, FindingsOK, A!Made, A!BatchesOf
<1> QED BY <1>1, <1>3, <1>4, <1>5 DEF AuditOK

(* The findings after a reconciliation of the assignments in D.            *)
Anew(D, W) ==
    /\ \A r \in findings' : r.asg \in D => r = W[r.asg]
    /\ \A r \in findings' : r.asg \notin D => r \in findings
    /\ \A a \in D : W[a] \in findings'
    /\ \A r \in findings : r.asg \notin D => r \in findings'

LEMMA SubmitStep ==
    ASSUME AuditInv, NEW t \in A!Threads, A!Submit(t),
           NEW b, b = audit[t].batch, NEW a, a = batches[b].asg,
           NEW W, W[a] = A!Written(a, b, audit[t].ends, now)
    PROVE  /\ AuditInv' /\ At(t, "submit") /\ b \in DOMAIN batches /\ a \in A!Made
           /\ UNCHANGED <<now, stock, asg, items>>
           /\ DOMAIN batches' = DOMAIN batches
           /\ \A c \in DOMAIN batches : /\ batches'[c].asg = batches[c].asg
                                        /\ batches[c].asg # a => batches'[c] = batches[c]
                                        /\ c # b => batches'[c] = batches[c]
           /\ ~batches'[b].open
           /\ Anew({a}, W)
           /\ \A c \in A!Made : c # a => (c \in outdated <=> c \in outdated')
           /\ a \notin outdated' => audit[t].ends = asg[a].ends
           /\ A!Idle(t)' /\ \A u \in A!Threads \ {t} : audit'[u] = audit[u]
<1> DEFINE ends == audit[t].ends
<1>1. AuditOK
  BY DEF AuditInv
<1>2. /\ At(t, "submit") /\ UNCHANGED <<now, stock, asg, items>>
      /\ batches' = [batches EXCEPT ![b].open = FALSE]
      /\ findings' = A!Reconciled(a, b, ends, now)
      /\ A!Outdate(a, ends, asg[a].ends)
      /\ audit' = [audit EXCEPT ![t] = None]
  BY DEF A!Submit, At, A!Done
<1>3. b \in DOMAIN batches /\ a \in A!Made /\ b \in 1..MaxBatches
  <2>1. DOMAIN batches \subseteq 1..MaxBatches
    BY <1>1, AuditAssumption DEF AuditOK, RoundsOK
  <2> QED BY <1>1, <1>2, <2>1, SentFields, RoundOf
<1>4. /\ batches \in Seq(Round) /\ DOMAIN batches' = DOMAIN batches
      /\ \A c \in DOMAIN batches : c # b => batches'[c] = batches[c]
      /\ batches'[b] = [batches[b] EXCEPT !.open = FALSE] /\ batches[b] \in Round
  BY <1>1, <1>2, <1>3, RoundOf DEF AuditOK, RoundsOK
<1>5. batches'[b].asg = a /\ ~batches'[b].open /\ batches'[b] \in Round
  BY <1>3, <1>4 DEF Round
<1>6. \A c \in DOMAIN batches : /\ batches'[c].asg = batches[c].asg
                                /\ batches[c].asg # a => batches'[c] = batches[c]
  BY <1>4, <1>5
<1>7. A!Made' = A!Made
  BY <1>2 DEF A!Made
<1>8. RoundsOK'
  <2>1. batches' \in Seq(Round) /\ Len(batches') = Len(batches)
    <3>1. [batches[b] EXCEPT !.open = FALSE] \in Round
      BY <1>4, <1>5
    <3> QED BY <1>2, <1>3, <1>4, <3>1, ExceptSeq
  <2>2. \A c \in DOMAIN batches' : batches'[c].asg \in A!Made'
    BY <1>1, <1>4, <1>6, <1>7, RoundOf
  <2>3. \A c \in A!Made : A!BatchesOf(c)' = A!BatchesOf(c)
    BY <1>4, <1>6 DEF A!BatchesOf
  <2> QED BY <1>1, <1>7, <2>1, <2>2, <2>3 DEF RoundsOK, AuditOK
<1>9. /\ W[a] \in A!Report /\ W[a].asg = a
      /\ \A s \in asg[a].expected : W[a].found[s] # None
  <2>1. W[a] = A!Written(a, b, ends, now)
    OBVIOUS
  <2> QED BY <1>1, <1>3, <2>1, WrittenIs
<1>10. findings' = {r \in findings : r.asg \notin {a}} \cup {W[c] : c \in {a}}
  <2>1. W[a] = A!Written(a, b, ends, now)
    OBVIOUS
  <2> QED BY <1>2, <2>1 DEF A!Reconciled, A!Superseded
<1>11. \A c \in {a} : W[c] \in A!Report /\ W[c].asg = c
  BY <1>9
<1>12. {a} \in SUBSET A!Made
  BY <1>3
<1>13. FindingsOK' /\ Anew({a}, W)
  BY <1>1, <1>7, <1>10, <1>11, <1>12, Rewritten DEF Anew
<1>14. A!OneReport'
  <2>1. \A c \in {a} : \A s \in asg[c].expected : W[c].found[s] # None
    BY <1>9
  <2>2. \A c \in A!Made : asg'[c].expected = asg[c].expected
    BY <1>2
  <2> QED BY <1>12, <1>13, <2>1, <2>2, OneOfEach DEF Anew
<1>15. SentOK' /\ A!Idle(t)' /\ \A u \in A!Threads \ {t} : audit'[u] = audit[u]
  BY <1>1, <1>2, <1>4, <1>7, Answered
<1>16. /\ outdated' \subseteq A!Made'
       /\ \A c \in A!Made : c # a => (c \in outdated <=> c \in outdated')
       /\ a \notin outdated' => ends = asg[a].ends
  BY <1>1, <1>2, <1>3, <1>7 DEF A!Outdate, AuditOK
<1>17. WindowsOK' /\ ItemsOK'
  BY <1>1, <1>2, <1>4 DEF AuditOK, WindowsOK, ItemsOK
<1>18. AuditInv'
  BY <1>8, <1>13, <1>14, <1>15, <1>16, <1>17 DEF AuditInv, AuditOK
<1> QED BY <1>2, <1>3, <1>4, <1>5, <1>6, <1>13, <1>15, <1>16, <1>18

(* What an extension does.                                                 *)
Extended(t, a, ends, W) ==
    /\ At(t, "extend") /\ a \in A!Made
    /\ UNCHANGED <<now, stock, batches, items>>
    /\ A!Made' = A!Made
    /\ asg'[a].ends = ends /\ asg'[a].starts = asg[a].starts
    /\ asg'[a].expected = asg[a].expected
    /\ \A c \in A!Made : c # a => asg'[c] = asg[c]
    /\ Anew({a}, W)
    /\ \A c \in A!Made : c # a => (c \in outdated <=> c \in outdated')
    /\ A!Idle(t)' /\ \A u \in A!Threads \ {t} : audit'[u] = audit[u]

LEMMA ExtendStep ==
    ASSUME AuditInv, NEW t \in A!Threads, A!Extend(t), NEW a, a = audit[t].asg,
           NEW anchor, anchor = A!Latest(a), NEW ends, ends = audit[t].ends,
           NEW W, W[a] = A!Written(a, anchor, ends, audit[t].moment)
    PROVE  AuditInv' /\ Extended(t, a, ends, W)
<1>1. AuditOK
  BY DEF AuditInv
<1>2. /\ At(t, "extend") /\ UNCHANGED <<now, stock, batches, items>>
      /\ asg' = [asg EXCEPT ![a].ends = ends]
      /\ findings' = A!Reconciled(a, A!Latest(a), ends, audit[t].moment)
      /\ A!Outdate(a, ends, ends)
      /\ audit' = [audit EXCEPT ![t] = None]
  BY DEF A!Extend, At, A!Done
<1>3. /\ a \in A!Made /\ ends \in A!Times
      /\ anchor \in DOMAIN batches /\ anchor \in 1..MaxBatches
  BY <1>1, <1>2, SentFields, LatestIs
<1>4. asg \in [Asgs -> Windows \cup {None}] /\ a \in Asgs /\ asg[a] \in Windows
  BY <1>1, <1>3, WindowOf DEF AuditOK, WindowsOK
<1>5. /\ asg'[a] = [asg[a] EXCEPT !.ends = ends] /\ asg'[a] \in Windows
      /\ asg'[a].ends = ends /\ asg'[a].starts = asg[a].starts
      /\ asg'[a].expected = asg[a].expected
      /\ \A c \in Asgs : c # a => asg'[c] = asg[c]
  BY <1>2, <1>3, <1>4 DEF Windows
<1>6. asg' \in [Asgs -> Windows \cup {None}]
  BY <1>2, <1>4, <1>5
<1>7. A!Made' = A!Made
  BY <1>3, <1>4, <1>5, AuditAssumption DEF A!Made, Asgs
<1>8. /\ W[a] \in A!Report /\ W[a].asg = a
      /\ \A s \in asg[a].expected : W[a].found[s] # None
  <2>1. W[a] = A!Written(a, anchor, ends, audit[t].moment)
    OBVIOUS
  <2> QED BY <1>1, <1>3, <2>1, WrittenIs
<1>9. findings' = {r \in findings : r.asg \notin {a}} \cup {W[c] : c \in {a}}
  <2>1. W[a] = A!Written(a, anchor, ends, audit[t].moment)
    OBVIOUS
  <2> QED BY <1>2, <2>1 DEF A!Reconciled, A!Superseded
<1>10. \A c \in {a} : W[c] \in A!Report /\ W[c].asg = c
  BY <1>8
<1>11. {a} \in SUBSET A!Made
  BY <1>3
<1>12. FindingsOK' /\ Anew({a}, W)
  BY <1>1, <1>7, <1>9, <1>10, <1>11, Rewritten DEF Anew
<1>13. A!OneReport'
  <2>1. \A c \in {a} : \A s \in asg[c].expected : W[c].found[s] # None
    BY <1>8
  <2>2. \A c \in A!Made : asg'[c].expected = asg[c].expected
    BY <1>5 DEF A!Made, Asgs
  <2> QED BY <1>11, <1>12, <2>1, <2>2, OneOfEach DEF Anew
<1>14. SentOK' /\ A!Idle(t)' /\ \A u \in A!Threads \ {t} : audit'[u] = audit[u]
  BY <1>1, <1>2, <1>7, Answered
<1>15. /\ outdated' \subseteq A!Made'
       /\ \A c \in A!Made : c # a => (c \in outdated <=> c \in outdated')
  BY <1>1, <1>2, <1>7 DEF A!Outdate, AuditOK
<1>16. RoundsOK' /\ ItemsOK' /\ WindowsOK'
  BY <1>1, <1>2, <1>6, <1>7 DEF AuditOK, RoundsOK, ItemsOK, WindowsOK, A!BatchesOf
<1>17. AuditInv'
  BY <1>12, <1>13, <1>14, <1>15, <1>16 DEF AuditInv, AuditOK
<1>18. \A c \in A!Made : c # a => asg'[c] = asg[c]
  BY <1>5 DEF A!Made, Asgs
<1> QED BY <1>2, <1>3, <1>5, <1>7, <1>12, <1>14, <1>15, <1>17, <1>18 DEF Extended

LEMMA RefreshStep ==
    ASSUME AuditInv, NEW t \in A!Threads, A!Refresh(t),
           NEW ends, ends = audit[t].deadlines,
           NEW W, \A a \in DOMAIN ends :
                      W[a] = A!Written(a, A!Latest(a), ends[a], audit[t].moment)
    PROVE  /\ AuditInv' /\ At(t, "refresh") /\ DOMAIN ends \subseteq A!Made
           /\ UNCHANGED <<now, stock, asg, batches, items>>
           /\ Anew(DOMAIN ends, W)
           /\ outdated' = {a \in A!Made : IF a \in DOMAIN ends THEN ends[a] # asg[a].ends
                                                               ELSE a \in outdated}
           /\ A!Idle(t)' /\ \A u \in A!Threads \ {t} : audit'[u] = audit[u]
<1> DEFINE due == DOMAIN ends
<1>1. AuditOK
  BY DEF AuditInv
<1>2. /\ At(t, "refresh") /\ UNCHANGED <<now, stock, asg, batches, items>>
      /\ findings' = {r \in findings : \A a \in due : ~A!Superseded(r, a, A!Latest(a))}
                      \cup {A!Written(a, A!Latest(a), ends[a], audit[t].moment) : a \in due}
      /\ outdated' = {a \in A!Made : IF a \in due THEN ends[a] # asg[a].ends ELSE a \in outdated}
      /\ audit' = [audit EXCEPT ![t] = None]
  BY DEF A!Refresh, At, A!Done
<1>3. due \in SUBSET A!Made
  BY <1>1, <1>2, SentFields
<1>4. A!Made' = A!Made
  BY <1>2 DEF A!Made
<1>5. ASSUME NEW a \in due
      PROVE  /\ W[a] \in A!Report /\ W[a].asg = a
             /\ \A s \in asg[a].expected : W[a].found[s] # None
  <2>1. W[a] = A!Written(a, A!Latest(a), ends[a], audit[t].moment)
    OBVIOUS
  <2>2. a \in A!Made /\ A!Latest(a) \in 1..MaxBatches
    BY <1>1, <1>3, LatestIs
  <2> QED BY <1>1, <2>1, <2>2, WrittenIs
<1>6. findings' = {r \in findings : r.asg \notin due} \cup {W[a] : a \in due}
  <2>1. {W[a] : a \in due} =
            {A!Written(a, A!Latest(a), ends[a], audit[t].moment) : a \in due}
    OBVIOUS
  <2>2. \A r \in findings : (\A a \in due : ~A!Superseded(r, a, A!Latest(a))) <=> r.asg \notin due
    BY DEF A!Superseded
  <2> HIDE DEF due
  <2> QED BY <1>2, <2>1, <2>2
<1> HIDE DEF due
<1>7. FindingsOK' /\ Anew(due, W)
  BY <1>1, <1>3, <1>4, <1>5, <1>6, Rewritten DEF Anew
<1>8. A!OneReport'
  <2>1. \A a \in A!Made : asg'[a].expected = asg[a].expected
    BY <1>2
  <2>2. \A a \in due : \A s \in asg[a].expected : W[a].found[s] # None
    BY <1>5
  <2> QED BY <1>3, <1>7, <2>1, <2>2, OneOfEach DEF Anew
<1>9. SentOK' /\ A!Idle(t)' /\ \A u \in A!Threads \ {t} : audit'[u] = audit[u]
  BY <1>1, <1>2, <1>4, Answered
<1>10. outdated' \subseteq A!Made'
  BY <1>2, <1>4
<1>11. WindowsOK' /\ RoundsOK' /\ ItemsOK'
  BY <1>1, <1>2, <1>4 DEF AuditOK, WindowsOK, RoundsOK, ItemsOK, A!BatchesOf
<1>12. AuditInv'
  BY <1>7, <1>8, <1>9, <1>10, <1>11 DEF AuditInv, AuditOK
<1> QED BY <1>2, <1>3, <1>7, <1>9, <1>12 DEF due

LEMMA OutsideStep ==
    ASSUME AuditOK, (\E s \in Serials : A!Trade(s)) \/ A!Tick
    PROVE  /\ AuditOK' /\ UNCHANGED <<asg, batches, items, findings, audit, outdated>>
           /\ now' \in A!Times /\ now' >= now
<1>1. UNCHANGED <<asg, batches, items, findings, audit, outdated>>
  BY DEF A!Trade, A!Tick, A!rows
<1>2. now \in A!Times /\ MaxTime \in Nat /\ stock \subseteq Serials
  BY AuditAssumption DEF AuditOK, WindowsOK
<1>3. stock' \subseteq Serials /\ now' \in A!Times /\ now' >= now
  <2>1. CASE \E s \in Serials : A!Trade(s)
    BY <1>2, <2>1 DEF A!Trade, A!Times
  <2>2. CASE A!Tick
    BY <1>2, <2>2 DEF A!Tick, A!Times, A!rows
  <2> QED BY <2>1, <2>2
<1>4. A!Made' = A!Made
  BY <1>1 DEF A!Made
<1>5. SentOK'
  BY <1>1, <1>4, Waiting
<1>6. WindowsOK' /\ RoundsOK' /\ ItemsOK' /\ FindingsOK' /\ outdated' \subseteq A!Made'
  BY <1>1, <1>3, <1>4 DEF AuditOK, WindowsOK, RoundsOK, ItemsOK, FindingsOK, A!BatchesOf
<1> QED BY <1>1, <1>3, <1>5, <1>6 DEF AuditOK
AuditSteps ==
    \/ \E t \in Managers, starts \in A!Times, ends \in A!Times : A!Assign(t, starts, ends)
    \/ \E t \in Auditors, a \in A!Made : A!NewBatch(t, a)
    \/ \E t \in A!Threads : Asking(t)
    \/ \E t \in Auditors, i \in items : A!Remove(t, i)
    \/ \E t \in Auditors : A!Insert(t)
    \/ \E t \in Auditors : A!Submit(t)
    \/ \E t \in Managers : A!Extend(t)
    \/ \E t \in Managers : A!Refresh(t)
    \/ (\E s \in Serials : A!Trade(s)) \/ A!Tick

LEMMA AuditCases == A!Next => AuditSteps
<1> SUFFICES ASSUME A!Next PROVE AuditSteps
  OBVIOUS
<1>1. Auditors \subseteq A!Threads /\ Managers \subseteq A!Threads
  BY DEF A!Threads
<1>2. ASSUME NEW t \in Auditors, A!AuditorNext(t) PROVE AuditSteps
  BY <1>1, <1>2 DEF A!AuditorNext, AuditSteps, Asking
<1>3. ASSUME NEW t \in Managers, A!ManagerNext(t) PROVE AuditSteps
  BY <1>1, <1>3 DEF A!ManagerNext, AuditSteps, Asking
<1>4. CASE (\E s \in Serials : A!Trade(s)) \/ A!Tick
  BY <1>4 DEF AuditSteps
<1> QED BY <1>2, <1>3, <1>4 DEF A!Next

(* Steps that write no findings and no expectation leave one report.       *)
LEMMA OneReportKept ==
    ASSUME AuditInv, findings' = findings, \A a \in A!Made : asg'[a] = asg[a]
    PROVE  A!OneReport'
BY DEF AuditInv, AuditOK, FindingsOK, A!OneReport

LEMMA AuditStep == AuditInv /\ A!Next => AuditInv'
<1> SUFFICES ASSUME AuditInv, AuditSteps PROVE AuditInv'
  BY AuditCases
<1>1. AuditOK /\ Auditors \subseteq A!Threads /\ Managers \subseteq A!Threads
  BY DEF AuditInv, A!Threads
<1>2. ASSUME NEW t \in Managers, NEW starts \in A!Times, NEW ends \in A!Times,
             A!Assign(t, starts, ends)
      PROVE  AuditInv'
  <2>1. findings' = findings
    BY <1>2 DEF A!Assign
  <2> QED BY <1>1, <1>2, <2>1, AssignStep, OneReportKept DEF AuditInv
<1>3. ASSUME NEW t \in Auditors, NEW a \in A!Made, A!NewBatch(t, a) PROVE AuditInv'
  <2>1. findings' = findings /\ asg' = asg
    BY <1>3 DEF A!NewBatch
  <2> QED BY <1>1, <1>3, <2>1, NewBatchStep, OneReportKept DEF AuditInv
<1>4. ASSUME NEW t \in A!Threads, Asking(t) PROVE AuditInv'
  <2>1. AuditOK' /\ findings' = findings /\ asg' = asg
    BY <1>1, <1>4, AskingStep DEF tables
  <2> QED BY <2>1, OneReportKept DEF AuditInv
<1>5. ASSUME NEW t \in Auditors, NEW i \in items, A!Remove(t, i) PROVE AuditInv'
  <2>1. AuditOK' /\ findings' = findings /\ asg' = asg
    BY <1>1, <1>5, RemoveStep
  <2> QED BY <2>1, OneReportKept DEF AuditInv
<1>6. ASSUME NEW t \in Auditors, A!Insert(t) PROVE AuditInv'
  <2>1. AuditOK' /\ findings' = findings /\ asg' = asg
    BY <1>1, <1>6, InsertStep
  <2> QED BY <2>1, OneReportKept DEF AuditInv
<1>7. ASSUME NEW t \in Auditors, A!Submit(t) PROVE AuditInv'
  <2>1. PICK b, a : b = audit[t].batch /\ a = batches[b].asg
    OBVIOUS
  <2>2. PICK W : W[a] = A!Written(a, b, audit[t].ends, now)
    <3> WITNESS [c \in {a} |-> A!Written(a, b, audit[t].ends, now)]
    <3> QED OBVIOUS
  <2> QED BY <1>1, <1>7, <2>1, <2>2, SubmitStep
<1>8. ASSUME NEW t \in Managers, A!Extend(t) PROVE AuditInv'
  <2>1. PICK a : a = audit[t].asg
    OBVIOUS
  <2>3. PICK anchor, ends : anchor = A!Latest(a) /\ ends = audit[t].ends
    OBVIOUS
  <2>2. PICK W : W[a] = A!Written(a, anchor, ends, audit[t].moment)
    <3> WITNESS [c \in {a} |-> A!Written(a, anchor, ends, audit[t].moment)]
    <3> QED OBVIOUS
  <2> QED BY <1>1, <1>8, <2>1, <2>2, <2>3, ExtendStep
<1>9. ASSUME NEW t \in Managers, A!Refresh(t) PROVE AuditInv'
  <2>1. PICK ends : ends = audit[t].deadlines
    OBVIOUS
  <2>2. PICK W : \A a \in DOMAIN ends :
                    W[a] = A!Written(a, A!Latest(a), ends[a], audit[t].moment)
    <3> WITNESS [a \in DOMAIN ends |-> A!Written(a, A!Latest(a), ends[a], audit[t].moment)]
    <3> QED OBVIOUS
  <2> QED BY <1>1, <1>9, <2>1, <2>2, RefreshStep
<1>10. CASE (\E s \in Serials : A!Trade(s)) \/ A!Tick
  <2>1. AuditOK' /\ findings' = findings /\ asg' = asg
    BY <1>1, <1>10, OutsideStep
  <2> QED BY <2>1, OneReportKept DEF AuditInv
<1> QED
  BY <1>2, <1>3, <1>4, <1>5, <1>6, <1>7, <1>8, <1>9, <1>10 DEF AuditSteps

LEMMA AuditStutter == AuditInv /\ UNCHANGED auditVars => AuditInv'
<1> SUFFICES ASSUME AuditInv, UNCHANGED auditVars PROVE AuditInv'
  OBVIOUS
<1>1. /\ UNCHANGED <<now, stock, asg, batches, items, findings, audit, outdated>>
      /\ A!Made' = A!Made
  BY DEF auditVars, A!Made
<1>2. WindowsOK' /\ RoundsOK' /\ ItemsOK' /\ FindingsOK' /\ outdated' \subseteq A!Made'
  BY <1>1 DEF AuditInv, AuditOK, WindowsOK, RoundsOK, ItemsOK, FindingsOK, A!BatchesOf
<1>3. SentOK'
  BY <1>1, Waiting DEF AuditInv
<1>4. A!OneReport'
  BY <1>1, OneReportKept
<1> QED BY <1>2, <1>3, <1>4 DEF AuditInv, AuditOK

-----------------------------------------------------------------------------
(* The page of the assignments and the reports agree.                      *)

(* With two threads of one auditor it fails: one has checked a scan while  *)
(* its batch was open, the other submits the batch, and the row of the     *)
(* first is inserted after the findings were written.                      *)
OneAuditor == \A t, u \in Auditors : t = u

Closed(a) == \A b \in A!BatchesOf(a) : ~batches[b].open
Agrees(r) ==
    r.asg \notin outdated /\ Closed(r.asg)
      => /\ A!FoundAs(r, "VERIFIED") = A!Verified(r.asg)
         /\ A!FoundAs(r, "EXTRA") = A!ExtraOf(r.asg)

(* A scan that is under way goes into a batch that is open.                *)
ScanOpen == \A t \in A!Threads : At(t, "scan") => t \in Auditors /\ batches[audit[t].batch].open

FoundInv == AuditInv /\ (\A r \in findings : Agrees(r)) /\ ScanOpen

LEMMA FoundIsTrue == FoundInv => FindingsTrue
BY DEF FoundInv, AuditInv, Agrees, Closed, FindingsTrue, A!FindingsTrue, A!PageAgreesWithReport

LEMMA ScannedSame ==
    ASSUME AuditOK, NEW a, asg'[a] = asg[a], items' = items,
           \A b \in DOMAIN batches : batches'[b].asg = batches[b].asg
    PROVE  A!ScannedIds(a)' = A!ScannedIds(a)
BY DEF AuditOK, ItemsOK, A!ScannedIds

LEMMA AgreesKept ==
    ASSUME NEW r, Agrees(r), r.asg \in outdated => r.asg \in outdated',
           Closed(r.asg)' => /\ Closed(r.asg) /\ asg'[r.asg] = asg[r.asg]
                             /\ A!ScannedIds(r.asg)' = A!ScannedIds(r.asg)
    PROVE  Agrees(r)'
BY DEF Agrees, A!Verified, A!ExtraOf, A!FoundAs

LEMMA WrittenAgrees ==
    ASSUME AuditOK, NEW a \in A!Made, NEW anchor \in 1..MaxBatches, NEW ends, NEW moment,
           NEW w, w = A!Written(a, anchor, ends, moment),
           asg'[a].starts = asg[a].starts, asg'[a].expected = asg[a].expected,
           a \notin outdated' => asg'[a].ends = ends,
           items' = items, \A b \in DOMAIN batches : batches'[b].asg = batches[b].asg
    PROVE  Agrees(w)'
<1>1. CASE a \in outdated'
  BY <1>1, WrittenIs DEF Agrees
<1>2. CASE a \notin outdated'
  <2>1. asg'[a].ends = ends
    BY <1>2
  <2>2. A!ScannedIds(a)' = A!Counted(a, ends)
    <3>1. /\ items \subseteq A!Item /\ \A i \in items : i.batch \in DOMAIN batches
          /\ asg[a].starts \in Nat
      BY WindowOf DEF AuditOK, ItemsOK, A!Times
    <3>2. \A i \in items : i.serial \in Serials /\ i.at \in Nat
      BY <3>1 DEF A!Item, A!Times
    <3>3. \A i \in items : batches'[i.batch].asg = a <=> i.batch \in A!BatchesOf(a)
      BY <3>1 DEF A!BatchesOf
    <3>4. \A i \in items : i.at >= asg[a].starts <=> asg[a].starts <= i.at
      BY <3>1, <3>2
    <3> QED BY <2>1, <3>2, <3>3, <3>4 DEF A!ScannedIds, A!Counted
  <2>3. /\ w.asg = a
        /\ A!FoundAs(w, "VERIFIED") = asg[a].expected \cap A!Counted(a, ends)
        /\ A!FoundAs(w, "EXTRA") = A!Counted(a, ends) \ asg[a].expected
    BY WrittenIs
  <2> QED BY <2>2, <2>3 DEF Agrees, A!Verified, A!ExtraOf, A!FoundAs
<1> QED BY <1>1, <1>2

LEMMA FoundInit == A!Init => FoundInv
<1> SUFFICES ASSUME A!Init PROVE FoundInv
  OBVIOUS
<1>1. AuditInv /\ findings = {}
  BY AuditInit DEF A!Init
<1>2. ScanOpen
  BY DEF A!Init, ScanOpen, At, A!Idle
<1> QED BY <1>1, <1>2 DEF FoundInv

(* Rows that stay: scans under way, and what the reports of others say.    *)
LEMMA ScansKept ==
    ASSUME FoundInv, NEW t \in A!Threads, \A u \in A!Threads \ {t} : audit'[u] = audit[u],
           \A b \in DOMAIN batches : batches'[b] = batches[b],
           At(t, "scan")' => t \in Auditors /\ batches'[audit'[t].batch].open
    PROVE  ScanOpen'
<1>1. ASSUME NEW u \in A!Threads, u # t, At(u, "scan")'
      PROVE  u \in Auditors /\ batches'[audit'[u].batch].open
  <2>1. audit'[u] = audit[u] /\ At(u, "scan")
    BY <1>1 DEF At, A!Idle
  <2>2. u \in Auditors /\ batches[audit[u].batch].open /\ audit[u].batch \in DOMAIN batches
    BY <2>1, SentFields DEF FoundInv, AuditInv, ScanOpen
  <2> QED BY <2>1, <2>2
<1> QED BY <1>1 DEF ScanOpen

LEMMA ScansWait ==
    ASSUME FoundInv, audit' = audit, \A b \in DOMAIN batches : batches'[b] = batches[b]
    PROVE  ScanOpen'
<1>1. ASSUME NEW u \in A!Threads, At(u, "scan")'
      PROVE  u \in Auditors /\ batches'[audit'[u].batch].open
  <2>1. audit'[u] = audit[u] /\ At(u, "scan")
    BY <1>1 DEF At, A!Idle
  <2>2. u \in Auditors /\ batches[audit[u].batch].open /\ audit[u].batch \in DOMAIN batches
    BY <2>1, SentFields DEF FoundInv, AuditInv, ScanOpen
  <2> QED BY <2>1, <2>2
<1> QED BY <1>1 DEF ScanOpen

(* A report says the same about rows that stay the same.                   *)
LEMMA AgreeAll ==
    ASSUME FoundInv, UNCHANGED <<asg, batches, items, findings>>, outdated' = outdated
    PROVE  \A r \in findings' : Agrees(r)'
<1>1. ASSUME NEW r \in findings PROVE Agrees(r)'
  <2>1. Closed(r.asg)' = Closed(r.asg) /\ A!ScannedIds(r.asg)' = A!ScannedIds(r.asg)
    BY DEF Closed, A!BatchesOf, A!ScannedIds
  <2> QED BY <2>1, AgreesKept DEF FoundInv
<1> QED BY <1>1

(* A further batch says nothing of the reports of other assignments, and   *)
(* is open in its own.                                                     *)
LEMMA AgreeWithMore ==
    ASSUME FoundInv, NEW a, findings' = findings, items' = items, outdated' = outdated,
           DOMAIN batches' = DOMAIN batches \cup {Len(batches) + 1},
           Len(batches) + 1 \notin DOMAIN batches,
           batches'[Len(batches) + 1] = [asg |-> a, open |-> TRUE],
           \A b \in DOMAIN batches : batches'[b] = batches[b],
           \A c \in A!Made : c # a => asg'[c] = asg[c]
    PROVE  \A r \in findings' : Agrees(r)'
<1>1. ASSUME NEW r \in findings PROVE Agrees(r)'
  <2>1. r.asg \in A!Made
    BY DEF FoundInv, AuditInv, AuditOK, FindingsOK
  <2>2. CASE r.asg = a
    <3>1. ~Closed(r.asg)'
      BY <2>2 DEF Closed, A!BatchesOf
    <3> QED BY <3>1, AgreesKept DEF FoundInv
  <2>3. CASE r.asg # a
    <3>1. asg'[r.asg] = asg[r.asg]
      BY <2>1, <2>3
    <3>2. A!ScannedIds(r.asg)' = A!ScannedIds(r.asg)
      BY <3>1, ScannedSame DEF FoundInv, AuditInv
    <3>3. Closed(r.asg)' => Closed(r.asg)
      BY DEF Closed, A!BatchesOf
    <3> QED BY <3>1, <3>2, <3>3, AgreesKept DEF FoundInv
  <2> QED BY <2>2, <2>3
<1> QED BY <1>1

(* Items of an open batch do not count in a report that claims something.  *)
LEMMA AgreeWithOpen ==
    ASSUME FoundInv, UNCHANGED <<asg, batches, findings, outdated>>,
           \A i \in (items \ items') \cup (items' \ items) : batches[i.batch].open,
           \A i \in items' : i.batch \in DOMAIN batches
    PROVE  \A r \in findings' : Agrees(r)'
<1>1. ASSUME NEW r \in findings PROVE Agrees(r)'
  <2>1. Closed(r.asg)' = Closed(r.asg)
    BY DEF Closed, A!BatchesOf
  <2>2. ASSUME Closed(r.asg) PROVE A!ScannedIds(r.asg)' = A!ScannedIds(r.asg)
    <3>1. \A i \in items : i.batch \in DOMAIN batches
      BY DEF FoundInv, AuditInv, AuditOK, ItemsOK
    <3>2. \A i \in (items \ items') \cup (items' \ items) : batches[i.batch].asg # r.asg
      BY <2>2, <3>1 DEF Closed, A!BatchesOf
    <3>3. {i \in items' : batches[i.batch].asg = r.asg} = {i \in items : batches[i.batch].asg = r.asg}
      BY <3>2
    <3> QED BY <3>3 DEF A!ScannedIds
  <2> QED BY <2>1, <2>2, AgreesKept DEF FoundInv
<1> QED BY <1>1

LEMMA FoundSubmit ==
    ASSUME FoundInv, OneAuditor, NEW t \in Auditors, A!Submit(t)
    PROVE  FoundInv'
<1> PICK b : b = audit[t].batch
  OBVIOUS
<1> PICK a : a = batches[b].asg
  OBVIOUS
<1> PICK W : W[a] = A!Written(a, b, audit[t].ends, now)
  <2> WITNESS [c \in {a} |-> A!Written(a, b, audit[t].ends, now)]
  <2> QED OBVIOUS
<1>1. AuditInv /\ AuditOK /\ t \in A!Threads
  BY DEF FoundInv, AuditInv, A!Threads
<1>2. /\ AuditInv' /\ At(t, "submit") /\ b \in DOMAIN batches /\ a \in A!Made
      /\ UNCHANGED <<now, stock, asg, items>>
      /\ DOMAIN batches' = DOMAIN batches
      /\ \A c \in DOMAIN batches : /\ batches'[c].asg = batches[c].asg
                                   /\ batches[c].asg # a => batches'[c] = batches[c]
      /\ Anew({a}, W)
      /\ \A c \in A!Made : c # a => (c \in outdated <=> c \in outdated')
      /\ a \notin outdated' => audit[t].ends = asg[a].ends
      /\ A!Idle(t)' /\ \A u \in A!Threads \ {t} : audit'[u] = audit[u]
  BY <1>1, SubmitStep
<1>3. W[a] = A!Written(a, b, audit[t].ends, now)
  OBVIOUS
<1>4. b \in 1..MaxBatches
  BY <1>1, <1>2, AuditAssumption DEF AuditOK, RoundsOK
<1>5. Agrees(W[a])'
  BY <1>1, <1>2, <1>3, <1>4, WrittenAgrees
<1>6. ASSUME NEW r \in findings', r.asg # a PROVE Agrees(r)'
  <2>1. r \in findings /\ r.asg \in A!Made
    BY <1>1, <1>2, <1>6 DEF Anew, AuditOK, FindingsOK
  <2>2. A!ScannedIds(r.asg)' = A!ScannedIds(r.asg)
    BY <1>1, <1>2, ScannedSame
  <2>3. Closed(r.asg)' => Closed(r.asg)
    BY <1>2, <1>6 DEF Closed, A!BatchesOf
  <2> QED BY <1>2, <1>6, <2>1, <2>2, <2>3, AgreesKept DEF FoundInv
<1>7. \A r \in findings' : Agrees(r)'
  BY <1>2, <1>5, <1>6 DEF Anew
<1>8. ScanOpen'
  <2>1. ASSUME NEW u \in A!Threads, At(u, "scan")' PROVE FALSE
    <3>1. u # t
      BY <1>2, <2>1 DEF At
    <3>2. audit'[u] = audit[u] /\ At(u, "scan")
      BY <1>2, <2>1, <3>1 DEF At, A!Idle
    <3>3. u \in Auditors
      BY <3>2 DEF FoundInv, ScanOpen
    <3> QED BY <3>1, <3>3 DEF OneAuditor
  <2> QED BY <2>1 DEF ScanOpen
<1> QED BY <1>2, <1>7, <1>8 DEF FoundInv

LEMMA FoundExtend ==
    ASSUME FoundInv, NEW t \in Managers, A!Extend(t)
    PROVE  FoundInv'
<1> PICK a : a = audit[t].asg
  OBVIOUS
<1> PICK anchor : anchor = A!Latest(a)
  OBVIOUS
<1> PICK ends : ends = audit[t].ends
  OBVIOUS
<1> PICK W : W[a] = A!Written(a, anchor, ends, audit[t].moment)
  <2> WITNESS [c \in {a} |-> A!Written(a, anchor, ends, audit[t].moment)]
  <2> QED OBVIOUS
<1>1. AuditInv /\ AuditOK /\ t \in A!Threads
  BY DEF FoundInv, AuditInv, A!Threads
<1>2. /\ AuditInv' /\ At(t, "extend") /\ a \in A!Made
      /\ UNCHANGED <<now, stock, batches, items>>
      /\ asg'[a].ends = ends /\ asg'[a].starts = asg[a].starts
      /\ asg'[a].expected = asg[a].expected
      /\ \A c \in A!Made : c # a => asg'[c] = asg[c]
      /\ Anew({a}, W)
      /\ \A c \in A!Made : c # a => (c \in outdated <=> c \in outdated')
      /\ A!Idle(t)' /\ \A u \in A!Threads \ {t} : audit'[u] = audit[u]
  <2>1. AuditInv' /\ Extended(t, a, ends, W)
    BY <1>1, ExtendStep
  <2> QED BY <2>1 DEF Extended
<1>3. W[a] = A!Written(a, anchor, ends, audit[t].moment)
  OBVIOUS
<1>4. anchor \in 1..MaxBatches
  BY <1>1, <1>2, LatestIs
<1>5. Agrees(W[a])'
  BY <1>1, <1>2, <1>3, <1>4, WrittenAgrees
<1>6. ASSUME NEW r \in findings', r.asg # a PROVE Agrees(r)'
  <2>1. r \in findings /\ r.asg \in A!Made
    BY <1>1, <1>2, <1>6 DEF Anew, AuditOK, FindingsOK
  <2>2. asg'[r.asg] = asg[r.asg]
    BY <1>2, <1>6, <2>1
  <2>3. A!ScannedIds(r.asg)' = A!ScannedIds(r.asg)
    BY <1>1, <1>2, <2>2, ScannedSame
  <2>4. Closed(r.asg)' => Closed(r.asg)
    BY <1>2 DEF Closed, A!BatchesOf
  <2> QED BY <1>2, <1>6, <2>1, <2>2, <2>3, <2>4, AgreesKept DEF FoundInv
<1>7. \A r \in findings' : Agrees(r)'
  BY <1>2, <1>5, <1>6 DEF Anew
<1>8. ScanOpen'
  BY <1>1, <1>2, ScansKept DEF At
<1> QED BY <1>2, <1>7, <1>8 DEF FoundInv

LEMMA FoundRefresh ==
    ASSUME FoundInv, NEW t \in Managers, A!Refresh(t)
    PROVE  FoundInv'
<1> PICK ends : ends = audit[t].deadlines
  OBVIOUS
<1> PICK due : due = DOMAIN ends
  OBVIOUS
<1> PICK W : \A a \in due : W[a] = A!Written(a, A!Latest(a), ends[a], audit[t].moment)
  <2> WITNESS [a \in due |-> A!Written(a, A!Latest(a), ends[a], audit[t].moment)]
  <2> QED OBVIOUS
<1>1. AuditInv /\ AuditOK /\ t \in A!Threads
  BY DEF FoundInv, AuditInv, A!Threads
<1>2. /\ AuditInv' /\ At(t, "refresh") /\ due \subseteq A!Made
      /\ UNCHANGED <<now, stock, asg, batches, items>>
      /\ Anew(due, W)
      /\ outdated' = {a \in A!Made : IF a \in due THEN ends[a] # asg[a].ends ELSE a \in outdated}
      /\ A!Idle(t)' /\ \A u \in A!Threads \ {t} : audit'[u] = audit[u]
  BY <1>1, RefreshStep
<1>3. \A a \in due : W[a] = A!Written(a, A!Latest(a), ends[a], audit[t].moment)
  OBVIOUS
<1>4. ASSUME NEW a \in due PROVE Agrees(W[a])'
  <2>1. a \in A!Made /\ A!Latest(a) \in 1..MaxBatches
    BY <1>1, <1>2, LatestIs
  <2>2. a \notin outdated' => asg'[a].ends = ends[a]
    BY <1>2, <2>1
  <2>3. W[a] = A!Written(a, A!Latest(a), ends[a], audit[t].moment)
    BY <1>3
  <2> QED BY <1>1, <1>2, <2>1, <2>2, <2>3, WrittenAgrees
<1>5. ASSUME NEW r \in findings', r.asg \notin due PROVE Agrees(r)'
  <2>1. r \in findings /\ r.asg \in A!Made
    BY <1>1, <1>2, <1>5 DEF Anew, AuditOK, FindingsOK
  <2>2. A!ScannedIds(r.asg)' = A!ScannedIds(r.asg)
    BY <1>1, <1>2, ScannedSame
  <2>3. Closed(r.asg)' => Closed(r.asg)
    BY <1>2 DEF Closed, A!BatchesOf
  <2> QED BY <1>2, <1>5, <2>1, <2>2, <2>3, AgreesKept DEF FoundInv
<1>6. \A r \in findings' : Agrees(r)'
  BY <1>2, <1>4, <1>5 DEF Anew
<1>7. ScanOpen'
  BY <1>1, <1>2, ScansKept DEF At
<1> QED BY <1>2, <1>6, <1>7 DEF FoundInv

LEMMA FoundStep ==
    ASSUME OneAuditor, FoundInv, A!Next
    PROVE  FoundInv'
<1>1. AuditInv /\ AuditOK /\ Auditors \subseteq A!Threads /\ Managers \subseteq A!Threads
  BY DEF FoundInv, AuditInv, A!Threads
<1>2. AuditInv' /\ AuditSteps
  BY <1>1, AuditStep, AuditCases
<1>3. ASSUME NEW t \in Managers, NEW starts \in A!Times, NEW ends \in A!Times,
             A!Assign(t, starts, ends)
      PROVE  FoundInv'
  <2>1. UNCHANGED <<items, findings, audit, outdated>>
    BY <1>3 DEF A!Assign
  <2> QED BY <1>1, <1>2, <1>3, <2>1, AssignStep, AgreeWithMore, ScansWait DEF FoundInv
<1>4. ASSUME NEW t \in Auditors, NEW a \in A!Made, A!NewBatch(t, a) PROVE FoundInv'
  <2>1. UNCHANGED <<asg, items, findings, audit, outdated>>
    BY <1>4 DEF A!NewBatch
  <2> QED BY <1>1, <1>2, <1>4, <2>1, NewBatchStep, AgreeWithMore, ScansWait DEF FoundInv
<1>5. ASSUME NEW t \in A!Threads, Asking(t) PROVE FoundInv'
  <2>1. /\ UNCHANGED <<asg, batches, items, findings, outdated>>
        /\ \A u \in A!Threads \ {t} : audit'[u] = audit[u]
    BY <1>1, <1>5, AskingStep DEF tables
  <2>2. At(t, "scan")' => t \in Auditors /\ batches'[audit'[t].batch].open
    <3>1. DOMAIN audit = A!Threads
      BY <1>1 DEF AuditOK, SentOK
    <3> QED BY <1>5, <2>1, <3>1
            DEF Asking, At, A!CheckScan, A!OpenSubmit, A!OpenExtend, A!OpenRefresh
  <2> QED BY <1>2, <2>1, <2>2, AgreeAll, ScansKept DEF FoundInv
<1>6. ASSUME NEW t \in Auditors, NEW i \in items, A!Remove(t, i) PROVE FoundInv'
  <2>1. /\ batches[i.batch].open /\ items' = items \ {i}
        /\ UNCHANGED <<asg, batches, findings, audit, outdated>>
    BY <1>1, <1>6, RemoveStep
  <2>2. \A j \in items : j.batch \in DOMAIN batches
    BY <1>1 DEF AuditOK, ItemsOK
  <2>3. (items \ items') \cup (items' \ items) \subseteq {i} /\ items' \subseteq items
    BY <2>1
  <2>4. \A r \in findings' : Agrees(r)'
    BY <2>1, <2>2, <2>3, AgreeWithOpen
  <2> QED BY <1>2, <2>1, <2>4, ScansWait DEF FoundInv
<1>7. ASSUME NEW t \in Auditors, A!Insert(t) PROVE FoundInv'
  <2> DEFINE i == [batch |-> audit[t].batch, serial |-> audit[t].serial, at |-> now]
  <2>1. /\ At(t, "scan") /\ UNCHANGED <<asg, batches, findings, outdated>>
        /\ items' = items \cup {i} /\ A!Idle(t)'
        /\ \A u \in A!Threads \ {t} : audit'[u] = audit[u]
    BY <1>1, <1>7, InsertStep
  <2>2. /\ audit[t].batch \in DOMAIN batches /\ batches[audit[t].batch].open
        /\ \A j \in items : j.batch \in DOMAIN batches
    BY <1>1, <2>1, SentFields DEF FoundInv, ScanOpen, AuditOK, ItemsOK
  <2>3. i.batch \in DOMAIN batches /\ batches[i.batch].open
    BY <2>2
  <2> HIDE DEF i
  <2>4. \A r \in findings' : Agrees(r)'
    BY <2>1, <2>2, <2>3, AgreeWithOpen
  <2>5. ScanOpen'
    BY <1>1, <2>1, ScansKept DEF At
  <2> QED BY <1>2, <2>4, <2>5 DEF FoundInv
<1>8. ASSUME NEW t \in Auditors, A!Submit(t) PROVE FoundInv'
  BY <1>8, FoundSubmit
<1>9. ASSUME NEW t \in Managers, A!Extend(t) PROVE FoundInv'
  BY <1>9, FoundExtend
<1>10. ASSUME NEW t \in Managers, A!Refresh(t) PROVE FoundInv'
  BY <1>10, FoundRefresh
<1>11. CASE (\E s \in Serials : A!Trade(s)) \/ A!Tick
  BY <1>1, <1>2, <1>11, OutsideStep, AgreeAll, ScansWait DEF FoundInv
<1> QED
  BY <1>2, <1>3, <1>4, <1>5, <1>6, <1>7, <1>8, <1>9, <1>10, <1>11 DEF AuditSteps

LEMMA FoundStutter == FoundInv /\ UNCHANGED auditVars => FoundInv'
BY AuditStutter, AgreeAll, ScansWait DEF FoundInv, auditVars

(* The audits are one part of the warehouse.                               *)
LEMMA AuditsStart == WarehouseInit => A!Init
BY DEF WarehouseInit

LEMMA AuditsMove == [WarehouseNext]_every => A!Next \/ UNCHANGED auditVars
BY DEF WarehouseNext, every

(* FindingsTrue: however the requests of one auditor and of the managers   *)
(* overlap, the findings of an assignment are those of one reconciliation, *)
(* complete, and what the page of the assignments shows.                   *)
THEOREM FindingsAreTrueCorrect ==
    ASSUME OneAuditor PROVE WarehouseSpec => []FindingsTrue
<1>1. WarehouseInit => FoundInv
  BY AuditsStart, FoundInit
<1>2. FoundInv /\ [WarehouseNext]_every => FoundInv'
  BY AuditsMove, FoundStep, FoundStutter
<1> QED BY <1>1, <1>2, FoundIsTrue, PTL DEF WarehouseSpec

-----------------------------------------------------------------------------
(* After a report page nothing that is over is left open.                  *)

(* With two managers it fails: an extension whose new deadline was ahead   *)
(* when it was opened, and is over by now, is committed between the look   *)
(* and the write of the other one's report page, which passes it over.     *)
OneManager == \A t, u \in Managers : t = u

(* Only managers extend and open report pages.                             *)
Roles == \A t \in A!Threads : At(t, "extend") \/ At(t, "refresh") => t \in Managers

(* What a report page is not going to write was complete when it looked,   *)
(* and is.                                                                 *)
Refreshed(t) ==
    /\ audit[t].moment <= now
    /\ \A a \in DOMAIN audit[t].deadlines : audit[t].deadlines[a] < audit[t].moment
    /\ \A a \in A!Made \ DOMAIN audit[t].deadlines :
          asg[a].ends < audit[t].moment => A!Complete(a)
Refreshing == \A t \in A!Threads : At(t, "refresh") => Refreshed(t)

(* Deadlines only move on.                                                 *)
Later == \A t \in A!Threads :
    /\ At(t, "submit") => audit[t].ends <= asg[batches[audit[t].batch].asg].ends
    /\ At(t, "extend") => audit[t].ends > asg[audit[t].asg].ends

ClosingInv == AuditInv /\ Roles /\ Refreshing /\ Later

LEMMA CompleteAnew ==
    ASSUME NEW D, NEW W, Anew(D, W), NEW a \in D, W[a].asg = a,
           \A s \in Serials : W[a].found[s] # "PENDING"
    PROVE  A!Complete(a)'
<1>1. A!HasFindings(a)'
  BY DEF Anew, A!HasFindings
<1>2. \A r \in findings' : r.asg = a => r = W[a]
  BY DEF Anew
<1>3. ~A!HasPending(a)'
  BY <1>2 DEF A!HasPending
<1> QED BY <1>1, <1>3 DEF A!Complete

LEMMA CompleteOther ==
    ASSUME NEW D, NEW W, Anew(D, W), NEW a, a \notin D, A!Complete(a)
    PROVE  A!Complete(a)'
<1>1. \A r : r.asg = a => (r \in findings <=> r \in findings')
  BY DEF Anew
<1> QED BY <1>1 DEF A!Complete, A!HasFindings, A!HasPending

LEMMA ClosingInit == A!Init => ClosingInv
<1> SUFFICES ASSUME A!Init PROVE ClosingInv
  OBVIOUS
<1>1. \A t \in A!Threads : A!Idle(t)
  BY DEF A!Init, A!Idle
<1> QED BY <1>1, AuditInit DEF ClosingInv, Roles, Refreshing, Later, At

(* The requests of the others stay as they were.                           *)
LEMMA OthersStay ==
    ASSUME NEW t, NEW u, u # t, \A v \in A!Threads \ {t} : audit'[v] = audit[v],
           u \in A!Threads, NEW op
    PROVE  audit'[u] = audit[u] /\ (At(u, op)' <=> At(u, op))
BY DEF At, A!Idle

(* Steps that leave the rows of the assignments and the findings alone.    *)
LEMMA PageWaits ==
    ASSUME ClosingInv, NEW u \in A!Threads, At(u, "refresh"), audit'[u] = audit[u],
           findings' = findings, A!Made \subseteq A!Made',
           \A a \in A!Made : asg'[a] = asg[a],
           \A a \in A!Made' \ A!Made : asg'[a].ends > now /\ asg'[a].ends \in A!Times,
           now' \in A!Times, now' >= now
    PROVE  Refreshed(u)'
<1>1. Refreshed(u) /\ audit[u].moment \in A!Times /\ now \in A!Times
  BY SentFields DEF ClosingInv, Refreshing, AuditInv, AuditOK, WindowsOK
<1>2. audit'[u].moment <= now'
  BY <1>1 DEF Refreshed, A!Times
<1>3. ASSUME NEW a \in A!Made' \ DOMAIN audit[u].deadlines, asg'[a].ends < audit[u].moment
      PROVE  A!Complete(a)'
  <2>1. CASE a \in A!Made
    <3>1. asg[a].ends < audit[u].moment
      BY <1>3, <2>1
    <3>2. A!Complete(a)
      BY <1>1, <1>3, <2>1, <3>1 DEF Refreshed
    <3> QED BY <3>2 DEF A!Complete, A!HasFindings, A!HasPending
  <2>2. CASE a \notin A!Made
    <3>1. asg'[a].ends \in A!Times /\ asg'[a].ends > now /\ audit[u].moment <= now
      BY <1>1, <2>2 DEF Refreshed
    <3> QED BY <1>1, <1>3, <3>1 DEF A!Times
  <2> QED BY <2>1, <2>2
<1> QED BY <1>1, <1>2, <1>3 DEF Refreshed

(* A request is as late as it was.                                         *)
LEMMA StillLater ==
    ASSUME ClosingInv, NEW u \in A!Threads, audit'[u] = audit[u],
           \A b \in DOMAIN batches : batches'[b].asg = batches[b].asg,
           \A a \in A!Made : asg'[a].ends = asg[a].ends
    PROVE  /\ At(u, "submit")' => audit'[u].ends <= asg'[batches'[audit'[u].batch].asg].ends
           /\ At(u, "extend")' => audit'[u].ends > asg'[audit'[u].asg].ends
<1>1. /\ At(u, "submit") => audit[u].batch \in DOMAIN batches
      /\ At(u, "extend") => audit[u].asg \in A!Made
      /\ \A b \in DOMAIN batches : batches[b].asg \in A!Made
  BY SentFields, RoundOf DEF ClosingInv, AuditInv
<1>2. (At(u, "submit")' <=> At(u, "submit")) /\ (At(u, "extend")' <=> At(u, "extend"))
  BY DEF At, A!Idle
<1> QED BY <1>1, <1>2 DEF ClosingInv, Later

(* Steps that open no request and write no findings.                       *)
LEMMA ClosingWaits ==
    ASSUME ClosingInv, AuditInv', findings' = findings, A!Made \subseteq A!Made',
           \A u \in A!Threads : audit'[u] = audit[u] \/ A!Idle(u)',
           \A a \in A!Made : asg'[a] = asg[a],
           \A a \in A!Made' \ A!Made : asg'[a].ends > now /\ asg'[a].ends \in A!Times,
           \A b \in DOMAIN batches : batches'[b].asg = batches[b].asg,
           now' \in A!Times, now' >= now
    PROVE  ClosingInv'
<1>1. ASSUME NEW u \in A!Threads
      PROVE  /\ At(u, "extend")' \/ At(u, "refresh")' => u \in Managers
             /\ At(u, "refresh")' => Refreshed(u)'
             /\ At(u, "submit")' => audit'[u].ends <= asg'[batches'[audit'[u].batch].asg].ends
             /\ At(u, "extend")' => audit'[u].ends > asg'[audit'[u].asg].ends
  <2>1. CASE A!Idle(u)'
    BY <2>1 DEF At
  <2>2. CASE audit'[u] = audit[u]
    <3>1. /\ (At(u, "extend")' <=> At(u, "extend"))
          /\ (At(u, "refresh")' <=> At(u, "refresh"))
      BY <2>2 DEF At, A!Idle
    <3>2. At(u, "extend") \/ At(u, "refresh") => u \in Managers
      BY DEF ClosingInv, Roles
    <3>3. At(u, "refresh") => Refreshed(u)'
      BY <2>2, PageWaits
    <3>4. /\ At(u, "submit")' => audit'[u].ends <= asg'[batches'[audit'[u].batch].asg].ends
          /\ At(u, "extend")' => audit'[u].ends > asg'[audit'[u].asg].ends
      BY <2>2, StillLater
    <3> QED BY <3>1, <3>2, <3>3, <3>4
  <2> QED BY <2>1, <2>2
<1> QED BY <1>1 DEF ClosingInv, Roles, Refreshing, Later

LEMMA ClosingAsking ==
    ASSUME ClosingInv, NEW t \in A!Threads, Asking(t)
    PROVE  ClosingInv'
<1>1. /\ AuditOK /\ AuditOK' /\ UNCHANGED <<now, tables, outdated>>
      /\ \A u \in A!Threads \ {t} : audit'[u] = audit[u]
      /\ A!Made' = A!Made /\ DOMAIN audit = A!Threads
  BY AskingStep DEF ClosingInv, AuditInv, tables, A!Made, AuditOK, SentOK
<1>2. AuditInv'
  BY <1>1, OneReportKept DEF ClosingInv, AuditInv, tables
<1>3. now \in A!Times /\ \A a \in A!Made : asg[a].ends \in A!Times
  BY <1>1, WindowOf DEF AuditOK, WindowsOK
<1>4. /\ At(t, "extend")' \/ At(t, "refresh")' => t \in Managers
      /\ At(t, "submit")' => audit'[t].ends <= asg'[batches'[audit'[t].batch].asg].ends
      /\ At(t, "extend")' => audit'[t].ends > asg'[audit'[t].asg].ends
  <2>1. ASSUME NEW b \in DOMAIN batches, A!OpenSubmit(t, b)
        PROVE  audit'[t].ends <= asg[batches[audit'[t].batch].asg].ends
    <3>1. audit'[t] = [op |-> "submit", batch |-> b, ends |-> asg[batches[b].asg].ends]
      BY <1>1, <2>1 DEF A!OpenSubmit
    <3>2. asg[batches[b].asg].ends \in Nat
      BY <1>1, <1>3, RoundOf DEF A!Times
    <3> QED BY <3>1, <3>2
  <2> QED BY <1>1, <2>1 DEF Asking, A!CheckScan, A!OpenSubmit, A!OpenExtend, A!OpenRefresh, At, tables
<1>5. ASSUME At(t, "refresh")' PROVE Refreshed(t)'
  <2> DEFINE due == {a \in {c \in A!Made : asg[c].ends < now} : A!Due(a)}
             d == [a \in due |-> asg[a].ends]
  <2>1. audit'[t] = [op |-> "refresh", moment |-> now, deadlines |-> d]
    BY <1>1, <1>5 DEF Asking, A!CheckScan, A!OpenSubmit, A!OpenExtend, A!OpenRefresh, At
  <2>2. /\ audit'[t].moment = now /\ DOMAIN audit'[t].deadlines = due
        /\ \A a \in due : audit'[t].deadlines[a] = asg[a].ends /\ asg[a].ends < now
    BY <2>1
  <2>3. \A a \in A!Made : asg[a].ends < now /\ a \notin due => A!Complete(a)
    BY DEF A!Due, A!Complete
  <2> HIDE DEF due
  <2>4. \A a \in A!Made : A!Complete(a)' = A!Complete(a) /\ asg'[a] = asg[a]
    BY <1>1 DEF A!Complete, A!HasFindings, A!HasPending, tables
  <2>5. audit'[t].moment <= now'
    BY <1>1, <1>3, <2>2 DEF A!Times
  <2> QED BY <1>1, <2>2, <2>3, <2>4, <2>5 DEF Refreshed
<1>6. ASSUME NEW u \in A!Threads \ {t}
      PROVE  /\ At(u, "extend")' \/ At(u, "refresh")' => u \in Managers
             /\ At(u, "refresh")' => Refreshed(u)'
             /\ At(u, "submit")' => audit'[u].ends <= asg'[batches'[audit'[u].batch].asg].ends
             /\ At(u, "extend")' => audit'[u].ends > asg'[audit'[u].asg].ends
  <2>1. /\ (At(u, "extend")' <=> At(u, "extend"))
        /\ (At(u, "refresh")' <=> At(u, "refresh"))
    BY <1>1 DEF At, A!Idle
  <2>2. /\ At(u, "submit")' => audit'[u].ends <= asg'[batches'[audit'[u].batch].asg].ends
        /\ At(u, "extend")' => audit'[u].ends > asg'[audit'[u].asg].ends
    BY <1>1, StillLater DEF tables
  <2>3. At(u, "refresh") => Refreshed(u)'
    <3>1. now' \in A!Times /\ now' >= now
      BY <1>1, <1>3 DEF A!Times
    <3> QED BY <1>1, <3>1, PageWaits DEF tables
  <2> QED BY <2>1, <2>2, <2>3 DEF ClosingInv, Roles
<1> QED BY <1>2, <1>4, <1>5, <1>6 DEF ClosingInv, Roles, Refreshing, Later

LEMMA ClosingSubmit ==
    ASSUME ClosingInv, NEW t \in Auditors, A!Submit(t)
    PROVE  ClosingInv'
<1> PICK b : b = audit[t].batch
  OBVIOUS
<1> PICK a : a = batches[b].asg
  OBVIOUS
<1> PICK W : W[a] = A!Written(a, b, audit[t].ends, now)
  <2> WITNESS [c \in {a} |-> A!Written(a, b, audit[t].ends, now)]
  <2> QED OBVIOUS
<1>1. AuditInv /\ AuditOK /\ t \in A!Threads
  BY DEF ClosingInv, AuditInv, A!Threads
<1>2. /\ AuditInv' /\ At(t, "submit") /\ b \in DOMAIN batches /\ a \in A!Made
      /\ UNCHANGED <<now, stock, asg, items>>
      /\ \A c \in DOMAIN batches : batches'[c].asg = batches[c].asg
      /\ Anew({a}, W)
      /\ A!Idle(t)' /\ \A u \in A!Threads \ {t} : audit'[u] = audit[u]
  BY <1>1, SubmitStep
<1>3. W[a] = A!Written(a, b, audit[t].ends, now)
  OBVIOUS
<1>4. b \in 1..MaxBatches
  BY <1>1, <1>2, AuditAssumption DEF AuditOK, RoundsOK
<1>5. /\ now \in A!Times /\ asg[a].ends \in A!Times
      /\ audit[t].ends \in A!Times /\ audit[t].ends <= asg[a].ends
  BY <1>1, <1>2, WindowOf, SentFields DEF AuditOK, WindowsOK, ClosingInv, Later
<1>6. A!Made' = A!Made
  BY <1>2 DEF A!Made
<1>7. asg[a].ends < now => A!Complete(a)'
  <2>1. W[a].asg = a /\ (now > audit[t].ends => \A s \in Serials : W[a].found[s] # "PENDING")
    BY <1>1, <1>2, <1>3, <1>4, WrittenIs
  <2>2. asg[a].ends < now => now > audit[t].ends
    BY <1>5 DEF A!Times
  <2> QED BY <1>2, <2>1, <2>2, CompleteAnew
<1>8. ASSUME NEW u \in A!Threads \ {t}, At(u, "refresh") PROVE Refreshed(u)'
  <2>1. Refreshed(u) /\ audit[u].moment \in A!Times /\ audit'[u] = audit[u]
    BY <1>1, <1>2, <1>8, SentFields DEF ClosingInv, Refreshing
  <2>2. ASSUME NEW c \in A!Made \ DOMAIN audit[u].deadlines, asg[c].ends < audit[u].moment
        PROVE  A!Complete(c)'
    <3>1. CASE c = a
      BY <1>5, <1>7, <2>1, <2>2, <3>1 DEF A!Times, Refreshed
    <3>2. CASE c # a
      BY <1>2, <2>1, <2>2, <3>2, CompleteOther DEF Refreshed
    <3> QED BY <3>1, <3>2
  <2> QED BY <1>2, <1>6, <2>1, <2>2 DEF Refreshed
<1>9. ASSUME NEW u \in A!Threads
      PROVE  /\ At(u, "extend")' \/ At(u, "refresh")' => u \in Managers
             /\ At(u, "refresh")' => Refreshed(u)'
             /\ At(u, "submit")' => audit'[u].ends <= asg'[batches'[audit'[u].batch].asg].ends
             /\ At(u, "extend")' => audit'[u].ends > asg'[audit'[u].asg].ends
  <2>1. CASE u = t
    BY <1>2, <2>1 DEF At
  <2>2. CASE u # t
    <3>1. /\ (At(u, "extend")' <=> At(u, "extend"))
          /\ (At(u, "refresh")' <=> At(u, "refresh"))
      BY <1>2, <2>2 DEF At, A!Idle
    <3>2. /\ At(u, "submit")' => audit'[u].ends <= asg'[batches'[audit'[u].batch].asg].ends
          /\ At(u, "extend")' => audit'[u].ends > asg'[audit'[u].asg].ends
      BY <1>2, <2>2, StillLater
    <3> QED BY <1>8, <2>2, <3>1, <3>2 DEF ClosingInv, Roles
  <2> QED BY <2>1, <2>2
<1> QED BY <1>2, <1>9 DEF ClosingInv, Roles, Refreshing, Later

(* With one manager nobody else extends or reads a report meanwhile.       *)
LEMMA ManagerDone ==
    ASSUME ClosingInv, OneManager, NEW t \in Managers, A!Idle(t)',
           \A u \in A!Threads \ {t} : audit'[u] = audit[u]
    PROVE  \A u \in A!Threads : ~At(u, "extend")' /\ ~At(u, "refresh")'
<1>1. ASSUME NEW u \in A!Threads, At(u, "extend")' \/ At(u, "refresh")' PROVE FALSE
  <2>1. u # t
    BY <1>1 DEF At
  <2>2. u \in Managers
    BY <1>1, <2>1 DEF ClosingInv, Roles, At, A!Idle
  <2> QED BY <2>1, <2>2 DEF OneManager
<1> QED BY <1>1

LEMMA ClosingExtend ==
    ASSUME ClosingInv, OneManager, NEW t \in Managers, A!Extend(t)
    PROVE  ClosingInv'
<1> PICK a : a = audit[t].asg
  OBVIOUS
<1> PICK anchor : anchor = A!Latest(a)
  OBVIOUS
<1> PICK ends : ends = audit[t].ends
  OBVIOUS
<1> PICK W : W[a] = A!Written(a, anchor, ends, audit[t].moment)
  <2> WITNESS [c \in {a} |-> A!Written(a, anchor, ends, audit[t].moment)]
  <2> QED OBVIOUS
<1>1. AuditInv /\ AuditOK /\ t \in A!Threads
  BY DEF ClosingInv, AuditInv, A!Threads
<1>2. /\ AuditInv' /\ At(t, "extend") /\ a \in A!Made
      /\ UNCHANGED <<now, stock, batches, items>>
      /\ asg'[a].ends = ends /\ asg'[a].starts = asg[a].starts
      /\ asg'[a].expected = asg[a].expected
      /\ \A c \in A!Made : c # a => asg'[c] = asg[c]
      /\ Anew({a}, W)
      /\ A!Idle(t)' /\ \A u \in A!Threads \ {t} : audit'[u] = audit[u]
  <2>1. AuditInv' /\ Extended(t, a, ends, W)
    BY <1>1, ExtendStep
  <2> QED BY <2>1 DEF Extended
<1>3. /\ ends > asg[a].ends /\ ends \in A!Times
      /\ \A c \in A!Made : asg[c].ends \in A!Times
  BY <1>1, <1>2, WindowOf, SentFields DEF ClosingInv, Later
<1>4. \A u \in A!Threads : ~At(u, "extend")' /\ ~At(u, "refresh")'
  BY <1>2, ManagerDone
<1>5. ASSUME NEW u \in A!Threads, At(u, "submit")'
      PROVE  audit'[u].ends <= asg'[batches'[audit'[u].batch].asg].ends
  <2>1. u # t
    BY <1>2, <1>5 DEF At
  <2>2. audit'[u] = audit[u] /\ At(u, "submit")
    BY <1>2, <1>5, <2>1 DEF At, A!Idle
  <2>3. /\ audit[u].batch \in DOMAIN batches /\ audit[u].ends \in A!Times
        /\ batches[audit[u].batch].asg \in A!Made
        /\ audit[u].ends <= asg[batches[audit[u].batch].asg].ends
    BY <1>1, <2>2, SentFields, RoundOf DEF ClosingInv, Later
  <2>4. CASE batches[audit[u].batch].asg = a
    BY <1>2, <1>3, <2>2, <2>3, <2>4 DEF A!Times
  <2>5. CASE batches[audit[u].batch].asg # a
    BY <1>2, <2>2, <2>3, <2>5
  <2> QED BY <2>4, <2>5
<1> QED BY <1>2, <1>4, <1>5 DEF ClosingInv, Roles, Refreshing, Later

LEMMA ClosingRefresh ==
    ASSUME ClosingInv, OneManager, NEW t \in Managers, A!Refresh(t)
    PROVE  /\ ClosingInv' /\ At(t, "refresh")
           /\ \A a \in A!Made : asg[a].ends < audit[t].moment => A!Complete(a)'
<1> PICK ends : ends = audit[t].deadlines
  OBVIOUS
<1> PICK W : \A a \in DOMAIN ends : W[a] = A!Written(a, A!Latest(a), ends[a], audit[t].moment)
  <2> WITNESS [a \in DOMAIN ends |-> A!Written(a, A!Latest(a), ends[a], audit[t].moment)]
  <2> QED OBVIOUS
<1>1. AuditInv /\ AuditOK /\ t \in A!Threads
  BY DEF ClosingInv, AuditInv, A!Threads
<1>2. /\ AuditInv' /\ At(t, "refresh") /\ DOMAIN ends \subseteq A!Made
      /\ UNCHANGED <<now, stock, asg, batches, items>>
      /\ Anew(DOMAIN ends, W)
      /\ A!Idle(t)' /\ \A u \in A!Threads \ {t} : audit'[u] = audit[u]
  BY <1>1, RefreshStep
<1>3. \A u \in A!Threads : ~At(u, "extend")' /\ ~At(u, "refresh")'
  BY <1>2, ManagerDone
<1>4. ASSUME NEW u \in A!Threads, At(u, "submit")'
      PROVE  audit'[u].ends <= asg'[batches'[audit'[u].batch].asg].ends
  <2>1. u # t
    BY <1>2, <1>4 DEF At
  <2> QED BY <1>2, <1>4, <2>1, StillLater
<1>5. ClosingInv'
  BY <1>2, <1>3, <1>4 DEF ClosingInv, Roles, Refreshing, Later
<1>6. Refreshed(t)
  BY <1>1, <1>2 DEF ClosingInv, Refreshing
<1>7. ASSUME NEW a \in DOMAIN ends PROVE A!Complete(a)'
  <2>1. W[a] = A!Written(a, A!Latest(a), ends[a], audit[t].moment)
    OBVIOUS
  <2>2. a \in A!Made /\ A!Latest(a) \in 1..MaxBatches
    BY <1>1, <1>2, LatestIs
  <2>3. audit[t].moment \in A!Times /\ ends[a] \in A!Times /\ ends[a] < audit[t].moment
    BY <1>1, <1>2, <1>6, SentFields DEF Refreshed
  <2>4. audit[t].moment > ends[a]
    BY <2>3 DEF A!Times
  <2>5. W[a].asg = a /\ \A s \in Serials : W[a].found[s] # "PENDING"
    BY <1>1, <2>1, <2>2, <2>4, WrittenIs
  <2> QED BY <1>2, <2>5, CompleteAnew
<1>8. ASSUME NEW a \in A!Made \ DOMAIN ends, asg[a].ends < audit[t].moment
      PROVE  A!Complete(a)'
  <2>1. A!Complete(a)
    BY <1>6, <1>8 DEF Refreshed
  <2> QED BY <1>2, <2>1, CompleteOther
<1> QED BY <1>2, <1>5, <1>7, <1>8

LEMMA ClosingStep == ClosingInv /\ OneManager /\ A!Next => ClosingInv'
<1> SUFFICES ASSUME ClosingInv, OneManager, A!Next PROVE ClosingInv'
  OBVIOUS
<1>1. /\ AuditInv /\ AuditOK /\ AuditInv' /\ AuditSteps /\ now \in A!Times
      /\ Auditors \subseteq A!Threads /\ Managers \subseteq A!Threads
  BY AuditStep, AuditCases DEF ClosingInv, AuditInv, AuditOK, WindowsOK, A!Threads
<1>2. now' \in A!Times /\ (now' = now => now' >= now)
  BY <1>1 DEF AuditInv, AuditOK, WindowsOK, A!Times
<1>3. ASSUME NEW t \in Managers, NEW starts \in A!Times, NEW ends \in A!Times,
             A!Assign(t, starts, ends)
      PROVE  ClosingInv'
  <2>1. UNCHANGED <<now, findings, audit>>
    BY <1>3 DEF A!Assign
  <2>2. PICK a \in Asgs \ A!Made :
          /\ A!Made' = A!Made \cup {a}
          /\ asg'[a].ends > now /\ asg'[a].ends \in A!Times
          /\ \A c \in A!Made : asg'[c] = asg[c]
          /\ \A b \in DOMAIN batches : batches'[b] = batches[b]
    BY <1>1, <1>3, AssignStep
  <2> QED BY <1>1, <1>2, <2>1, <2>2, ClosingWaits
<1>4. ASSUME NEW t \in Auditors, NEW a \in A!Made, A!NewBatch(t, a) PROVE ClosingInv'
  <2>1. UNCHANGED <<now, asg, findings, audit>> /\ A!Made' = A!Made
    BY <1>4 DEF A!NewBatch, A!Made
  <2>2. \A b \in DOMAIN batches : batches'[b] = batches[b]
    BY <1>1, <1>4, NewBatchStep
  <2> QED BY <1>1, <1>2, <2>1, <2>2, ClosingWaits
<1>5. ASSUME NEW t \in A!Threads, Asking(t) PROVE ClosingInv'
  BY <1>5, ClosingAsking
<1>6. ASSUME NEW t \in Auditors, NEW i \in items, A!Remove(t, i) PROVE ClosingInv'
  <2>1. UNCHANGED <<now, asg, batches, findings, audit>> /\ A!Made' = A!Made
    BY <1>6 DEF A!Remove, A!Made
  <2> QED BY <1>1, <1>2, <2>1, ClosingWaits
<1>7. ASSUME NEW t \in Auditors, A!Insert(t) PROVE ClosingInv'
  <2>1. /\ UNCHANGED <<now, asg, batches, findings>> /\ A!Made' = A!Made
        /\ A!Idle(t)' /\ \A u \in A!Threads \ {t} : audit'[u] = audit[u]
    BY <1>1, <1>7, InsertStep DEF A!Made
  <2> QED BY <1>1, <1>2, <2>1, ClosingWaits
<1>8. ASSUME NEW t \in Auditors, A!Submit(t) PROVE ClosingInv'
  BY <1>8, ClosingSubmit
<1>9. ASSUME NEW t \in Managers, A!Extend(t) PROVE ClosingInv'
  BY <1>9, ClosingExtend
<1>10. ASSUME NEW t \in Managers, A!Refresh(t) PROVE ClosingInv'
  BY <1>10, ClosingRefresh
<1>11. CASE (\E s \in Serials : A!Trade(s)) \/ A!Tick
  <2>1. UNCHANGED <<asg, batches, findings, audit>> /\ A!Made' = A!Made /\ now' >= now
    BY <1>1, <1>11, OutsideStep DEF A!Made
  <2> QED BY <1>1, <1>2, <2>1, ClosingWaits
<1> QED
  BY <1>1, <1>3, <1>4, <1>5, <1>6, <1>7, <1>8, <1>9, <1>10, <1>11 DEF AuditSteps

LEMMA ClosingStutter == ClosingInv /\ UNCHANGED auditVars => ClosingInv'
<1> SUFFICES ASSUME ClosingInv, UNCHANGED auditVars PROVE ClosingInv'
  OBVIOUS
<1>1. AuditInv' /\ UNCHANGED <<now, asg, batches, findings, audit>> /\ A!Made' = A!Made
  BY AuditStutter DEF ClosingInv, auditVars, A!Made
<1>2. now' \in A!Times /\ now' >= now
  BY <1>1 DEF AuditInv, AuditOK, WindowsOK, A!Times
<1> QED BY <1>1, <1>2, ClosingWaits

(* A page that is delivered is one that refreshed the reports.             *)
LEMMA PageDelivered ==
    ASSUME ClosingInv, A!Next, NEW t \in Managers, At(t, "refresh"), audit'[t] = None
    PROVE  A!Refresh(t)
<1>1. /\ AuditOK /\ AuditSteps /\ DOMAIN audit = A!Threads /\ t \in A!Threads
      /\ audit[t] # None /\ audit[t].op = "refresh"
      /\ Auditors \subseteq A!Threads /\ Managers \subseteq A!Threads
  BY AuditCases DEF ClosingInv, AuditInv, AuditOK, SentOK, At, A!Idle, A!Threads
<1>2. audit' # audit
  BY <1>1
<1>3. ASSUME NEW u \in A!Threads, Asking(u) PROVE FALSE
  <2>1. A!Idle(u) /\ \A v \in A!Threads \ {u} : audit'[v] = audit[v]
    BY <1>1, <1>3, AskingStep
  <2> QED BY <1>1, <2>1 DEF A!Idle
<1>4. ASSUME NEW u \in A!Threads, audit[u].op # "refresh", audit' = [audit EXCEPT ![u] = None]
      PROVE  FALSE
  BY <1>1, <1>4
<1>5. ASSUME NEW u \in Auditors, A!Insert(u) \/ A!Submit(u) PROVE FALSE
  BY <1>1, <1>4, <1>5 DEF A!Insert, A!Submit, A!Done
<1>6. ASSUME NEW u \in Managers, A!Extend(u) PROVE FALSE
  BY <1>1, <1>4, <1>6 DEF A!Extend, A!Done
<1>7. ASSUME NEW u \in Managers, A!Refresh(u) PROVE u = t
  BY <1>1, <1>7 DEF A!Refresh, A!Done
<1>8. ASSUME NEW u, NEW starts, NEW ends, A!Assign(u, starts, ends) PROVE FALSE
  BY <1>2, <1>8 DEF A!Assign
<1>9. ASSUME NEW u, NEW a, A!NewBatch(u, a) PROVE FALSE
  BY <1>2, <1>9 DEF A!NewBatch
<1>10. ASSUME NEW u, NEW i, A!Remove(u, i) PROVE FALSE
  BY <1>2, <1>10 DEF A!Remove
<1>11. ASSUME (\E s \in Serials : A!Trade(s)) \/ A!Tick PROVE FALSE
  BY <1>2, <1>11 DEF A!Trade, A!Tick
<1> QED
  BY <1>1, <1>3, <1>5, <1>6, <1>7, <1>8, <1>9, <1>10, <1>11 DEF AuditSteps

(* ExpiredIsComplete: with one manager and any number of auditors, no      *)
(* assignment whose window is over is left with open findings or none by   *)
(* whoever opens a report page.                                            *)
THEOREM ReportsAreCompleteCorrect ==
    ASSUME OneManager PROVE WarehouseSpec => ExpiredIsComplete
<1> DEFINE Step == \A t \in Managers :
                      ~A!Idle(t) /\ audit[t].op = "refresh" /\ audit'[t] = None
                        => \A a \in A!Made : asg[a].ends < audit[t].moment => A!Complete(a)'
<1>1. WarehouseInit => ClosingInv
  BY AuditsStart, ClosingInit
<1>2. ClosingInv /\ [WarehouseNext]_every => ClosingInv'
  BY AuditsMove, ClosingStep, ClosingStutter
<1>3. ClosingInv /\ [WarehouseNext]_every => [Step]_(A!vars)
  <2>1. SUFFICES ASSUME ClosingInv, A!Next PROVE Step
    BY AuditsMove DEF auditVars, A!vars, A!rows
  <2>2. ASSUME NEW t \in Managers, ~A!Idle(t), audit[t].op = "refresh", audit'[t] = None
        PROVE  \A a \in A!Made : asg[a].ends < audit[t].moment => A!Complete(a)'
    <3>1. A!Refresh(t)
      BY <2>1, <2>2, PageDelivered DEF At
    <3> QED BY <2>1, <3>1, ClosingRefresh
  <2> QED BY <2>2
<1> QED
  BY <1>1, <1>2, <1>3, PTL
  DEF WarehouseSpec, ExpiredIsComplete, A!ExpiredIsComplete

-----------------------------------------------------------------------------
(* Reports.                                                                *)

UnitRow == [product : Products, expiry : Expiries \cup {None}, at : Warehouses, missing : BOOLEAN,
            status : {"IN_STOCK", "SOLD", "DAMAGED", "ISSUED", "INVALID"}]

Last(r, n) == /\ ledger[n].row = r
              /\ \A m \in DOMAIN ledger : ledger[m].row = r => m <= n

Entries == [type : {"SALE", "SALES_RETURN", "ISSUE"}, row : Nat, day : Dates \cup {0},
            to : {"SOLD", "IN_STOCK", "DAMAGED", "ISSUED"},
            reason : {"DAMAGED", "CUSTOMER", "THEFT", "SAMPLE", None}]

UnitsOK  == units \in Seq(UnitRow) /\ day \in Dates \cup {0}
LedgerOK == /\ ledger \in Seq(Entries)
            /\ \A n \in DOMAIN ledger : ledger[n].row \in DOMAIN units
LastOK   == \A r \in DOMAIN units : units[r].status # "INVALID"
              => \A n \in DOMAIN ledger : Last(r, n) => units[r].status = ledger[n].to
HandledOK == IF part = "reports" THEN Handled \subseteq DOMAIN units ELSE units = <<>>
ReportsInv == UnitsOK /\ LedgerOK /\ LastOK /\ HandledOK

LEMMA ReportsTyped == ReportsInv => R!TypeOK
<1> SUFFICES ASSUME ReportsInv PROVE R!TypeOK
  OBVIOUS
<1>1. ASSUME NEW r \in DOMAIN units, R!Moved(r), units[r].status # "INVALID"
      PROVE  units[r].status = ledger[R!LastOf(r)].to
  <2> DEFINE S == {n \in DOMAIN ledger : ledger[n].row = r}
  <2>1. S # {} /\ Len(ledger) \in Nat /\ S \in SUBSET (1..Len(ledger))
    BY <1>1 DEF ReportsInv, LedgerOK, R!Moved
  <2>2. \E m \in S : \A k \in S : k <= m
    <3> HIDE DEF S
    <3> QED BY <2>1, MaxExists
  <2>3. \E n \in DOMAIN ledger : Last(r, n)
    BY <2>2 DEF Last
  <2>4. R!LastOf(r) \in DOMAIN ledger /\ Last(r, R!LastOf(r))
    BY <2>3 DEF R!LastOf, Last
  <2> QED BY <1>1, <2>4 DEF ReportsInv, LastOK
<1> QED BY <1>1 DEF ReportsInv, UnitsOK, UnitRow, R!TypeOK

LEMMA ReportsInit == WarehouseInit => ReportsInv
<1> SUFFICES ASSUME WarehouseInit PROVE ReportsInv
  OBVIOUS
<1>1. day = 0 /\ ledger = <<>>
  BY DEF WarehouseInit
<1>2. CASE part # "reports"
  <2>1. units = <<>>
    BY <1>2 DEF WarehouseInit
  <2> QED BY <1>1, <1>2, <2>1 DEF ReportsInv, UnitsOK, LedgerOK, LastOK, HandledOK
<1>3. CASE part = "reports"
  <2>1. PICK d \in Deliveries :
          units = [r \in DOMAIN d |-> [product |-> d[r].product, expiry |-> d[r].expiry,
                                       at |-> d[r].at, status |-> "IN_STOCK", missing |-> FALSE]]
    BY <1>3 DEF WarehouseInit, R!Init
  <2>2. d \in Seq(Bought) /\ Handled \subseteq DOMAIN d
    BY <2>1, DeliveryAssumption
  <2>3. PICK n \in Nat : DOMAIN d = 1..n
    BY <2>2
  <2>4. \A r \in 1..n : d[r] \in Bought
    BY <2>2, <2>3, ElementOfSeq
  <2>5. units \in [1..n -> UnitRow]
    BY <2>1, <2>3, <2>4 DEF Bought, UnitRow
  <2>6. units \in Seq(UnitRow) /\ DOMAIN units = DOMAIN d
    <3>1. \A k \in Nat : \A T, f : f \in [1..k -> T] => f \in Seq(T)
      OBVIOUS
    <3> QED BY <2>3, <2>5
  <2> QED BY <1>1, <1>3, <2>2, <2>6 DEF ReportsInv, UnitsOK, LedgerOK, LastOK, HandledOK
<1> QED BY <1>2, <1>3

(* One row of the units changes; the rest stays.                           *)
LEMMA UnitChanged ==
    ASSUME ReportsInv, NEW r \in DOMAIN units, NEW x \in UnitRow
    PROVE  LET p == [units EXCEPT ![r] = x]
           IN /\ p \in Seq(UnitRow) /\ DOMAIN p = DOMAIN units /\ p[r] = x
              /\ \A s \in DOMAIN units : s # r => p[s] = units[s]
<1>1. units \in Seq(UnitRow)
  BY DEF ReportsInv, UnitsOK
<1> QED BY <1>1, ExceptSeq

(* A unit gets a status and the ledger a row that says so.                 *)
LEMMA MovedUnit ==
    ASSUME ReportsInv, NEW r \in DOMAIN units,
           NEW type \in {"SALE", "SALES_RETURN", "ISSUE"}, NEW from,
           NEW to \in {"SOLD", "IN_STOCK", "DAMAGED", "ISSUED"},
           NEW reason \in {"DAMAGED", "CUSTOMER", "THEFT", "SAMPLE", None},
           R!Trade(type, r, from, to, to, reason), UNCHANGED part
    PROVE  ReportsInv'
<1> DEFINE x == [units[r] EXCEPT !.status = to]
           e == [type |-> type, row |-> r, to |-> to, reason |-> reason, day |-> day]
<1>1. units' = [units EXCEPT ![r] = x] /\ ledger' = Append(ledger, e) /\ day' = day
  BY DEF R!Trade, R!Entry
<1>2. units[r] \in UnitRow
  BY ElementOfSeq DEF ReportsInv, UnitsOK
<1>3. x \in UnitRow /\ x.status = to
  BY <1>2 DEF UnitRow
<1>4. e \in Entries /\ e.row = r /\ e.to = to /\ ledger \in Seq(Entries)
  <2>1. r \in Nat /\ day \in Dates \cup {0}
    BY DEF ReportsInv, UnitsOK
  <2> QED BY <2>1 DEF ReportsInv, LedgerOK, Entries
<1> HIDE DEF x, e
<1>5. /\ units' \in Seq(UnitRow) /\ DOMAIN units' = DOMAIN units /\ units'[r] = x
      /\ \A s \in DOMAIN units : s # r => units'[s] = units[s]
  BY <1>1, <1>3, UnitChanged
<1>6. /\ ledger' \in Seq(Entries) /\ Len(ledger) \in Nat
      /\ DOMAIN ledger' = DOMAIN ledger \cup {Len(ledger) + 1}
      /\ DOMAIN ledger = 1..Len(ledger)
      /\ \A n \in DOMAIN ledger : ledger'[n] = ledger[n]
      /\ ledger'[Len(ledger) + 1] = e
  BY <1>1, <1>4, Appended
<1>7. UnitsOK' /\ HandledOK'
  BY <1>1, <1>5 DEF ReportsInv, UnitsOK, HandledOK
<1>8. LedgerOK'
  BY <1>1, <1>4, <1>5, <1>6 DEF ReportsInv, LedgerOK
<1>9. ASSUME NEW s \in DOMAIN units', units'[s].status # "INVALID",
             NEW n \in DOMAIN ledger', Last(s, n)'
      PROVE  units'[s].status = ledger'[n].to
  <2>1. CASE s = r
    <3>1. n = Len(ledger) + 1
      BY <1>4, <1>6, <1>9, <2>1 DEF Last
    <3> QED BY <1>3, <1>4, <1>5, <1>6, <2>1, <3>1
  <2>2. CASE s # r
    <3>1. n \in DOMAIN ledger /\ Last(s, n)
      BY <1>4, <1>6, <1>9, <2>2 DEF Last
    <3> QED BY <1>5, <1>6, <1>9, <2>2, <3>1 DEF ReportsInv, LastOK
  <2> QED BY <2>1, <2>2
<1>10. LastOK'
  BY <1>9 DEF LastOK
<1> QED BY <1>7, <1>8, <1>10 DEF ReportsInv

(* Steps that write no row of the ledger and change no status but INVALID. *)
LEMMA LedgerStays ==
    ASSUME ReportsInv, UNCHANGED <<day, ledger, part>>, units' \in Seq(UnitRow),
           part = "reports", DOMAIN units \subseteq DOMAIN units',
           \A s \in DOMAIN units : units'[s].status \in {units[s].status, "INVALID"}
    PROVE  ReportsInv'
<1>1. UnitsOK' /\ LedgerOK' /\ HandledOK'
  BY DEF ReportsInv, UnitsOK, LedgerOK, HandledOK
<1>2. LastOK'
  <2>1. \A n \in DOMAIN ledger : ledger[n].row \in DOMAIN units
    BY DEF ReportsInv, LedgerOK
  <2>2. \A r, n : Last(r, n)' <=> Last(r, n)
    BY DEF Last
  <2>3. ASSUME NEW r \in DOMAIN units', units'[r].status # "INVALID",
               NEW n \in DOMAIN ledger, Last(r, n)
        PROVE  units'[r].status = ledger[n].to
    BY <2>1, <2>3 DEF Last, ReportsInv, LastOK
  <2> QED BY <2>2, <2>3 DEF LastOK
<1> QED BY <1>1, <1>2 DEF ReportsInv

LEMMA ReportsStep ==
    ASSUME ReportsInv, part = "reports", UNCHANGED part, R!Next
    PROVE  ReportsInv'
<1>1. /\ Handled \subseteq DOMAIN units /\ units \in Seq(UnitRow)
      /\ \A r \in DOMAIN units : units[r] \in UnitRow
  BY ElementOfSeq DEF ReportsInv, HandledOK, UnitsOK
<1>2. ASSUME NEW r \in DOMAIN units, R!Sell(r) PROVE ReportsInv'
  <2>1. R!Trade("SALE", r, "IN_STOCK", "SOLD", "SOLD", None)
    BY <1>2 DEF R!Sell
  <2> QED BY <2>1, MovedUnit
<1>3. ASSUME NEW r \in DOMAIN units, NEW reason \in {"DAMAGED", "CUSTOMER"}, R!ReturnSale(r, reason)
      PROVE  ReportsInv'
  <2> DEFINE to == IF reason \in {"DAMAGED", "EXPIRED"} THEN "DAMAGED" ELSE "IN_STOCK"
  <2>1. R!Trade("SALES_RETURN", r, "SOLD", to, to, reason)
    BY <1>3 DEF R!ReturnSale, R!Returned
  <2>2. to \in {"SOLD", "IN_STOCK", "DAMAGED", "ISSUED"}
    OBVIOUS
  <2> HIDE DEF to
  <2> QED BY <2>1, <2>2, MovedUnit
<1>4. ASSUME NEW r \in DOMAIN units, NEW reason \in {"THEFT", "SAMPLE"}, R!Issue(r, reason)
      PROVE  ReportsInv'
  <2>1. R!Trade("ISSUE", r, "IN_STOCK", "ISSUED", "ISSUED", reason)
    BY <1>4 DEF R!Issue
  <2> QED BY <2>1, MovedUnit
<1>5. ASSUME NEW r \in Handled, NEW x \in UnitRow, units' = [units EXCEPT ![r] = x],
             UNCHANGED <<day, ledger>>, x.status = units[r].status
      PROVE  ReportsInv'
  <2>1. /\ units' \in Seq(UnitRow) /\ DOMAIN units' = DOMAIN units /\ units'[r] = x
        /\ \A s \in DOMAIN units : s # r => units'[s] = units[s]
    BY <1>1, <1>5, UnitChanged
  <2> QED BY <1>5, <2>1, LedgerStays
<1>6. ASSUME NEW r \in Handled, NEW to \in Warehouses, R!Move(r, to) PROVE ReportsInv'
  <2> DEFINE x == [units[r] EXCEPT !.at = to]
  <2>1. units' = [units EXCEPT ![r] = x] /\ UNCHANGED <<day, ledger>>
    BY <1>6 DEF R!Move
  <2>2. x \in UnitRow /\ x.status = units[r].status
    BY <1>1 DEF UnitRow
  <2> QED BY <1>5, <2>1, <2>2
<1>7. ASSUME NEW r \in Handled, NEW missing \in BOOLEAN, R!Find(r, missing) PROVE ReportsInv'
  <2> DEFINE x == [units[r] EXCEPT !.missing = missing]
  <2>1. units' = [units EXCEPT ![r] = x] /\ UNCHANGED <<day, ledger>>
    BY <1>7 DEF R!Find
  <2>2. x \in UnitRow /\ x.status = units[r].status
    BY <1>1 DEF UnitRow
  <2> QED BY <1>5, <2>1, <2>2
<1>8. ASSUME NEW r \in Handled, R!Replace(r) PROVE ReportsInv'
  <2> DEFINE x == [units[r] EXCEPT !.status = "INVALID"]
             y == [units[r] EXCEPT !.status = "IN_STOCK", !.missing = FALSE]
             p == [units EXCEPT ![r] = x]
  <2>1. units' = Append(p, y) /\ UNCHANGED <<day, ledger>>
    BY <1>8 DEF R!Replace
  <2>2. x \in UnitRow /\ y \in UnitRow /\ x.status = "INVALID"
    BY <1>1 DEF UnitRow
  <2>3. /\ p \in Seq(UnitRow) /\ DOMAIN p = DOMAIN units /\ p[r] = x
        /\ \A s \in DOMAIN units : s # r => p[s] = units[s]
    <3> HIDE DEF x
    <3> QED BY <1>1, <2>2, UnitChanged
  <2> HIDE DEF x, y, p
  <2>4. /\ units' \in Seq(UnitRow) /\ DOMAIN p \subseteq DOMAIN units'
        /\ \A s \in DOMAIN p : units'[s] = p[s]
    BY <2>1, <2>2, <2>3, Appended
  <2> QED BY <2>1, <2>2, <2>3, <2>4, LedgerStays
<1>9. ASSUME NEW d \in Dates, R!Pass(d) PROVE ReportsInv'
  BY <1>9 DEF R!Pass, ReportsInv, UnitsOK, LedgerOK, LastOK, Last, HandledOK
<1> QED BY <1>2, <1>3, <1>4, <1>6, <1>7, <1>8, <1>9 DEF R!Next

LEMMA ReportsStutter == ReportsInv /\ UNCHANGED <<reportVars, part>> => ReportsInv'
BY DEF reportVars, ReportsInv, UnitsOK, LedgerOK, LastOK, Last, HandledOK

-----------------------------------------------------------------------------
(* Types: the rows and requests of each part refer to rows that exist, and *)
(* a unit has the status its last row of the ledger gave it.               *)
THEOREM TypesCorrect == WarehouseSpec => []Types
<1> DEFINE AllInv == TypeInv /\ AuditInv /\ ReportsInv
<1>1. WarehouseInit => AllInv
  BY InitInv, AuditInit, ReportsInit DEF WarehouseInit, Inv
<1>2. ASSUME AllInv, [WarehouseNext]_every PROVE AllInv'
  <2>1. [Next]_vars /\ (A!Next \/ UNCHANGED auditVars) /\ UNCHANGED part
    BY <1>2 DEF WarehouseNext, every
  <2>2. (part = "reports" /\ R!Next) \/ UNCHANGED reportVars
    BY <1>2 DEF WarehouseNext, every
  <2>3. TypeInv'
    BY <1>2, <2>1, TypePreserved
  <2>4. AuditInv'
    BY <1>2, <2>1, AuditStep, AuditStutter
  <2>5. ReportsInv'
    BY <1>2, <2>1, <2>2, ReportsStep, ReportsStutter
  <2> QED BY <2>3, <2>4, <2>5
<1>3. AllInv => Types
  BY AuditTyped, ReportsTyped DEF Types, TypeInv, AuditInv
<1> QED BY <1>1, <1>2, <1>3, PTL DEF WarehouseSpec

-----------------------------------------------------------------------------
(* The pages read whole numbers of units.                                  *)
LEMMA RSum == \A f : R!SumFunction(f) = SumFunctionOnSet(f, DOMAIN f)
BY DEF R!SumFunction, R!SumFunctionOnSet, R!FoldFunctionOnSet, R!MapThenFoldSet,
       SumFunctionOnSet, FoldFunctionOnSet, MapThenFoldSet

LEMMA RCount == \A S : R!Cardinality(S) = Cardinality(S)
BY DEF R!Cardinality, Cardinality

LEMMA MaxIs ==
    ASSUME NEW S \in SUBSET Int, IsFiniteSet(S), S # {}
    PROVE  R!Max(S) \in S /\ \A x \in S : x <= R!Max(S)
<1>1. PICK m \in S : \A x \in S : x <= m
  BY FiniteMax
<1> QED BY <1>1 DEF R!Max

LEMMA UnitsNow ==
    ASSUME ReportsInv
    PROVE  /\ IsFiniteSet(DOMAIN units) /\ IsFiniteSet(DOMAIN ledger)
           /\ \A r \in DOMAIN units : units[r] \in UnitRow
           /\ \A n \in DOMAIN ledger : ledger[n] \in Entries /\ ledger[n].row \in DOMAIN units
           /\ day \in Nat /\ \A n \in DOMAIN ledger : ledger[n].day \in Nat
<1>1. units \in Seq(UnitRow) /\ ledger \in Seq(Entries)
  BY DEF ReportsInv, UnitsOK, LedgerOK
<1>2. DOMAIN units = 1..Len(units) /\ Len(units) \in Nat
  BY <1>1
<1>3. DOMAIN ledger = 1..Len(ledger) /\ Len(ledger) \in Nat
  BY <1>1
<1>4. IsFiniteSet(DOMAIN units) /\ IsFiniteSet(DOMAIN ledger)
  BY <1>2, <1>3, FS_Interval
<1>5. /\ \A r \in DOMAIN units : units[r] \in UnitRow
      /\ \A n \in DOMAIN ledger : ledger[n] \in Entries
  BY <1>1, ElementOfSeq
<1>6. Dates \cup {0} \subseteq Nat
  BY PageAssumption
<1>7. day \in Nat
  BY <1>6 DEF ReportsInv, UnitsOK
<1>8. ASSUME NEW n \in DOMAIN ledger PROVE ledger[n].day \in Nat
  <2>1. ledger[n] \in Entries
    BY <1>5
  <2>2. ledger[n].day \in Dates \cup {0}
    BY <2>1 DEF Entries
  <2> QED BY <1>6, <2>2
<1> QED BY <1>4, <1>5, <1>7, <1>8 DEF ReportsInv, LedgerOK

(* The stock, and the rows of the movement report about a part of it.      *)
LEMMA StockNow ==
    ASSUME ReportsInv
    PROVE  /\ R!Stock \subseteq DOMAIN units /\ IsFiniteSet(R!Stock)
           /\ \A r \in R!Stock : /\ units[r].product \in Products /\ units[r].at \in Warehouses
                                 /\ units[r].expiry \in Expiries \cup {None}
                                 /\ units[r].expiry # None => units[r].expiry \in Int
<1>1. R!Stock \subseteq DOMAIN units
  BY DEF R!Stock
<1> QED BY <1>1, UnitsNow, FS_Subset, PageAssumption DEF UnitRow

LEMMA ReportRows ==
    ASSUME ReportsInv, NEW S \in SUBSET DOMAIN units
    PROVE  /\ IsFiniteSet(S) /\ IsFiniteSet(R!MovementRows(S))
           /\ \A r \in S : R!Key(r) \in R!MovementRows(S)
<1> DEFINE m == [r \in S |-> R!Key(r)]
           late == {n \in DOMAIN ledger : ledger[n].type = "SALE" /\ ledger[n].day >= day - 89}
           c == [n \in late |-> R!Key(ledger[n].row)]
<1>1. IsFiniteSet(S) /\ IsFiniteSet(late)
  BY UnitsNow, FS_Subset
<1>2. {R!Key(r) : r \in S} = {m[r] : r \in S}
  OBVIOUS
<1>3. {R!Key(ledger[n].row) : n \in late} = {c[n] : n \in late}
  OBVIOUS
<1>4. IsFiniteSet({m[r] : r \in S}) /\ IsFiniteSet({c[n] : n \in late})
  <2> HIDE DEF m, c, late
  <2> QED BY <1>1, NamedSet
<1>5. R!MovementRows(S) = {R!Key(r) : r \in S} \cup {R!Key(ledger[n].row) : n \in late}
  BY DEF R!MovementRows
<1>6. IsFiniteSet(R!MovementRows(S))
  <2>1. R!MovementRows(S) = {m[r] : r \in S} \cup {c[n] : n \in late}
    BY <1>2, <1>3, <1>5
  <2> HIDE DEF m, c, late
  <2> QED BY <1>4, <2>1, FS_Union
<1> QED BY <1>1, <1>5, <1>6

(* A page that counts the units per row counts each of them once.          *)
LEMMA MovementCounts ==
    ASSUME ReportsInv, NEW S \in SUBSET DOMAIN units
    PROVE  R!SumFunction([k \in R!MovementRows(S) |-> R!GroupStock(S, k)]) = Cardinality(S)
<1> DEFINE K == R!MovementRows(S)
           key == [r \in S |-> R!Key(r)]
           g == [k \in K |-> R!GroupStock(S, k)]
<1>1. IsFiniteSet(S) /\ IsFiniteSet(K) /\ \A r \in S : key[r] \in K
  BY ReportRows
<1>2. ASSUME NEW k \in K PROVE g[k] = Cardinality(Part(S, key, k))
  <2>1. Part(S, key, k) = {r \in S : R!Key(r) = k}
    BY DEF Part
  <2> QED BY <2>1, RCount DEF R!GroupStock
<1>3. DOMAIN g = K
  OBVIOUS
<1>4. SumFunctionOnSet(g, K) = Cardinality(S)
  <2> HIDE DEF K, key, g
  <2> QED BY <1>1, <1>2, CountByParts
<1>5. R!SumFunction(g) = SumFunctionOnSet(g, K)
  BY <1>3, RSum
<1> QED BY <1>4, <1>5

LEMMA CurrentCounts ==
    ASSUME ReportsInv, NEW S \in SUBSET DOMAIN units, NEW period
    PROVE  R!CurrentStock(S, period) = Cardinality({r \in S : R!ExpiryMatches(r, period)})
BY MovementCounts DEF R!CurrentStock

LEMMA StockAgreesNow == ReportsInv => R!StockAgrees
<1> SUFFICES ASSUME ReportsInv PROVE R!StockAgrees
  OBVIOUS
<1> DEFINE S == R!Stock
           Match(period) == {r \in S : R!ExpiryMatches(r, period)}
<1>1. /\ S \in SUBSET DOMAIN units /\ IsFiniteSet(S)
      /\ \A r \in S : /\ units[r].product \in Products /\ units[r].at \in Warehouses
                      /\ units[r].expiry # None => units[r].expiry \in Int
  BY StockNow
<1>2. R!CurrentStock(S, "any") = R!TotalStock(S)
  <2>1. Match("any") = S
    BY DEF R!ExpiryMatches
  <2>2. R!CurrentStock(S, "any") = Cardinality(Match("any"))
    <3> HIDE DEF S
    <3> QED BY <1>1, CurrentCounts
  <2> QED BY <2>1, <2>2, RCount DEF R!TotalStock
<1>3. ASSUME \A r \in S : units[r].expiry = None \/ units[r].expiry <= day + 365
      PROVE  R!TotalStock(S) = R!CurrentStock(S, "none") + R!CurrentStock(S, "expired")
                               + R!CurrentStock(S, "365")
  <2>1. day \in Nat
    BY UnitsNow
  <2>2. /\ Match("none") = {r \in S : units[r].expiry = None}
        /\ Match("expired") = {r \in S : units[r].expiry # None /\ units[r].expiry < day}
        /\ Match("365") = {r \in S : /\ units[r].expiry # None /\ day <= units[r].expiry
                                  /\ units[r].expiry <= day + 365}
    BY DEF R!ExpiryMatches
  <2>3. /\ Match("none") \cap Match("expired") = {}
        /\ (Match("none") \cup Match("expired")) \cap Match("365") = {}
        /\ (Match("none") \cup Match("expired")) \cup Match("365") = S
    BY <1>1, <1>3, <2>1, <2>2
  <2>4. IsFiniteSet(Match("none")) /\ IsFiniteSet(Match("expired")) /\ IsFiniteSet(Match("365"))
    BY <1>1, FS_Subset
  <2>5. /\ R!CurrentStock(S, "none") = Cardinality(Match("none"))
        /\ R!CurrentStock(S, "expired") = Cardinality(Match("expired"))
        /\ R!CurrentStock(S, "365") = Cardinality(Match("365"))
    BY <1>1, CurrentCounts
  <2>a. R!TotalStock(S) = Cardinality(S)
    BY RCount DEF R!TotalStock
  <2> HIDE DEF Match, S
  <2>6. /\ IsFiniteSet(Match("none") \cup Match("expired"))
        /\ Cardinality(Match("none") \cup Match("expired"))
             = Cardinality(Match("none")) + Cardinality(Match("expired"))
    BY <2>3, <2>4, CountOfTwo
  <2>7. Cardinality(S) = Cardinality(Match("none") \cup Match("expired")) + Cardinality(Match("365"))
    BY <2>3, <2>4, <2>6, CountOfTwo
  <2> QED BY <2>a, <2>5, <2>6, <2>7
<1>4. R!TotalStock(S) = R!SumFunction([x \in Products |-> R!ProductRow(S, x)])
  <2> DEFINE key == [r \in S |-> units[r].product]
             g == [x \in Products |-> R!ProductRow(S, x)]
  <2>1. ASSUME NEW x \in Products PROVE g[x] = Cardinality(Part(S, key, x))
    <3>1. Part(S, key, x) = R!Of(S, x)
      BY DEF Part, R!Of
    <3> QED BY <3>1, RCount DEF R!ProductRow
  <2>2. \A r \in S : key[r] \in Products
    BY <1>1
  <2>3. DOMAIN g = Products
    OBVIOUS
  <2>4. SumFunctionOnSet(g, Products) = Cardinality(S)
    <3> HIDE DEF S, key, g
    <3> QED BY <1>1, <2>1, <2>2, PageAssumption, CountByParts
  <2>5. R!SumFunction(g) = SumFunctionOnSet(g, DOMAIN g)
    BY RSum
  <2> QED BY <2>3, <2>4, <2>5, RCount DEF R!TotalStock
<1>5. R!TotalStock(S) = R!SumFunction([w \in Warehouses |-> R!Cardinality(R!WarehouseRow(S, w))])
  <2> DEFINE key == [r \in S |-> units[r].at]
             g == [w \in Warehouses |-> R!Cardinality(R!WarehouseRow(S, w))]
  <2>1. ASSUME NEW w \in Warehouses PROVE g[w] = Cardinality(Part(S, key, w))
    <3>1. Part(S, key, w) = R!WarehouseRow(S, w)
      BY DEF Part, R!WarehouseRow
    <3> QED BY <3>1, RCount
  <2>2. \A r \in S : key[r] \in Warehouses
    BY <1>1
  <2>3. DOMAIN g = Warehouses
    OBVIOUS
  <2>4. SumFunctionOnSet(g, Warehouses) = Cardinality(S)
    <3> HIDE DEF S, key, g
    <3> QED BY <1>1, <2>1, <2>2, PageAssumption, CountByParts
  <2>5. R!SumFunction(g) = SumFunctionOnSet(g, DOMAIN g)
    BY RSum
  <2> QED BY <2>3, <2>4, <2>5, RCount DEF R!TotalStock
<1> QED BY <1>2, <1>3, <1>4, <1>5 DEF R!StockAgrees

-----------------------------------------------------------------------------
(* The expiry page.                                                        *)
LEMMA BatchRows ==
    ASSUME ReportsInv, NEW h \in Nat
    PROVE  /\ IsFiniteSet(R!ExpiryBatchRows(R!Stock, h))
           /\ \A r \in R!Stock : units[r].expiry # None /\ units[r].expiry <= day + h
                <=> R!ExpiryBatch(r) \in R!ExpiryBatchRows(R!Stock, h)
           /\ \A b \in R!ExpiryBatchRows(R!Stock, h) :
                \E r \in R!Stock : /\ b = R!ExpiryBatch(r) /\ units[r].expiry # None
                                   /\ units[r].expiry <= day + h
<1> DEFINE B == R!Before(R!Stock, h)
           m == [r \in B |-> R!ExpiryBatch(r)]
<1>1. IsFiniteSet(B)
  BY StockNow, FS_Subset DEF R!Before
<1>2. R!ExpiryBatchRows(R!Stock, h) = {m[r] : r \in B}
  BY DEF R!ExpiryBatchRows
<1>3. IsFiniteSet({m[r] : r \in B})
  <2> HIDE DEF m, B
  <2> QED BY <1>1, NamedSet
<1>4. \A r \in R!Stock : units[r].expiry # None /\ units[r].expiry <= day + h
        => R!ExpiryBatch(r) \in R!ExpiryBatchRows(R!Stock, h)
  BY DEF R!ExpiryBatchRows, R!Before
<1>5. \A b \in R!ExpiryBatchRows(R!Stock, h) :
        \E r \in R!Stock : /\ b = R!ExpiryBatch(r) /\ units[r].expiry # None
                           /\ units[r].expiry <= day + h
  BY DEF R!ExpiryBatchRows, R!Before
<1>6. \A r, s : R!ExpiryBatch(r) = R!ExpiryBatch(s) => units[r].expiry = units[s].expiry
  BY DEF R!ExpiryBatch
<1> QED BY <1>2, <1>3, <1>4, <1>5, <1>6

(* The rows of one warehouse count its units, each once.                   *)
LEMMA BatchCounts ==
    ASSUME ReportsInv, NEW h \in Nat, NEW w
    PROVE  R!SumFunction([b \in {x \in R!ExpiryBatchRows(R!Stock, h) : x.at = w}
                            |-> R!Qty(R!Stock, b)])
             = Cardinality({r \in R!Stock : /\ units[r].at = w /\ units[r].expiry # None
                                            /\ units[r].expiry <= day + h})
<1> DEFINE S == R!Stock
           K == {x \in R!ExpiryBatchRows(S, h) : x.at = w}
           T == {r \in S : /\ units[r].at = w /\ units[r].expiry # None
                           /\ units[r].expiry <= day + h}
           key == [r \in T |-> R!ExpiryBatch(r)]
           g == [b \in K |-> R!Qty(S, b)]
<1>1. \A r : R!ExpiryBatch(r).at = units[r].at
  BY DEF R!ExpiryBatch
<1>2. IsFiniteSet(T) /\ IsFiniteSet(K)
  BY StockNow, BatchRows, FS_Subset
<1>3. \A r \in T : key[r] \in K
  BY <1>1, BatchRows
<1>4. ASSUME NEW b \in K PROVE g[b] = Cardinality(Part(T, key, b))
  <2>1. \A r \in S : R!ExpiryBatch(r) = b => r \in T
    BY <1>1, BatchRows
  <2>2. Part(T, key, b) = {r \in S : R!ExpiryBatch(r) = b}
    BY <2>1 DEF Part
  <2> QED BY <2>2, RCount DEF R!Qty
<1>5. DOMAIN g = K
  OBVIOUS
<1>6. SumFunctionOnSet(g, K) = Cardinality(T)
  <2> HIDE DEF T, K, key, g, S
  <2> QED BY <1>2, <1>3, <1>4, CountByParts
<1>7. R!SumFunction(g) = SumFunctionOnSet(g, DOMAIN g)
  BY RSum
<1> QED BY <1>5, <1>6, <1>7

LEMMA ExpiringAgreesNow == ReportsInv => R!ExpiringAgrees
<1> SUFFICES ASSUME ReportsInv PROVE R!ExpiringAgrees
  OBVIOUS
<1> DEFINE S == R!Stock
<1>1. ASSUME NEW w \in Warehouses
      PROVE  R!Cardinality(R!ExpiringSoon(S, w)) =
               R!SumFunction([b \in {x \in R!ExpiryBatchRows(S, 30) : x.at = w} |-> R!Qty(S, b)])
  BY BatchCounts, RCount DEF R!ExpiringSoon
<1>2. ASSUME NEW w \in Warehouses
      PROVE  R!HeatmapQty(S, w) = R!Cardinality({r \in R!WarehouseRow(S, w) :
                                       units[r].expiry # None /\ units[r].expiry - day <= 90})
  <2> DEFINE T == {r \in S : /\ units[r].at = w /\ units[r].expiry # None
                             /\ units[r].expiry <= day + 90}
  <2>1. {r \in R!WarehouseRow(S, w) : units[r].expiry # None /\ units[r].expiry - day <= 90} = T
    BY StockNow, UnitsNow DEF R!WarehouseRow
  <2>2. R!HeatmapQty(S, w) = Cardinality(T)
    BY BatchCounts DEF R!HeatmapQty
  <2> QED BY <2>1, <2>2, RCount
<1> QED BY <1>1, <1>2 DEF R!ExpiringAgrees

-----------------------------------------------------------------------------
(* Sales.                                                                  *)
LEMMA SoldUnits ==
    ASSUME ReportsInv, NEW k, NEW from
    PROVE  /\ IsFiniteSet({n \in DOMAIN ledger :
                /\ ledger[n].type = "SALE" /\ ledger[n].to = "SOLD"
                /\ R!Key(ledger[n].row) = k /\ ledger[n].day >= from})
           /\ R!SoldIn(k, from) \in Nat
           /\ R!SoldIn(k, from) = 0 <=>
                \A n \in DOMAIN ledger : ~(/\ ledger[n].type = "SALE" /\ ledger[n].to = "SOLD"
                                           /\ R!Key(ledger[n].row) = k /\ ledger[n].day >= from)
<1> DEFINE N == {n \in DOMAIN ledger : /\ ledger[n].type = "SALE" /\ ledger[n].to = "SOLD"
                                       /\ R!Key(ledger[n].row) = k /\ ledger[n].day >= from}
<1>1. IsFiniteSet(N)
  BY UnitsNow, FS_Subset
<1>2. R!SoldIn(k, from) = Cardinality(N)
  BY RCount DEF R!SoldIn
<1>3. Cardinality(N) \in Nat /\ (Cardinality(N) = 0 <=> N = {})
  <2> HIDE DEF N
  <2> QED BY <1>1, FS_CardinalityType, FS_EmptySet
<1> QED BY <1>1, <1>2, <1>3

LEMMA SleepsSince ==
    ASSUME ReportsInv, NEW x
    PROVE  /\ R!DaysSince(x) \in Int /\ R!DaysSince(x) <= day
           /\ R!DaysSince(x) >= 90 <=>
                day >= 90 /\ \A n \in R!Sales(x, 0) : ledger[n].day <= day - 90
<1> DEFINE N == R!Sales(x, 0)
           c == [n \in N |-> ledger[n].day]
           D == {ledger[n].day : n \in N}
<1>1. N \subseteq DOMAIN ledger /\ day \in Nat /\ \A n \in N : ledger[n].day \in Nat
  BY UnitsNow DEF R!Sales
<1>2. IsFiniteSet(N)
  BY <1>1, UnitsNow, FS_Subset
<1>3. D = {c[n] : n \in N}
  OBVIOUS
<1>4. IsFiniteSet({c[n] : n \in N})
  <2> HIDE DEF N, c
  <2> QED BY <1>2, NamedSet
<1>5. CASE N = {}
  BY <1>1, <1>5 DEF R!DaysSince
<1>6. CASE N # {}
  <2>1. D # {} /\ D \in SUBSET Nat /\ IsFiniteSet(D)
    BY <1>1, <1>3, <1>4, <1>6
  <2>2. R!Max(D) \in D /\ \A d \in D : d <= R!Max(D)
    <3> HIDE DEF D
    <3>1. D \in SUBSET Int
      BY <2>1
    <3> QED BY <2>1, <3>1, MaxIs
  <2>3. R!DaysSince(x) = day - R!Max(D)
    BY <1>6 DEF R!DaysSince
  <2>4. (\A n \in N : ledger[n].day <= R!Max(D)) /\ \E n \in N : R!Max(D) = ledger[n].day
    BY <2>2
  <2>5. PICK t \in N : R!Max(D) = ledger[t].day
    BY <2>4
  <2>6. R!DaysSince(x) = day - ledger[t].day /\ ledger[t].day \in Nat
    BY <1>1, <2>3, <2>5
  <2>7. \A n \in N : ledger[n].day <= ledger[t].day
    BY <2>4, <2>5
  <2> HIDE DEF D
  <2>8. day - ledger[t].day >= 90 <=> day >= 90 /\ \A n \in N : ledger[n].day <= day - 90
    BY <1>1, <2>6, <2>7
  <2> QED BY <1>1, <2>6, <2>8
<1> QED BY <1>5, <1>6

LEMMA DeadAgreesNow == ReportsInv => R!DeadAgrees
<1> SUFFICES ASSUME ReportsInv PROVE R!DeadAgrees
  OBVIOUS
<1> DEFINE S == R!Stock
           Dead(x) == R!Sleeping(x) = "Dead Stock"
<1>0. day \in Nat /\ \A n \in DOMAIN ledger : ledger[n].day \in Nat
  BY UnitsNow
<1>1. \A x : Dead(x) <=> R!DaysSince(x) >= 90
  BY DEF R!Sleeping, R!DeadFrom
<1>2. \A r : R!Key(r).product = units[r].product
  BY DEF R!Key
<1>3. ASSUME NEW x, Dead(x), NEW k \in R!RowsOf(S, x)
      PROVE  R!MovementStatus(R!GroupStock(S, k), R!UnitsSold(k)) = "Dead Stock"
  <2>1. \A n \in R!Sales(x, 0) : ledger[n].day <= day - 90
    BY <1>1, <1>3, SleepsSince
  <2>2. k.product = x
    BY DEF R!RowsOf
  <2>3. ASSUME NEW n \in DOMAIN ledger, ledger[n].type = "SALE", ledger[n].to = "SOLD",
               R!Key(ledger[n].row) = k, ledger[n].day >= day - 89
        PROVE  FALSE
    <3>1. n \in R!Sales(x, 0)
      BY <1>0, <1>2, <2>2, <2>3 DEF R!Sales
    <3> QED BY <1>0, <2>1, <2>3, <3>1
  <2>4. R!UnitsSold(k) = 0
    BY <2>3, SoldUnits DEF R!UnitsSold
  <2> QED BY <2>4 DEF R!MovementStatus
<1>4. ASSUME NEW x \in Products, R!Of(S, x) # {}, day >= 90,
             \A k \in R!RowsOf(S, x) : R!UnitsSold(k) = 0
      PROVE  x \in R!SleepingRows(S) /\ Dead(x)
  <2>1. ASSUME NEW n \in R!Sales(x, 0), ledger[n].day >= day - 89 PROVE FALSE
    <3> DEFINE k == R!Key(ledger[n].row)
    <3>1. n \in DOMAIN ledger /\ ledger[n].type = "SALE" /\ ledger[n].to = "SOLD"
          /\ units[ledger[n].row].product = x
      BY DEF R!Sales
    <3>2. k \in R!RowsOf(S, x)
      BY <1>2, <2>1, <3>1 DEF R!RowsOf, R!MovementRows
    <3>3. R!SoldIn(k, day - 89) = 0
      BY <1>4, <3>2 DEF R!UnitsSold
    <3> QED BY <2>1, <3>1, <3>3, SoldUnits
  <2>2. \A n \in R!Sales(x, 0) : n \in DOMAIN ledger
    BY DEF R!Sales
  <2>3. R!DaysSince(x) >= 90 /\ R!DaysSince(x) \in Int
    BY <1>0, <1>4, <2>1, <2>2, SleepsSince
  <2>4. x \in R!SleepingRows(S)
    BY <1>4, <2>3 DEF R!SleepingRows
  <2> QED BY <1>1, <2>3, <2>4
<1> QED BY <1>3, <1>4 DEF R!DeadAgrees

-----------------------------------------------------------------------------
(* The projection.                                                         *)
LEMMA PaceGrows ==
    ASSUME NEW a \in Nat, NEW b \in Nat, NEW c \in Nat, NEW d \in Nat, a <= b, c <= d
    PROVE  (a * c) \div 90 \in Nat /\ (a * c) \div 90 <= (b * d) \div 90
<1>1. PICK m \in Nat, n \in Nat : b = a + m /\ d = c + n
  <2>1. b - a \in Nat /\ d - c \in Nat /\ b = a + (b - a) /\ d = c + (d - c)
    OBVIOUS
  <2> QED BY <2>1
<1>2. a * c \in Nat /\ a * n \in Nat /\ m * c \in Nat /\ m * n \in Nat
  BY <1>1
<1>3. b * d = a * c + a * n + m * c + m * n
  BY <1>1
<1>4. \A x, y \in Nat : x <= y => x \div 90 \in Nat /\ x \div 90 <= y \div 90
  OBVIOUS
<1>5. b * d \in Nat /\ a * c <= b * d
  <2> HIDE <1>1
  <2> QED BY <1>2, <1>3
<1> QED BY <1>2, <1>4, <1>5

LEMMA SalesGrow ==
    ASSUME ReportsInv, NEW k, NEW e \in Int, NEW f \in Int, e <= f
    PROVE  /\ R!ProjectedSales(k, e) \in Nat /\ R!ProjectedSales(k, f) \in Nat
           /\ R!ProjectedSales(k, e) <= R!ProjectedSales(k, f)
<1>1. R!UnitsSold(k) \in Nat /\ day \in Nat
  BY SoldUnits, UnitsNow DEF R!UnitsSold
<1>2. /\ R!Greater(e - day, 0) \in Nat /\ R!Greater(f - day, 0) \in Nat
      /\ R!Greater(e - day, 0) <= R!Greater(f - day, 0)
  BY <1>1 DEF R!Greater
<1>3. R!UnitsSold(k) <= R!UnitsSold(k)
  BY <1>1
<1>4. R!Greater(f - day, 0) <= R!Greater(f - day, 0)
  BY <1>2
<1> QED BY <1>1, <1>2, <1>3, <1>4, PaceGrows DEF R!ProjectedSales

(* What is dated of a row, and what of it expires up to a day.             *)
Dated(k) == {r \in R!Stock : R!Key(r) = k /\ units[r].expiry # None}
Until(T, e) == {r \in T : units[r].expiry <= e}

LEMMA DatedUnits ==
    ASSUME ReportsInv, NEW k
    PROVE  /\ IsFiniteSet(Dated(k)) /\ \A r \in Dated(k) : units[r].expiry \in Int \cap Expiries
           /\ \A e : R!Cumulative(R!Stock, k, e) = Cardinality(Until(Dated(k), e))
<1>1. IsFiniteSet(Dated(k)) /\ \A r \in Dated(k) : units[r].expiry \in Int \cap Expiries
  BY StockNow, FS_Subset DEF Dated
<1>2. ASSUME NEW e PROVE R!Cumulative(R!Stock, k, e) = Cardinality(Until(Dated(k), e))
  <2>1. Until(Dated(k), e) = {r \in R!Stock : /\ R!Key(r) = k /\ units[r].expiry # None
                                              /\ units[r].expiry <= e}
    BY DEF Until, Dated
  <2> QED BY <2>1, RCount DEF R!Cumulative
<1> QED BY <1>1, <1>2

Loss(k, r) == Cardinality(Until(Dated(k), units[r].expiry)) - R!ProjectedSales(k, units[r].expiry)

LEMMA UnsoldIs ==
    ASSUME ReportsInv, NEW k
    PROVE  /\ R!EstimatedUnsold(R!Stock, k) \in Nat
           /\ \A r \in Dated(k) : /\ Loss(k, r) \in Int
                                  /\ Loss(k, r) <= R!EstimatedUnsold(R!Stock, k)
           /\ \/ R!EstimatedUnsold(R!Stock, k) = 0
              \/ \E r \in Dated(k) : R!EstimatedUnsold(R!Stock, k) = Loss(k, r)
<1> DEFINE S == R!Stock
           D == Dated(k)
           m == [r \in D |-> Loss(k, r)]
           L == {m[r] : r \in D}
           E == {units[r].expiry : r \in {x \in S : R!Key(x) = k}} \ {None}
           M == {R!Cumulative(S, k, e) - R!ProjectedSales(k, e) : e \in E}
<1>1. IsFiniteSet(D) /\ \A r \in D : units[r].expiry \in Int
  BY DatedUnits
<1>2. ASSUME NEW r \in D PROVE Loss(k, r) \in Int
  <2>1. IsFiniteSet(Until(D, units[r].expiry))
    BY <1>1, FS_Subset DEF Until
  <2>2. Cardinality(Until(D, units[r].expiry)) \in Nat
    BY <2>1, FS_CardinalityType
  <2>3. units[r].expiry \in Int /\ units[r].expiry <= units[r].expiry
    BY <1>1
  <2>4. R!ProjectedSales(k, units[r].expiry) \in Nat
    BY <2>3, SalesGrow
  <2> QED BY <2>2, <2>4 DEF Loss
<1>3. M = L
  <2>1. \A r \in D : R!Cumulative(S, k, units[r].expiry) - R!ProjectedSales(k, units[r].expiry)
                       = m[r]
    BY DatedUnits DEF Loss
  <2>2. \A e \in E : \E r \in D : e = units[r].expiry
    BY DEF Dated
  <2>3. \A r \in D : units[r].expiry \in E
    BY DEF Dated
  <2> HIDE DEF m, D, E
  <2> QED BY <2>1, <2>2, <2>3
<1>4. IsFiniteSet(L)
  <2> HIDE DEF m, D
  <2> QED BY <1>1, NamedSet
<1>5. L \in SUBSET Int
  BY <1>2
<1>6. IsFiniteSet({0} \cup L) /\ {0} \cup L \in SUBSET Int /\ {0} \cup L # {}
  <2> HIDE DEF L
  <2>1. IsFiniteSet({0})
    BY FS_Singleton
  <2>2. IsFiniteSet({0} \cup L)
    BY <1>4, <2>1, FS_Union
  <2> QED BY <1>5, <2>2
<1>7. R!EstimatedUnsold(S, k) = R!Max({0} \cup L)
  BY <1>3 DEF R!EstimatedUnsold
<1>8. /\ R!EstimatedUnsold(S, k) \in {0} \cup L
      /\ \A x \in {0} \cup L : x <= R!EstimatedUnsold(S, k)
  <2> HIDE DEF L, S
  <2> QED BY <1>6, <1>7, MaxIs
<1>9. R!EstimatedUnsold(S, k) \in Nat
  <2> HIDE DEF L, S
  <2> QED BY <1>6, <1>8
<1> QED BY <1>2, <1>8, <1>9

LEMMA PageIsMilderNow == ReportsInv => R!PageIsMilder
<1> SUFFICES ASSUME ReportsInv PROVE R!PageIsMilder
  OBVIOUS
<1> DEFINE S == R!Stock
<1>1. ASSUME NEW b \in R!ExpiryRiskRows(S)
      PROVE  LET k == [product |-> b.product, at |-> b.at]
             IN  /\ R!UnsoldStock(S, b) <= R!EstimatedUnsold(S, k)
                 /\ R!HighRisk(S, b) /\ R!DaysLeft(b) > 30 => R!EstimatedUnsold(S, k) > 0
  <2> DEFINE k == [product |-> b.product, at |-> b.at]
             unsold == R!EstimatedUnsold(S, k)
             Same == {r \in S : R!ExpiryBatch(r) = b}
             left == R!Greater(R!DaysLeft(b), 0)
  <2>1. PICK t \in S : b = R!ExpiryBatch(t) /\ units[t].expiry # None
    BY BatchRows DEF R!ExpiryRiskRows
  <2>2. /\ b.product = units[t].product /\ b.at = units[t].at /\ b.expiry = units[t].expiry
        /\ R!Key(t) = k /\ t \in Dated(k)
    BY <2>1 DEF R!ExpiryBatch, R!Key, Dated
  <2>3. b.expiry \in Int /\ day \in Nat /\ left \in Nat
    BY <2>2, DatedUnits, UnitsNow DEF R!Greater, R!DaysLeft
  <2>4. /\ Same \subseteq Until(Dated(k), b.expiry) /\ IsFiniteSet(Until(Dated(k), b.expiry))
        /\ t \in Same
    <3>1. \A r \in Same : /\ units[r].expiry = b.expiry /\ R!Key(r) = k
                          /\ units[r].expiry # None
      BY <2>1, <2>2 DEF R!ExpiryBatch, R!Key
    <3>2. Same \subseteq Dated(k)
      BY <3>1 DEF Dated
    <3>3. Same \subseteq Until(Dated(k), b.expiry)
      BY <2>3, <3>1, <3>2 DEF Until
    <3>4. IsFiniteSet(Dated(k)) /\ Until(Dated(k), b.expiry) \subseteq Dated(k)
      BY DatedUnits DEF Until
    <3>5. IsFiniteSet(Until(Dated(k), b.expiry))
      <4> HIDE DEF k
      <4> QED BY <3>4, FS_Subset
    <3> QED BY <2>1, <3>3, <3>5
  <2>5. /\ R!Qty(S, b) = Cardinality(Same) /\ R!Qty(S, b) \in Nat /\ R!Qty(S, b) # 0
        /\ Cardinality(Until(Dated(k), b.expiry)) \in Nat
        /\ R!Qty(S, b) <= Cardinality(Until(Dated(k), b.expiry))
    <3>1. R!Qty(S, b) = Cardinality(Same)
      BY RCount DEF R!Qty
    <3> HIDE DEF Same
    <3>2. IsFiniteSet(Same) /\ Cardinality(Same) <= Cardinality(Until(Dated(k), b.expiry))
      BY <2>4, FS_Subset
    <3> QED BY <2>4, <3>1, <3>2, FS_CardinalityType, FS_EmptySet
  <2>6. R!UnitsSold(k) \in Nat /\ R!Velocity(b.product) \in Nat
        /\ R!UnitsSold(k) <= R!Velocity(b.product)
    <3> DEFINE N == {n \in DOMAIN ledger : /\ ledger[n].type = "SALE" /\ ledger[n].to = "SOLD"
                                           /\ R!Key(ledger[n].row) = k
                                           /\ ledger[n].day >= day - 89}
               V == R!Sales(b.product, day - 90)
    <3>1. R!UnitsSold(k) = Cardinality(N) /\ R!Velocity(b.product) = Cardinality(V)
      BY RCount DEF R!UnitsSold, R!SoldIn, R!Velocity
    <3>2. N \subseteq V
      BY <2>3, UnitsNow DEF R!Sales, R!Key
    <3>3. IsFiniteSet(V)
      BY UnitsNow, FS_Subset DEF R!Sales
    <3> HIDE DEF N, V
    <3> QED BY <3>1, <3>2, <3>3, FS_Subset, FS_CardinalityType
  <2>7. /\ R!ProjectedSales(k, b.expiry) \in Nat /\ R!ExpectedSales(b) \in Nat
        /\ R!ProjectedSales(k, b.expiry) <= R!ExpectedSales(b)
    <3>1. /\ R!ProjectedSales(k, b.expiry) = (R!UnitsSold(k) * left) \div 90
          /\ R!ExpectedSales(b) = (R!Velocity(b.product) * left) \div 90
      BY DEF R!ProjectedSales, R!ExpectedSales, R!DaysLeft
    <3>2. left <= left /\ R!Velocity(b.product) <= R!Velocity(b.product)
      BY <2>3, <2>6
    <3> HIDE DEF left
    <3> QED BY <2>3, <2>6, <3>1, <3>2, PaceGrows
  <2>8. /\ unsold \in Nat
        /\ Cardinality(Until(Dated(k), b.expiry)) - R!ProjectedSales(k, b.expiry) <= unsold
    BY <2>2, UnsoldIs DEF Loss
  <2>9. R!UnsoldStock(S, b) <= unsold /\ R!UnsoldStock(S, b) \in Nat
    <3> HIDE DEF unsold, k
    <3> QED BY <2>5, <2>7, <2>8 DEF R!UnsoldStock, R!Greater
  <2>10. ASSUME R!HighRisk(S, b), R!DaysLeft(b) > 30 PROVE unsold > 0
    <3>1. R!DaysLeft(b) \in Int
      BY <2>3 DEF R!DaysLeft
    <3>2. 100 * R!UnsoldStock(S, b) >= 65 * R!Qty(S, b)
      BY <2>10, <3>1 DEF R!HighRisk
    <3> HIDE DEF unsold, k
    <3> QED BY <2>5, <2>8, <2>9, <3>2
  <2> QED BY <2>9, <2>10
<1> QED BY <1>1 DEF R!PageIsMilder

-----------------------------------------------------------------------------
(* The product metrics.                                                    *)
LEMMA ProductCounts ==
    ASSUME ReportsInv, NEW x
    PROVE  R!SystemStock(R!Stock, x) = Cardinality(R!Of(R!Stock, x))
<1> DEFINE S == R!Stock
           T == R!Of(S, x)
           K == R!RowsOf(S, x)
           key == [r \in T |-> R!Key(r)]
           g == [k \in K |-> R!GroupStock(S, k)]
<1>1. S \in SUBSET DOMAIN units /\ IsFiniteSet(T)
  BY StockNow, FS_Subset DEF R!Of
<1>2. IsFiniteSet(R!MovementRows(S)) /\ \A r \in S : R!Key(r) \in R!MovementRows(S)
  <2> HIDE DEF S
  <2> QED BY <1>1, ReportRows
<1>3. IsFiniteSet(K)
  BY <1>2, FS_Subset DEF R!RowsOf
<1>4. \A r : R!Key(r).product = units[r].product
  BY DEF R!Key
<1>5. \A r \in T : key[r] \in K
  BY <1>2, <1>4 DEF R!RowsOf, R!Of
<1>6. ASSUME NEW k \in K PROVE g[k] = Cardinality(Part(T, key, k))
  <2>1. k.product = x
    BY DEF R!RowsOf
  <2>2. Part(T, key, k) = {r \in S : R!Key(r) = k}
    BY <1>4, <2>1 DEF Part, R!Of
  <2> QED BY <2>2, RCount DEF R!GroupStock
<1>7. DOMAIN g = K
  OBVIOUS
<1>8. SumFunctionOnSet(g, K) = Cardinality(T)
  <2> HIDE DEF T, K, key, g, S
  <2> QED BY <1>1, <1>3, <1>5, <1>6, CountByParts
<1>9. R!SumFunction(g) = SumFunctionOnSet(g, DOMAIN g)
  BY RSum
<1> QED BY <1>7, <1>8, <1>9 DEF R!SystemStock

LEMMA SoldOfIsNat ==
    ASSUME ReportsInv, NEW x
    PROVE  R!SoldOf(R!Stock, x) \in Nat
<1> DEFINE K == R!RowsOf(R!Stock, x)
           g == [k \in K |-> R!UnitsSold(k)]
<1>1. R!Stock \in SUBSET DOMAIN units
  BY StockNow
<1>2. IsFiniteSet(K)
  BY <1>1, ReportRows, FS_Subset DEF R!RowsOf
<1>3. \A k \in K : g[k] \in Nat
  BY SoldUnits DEF R!UnitsSold
<1>4. DOMAIN g = K
  OBVIOUS
<1>5. SumFunctionOnSet(g, K) \in Nat
  <2> HIDE DEF K, g
  <2> QED BY <1>2, <1>3, SumIsNat
<1>6. R!SumFunction(g) = SumFunctionOnSet(g, DOMAIN g)
  BY RSum
<1> QED BY <1>4, <1>5, <1>6 DEF R!SoldOf

(* A quotient that is rounded up.                                          *)
LEMMA RoundedUp ==
    ASSUME NEW a \in Nat, NEW s \in Nat, s > 0
    PROVE  LET n == (a + s - 1) \div s
           IN  n \in Nat /\ n * s >= a /\ (a > 0 => n >= 1) /\ (n - 1) * s < a
<1> DEFINE n == (a + s - 1) \div s
           m == (a + s - 1) % s
<1>1. a + s - 1 \in Nat /\ s \in Nat /\ s > 0
  OBVIOUS
<1>2. \A x \in Nat : x = s * (x \div s) + (x % s) /\ x % s \in 0..(s - 1) /\ x \div s \in Nat
  OBVIOUS
<1>3. n \in Nat /\ m \in 0..(s - 1) /\ a + s - 1 = s * n + m
  BY <1>1, <1>2
<1> HIDE DEF n, m
<1>4. PICK c \in Nat : c = s * n
  BY <1>3
<1>5. n * s = c /\ (n - 1) * s = c - s
  BY <1>3, <1>4
<1>6. a > 0 => n >= 1
  <2>1. SUFFICES ASSUME a > 0, n = 0 PROVE FALSE
    BY <1>3
  <2>2. s * n = 0
    BY <2>1
  <2> QED BY <1>3, <2>1, <2>2
<1>7. c >= a /\ c - s < a
  BY <1>3, <1>4
<1> QED BY <1>3, <1>5, <1>6, <1>7 DEF n

LEMMA AvailableNow == ReportsInv => R!AvailableIsOnHand
<1> SUFFICES ASSUME ReportsInv, NEW x \in Products
             PROVE  LET S == R!Stock
                        available == R!AvailableStock(S, x)
                        sold == R!SoldOf(S, x)
                        n == R!DaysRemaining(available, sold)
                    IN  /\ available = R!Cardinality({r \in R!Of(S, x) : ~units[r].missing})
                        /\ sold > 0 /\ available > 0 =>
                             n * sold >= 90 * available /\ (n = 1 \/ (n - 1) * sold < 90 * available)
  BY DEF R!AvailableIsOnHand
<1> DEFINE S == R!Stock
           T == R!Of(S, x)
           Gone == {r \in T : units[r].missing}
           Here == {r \in T : ~units[r].missing}
           available == R!AvailableStock(S, x)
           sold == R!SoldOf(S, x)
<1>1. IsFiniteSet(T)
  BY StockNow, FS_Subset DEF R!Of
<1>2. Gone \cup Here = T /\ Gone \cap Here = {} /\ Gone \subseteq T /\ Here \subseteq T
  OBVIOUS
<1>3. R!Of(R!CurrentMissing(S), x) = Gone
  BY DEF R!Of, R!CurrentMissing
<1>4. R!SystemStock(S, x) = Cardinality(T)
  BY ProductCounts
<1>5. available = Cardinality(Here) /\ Cardinality(Here) \in Nat
  <2>1. available = R!Greater(Cardinality(T) - Cardinality(Gone), 0)
    BY <1>3, <1>4, RCount DEF R!AvailableStock
  <2> HIDE DEF T, Gone, Here, available
  <2>2. IsFiniteSet(Gone) /\ IsFiniteSet(Here)
    BY <1>1, <1>2, FS_Subset
  <2>3. Cardinality(T) = Cardinality(Gone) + Cardinality(Here)
    BY <1>2, <2>2, CountOfTwo
  <2>4. Cardinality(Gone) \in Nat /\ Cardinality(Here) \in Nat
    BY <2>2, FS_CardinalityType
  <2> QED BY <2>1, <2>3, <2>4 DEF R!Greater
<1>6. ASSUME sold > 0, available > 0
      PROVE  LET n == R!DaysRemaining(available, sold)
             IN  n * sold >= 90 * available /\ (n = 1 \/ (n - 1) * sold < 90 * available)
  <2> DEFINE n == (90 * available + sold - 1) \div sold
  <2>1. sold \in Nat /\ available \in Nat /\ 90 * available \in Nat
    BY <1>5, SoldOfIsNat
  <2> HIDE DEF sold, available
  <2>2. n \in Nat /\ n >= 1 /\ n * sold >= 90 * available /\ (n - 1) * sold < 90 * available
    BY <1>6, <2>1, RoundedUp
  <2>3. R!DaysRemaining(available, sold) = n
    <3>1. R!DaysRemaining(available, sold) = R!Greater(1, n)
      BY DEF R!DaysRemaining
    <3> HIDE DEF n
    <3> QED BY <2>2, <3>1 DEF R!Greater
  <2> QED BY <2>2, <2>3
<1>7. available = R!Cardinality(Here)
  BY <1>5, RCount
<1> QED BY <1>6, <1>7

-----------------------------------------------------------------------------
(* Losses.                                                                 *)

(* Goods that are lost are not sold, returned or issued again; and the     *)
(* ledger says by its type, status and reason the same thing.              *)
LossIsLast == \A n \in DOMAIN ledger : R!IsLoss(ledger[n]) => Last(ledger[n].row, n)
Told == \A n \in DOMAIN ledger : /\ ledger[n].type = "ISSUE" <=> ledger[n].to = "ISSUED"
                                 /\ ledger[n].to = "DAMAGED" => ledger[n].reason = "DAMAGED"
PagesInv == ReportsInv /\ LossIsLast /\ Told

LEMMA LossesNow == PagesInv => R!LossesAreUnits
<1> SUFFICES ASSUME PagesInv PROVE R!LossesAreUnits
  OBVIOUS
<1> DEFINE N == {n \in DOMAIN ledger : R!IsLoss(ledger[n])}
           m == [n \in N |-> ledger[n].row]
           Lost(r) == LET e == ledger[R!LastOf(r)]
                      IN  \/ e.to = "DAMAGED"
                          \/ e.to = "ISSUED" /\ e.reason \in R!LossFactors \cup R!Aliases
           T == {r \in DOMAIN units : R!Moved(r) /\ Lost(r)}
<1>1. ReportsInv /\ LossIsLast /\ Told
  BY DEF PagesInv
<1>2. IsFiniteSet(N) /\ \A n \in DOMAIN ledger : n \in Nat /\ ledger[n].row \in DOMAIN units
  <2>1. \A n \in DOMAIN ledger : n \in Nat
    BY <1>1 DEF ReportsInv, LedgerOK
  <2> QED BY <1>1, <2>1, UnitsNow, FS_Subset
<1>3. ASSUME NEW n \in DOMAIN ledger, NEW r, Last(r, n) PROVE R!LastOf(r) = n
  <2>1. R!LastOf(r) \in DOMAIN ledger /\ Last(r, R!LastOf(r))
    BY <1>3 DEF R!LastOf, Last
  <2>2. n <= R!LastOf(r) /\ R!LastOf(r) <= n
    BY <1>3, <2>1 DEF Last
  <2> QED BY <1>2, <2>1, <2>2
<1>4. \A n \in N : Last(ledger[n].row, n)
  BY <1>1 DEF LossIsLast
<1>5. \A a, b \in N : m[a] = m[b] => a = b
  BY <1>3, <1>4
<1>6. ASSUME NEW n \in N PROVE ledger[n].row \in T
  <2>1. R!LastOf(ledger[n].row) = n
    BY <1>3, <1>4
  <2>2. R!Moved(ledger[n].row) /\ ledger[n].row \in DOMAIN units
    BY <1>2 DEF R!Moved
  <2>3. ledger[n].type = "ISSUE" => ledger[n].to = "ISSUED"
    BY <1>1 DEF Told
  <2>4. Lost(ledger[n].row)
    BY <2>1, <2>3 DEF R!IsLoss
  <2> QED BY <2>2, <2>4
<1>7. ASSUME NEW r \in T PROVE \E n \in N : ledger[n].row = r
  <2> DEFINE n == R!LastOf(r)
  <2>1. n \in DOMAIN ledger /\ Last(r, n)
    <3> DEFINE D == {i \in DOMAIN ledger : ledger[i].row = r}
    <3>1. D # {} /\ Len(ledger) \in Nat /\ D \in SUBSET (1..Len(ledger))
      BY <1>1 DEF ReportsInv, LedgerOK, R!Moved
    <3>2. \E i \in D : \A j \in D : j <= i
      <4> HIDE DEF D
      <4> QED BY <3>1, MaxExists
    <3>3. \E i \in DOMAIN ledger : Last(r, i)
      BY <3>2 DEF Last
    <3> QED BY <3>3 DEF R!LastOf, Last
  <2>2. Lost(r)
    OBVIOUS
  <2>3. R!IsLoss(ledger[n])
    BY <1>1, <2>1, <2>2 DEF R!IsLoss, R!Aliases, Told
  <2> QED BY <2>1, <2>3 DEF Last
<1>8. T = {m[n] : n \in N}
  BY <1>6, <1>7
<1>9. Cardinality({m[n] : n \in N}) = Cardinality(N)
  <2> HIDE DEF N, m
  <2> QED BY <1>2, <1>5, CountNamed
<1>10. R!LossQuantity = Cardinality(N)
  BY RCount DEF R!LossQuantity
<1>11. R!LossQuantity = R!Cardinality(T)
  BY <1>8, <1>9, <1>10, RCount
<1> QED BY <1>11 DEF R!LossesAreUnits

(* A row of the ledger is written about goods that are on the shelf or     *)
(* sold, so about none that are lost.                                      *)
LEMMA LossKept ==
    ASSUME PagesInv, NEW r \in DOMAIN units,
           NEW type, NEW from \in {"IN_STOCK", "SOLD"}, NEW to, NEW reason,
           type = "ISSUE" <=> to = "ISSUED", to = "DAMAGED" => reason = "DAMAGED",
           R!Trade(type, r, from, to, to, reason), UNCHANGED part, ReportsInv'
    PROVE  PagesInv'
<1> DEFINE e == [type |-> type, row |-> r, to |-> to, reason |-> reason, day |-> day]
           q == Len(ledger) + 1
<1>1. ledger' = Append(ledger, e) /\ units[r].status = from
  BY DEF R!Trade, R!Entry
<1>2. /\ ReportsInv /\ LossIsLast /\ Told
      /\ \A n \in DOMAIN ledger : ledger[n].row \in DOMAIN units /\ n \in Nat /\ n <= Len(ledger)
      /\ ledger \in Seq(Entries)
  BY DEF PagesInv, ReportsInv, LedgerOK
<1>3. /\ DOMAIN ledger' = DOMAIN ledger \cup {q} /\ q \notin DOMAIN ledger
      /\ \A n \in DOMAIN ledger : ledger'[n] = ledger[n]
      /\ ledger'[q] = e /\ Len(ledger) \in Nat
  BY <1>1, <1>2
<1>4. e.type = type /\ e.to = to /\ e.reason = reason /\ e.row = r
  OBVIOUS
<1> HIDE DEF e, q
<1>5. Told'
  BY <1>2, <1>3, <1>4 DEF Told
<1>6. ASSUME NEW n \in DOMAIN ledger, R!IsLoss(ledger[n]) PROVE ledger[n].row # r
  <2>1. SUFFICES ASSUME ledger[n].row = r PROVE FALSE
    OBVIOUS
  <2>2. ledger[n].to \in {"ISSUED", "DAMAGED"}
    BY <1>2, <1>6 DEF Told, R!IsLoss
  <2>3. Last(r, n)
    BY <1>2, <1>6, <2>1 DEF LossIsLast
  <2>4. units[r].status = ledger[n].to
    BY <1>1, <1>2, <2>3 DEF ReportsInv, LastOK
  <2> QED BY <1>1, <2>2, <2>4
<1>7. ASSUME NEW n \in DOMAIN ledger', R!IsLoss(ledger'[n])
      PROVE  Last(ledger[n].row, n)'
  <2>1. CASE n = q
    BY <1>2, <1>3, <2>1 DEF Last, q
  <2>2. CASE n # q
    <3>1. n \in DOMAIN ledger /\ R!IsLoss(ledger[n]) /\ ledger'[n] = ledger[n]
      BY <1>3, <1>7, <2>2
    <3>2. Last(ledger[n].row, n) /\ ledger[n].row # r
      BY <1>2, <1>6, <3>1 DEF LossIsLast
    <3> QED BY <1>3, <1>4, <3>1, <3>2 DEF Last
  <2> QED BY <2>1, <2>2
<1>8. LossIsLast'
  BY <1>7 DEF LossIsLast
<1> QED BY <1>5, <1>8 DEF PagesInv

LEMMA PagesStep ==
    ASSUME PagesInv, part = "reports", UNCHANGED part, R!Next
    PROVE  PagesInv'
<1>1. ReportsInv'
  BY ReportsStep DEF PagesInv
<1>2. ASSUME UNCHANGED ledger PROVE PagesInv'
  BY <1>1, <1>2 DEF PagesInv, LossIsLast, Told, Last
<1>3. ASSUME NEW r \in DOMAIN units, R!Sell(r) PROVE PagesInv'
  <2>1. R!Trade("SALE", r, "IN_STOCK", "SOLD", "SOLD", None)
    BY <1>3 DEF R!Sell
  <2> QED BY <1>1, <2>1, LossKept
<1>4. ASSUME NEW r \in DOMAIN units, NEW reason \in {"DAMAGED", "CUSTOMER"}, R!ReturnSale(r, reason)
      PROVE  PagesInv'
  <2> DEFINE to == IF reason \in {"DAMAGED", "EXPIRED"} THEN "DAMAGED" ELSE "IN_STOCK"
  <2>1. R!Trade("SALES_RETURN", r, "SOLD", to, to, reason)
    BY <1>4 DEF R!ReturnSale, R!Returned
  <2>2. to # "ISSUED" /\ (to = "DAMAGED" => reason = "DAMAGED")
    OBVIOUS
  <2> HIDE DEF to
  <2> QED BY <1>1, <2>1, <2>2, LossKept
<1>5. ASSUME NEW r \in DOMAIN units, NEW reason \in {"THEFT", "SAMPLE"}, R!Issue(r, reason)
      PROVE  PagesInv'
  <2>1. R!Trade("ISSUE", r, "IN_STOCK", "ISSUED", "ISSUED", reason)
    BY <1>5 DEF R!Issue
  <2> QED BY <1>1, <2>1, LossKept
<1>6. ASSUME NEW r \in Handled, NEW to \in Warehouses, R!Move(r, to) PROVE PagesInv'
  BY <1>2, <1>6 DEF R!Move
<1>7. ASSUME NEW r \in Handled, NEW missing \in BOOLEAN, R!Find(r, missing) PROVE PagesInv'
  BY <1>2, <1>7 DEF R!Find
<1>8. ASSUME NEW r \in Handled, R!Replace(r) PROVE PagesInv'
  BY <1>2, <1>8 DEF R!Replace
<1>9. ASSUME NEW d \in Dates, R!Pass(d) PROVE PagesInv'
  BY <1>2, <1>9 DEF R!Pass
<1> QED BY <1>3, <1>4, <1>5, <1>6, <1>7, <1>8, <1>9 DEF R!Next

LEMMA PagesHold == WarehouseSpec => []PagesInv
<1>1. WarehouseInit => PagesInv
  BY ReportsInit DEF WarehouseInit, PagesInv, LossIsLast, Told
<1>2. ASSUME PagesInv, [WarehouseNext]_every PROVE PagesInv'
  <2>1. (part = "reports" /\ R!Next) \/ UNCHANGED reportVars
    BY <1>2 DEF WarehouseNext, every
  <2>2. UNCHANGED part
    BY <1>2 DEF WarehouseNext, every
  <2>3. CASE UNCHANGED reportVars
    BY <1>2, <2>2, <2>3, ReportsStutter DEF PagesInv, LossIsLast, Told, Last, reportVars
  <2> QED BY <1>2, <2>1, <2>2, <2>3, PagesStep
<1> QED BY <1>1, <1>2, PTL DEF WarehouseSpec

(* The pages agree: whatever was bought, sold, returned, issued, moved,    *)
(* relabelled or missed, the stock is one number on every page and the sum *)
(* of its parts; expiring, dead, available and lost goods are the units    *)
(* they are said to be; and the expiry page never expects to lose more of  *)
(* a row than the movement report does.                                    *)
THEOREM PagesAgreeCorrect == WarehouseSpec => []PagesAgree
<1>1. PagesInv => PagesAgree
  BY StockAgreesNow, ExpiringAgreesNow, DeadAgreesNow, PageIsMilderNow, AvailableNow, LossesNow
  DEF PagesInv, PagesAgree, R!PagesAgree
<1> QED BY <1>1, PagesHold, PTL

-----------------------------------------------------------------------------
(* The best order of selling.                                              *)

(* Of goods with dates one can put aside any number, the earliest first.   *)
Early(X, T, date) == X \subseteq T /\ \A x \in X, y \in T : date[y] < date[x] => y \in X

LEMMA EarliestFirst ==
    ASSUME NEW D, IsFiniteSet(D), NEW date, \A x \in D : date[x] \in Int,
           NEW n \in Nat, n <= Cardinality(D)
    PROVE  \E X \in SUBSET D : Early(X, D, date) /\ Cardinality(X) = n
<1> DEFINE P == {T \in SUBSET D : \A i \in Nat : i <= Cardinality(T)
                   => \E X \in SUBSET T : Early(X, T, date) /\ Cardinality(X) = i}
<1>1. {} \in P
  <2>1. Early({}, {}, date) /\ Cardinality({}) = 0
    BY FS_EmptySet DEF Early
  <2>2. \A i \in Nat : i <= 0 => i = 0
    OBVIOUS
  <2> QED BY <2>1, <2>2
<1>2. ASSUME NEW T \in SUBSET D, T # {}, \A x \in T : T \ {x} \in P PROVE T \in P
  <2>1. IsFiniteSet(T) /\ Cardinality(T) \in Nat
    BY FS_Subset, FS_CardinalityType
  <2>2. PICK u \in T : \A x \in T : date[x] <= date[u]
    <3> DEFINE M == {date[x] : x \in T}
    <3>1. M \in SUBSET Int /\ M # {}
      BY <1>2
    <3>2. IsFiniteSet(M)
      BY <2>1, NamedSet
    <3>3. PICK d \in M : \A x \in M : x <= d
      <4> HIDE DEF M
      <4> QED BY <3>1, <3>2, FiniteMax
    <3> QED BY <3>3
  <2>3. Cardinality(T \ {u}) = Cardinality(T) - 1
    BY <2>1, FS_RemoveElement
  <2>4. ASSUME NEW i \in Nat, i <= Cardinality(T)
        PROVE  \E X \in SUBSET T : Early(X, T, date) /\ Cardinality(X) = i
    <3>1. CASE i = Cardinality(T)
      <4>1. Early(T, T, date)
        BY DEF Early
      <4> QED BY <3>1, <4>1
    <3>2. CASE i # Cardinality(T)
      <4>1. i <= Cardinality(T \ {u})
        BY <2>1, <2>3, <2>4, <3>2
      <4>2. PICK X \in SUBSET (T \ {u}) : Early(X, T \ {u}, date) /\ Cardinality(X) = i
        BY <1>2, <4>1
      <4>3. ASSUME NEW x \in X, NEW y \in T, date[y] < date[x] PROVE y \in X
        <5>1. date[x] <= date[u] /\ date[x] \in Int /\ date[u] \in Int /\ date[y] \in Int
          BY <2>2
        <5>2. y # u
          BY <4>3, <5>1
        <5> QED BY <4>2, <4>3, <5>2 DEF Early
      <4>4. Early(X, T, date)
        BY <4>3 DEF Early
      <4> QED BY <4>2, <4>4
    <3> QED BY <3>1, <3>2
  <2> QED BY <2>4
<1>3. D \in P
  <2> HIDE DEF P
  <2> QED BY <1>1, <1>2, ByElements
<1> QED BY <1>3

(* Nothing is saved of the units the report gives up ...                   *)
LEMMA SavesAtMost ==
    ASSUME ReportsInv, NEW k, NEW T \in R!Saved(R!Stock, k)
    PROVE  /\ T \in SUBSET Dated(k)
           /\ Cardinality(T) <= Cardinality(Dated(k)) - R!EstimatedUnsold(R!Stock, k)
<1> DEFINE D == Dated(k)
<1>1. T \in SUBSET D /\ \A e \in Expiries : Cardinality(Until(T, e)) <= R!ProjectedSales(k, e)
  BY RCount DEF R!Saved, Dated, Until
<1>2. IsFiniteSet(D) /\ IsFiniteSet(T) /\ \A r \in D : units[r].expiry \in Int \cap Expiries
  BY <1>1, DatedUnits, FS_Subset
<1>3. /\ Cardinality(D) \in Nat /\ Cardinality(T) \in Nat
      /\ Cardinality(T) <= Cardinality(D)
  BY <1>1, <1>2, FS_Subset, FS_CardinalityType
<1>4. ASSUME NEW r \in D PROVE Cardinality(T) <= Cardinality(D) - Loss(k, r)
  <2> DEFINE e == units[r].expiry
             later == D \ Until(D, e)
  <2>1. Cardinality(Until(T, e)) <= R!ProjectedSales(k, e) /\ R!ProjectedSales(k, e) \in Nat
    <3>1. e \in Int /\ e \in Expiries /\ e <= e
      BY <1>2
    <3> QED BY <1>1, <3>1, SalesGrow
  <2>2. /\ T \subseteq Until(T, e) \cup later /\ Until(T, e) \cap later = {}
        /\ Until(D, e) \cup later = D /\ Until(D, e) \cap later = {}
        /\ Until(D, e) \subseteq D /\ Until(T, e) \subseteq D
    BY <1>1 DEF Until
  <2> HIDE DEF later, e, D
  <2>3. IsFiniteSet(Until(D, e)) /\ IsFiniteSet(Until(T, e)) /\ IsFiniteSet(later)
    <3>1. later \subseteq D
      BY <2>2
    <3> QED BY <1>2, <2>2, <3>1, FS_Subset
  <2>4. /\ IsFiniteSet(Until(T, e) \cup later)
        /\ Cardinality(Until(T, e) \cup later) = Cardinality(Until(T, e)) + Cardinality(later)
        /\ Cardinality(D) = Cardinality(Until(D, e)) + Cardinality(later)
    BY <2>2, <2>3, CountOfTwo
  <2>5. Cardinality(T) <= Cardinality(Until(T, e) \cup later)
    BY <2>2, <2>4, FS_Subset
  <2>6. /\ Cardinality(Until(T, e)) \in Nat /\ Cardinality(later) \in Nat
        /\ Cardinality(Until(D, e)) \in Nat
    BY <2>3, FS_CardinalityType
  <2>7. Loss(k, r) = Cardinality(Until(D, e)) - R!ProjectedSales(k, e)
    BY DEF Loss, D, e
  <2> QED BY <1>3, <2>1, <2>4, <2>5, <2>6, <2>7
<1> QED BY <1>1, <1>3, <1>4, UnsoldIs

(* ... and all the others are, when those that expire first are given up.  *)
LEMMA SavesTheRest ==
    ASSUME ReportsInv, NEW k
    PROVE  \E T \in R!Saved(R!Stock, k) :
             Cardinality(T) = Cardinality(Dated(k)) - R!EstimatedUnsold(R!Stock, k)
<1> DEFINE D == Dated(k)
           lost == R!EstimatedUnsold(R!Stock, k)
           date == [r \in D |-> units[r].expiry]
<1>1. /\ IsFiniteSet(D) /\ Cardinality(D) \in Nat
      /\ \A r \in D : units[r].expiry \in Int /\ date[r] = units[r].expiry
  BY DatedUnits, FS_CardinalityType
<1>2. lost \in Nat /\ \A r \in D : Loss(k, r) <= lost
  BY UnsoldIs
<1>3. ASSUME NEW e PROVE /\ IsFiniteSet(Until(D, e)) /\ Until(D, e) \subseteq D
                         /\ Cardinality(Until(D, e)) \in Nat
                         /\ Cardinality(Until(D, e)) <= Cardinality(D)
  <2>1. Until(D, e) \in SUBSET D
    BY DEF Until
  <2> QED BY <1>1, <2>1, FS_Subset, FS_CardinalityType
<1>4. ASSUME NEW r \in D PROVE Loss(k, r) <= Cardinality(D)
  <2>1. units[r].expiry \in Int /\ units[r].expiry <= units[r].expiry
    BY <1>1
  <2>2. R!ProjectedSales(k, units[r].expiry) \in Nat
    BY <2>1, SalesGrow
  <2> QED BY <1>1, <1>3, <2>2 DEF Loss
<1>5. lost <= Cardinality(D)
  BY <1>1, <1>4, UnsoldIs
<1> HIDE DEF D, lost, date
<1>6. PICK X \in SUBSET D : Early(X, D, date) /\ Cardinality(X) = lost
  BY <1>1, <1>2, <1>5, EarliestFirst
<1> DEFINE T == D \ X
<1>7. Cardinality(T) = Cardinality(D) - lost /\ IsFiniteSet(X)
  <2>1. IsFiniteSet(X) /\ IsFiniteSet(T) /\ X \cup T = D /\ X \cap T = {}
    BY <1>1, <1>6, FS_Subset
  <2>2. Cardinality(T) \in Nat
    BY <2>1, FS_CardinalityType
  <2>3. Cardinality(D) = Cardinality(X) + Cardinality(T)
    <3> HIDE DEF T
    <3> QED BY <2>1, CountOfTwo
  <2> QED BY <1>2, <1>6, <2>1, <2>2, <2>3
<1>8. ASSUME NEW e \in Expiries PROVE Cardinality(Until(T, e)) <= R!ProjectedSales(k, e)
  <2>0. e \in Int
    BY PageAssumption
  <2>1. e <= e /\ R!ProjectedSales(k, e) \in Nat
    BY <2>0, SalesGrow
  <2>2. CASE Until(T, e) = {}
    BY <2>1, <2>2, FS_EmptySet
  <2>3. CASE Until(T, e) # {}
    <3> DEFINE M == {date[r] : r \in Until(D, e)}
    <3>1. M # {} /\ M \in SUBSET Int /\ IsFiniteSet(M)
      <4>1. Until(T, e) \subseteq Until(D, e)
        BY DEF Until
      <4>2. IsFiniteSet(M)
        BY <1>3, NamedSet
      <4> QED BY <1>1, <1>3, <2>3, <4>1, <4>2
    <3>2. PICK d \in M : \A x \in M : x <= d
      <4> HIDE DEF M
      <4> QED BY <3>1, FiniteMax
    <3>3. PICK r \in Until(D, e) : d = date[r]
      BY <3>2
    <3>4. r \in D /\ d = units[r].expiry /\ d \in Int /\ d <= e
      BY <1>1, <3>3 DEF Until
    <3>5. \A s \in D : units[s].expiry <= e => units[s].expiry <= d
      BY <1>1, <3>2 DEF Until
    <3>6. PICK t \in T : units[t].expiry <= d
      BY <2>3, <3>5 DEF Until
    <3>7. X \subseteq Until(D, d)
      <4>1. SUFFICES ASSUME NEW x \in X, ~(units[x].expiry <= d) PROVE FALSE
        BY <1>6 DEF Until
      <4>2. date[t] < date[x] /\ t \in D
        BY <1>1, <1>6, <3>4, <3>6, <4>1
      <4>3. t \in X
        BY <1>6, <4>2 DEF Early
      <4> QED BY <3>6, <4>3
    <3>8. Until(T, e) = Until(D, d) \ X
      BY <1>1, <2>0, <3>4, <3>5 DEF Until
    <3>9. Cardinality(Until(T, e)) = Cardinality(Until(D, d)) - lost
      <4> DEFINE U == Until(D, d)
      <4>1. IsFiniteSet(U) /\ IsFiniteSet(U \ X) /\ X \cup (U \ X) = U /\ X \cap (U \ X) = {}
        BY <1>3, <3>7, FS_Subset
      <4>2. Cardinality(U \ X) \in Nat
        BY <4>1, FS_CardinalityType
      <4>3. Cardinality(U) = Cardinality(X) + Cardinality(U \ X)
        <5> HIDE DEF U
        <5> QED BY <1>7, <4>1, CountOfTwo
      <4>4. Cardinality(Until(T, e)) = Cardinality(U \ X)
        BY <3>8
      <4> HIDE DEF T
      <4>5. Cardinality(U) - lost = Cardinality(U \ X)
        <5> HIDE DEF U
        <5> QED BY <1>2, <1>6, <4>2, <4>3
      <4> QED BY <4>4, <4>5
    <3>10. Cardinality(Until(D, d)) - R!ProjectedSales(k, d) <= lost
      BY <1>2, <3>4 DEF Loss, D
    <3>11. R!ProjectedSales(k, d) \in Nat /\ R!ProjectedSales(k, d) <= R!ProjectedSales(k, e)
      BY <2>0, <3>4, SalesGrow
    <3>12. Cardinality(Until(D, d)) \in Nat
      BY <1>3
    <3> QED BY <1>2, <2>1, <3>9, <3>10, <3>11, <3>12
  <2> QED BY <2>2, <2>3
<1>9. T \in R!Saved(R!Stock, k)
  <2>1. T \in SUBSET D
    OBVIOUS
  <2> HIDE DEF T
  <2>2. \A e \in Expiries : R!Cardinality({r \in T : units[r].expiry <= e}) <= R!ProjectedSales(k, e)
    BY <1>8, RCount DEF Until
  <2> QED BY <2>1, <2>2 DEF R!Saved, D, Dated
<1> QED BY <1>7, <1>9 DEF D, lost

LEMMA ProjectionNow == ReportsInv => R!ProjectionIsExact
<1> SUFFICES ASSUME ReportsInv, NEW k \in R!MovementRows(R!Stock)
             PROVE  LET dated == {r \in R!Stock : R!Key(r) = k /\ units[r].expiry # None}
                    IN  R!EstimatedUnsold(R!Stock, k) = R!Cardinality(dated)
                          - R!Max({R!Cardinality(T) : T \in R!Saved(R!Stock, k)})
  BY DEF R!ProjectionIsExact
<1> DEFINE D == Dated(k)
           lost == R!EstimatedUnsold(R!Stock, k)
           C == {Cardinality(T) : T \in R!Saved(R!Stock, k)}
<1>1. IsFiniteSet(D) /\ Cardinality(D) \in Nat /\ lost \in Nat
  BY DatedUnits, FS_CardinalityType, UnsoldIs
<1>2. ASSUME NEW T \in R!Saved(R!Stock, k)
      PROVE  Cardinality(T) \in Nat /\ Cardinality(T) <= Cardinality(D) - lost
  BY <1>1, SavesAtMost, FS_Subset, FS_CardinalityType
<1>3. Cardinality(D) - lost \in C
  BY SavesTheRest
<1>4. C \in SUBSET Nat /\ \A c \in C : c <= Cardinality(D) - lost
  BY <1>2
<1>5. IsFiniteSet(C)
  <2>1. Cardinality(D) - lost \in Nat
    BY <1>3, <1>4
  <2> HIDE DEF C, lost, D
  <2> QED BY <1>4, <2>1, FS_BoundedSetOfNaturals
<1>6. R!Max(C) = Cardinality(D) - lost
  <2>1. C \in SUBSET Int /\ C # {}
    BY <1>3, <1>4
  <2>2. R!Max(C) \in C /\ \A c \in C : c <= R!Max(C)
    <3> HIDE DEF C
    <3> QED BY <1>5, <2>1, MaxIs
  <2> HIDE DEF C, lost, D
  <2>3. R!Max(C) <= Cardinality(D) - lost /\ Cardinality(D) - lost <= R!Max(C)
    BY <1>3, <1>4, <2>2
  <2>4. R!Max(C) \in Nat
    BY <1>4, <2>2
  <2> QED BY <1>1, <2>3, <2>4
<1>7. {R!Cardinality(T) : T \in R!Saved(R!Stock, k)} = C
  BY RCount
<1>8. R!Cardinality({r \in R!Stock : R!Key(r) = k /\ units[r].expiry # None}) = Cardinality(D)
  BY RCount DEF Dated
<1>9. lost = Cardinality(D) - R!Max(C)
  <2> HIDE DEF C, lost, D
  <2> QED BY <1>1, <1>6
<1> QED BY <1>7, <1>8, <1>9

(* The projection is exact: of the dated units of a row, what the report   *)
(* expects to be left over is what no order of selling, at its pace, sells *)
(* in time.                                                                *)
THEOREM ProjectionIsExactCorrect == WarehouseSpec => []ProjectionIsExact
<1>1. PagesInv => ProjectionIsExact
  BY ProjectionNow DEF PagesInv, ProjectionIsExact
<1> QED BY <1>1, PagesHold, PTL
=============================================================================
