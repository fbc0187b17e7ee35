--------------------------- MODULE SubmitsProofs ---------------------------
(***************************************************************************)
(* Proofs about Submits, for every value of its constants.                 *)
(*                                                                         *)
(* The clerks (BatchStock): whatever requests overlap, the stock ledger    *)
(* stays a history, every change of stock is a move of StockLedger, and    *)
(* what a purchase took in is shelved; and when one request follows the    *)
(* other, a submitted batch lists exactly what it moved (OrderlyBatches).  *)
(*                                                                         *)
(* The worker (RetryWorker): one request at a time and no lost wake-up,    *)
(* for any number of request threads, executor threads, starts and         *)
(* failures.                                                               *)
(***************************************************************************)
EXTENDS Submits, SequenceTheorems, TLAPS

(* A submit that passed its checks has loaded statuses its batch accepts.  *)
Accepted(c) == \A s \in view[c].items : view[c].stock[s] \in AllowedFrom(TypeOf[req[c].batch])

SubmitOK ==
    \A c \in Clerks : req[c] # None /\ req[c].op = "submit" =>
        /\ view[c] \in View
        /\ req[c].pc = "checked" => Accepted(c)

(* What is marked as shelved has a place.                                  *)
ShelfOK ==
    /\ \A b \in Batches : \A s \in shelved[b] : place[s] # None
    /\ \A c \in Clerks : req[c] # None /\ req[c].op = "submit" =>
          /\ \A s \in view[c].shelved : place[s] # None
          /\ req[c].pc = "checked" /\ TypeOf[req[c].batch] \in ShelfControlled =>
                view[c].items \subseteq view[c].shelved

Inv == TypeOK /\ SubmitOK /\ LedgerChains /\ ShelfOK /\ TakenInIsOnShelf

-----------------------------------------------------------------------------
LEMMA TargetType == ASSUME NEW b \in Batches PROVE Target(b) \in SerialStatuses
BY TypeAssumption DEF Target, BatchTypes, SerialStatuses

LEMMA AllowedType ==
    ASSUME NEW b \in Batches PROVE AllowedFrom(TypeOf[b]) \subseteq SerialStatuses
BY TypeAssumption DEF AllowedFrom, BatchTypes, SerialStatuses

(* A request that is not idle is well formed.                              *)
LEMMA RequestType ==
    ASSUME TypeOK, NEW c \in Clerks, req[c] # None
    PROVE  req[c] \in Request /\ req[c].batch \in Batches /\ req[c].serials \subseteq Serials
BY DEF TypeOK, Request

(* What a submit enters in the ledger of a serial.                         *)
NewEntry(b, v, s) == [batch |-> b, from |-> v.stock[s], to |-> Target(b)]

LEMMA ApplyFacts ==
    ASSUME Inv, NEW c \in Clerks, ApplySubmit(c)
    PROVE  /\ req[c] # None /\ req[c].op = "submit" /\ req[c].pc = "checked"
           /\ req[c].batch \in Batches /\ view[c] \in View
           /\ \A s \in view[c].items : NewEntry(req[c].batch, view[c], s) \in Entry
           /\ \A s \in view[c].items : stock[s] = view[c].stock[s]
           /\ Accepted(c)
<1>1. req[c] # None /\ req[c].op = "submit" /\ req[c].pc = "checked"
  BY DEF ApplySubmit, Asked
<1>2. req[c].batch \in Batches /\ view[c] \in View /\ Accepted(c)
  BY <1>1, RequestType DEF Inv, SubmitOK
<1>3. \A s \in view[c].items : NewEntry(req[c].batch, view[c], s) \in Entry
  <2> SUFFICES ASSUME NEW s \in view[c].items
               PROVE  NewEntry(req[c].batch, view[c], s) \in Entry
    OBVIOUS
  <2>1. s \in Serials /\ view[c].stock[s] \in SerialStatuses
    BY <1>2 DEF View
  <2>. QED  BY <1>2, <2>1, TargetType DEF NewEntry, Entry
<1>4. \A s \in view[c].items : stock[s] = view[c].stock[s]
  BY DEF ApplySubmit, Claimed
<1>. QED  BY <1>1, <1>2, <1>3, <1>4

-----------------------------------------------------------------------------
(* Type correctness.                                                       *)

LEMMA InitInv == Init => Inv
<1> SUFFICES ASSUME Init PROVE Inv
  OBVIOUS
<1>1. TypeOK
  <2>1. stock \in [Serials -> SerialStatuses]
    BY OpeningAssumption DEF Init
  <2>2. ledger \in [Serials -> Seq(Entry)] /\ status \in [Batches -> {"DRAFT", "SUBMITTED"}]
    BY DEF Init
  <2>3. /\ items \in [Batches -> SUBSET Serials] /\ rated \in [Batches -> SUBSET Serials]
        /\ shelved \in [Batches -> SUBSET Serials] /\ returns \in [Batches -> SUBSET Serials]
    <3>1. {} \in SUBSET Serials
      OBVIOUS
    <3>2. [b \in Batches |-> {}] \in [Batches -> SUBSET Serials]
      BY <3>1
    <3>. QED  BY <3>2 DEF Init
  <2>5. voucher \in [Batches -> (SUBSET Serials) \cup {None}]
    <3>1. None \in (SUBSET Serials) \cup {None}
      OBVIOUS
    <3>. QED  BY <3>1 DEF Init
  <2>4. /\ place \in [Serials -> Shelves \cup {None}]
        /\ req \in [Clerks -> Request \cup {None}] /\ view \in [Clerks -> View \cup {None}]
    BY DEF Init
  <2>. QED  BY <2>1, <2>2, <2>3, <2>4, <2>5 DEF TypeOK
<1>2. SubmitOK /\ ShelfOK
  BY DEF Init, SubmitOK, ShelfOK
<1>3. LedgerChains
  BY DEF Init, LedgerChains
<1>4. TakenInIsOnShelf
  <2>1. \A b \in Batches : Moved(b) = {}
    BY DEF Init, Moved
  <2>. QED  BY <2>1 DEF TakenInIsOnShelf
<1>. QED  BY <1>1, <1>2, <1>3, <1>4 DEF Inv

LEMMA OpenType ==
    ASSUME Inv, NEW c \in Clerks, NEW op \in Operations, NEW b \in Batches, NEW s \in Serials,
           Open(c, op, b, s)
    PROVE  TypeOK'
<1> DEFINE new == [op |-> op, batch |-> b, pc |-> "open",
                   serials |-> IF op = "rate_all" THEN items[b] ELSE {s}]
<1>1. new \in Request
  BY DEF Inv, TypeOK, Request
<1>2. [items |-> items[b], rated |-> rated[b], shelved |-> shelved[b], stock |-> stock] \in View
  BY DEF Inv, TypeOK, View
<1>. QED  BY <1>1, <1>2 DEF Open, Inv, TypeOK, dbVars

LEMMA DoneType ==
    ASSUME TypeOK, NEW c \in Clerks, Done(c)
    PROVE  req' \in [Clerks -> Request \cup {None}] /\ view' \in [Clerks -> View \cup {None}]
BY DEF TypeOK, Done

LEMMA HandleType ==
    ASSUME Inv, NEW c \in Clerks, Handle(c)
    PROVE  TypeOK'
<1> USE DEF Inv, TypeOK, dbVars
<1>0. req[c] # None => req[c] \in Request /\ req[c].batch \in Batches /\ req[c].serials \subseteq Serials
  BY RequestType
<1>1. CASE CheckScan(c)
  <2>1. [req[c] EXCEPT !.pc = "checked"] \in Request
    BY <1>0, <1>1 DEF CheckScan, Asked, Request
  <2>. QED  BY <1>1, <2>1 DEF CheckScan
<1>2. ASSUME NEW n \in 1..Cardinality(Serials), CheckPick(c, n) PROVE TypeOK'
  <2> DEFINE found == FefoCandidates(TypeOf[req[c].batch])
             first == {s \in found : Cardinality({t \in found : t < s}) < n}
  <2>1. first \subseteq Serials
    BY DEF FefoCandidates
  <2>2. [[req[c] EXCEPT !.pc = "checked"] EXCEPT !.serials = first] \in Request
    BY <1>0, <1>2, <2>1 DEF CheckPick, Asked, Request
  <2>. QED  BY <1>2, <2>2 DEF CheckPick
<1>3. CASE Insert(c)
  BY <1>0, <1>3, DoneType DEF Insert, Asked
<1>4. CASE Remove(c)
  BY <1>0, <1>4, DoneType DEF Remove, DropItems, Asked
<1>5. CASE Rate(c)
  BY <1>0, <1>5, DoneType DEF Rate, Asked
<1>6. CASE Return(c)
  BY <1>0, <1>6, DoneType DEF Return, DropItems, Asked
<1>11. CASE CheckReturn(c)
  <2>1. [req[c] EXCEPT !.pc = "checked"] \in Request
    BY <1>0, <1>11 DEF CheckReturn, Asked, Request
  <2>. QED  BY <1>11, <2>1 DEF CheckReturn
<1>12. CASE CheckShelf(c)
  <2> DEFINE b == req[c].batch
             pending == IF TypeOf[b] = "SALE" THEN returns[b]
                                              ELSE PendingShelf(b, items[b], shelved[b])
  <2>1. pending \subseteq Serials
    BY <1>0, <1>12 DEF CheckShelf, Asked, PendingShelf
  <2>2. [[req[c] EXCEPT !.pc = "checked"] EXCEPT !.serials = pending] \in Request
    BY <1>0, <1>12, <2>1 DEF CheckShelf, Asked, Request
  <2>. QED  BY <1>12, <2>2 DEF CheckShelf
<1>7. ASSUME NEW l \in Shelves, ScanShelf(c, l) PROVE TypeOK'
  <2>1. place' \in [Serials -> Shelves \cup {None}]
    BY <1>0, <1>7 DEF ScanShelf, Asked
  <2>2. req[c].batch \in Batches /\ req[c].serials \subseteq Serials
    BY <1>0, <1>7 DEF ScanShelf, Asked
  <2>3. returns' \in [Batches -> SUBSET Serials] /\ shelved' \in [Batches -> SUBSET Serials]
    <3> DEFINE b == req[c].batch
               S == req[c].serials
    <3>1. \/ (returns' = [returns EXCEPT ![b] = @ \ S] /\ shelved' = shelved)
          \/ (shelved' = [shelved EXCEPT ![b] = @ \cup S] /\ returns' = returns)
      BY <1>7 DEF ScanShelf
    <3>2. b \in Batches /\ S \subseteq Serials
      BY <2>2
    <3>. HIDE DEF b, S
    <3>. QED  BY <3>1, <3>2
  <2>. QED  BY <1>7, <2>1, <2>3, DoneType DEF ScanShelf
<1>8. CASE ValidateSubmit(c)
  <2>1. [req[c] EXCEPT !.pc = "checked"] \in Request
    BY <1>0, <1>8 DEF ValidateSubmit, Asked, Request
  <2>. QED  BY <1>8, <2>1 DEF ValidateSubmit
<1>9. CASE ApplySubmit(c)
  <2> DEFINE b == req[c].batch
             v == view[c]
  <2>1. b \in Batches /\ v \in View /\ Target(b) \in SerialStatuses
        /\ \A s \in v.items : NewEntry(b, v, s) \in Entry
    BY <1>9, ApplyFacts, TargetType
  <2>2. v.items \subseteq Serials
    BY <2>1 DEF View
  <2>3. ledger' \in [Serials -> Seq(Entry)]
    <3>1. ledger' = [s \in Serials |-> IF s \in v.items THEN Append(ledger[s], NewEntry(b, v, s))
                                       ELSE ledger[s]]
      BY <1>9 DEF ApplySubmit, NewEntry
    <3>. HIDE DEF b, v
    <3>2. \A s \in v.items : Append(ledger[s], NewEntry(b, v, s)) \in Seq(Entry)
      BY <2>1, <2>2
    <3>. QED  BY <3>1, <3>2
  <2>4. /\ stock' \in [Serials -> SerialStatuses]
        /\ status' \in [Batches -> {"DRAFT", "SUBMITTED"}]
        /\ rated' \in [Batches -> SUBSET Serials]
    BY <1>9, <2>1, <2>2 DEF ApplySubmit
  <2>. HIDE DEF b, v
  <2>. QED  BY <1>9, <2>3, <2>4, DoneType DEF ApplySubmit
<1>10. CASE Fail(c)
  BY <1>10, DoneType DEF Fail
<1>. QED
  BY <1>1, <1>2, <1>3, <1>4, <1>5, <1>6, <1>7, <1>8, <1>9, <1>10, <1>11, <1>12
     DEF Handle

LEMMA BuildType == ASSUME TypeOK, NEW b \in Batches, BuildVoucher(b) PROVE TypeOK'
BY DEF TypeOK, BuildVoucher

-----------------------------------------------------------------------------
(* What a submit has loaded.                                               *)

(* The submits in flight are those of before, one that was opened or one   *)
(* that passed its checks.                                                 *)
LEMMA OpenSubmit ==
    ASSUME Inv, NEW c \in Clerks, NEW op \in Operations, NEW b \in Batches, NEW s \in Serials,
           Open(c, op, b, s)
    PROVE  SubmitOK' /\ ShelfOK'
<1>1. /\ req'[c].op = op /\ req'[c].pc = "open"
      /\ op = "submit" => view'[c] = [items |-> items[b], rated |-> rated[b],
                                     shelved |-> shelved[b], stock |-> stock]
      /\ \A e \in Clerks : e # c => req'[e] = req[e] /\ view'[e] = view[e]
  BY DEF Open, Inv, TypeOK
<1>2. [items |-> items[b], rated |-> rated[b], shelved |-> shelved[b], stock |-> stock] \in View
  BY DEF Inv, TypeOK, View
<1>3. SubmitOK'
  <2> SUFFICES ASSUME NEW e \in Clerks, req'[e] # None, req'[e].op = "submit"
               PROVE  view'[e] \in View /\ (req'[e].pc = "checked" => Accepted(e)')
    BY DEF SubmitOK
  <2>1. CASE e = c
    BY <1>1, <1>2, <2>1
  <2>2. CASE e # c
    BY <1>1, <2>2 DEF Inv, SubmitOK, Accepted
  <2>. QED  BY <2>1, <2>2
<1>4. place' = place /\ shelved' = shelved
  BY DEF Open, dbVars
<1>5. ASSUME NEW e \in Clerks, req'[e] # None, req'[e].op = "submit"
      PROVE  /\ \A t \in view'[e].shelved : place[t] # None
             /\ req'[e].pc = "checked" /\ TypeOf[req'[e].batch] \in ShelfControlled =>
                   view'[e].items \subseteq view'[e].shelved
  <2>1. CASE e = c
    BY <1>1, <1>5, <2>1 DEF Inv, ShelfOK
  <2>2. CASE e # c
    BY <1>1, <1>5, <2>2 DEF Inv, ShelfOK
  <2>. QED  BY <2>1, <2>2
<1>6. ShelfOK'
  BY <1>4, <1>5 DEF Inv, ShelfOK
<1>. QED  BY <1>3, <1>6

(* A step of clerk c that leaves every submit in flight as it is, and no   *)
(* marked item without a place.                                            *)
LEMMA KeepSubmits ==
    ASSUME Inv, NEW c \in Clerks,
           \A e \in Clerks : e # c => req'[e] = req[e] /\ view'[e] = view[e],
           req'[c] = None \/ (req'[c].op # "submit"),
           \A s \in Serials : place[s] # None => place'[s] # None,
           \A b \in Batches : \A s \in shelved'[b] : s \in shelved[b] \/ place'[s] # None
    PROVE  SubmitOK' /\ ShelfOK'
<1>1. SubmitOK'
  <2> SUFFICES ASSUME NEW e \in Clerks, req'[e] # None, req'[e].op = "submit"
               PROVE  view'[e] \in View /\ (req'[e].pc = "checked" => Accepted(e)')
    BY DEF SubmitOK
  <2>1. e # c
    OBVIOUS
  <2>. QED  BY <2>1 DEF Inv, SubmitOK, Accepted
<1>2. \A b \in Batches : \A s \in shelved'[b] : place'[s] # None
  BY DEF Inv, ShelfOK, TypeOK
<1>3. ASSUME NEW e \in Clerks, req'[e] # None, req'[e].op = "submit"
      PROVE  /\ \A t \in view'[e].shelved : place'[t] # None
             /\ req'[e].pc = "checked" /\ TypeOf[req'[e].batch] \in ShelfControlled =>
                   view'[e].items \subseteq view'[e].shelved
  <2>1. e # c
    BY <1>3
  <2>2. view[e].shelved \subseteq Serials
    BY <1>3, <2>1 DEF Inv, SubmitOK, View
  <2>. QED  BY <1>3, <2>1, <2>2 DEF Inv, ShelfOK
<1>4. ShelfOK'
  BY <1>2, <1>3 DEF ShelfOK
<1>. QED  BY <1>1, <1>4

LEMMA DoneKeeps ==
    ASSUME TypeOK, NEW c \in Clerks, Done(c)
    PROVE  /\ \A e \in Clerks : e # c => req'[e] = req[e] /\ view'[e] = view[e]
           /\ req'[c] = None
BY DEF Done, TypeOK

LEMMA HandleSubmit ==
    ASSUME Inv, NEW c \in Clerks, Handle(c)
    PROVE  SubmitOK' /\ ShelfOK'
<1> USE DEF Inv, TypeOK, dbVars
<1>0. req[c] # None => req[c] \in Request /\ req[c].batch \in Batches /\ req[c].serials \subseteq Serials
  BY RequestType
<1>1. CASE CheckScan(c)
  <2>1. /\ req'[c] = [req[c] EXCEPT !.pc = "checked"] /\ req[c].op = "scan" /\ req[c] \in Request
        /\ \A e \in Clerks : e # c => req'[e] = req[e] /\ view'[e] = view[e]
        /\ place' = place /\ shelved' = shelved
    BY <1>0, <1>1 DEF CheckScan, Asked
  <2>2. req'[c].op # "submit"
    BY <2>1 DEF Request
  <2>. QED  BY <2>1, <2>2, KeepSubmits
<1>2. ASSUME NEW n \in 1..Cardinality(Serials), CheckPick(c, n) PROVE SubmitOK' /\ ShelfOK'
  <2>1. /\ req[c] \in Request /\ req[c].op = "fefo"
        /\ \A e \in Clerks : e # c => req'[e] = req[e] /\ view'[e] = view[e]
        /\ place' = place /\ shelved' = shelved
    BY <1>0, <1>2 DEF CheckPick, Asked
  <2>2. PICK S : req' = [req EXCEPT ![c].pc = "checked", ![c].serials = S]
    BY <1>2 DEF CheckPick
  <2>3. req'[c].op # "submit"
    BY <2>1, <2>2 DEF Request
  <2>. QED  BY <2>1, <2>3, KeepSubmits
<1>10. CASE CheckReturn(c)
  <2>1. /\ req'[c] = [req[c] EXCEPT !.pc = "checked"] /\ req[c].op = "return" /\ req[c] \in Request
        /\ \A e \in Clerks : e # c => req'[e] = req[e] /\ view'[e] = view[e]
        /\ place' = place /\ shelved' = shelved
    BY <1>0, <1>10 DEF CheckReturn, Asked
  <2>2. req'[c].op # "submit"
    BY <2>1 DEF Request
  <2>. QED  BY <2>1, <2>2, KeepSubmits
<1>11. CASE CheckShelf(c)
  <2>1. /\ req[c] \in Request /\ req[c].op = "shelf"
        /\ \A e \in Clerks : e # c => req'[e] = req[e] /\ view'[e] = view[e]
        /\ place' = place /\ shelved' = shelved
    BY <1>0, <1>11 DEF CheckShelf, Asked
  <2>2. PICK S : req' = [req EXCEPT ![c] = [@ EXCEPT !.pc = "checked", !.serials = S]]
    BY <1>11 DEF CheckShelf
  <2>3. req'[c].op # "submit"
    BY <2>1, <2>2 DEF Request
  <2>. QED  BY <2>1, <2>3, KeepSubmits
<1>3. CASE Insert(c)
  BY <1>3, DoneKeeps, KeepSubmits DEF Insert
<1>4. CASE Remove(c) \/ Return(c)
  <2>1. Done(c) /\ place' = place /\ DropItems(req[c].batch, req[c].serials)
    BY <1>4 DEF Remove, Return
  <2>2. \A b \in Batches : shelved'[b] \subseteq shelved[b]
    BY <2>1 DEF DropItems
  <2>. QED  BY <2>1, <2>2, DoneKeeps, KeepSubmits
<1>5. CASE Rate(c)
  BY <1>5, DoneKeeps, KeepSubmits DEF Rate
<1>6. ASSUME NEW l \in Shelves, ScanShelf(c, l) PROVE SubmitOK' /\ ShelfOK'
  <2> DEFINE b == req[c].batch
             pending == req[c].serials
  <2>1. /\ Done(c) /\ b \in Batches /\ pending \subseteq Serials
        /\ place' = [s \in Serials |-> IF s \in pending THEN l ELSE place[s]]
    BY <1>0, <1>6 DEF ScanShelf, Asked
  <2>3. l # None
    BY NoneAssumption
  <2>4. shelved' = shelved \/ shelved' = [shelved EXCEPT ![b] = @ \cup pending]
    BY <1>6 DEF ScanShelf
  <2>. HIDE DEF b, pending
  <2>5. \A s \in Serials : place[s] # None => place'[s] # None
    BY <2>1, <2>3
  <2>6. \A d \in Batches : \A s \in shelved'[d] : s \in shelved[d] \/ place'[s] # None
    BY <2>1, <2>3, <2>4
  <2>. QED  BY <2>1, <2>5, <2>6, DoneKeeps, KeepSubmits
<1>7. CASE ValidateSubmit(c)
  <2>1. /\ req'[c] = [req[c] EXCEPT !.pc = "checked"] /\ req[c] \in Request
        /\ req[c] # None /\ req[c].op = "submit"
        /\ \A e \in Clerks : e # c => req'[e] = req[e]
        /\ view' = view /\ place' = place /\ shelved' = shelved
    BY <1>0, <1>7 DEF ValidateSubmit, Asked
  <2>2. req'[c].batch = req[c].batch
    BY <2>1 DEF Request
  <2>3. Accepted(c)' /\ view[c] \in View
    BY <1>7, <2>1, <2>2 DEF ValidateSubmit, Accepted, SubmitOK
  <2>4. TypeOf[req[c].batch] \in ShelfControlled => view[c].items \subseteq view[c].shelved
    BY <1>7, <2>3 DEF ValidateSubmit, PendingShelf
  <2>5. SubmitOK'
    <3> SUFFICES ASSUME NEW e \in Clerks, req'[e] # None, req'[e].op = "submit"
                 PROVE  view'[e] \in View /\ (req'[e].pc = "checked" => Accepted(e)')
      BY DEF SubmitOK
    <3>1. CASE e = c
      BY <2>1, <2>3, <3>1
    <3>2. CASE e # c
      BY <2>1, <3>2 DEF SubmitOK, Accepted
    <3>. QED  BY <3>1, <3>2
  <2>6. ASSUME NEW e \in Clerks, req'[e] # None, req'[e].op = "submit"
        PROVE  /\ \A t \in view[e].shelved : place[t] # None
               /\ req'[e].pc = "checked" /\ TypeOf[req'[e].batch] \in ShelfControlled =>
                     view[e].items \subseteq view[e].shelved
    <3>1. CASE e = c
      BY <2>1, <2>2, <2>4, <3>1 DEF ShelfOK
    <3>2. CASE e # c
      BY <2>1, <2>6, <3>2 DEF ShelfOK
    <3>. QED  BY <3>1, <3>2
  <2>7. ShelfOK'
    BY <2>1, <2>6 DEF ShelfOK
  <2>. QED  BY <2>5, <2>7
<1>8. CASE ApplySubmit(c)
  BY <1>8, DoneKeeps, KeepSubmits DEF ApplySubmit
<1>9. CASE Fail(c)
  BY <1>9, DoneKeeps, KeepSubmits DEF Fail
<1>. QED
  BY <1>1, <1>2, <1>3, <1>4, <1>5, <1>6, <1>7, <1>8, <1>9, <1>10, <1>11 DEF Handle
-----------------------------------------------------------------------------
(* The ledger.                                                             *)

LEMMA ApplyLedger ==
    ASSUME Inv, NEW c \in Clerks, ApplySubmit(c), NEW s \in Serials
    PROVE  LET b == req[c].batch
               v == view[c]
           IN  IF s \in v.items
               THEN /\ ledger[s] \in Seq(Entry) /\ NewEntry(b, v, s) \in Entry
                    /\ ledger'[s] = Append(ledger[s], NewEntry(b, v, s))
                    /\ NewEntry(b, v, s).from = stock[s] /\ NewEntry(b, v, s).to = Target(b)
                    /\ NewEntry(b, v, s).batch = b
                    /\ stock'[s] = Target(b)
               ELSE ledger'[s] = ledger[s] /\ stock'[s] = stock[s]
<1> DEFINE b == req[c].batch
           v == view[c]
<1>1. CASE s \in v.items
  <2>1. NewEntry(b, v, s) \in Entry /\ stock[s] = v.stock[s]
    BY <1>1, ApplyFacts
  <2>2. ledger[s] \in Seq(Entry)
    BY DEF Inv, TypeOK
  <2>3. ledger'[s] = Append(ledger[s], NewEntry(b, v, s)) /\ stock'[s] = Target(b)
    BY <1>1 DEF ApplySubmit, NewEntry
  <2>4. NewEntry(b, v, s).from = stock[s] /\ NewEntry(b, v, s).to = Target(b)
        /\ NewEntry(b, v, s).batch = b
    BY <2>1 DEF NewEntry
  <2>. QED  BY <1>1, <2>1, <2>2, <2>3, <2>4
<1>2. CASE s \notin v.items
  BY <1>2 DEF ApplySubmit
<1>. QED  BY <1>1, <1>2

(* One more entry keeps a history a history.                               *)
LEMMA ChainAppend ==
    ASSUME NEW log \in Seq(Entry), NEW e \in Entry, NEW now,
           \A i \in 1..Len(log) - 1 : log[i].to = log[i + 1].from,
           log # <<>> => log[Len(log)].to = now,
           e.from = now
    PROVE  LET new == Append(log, e)
           IN  /\ \A i \in 1..Len(new) - 1 : new[i].to = new[i + 1].from
               /\ new # <<>> /\ new[Len(new)].to = e.to
<1> DEFINE new == Append(log, e)
<1>1. Len(log) \in Nat /\ Len(new) = Len(log) + 1 /\ new[Len(new)] = e
      /\ \A i \in 1..Len(log) : new[i] = log[i]
  BY AppendProperties
<1>3. new # <<>>
  BY <1>1
<1>2. ASSUME NEW i \in 1..Len(new) - 1 PROVE new[i].to = new[i + 1].from
  <2>1. CASE i = Len(log)
    <3>1. log # <<>> /\ new[i] = log[i] /\ new[i + 1] = e
      BY <1>1, <1>2, <2>1
    <3>. QED  BY <2>1, <3>1
  <2>2. CASE i # Len(log)
    <3>1. i \in 1..Len(log) - 1 /\ i + 1 \in 1..Len(log)
      BY <1>1, <1>2, <2>2
    <3>. QED  BY <1>1, <3>1
  <2>. QED  BY <2>1, <2>2
<1>. QED  BY <1>1, <1>2, <1>3

LEMMA LedgerStep ==
    ASSUME Inv, NEW c \in Clerks, ApplySubmit(c)
    PROVE  LedgerChains'
<1> SUFFICES ASSUME NEW s \in Serials
             PROVE  /\ \A i \in 1..Len(ledger'[s]) - 1 : ledger'[s][i].to = ledger'[s][i + 1].from
                    /\ ledger'[s] # <<>> => ledger'[s][Len(ledger'[s])].to = stock'[s]
  BY DEF LedgerChains
<1>0. /\ \A i \in 1..Len(ledger[s]) - 1 : ledger[s][i].to = ledger[s][i + 1].from
      /\ ledger[s] # <<>> => ledger[s][Len(ledger[s])].to = stock[s]
  BY DEF Inv, LedgerChains
<1>1. CASE s \in view[c].items
  <2> DEFINE e == NewEntry(req[c].batch, view[c], s)
  <2>1. /\ ledger[s] \in Seq(Entry) /\ e \in Entry /\ ledger'[s] = Append(ledger[s], e)
        /\ e.from = stock[s] /\ e.to = stock'[s]
    BY <1>1, ApplyLedger
  <2>. HIDE DEF e
  <2>. QED  BY <1>0, <2>1, ChainAppend
<1>2. CASE s \notin view[c].items
  BY <1>0, <1>2, ApplyLedger
<1>. QED  BY <1>1, <1>2

(* What a batch has moved after its submit.                                *)
LEMMA MovedStep ==
    ASSUME Inv, NEW c \in Clerks, ApplySubmit(c), NEW d \in Batches, NEW s \in Serials,
           s \in Moved(d)', s \notin Moved(d)
    PROVE  d = req[c].batch /\ s \in view[c].items
<1>1. PICK i \in DOMAIN ledger'[s] : ledger'[s][i].batch = d
  BY DEF Moved
<1>2. \A j \in DOMAIN ledger[s] : ledger[s][j].batch # d
  BY DEF Moved
<1>3. s \in view[c].items
  BY <1>1, <1>2, ApplyLedger
<1> DEFINE e == NewEntry(req[c].batch, view[c], s)
<1>4. /\ ledger[s] \in Seq(Entry) /\ e \in Entry /\ ledger'[s] = Append(ledger[s], e)
      /\ e.batch = req[c].batch
  BY <1>3, ApplyLedger
<1> HIDE DEF e
<1>5. CASE i \in 1..Len(ledger[s])
  BY <1>1, <1>2, <1>4, <1>5
<1>6. CASE i \notin 1..Len(ledger[s])
  <2>1. ledger'[s][i] = e
    BY <1>1, <1>4, <1>6
  <2>. QED  BY <1>1, <1>3, <1>4, <2>1
<1>. QED  BY <1>5, <1>6

LEMMA ShelfStep ==
    ASSUME Inv, NEW c \in Clerks, ApplySubmit(c)
    PROVE  TakenInIsOnShelf'
<1> SUFFICES ASSUME NEW d \in Batches, TypeOf[d] \in ShelfControlled, NEW s \in Moved(d)'
             PROVE  place'[s] # None
  BY DEF TakenInIsOnShelf
<1>0. place' = place /\ s \in Serials
  BY DEF ApplySubmit, Moved
<1>1. CASE s \in Moved(d)
  BY <1>0, <1>1 DEF Inv, TakenInIsOnShelf
<1>2. CASE s \notin Moved(d)
  <2>1. d = req[c].batch /\ s \in view[c].items
    BY <1>0, <1>2, MovedStep
  <2>2. s \in view[c].shelved
    BY <2>1, ApplyFacts DEF Inv, ShelfOK
  <2>. QED  BY <1>0, <2>2, ApplyFacts DEF Inv, ShelfOK
<1>. QED  BY <1>1, <1>2
-----------------------------------------------------------------------------
(* The theorems.                                                           *)

(* Only a submit touches stock and ledger, and no other step clears a      *)
(* place.                                                                  *)
LEMMA OtherSteps ==
    ASSUME Inv, Next, \A c \in Clerks : ~ApplySubmit(c)
    PROVE  /\ stock' = stock /\ ledger' = ledger
           /\ \A s \in Serials : place[s] # None => place'[s] # None
<1>1. ASSUME NEW c \in Clerks, NEW op \in Operations, NEW b \in Batches, NEW s \in Serials,
             Open(c, op, b, s)
      PROVE  stock' = stock /\ ledger' = ledger /\ place' = place
  BY <1>1 DEF Open, dbVars
<1>2. ASSUME NEW b \in Batches, BuildVoucher(b)
      PROVE  stock' = stock /\ ledger' = ledger /\ place' = place
  BY <1>2 DEF BuildVoucher
<1>3. ASSUME NEW c \in Clerks, Handle(c)
      PROVE  /\ stock' = stock /\ ledger' = ledger
             /\ \A s \in Serials : place[s] # None => place'[s] # None
  <2>1. ASSUME NEW n \in 1..Cardinality(Serials), CheckPick(c, n)
        PROVE  stock' = stock /\ ledger' = ledger /\ place' = place
    BY <2>1 DEF CheckPick, dbVars
  <2>2. ASSUME NEW l \in Shelves, ScanShelf(c, l)
        PROVE  /\ stock' = stock /\ ledger' = ledger
               /\ \A s \in Serials : place[s] # None => place'[s] # None
    <3>1. stock' = stock /\ ledger' = ledger
      BY <2>2 DEF ScanShelf
    <3>2. PICK S : place' = [s \in Serials |-> IF s \in S THEN l ELSE place[s]]
      BY <2>2 DEF ScanShelf
    <3>. QED  BY <3>1, <3>2, NoneAssumption
  <2>3. CASE CheckScan(c) \/ CheckReturn(c) \/ CheckShelf(c) \/ ValidateSubmit(c) \/ Fail(c)
    BY <2>3 DEF CheckScan, CheckReturn, CheckShelf, ValidateSubmit, Fail, dbVars
  <2>4. CASE Insert(c) \/ Remove(c) \/ Rate(c) \/ Return(c)
    BY <2>4 DEF Insert, Remove, Rate, Return
  <2>. QED  BY <1>3, <2>1, <2>2, <2>3, <2>4 DEF Handle
<1>. QED  BY <1>1, <1>2, <1>3 DEF Next

LEMMA InvNext == Inv /\ [Next]_vars => Inv'
<1> SUFFICES ASSUME Inv, [Next]_vars PROVE Inv'
  OBVIOUS
<1>1. CASE UNCHANGED vars
  <2>1. TypeOK' /\ SubmitOK' /\ ShelfOK'
    BY <1>1 DEF Inv, TypeOK, SubmitOK, ShelfOK, Accepted, vars, dbVars
  <2>2. LedgerChains' /\ TakenInIsOnShelf'
    BY <1>1 DEF Inv, LedgerChains, TakenInIsOnShelf, Moved, vars, dbVars
  <2>. QED  BY <2>1, <2>2 DEF Inv
<1>2. CASE Next
  <2>1. TypeOK'
    BY <1>2, OpenType, HandleType, BuildType DEF Next, Inv
  <2>2. SubmitOK' /\ ShelfOK'
    <3>1. ASSUME NEW b \in Batches, BuildVoucher(b) PROVE SubmitOK' /\ ShelfOK'
      BY <3>1 DEF BuildVoucher, Inv, SubmitOK, ShelfOK, Accepted
    <3>. QED  BY <1>2, <3>1, OpenSubmit, HandleSubmit DEF Next
  <2>3. LedgerChains' /\ TakenInIsOnShelf'
    <3>1. CASE \E c \in Clerks : ApplySubmit(c)
      BY <3>1, LedgerStep, ShelfStep
    <3>2. CASE \A c \in Clerks : ~ApplySubmit(c)
      <4>1. LedgerChains'
        BY <1>2, <3>2, OtherSteps DEF Inv, LedgerChains
      <4>2. \A b \in Batches : Moved(b)' = Moved(b) /\ Moved(b) \subseteq Serials
        BY <1>2, <3>2, OtherSteps DEF Moved
      <4>3. TakenInIsOnShelf'
        BY <1>2, <3>2, <4>2, OtherSteps DEF Inv, TakenInIsOnShelf
      <4>. QED  BY <4>1, <4>3
    <3>. QED  BY <3>1, <3>2
  <2>. QED  BY <2>1, <2>2, <2>3 DEF Inv
<1>. QED  BY <1>1, <1>2

LEMMA Invariance == Spec => []Inv
<1>. QED  BY InitInv, InvNext, PTL DEF Spec

(* The variables keep their types.                                         *)
THEOREM TypeCorrect == Spec => []TypeOK
<1>1. Inv => TypeOK
  BY DEF Inv
<1>. QED  BY <1>1, Invariance, PTL

(* However submits overlap, the ledger of a serial chains up to its        *)
(* status.                                                                 *)
THEOREM LedgerChainsCorrect == Spec => []LedgerChains
<1>1. Inv => LedgerChains
  BY DEF Inv
<1>. QED  BY <1>1, Invariance, PTL

(* A serial a purchase took into stock has been put on a shelf.            *)
THEOREM TakenInIsOnShelfCorrect == Spec => []TakenInIsOnShelf
<1>1. Inv => TakenInIsOnShelf
  BY DEF Inv
<1>. QED  BY <1>1, Invariance, PTL

(* A step of the handlers is a move of the abstract stock ledger, or       *)
(* leaves stock and ledger alone.                                          *)
LEMMA LedgerSimulation == Inv /\ [Next]_vars => [Ledger!Next]_<<stock, ledger>>
<1> SUFFICES ASSUME Inv, [Next]_vars PROVE [Ledger!Next]_<<stock, ledger>>
  OBVIOUS
<1>1. CASE UNCHANGED vars
  BY <1>1 DEF vars, dbVars
<1>2. CASE Next /\ \A c \in Clerks : ~ApplySubmit(c)
  BY <1>2, OtherSteps
<1>3. ASSUME NEW c \in Clerks, ApplySubmit(c) PROVE Ledger!Next
  <2> DEFINE b == req[c].batch
             v == view[c]
             Moves == {m \in Batches \X SerialStatuses \X SerialStatuses :
                         m[2] \in AllowedFrom(TypeOf[m[1]]) /\ m[3] = Target(m[1])}
  <2>1. b \in Batches /\ v.items \in SUBSET Serials /\ Target(b) \in SerialStatuses
    BY <1>3, ApplyFacts, TargetType DEF View
  <2>2. \A s \in v.items : stock[s] = v.stock[s] /\ stock[s] \in AllowedFrom(TypeOf[b])
    BY <1>3, ApplyFacts DEF Accepted
  <2>3. \A s \in v.items : <<b, stock[s], Target(b)>> \in Moves
    BY <2>1, <2>2 DEF Inv, TypeOK
  <2>4. stock' = [s \in Serials |-> IF s \in v.items THEN Target(b) ELSE stock[s]]
    BY <1>3 DEF ApplySubmit
  <2>5. ledger' = [s \in Serials |->
                     IF s \in v.items
                     THEN Append(ledger[s], [batch |-> b, from |-> stock[s], to |-> Target(b)])
                     ELSE ledger[s]]
    BY <1>3, <2>2 DEF ApplySubmit
  <2>6. Ledger!Move(b, Target(b), v.items)
    BY <2>3, <2>4, <2>5 DEF Ledger!Move
  <2>7. \E m \in Moves : m[1] = b /\ m[3] = Target(b)
    <3>1. AllowedFrom(TypeOf[b]) # {}
      BY <2>1, TypeAssumption DEF AllowedFrom, BatchTypes
    <3>2. PICK from : from \in AllowedFrom(TypeOf[b])
      BY <3>1
    <3>3. <<b, from, Target(b)>> \in Moves
      BY <2>1, <3>2, AllowedType
    <3>. QED  BY <3>3
  <2>. QED  BY <2>1, <2>6, <2>7 DEF Ledger!Next
<1>. QED  BY <1>1, <1>2, <1>3

(* The request handlers implement the abstract stock ledger: every change  *)
(* of stock is a move the batch accepts, entered with the status the       *)
(* serial really had.                                                      *)
THEOREM LedgerKeptCorrect == Spec => LedgerKept
<1>1. Init => Ledger!Init
  BY OpeningAssumption DEF Init, Ledger!Init
<1>. QED  BY <1>1, LedgerSimulation, Invariance, PTL DEF Spec, LedgerKept, Ledger!Spec
-----------------------------------------------------------------------------
(* One request at a time: a submitted batch is its items, its voucher and  *)
(* its moves at once.                                                      *)

Alone == \A c, d \in Clerks : c = d

(* What a request alone has loaded and checked is still so.                *)
NotElsewhere(b, S) ==
    \A d \in Batches : d # b /\ status[d] = "DRAFT" => S \cap items[d] = {}
Undisturbed(c) ==
    req[c] # None =>
        /\ status[req[c].batch] = "DRAFT"
        /\ req[c].op = "submit" =>
              /\ view[c].items = items[req[c].batch]
              /\ req[c].pc = "checked" => returns[req[c].batch] = {}
        /\ req[c].op \in {"scan", "fefo"} /\ req[c].pc = "checked" =>
              NotElsewhere(req[c].batch, req[c].serials)

(* A draft has moved nothing, and has no voucher.                          *)
DraftsOK == \A b \in Batches : status[b] = "DRAFT" => Moved(b) = {} /\ voucher[b] = None

Order == OrderlyBatches /\ DraftsOK
OrderInv == Order /\ \A c \in Clerks : Undisturbed(c)

(* A step inside one draft, which moves nothing, keeps the order.          *)
LEMMA DraftStep ==
    ASSUME Order, NEW b \in Batches, status[b] = "DRAFT",
           UNCHANGED <<ledger, status, voucher>>,
           \A d \in Batches : d # b => items'[d] = items[d] /\ returns'[d] = returns[d],
           OneOpenBatch'
    PROVE  Order'
<1>1. \A d \in Batches : Moved(d)' = Moved(d)
  BY DEF Moved
<1>2. SubmittedIsMoved' /\ ReturnsShelved'
  BY <1>1 DEF Order, OrderlyBatches, SubmittedIsMoved, ReturnsShelved
<1>3. VoucherIsMoved' /\ DraftsOK'
  BY <1>1 DEF Order, OrderlyBatches, VoucherIsMoved, DraftsOK
<1>4. MovedOnce'
  BY DEF Order, OrderlyBatches, MovedOnce
<1>. QED  BY <1>2, <1>3, <1>4 DEF Order, OrderlyBatches

(* What a submit moves is what its batch has moved, once.                  *)
LEMMA ApplyMoves ==
    ASSUME Inv, NEW c \in Clerks, ApplySubmit(c),
           NEW b \in Batches, b = req[c].batch, Moved(b) = {}
    PROVE  /\ Moved(b)' = view[c].items
           /\ \A d \in Batches : d # b => Moved(d)' = Moved(d)
<1> DEFINE e(s) == NewEntry(b, view[c], s)
<1>1. /\ view[c].items \subseteq Serials
      /\ \A d \in Batches : Moved(d) \subseteq Serials /\ Moved(d)' \subseteq Serials
  BY ApplyFacts DEF View, Moved
<1>2. ASSUME NEW s \in view[c].items
      PROVE  /\ ledger[s] \in Seq(Entry) /\ ledger'[s] = Append(ledger[s], e(s))
             /\ e(s) \in Entry /\ e(s).batch = b
  BY <1>1, <1>2, ApplyLedger
<1> HIDE DEF e
<1>3. ASSUME NEW s \in view[c].items PROVE s \in Moved(b)'
  <2>1. /\ Len(ledger[s]) + 1 \in DOMAIN ledger'[s]
        /\ ledger'[s][Len(ledger[s]) + 1] = e(s)
    BY <1>2, AppendProperties, LenProperties
  <2>. QED  BY <1>1, <1>2, <1>3, <2>1 DEF Moved
<1>4. ASSUME NEW d \in Batches, NEW s \in Moved(d) PROVE s \in Moved(d)'
  <2>1. PICK i \in DOMAIN ledger[s] : ledger[s][i].batch = d
    BY DEF Moved
  <2>2. i \in DOMAIN ledger'[s] /\ ledger'[s][i] = ledger[s][i]
    <3>1. CASE s \in view[c].items
      BY <1>2, <2>1, <3>1, AppendProperties, LenProperties
    <3>2. CASE s \notin view[c].items
      BY <1>1, <1>4, <2>1, <3>2, ApplyLedger
    <3>. QED  BY <3>1, <3>2
  <2>. QED  BY <1>1, <1>4, <2>1, <2>2 DEF Moved
<1>5. \A d \in Batches : \A s \in Moved(d)' : s \in Moved(d) \/ (d = b /\ s \in view[c].items)
  BY <1>1, MovedStep
<1>6. Moved(b)' = view[c].items
  BY <1>1, <1>3, <1>5
<1>7. ASSUME NEW d \in Batches, d # b PROVE Moved(d)' = Moved(d)
  BY <1>1, <1>4, <1>5, <1>7
<1>. QED  BY <1>6, <1>7

LEMMA ApplyOnce ==
    ASSUME Inv, NEW c \in Clerks, ApplySubmit(c), Moved(req[c].batch) = {}, MovedOnce
    PROVE  MovedOnce'
<1> DEFINE b == req[c].batch
<1> SUFFICES ASSUME NEW s \in Serials, NEW i \in DOMAIN ledger'[s], NEW j \in DOMAIN ledger'[s],
                    ledger'[s][i].batch = ledger'[s][j].batch
             PROVE  i = j
  BY DEF MovedOnce
<1>1. \A k, l \in DOMAIN ledger[s] : ledger[s][k].batch = ledger[s][l].batch => k = l
  BY DEF MovedOnce
<1>2. \A k \in DOMAIN ledger[s] : ledger[s][k].batch # b
  BY DEF Moved
<1>3. CASE s \notin view[c].items
  BY <1>1, <1>3, ApplyLedger
<1>4. CASE s \in view[c].items
  <2> DEFINE e == NewEntry(b, view[c], s)
  <2>1. /\ ledger[s] \in Seq(Entry) /\ e \in Entry /\ ledger'[s] = Append(ledger[s], e)
        /\ e.batch = b
    BY <1>4, ApplyLedger
  <2> HIDE DEF e, b
  <2>2. /\ DOMAIN ledger[s] = 1 .. Len(ledger[s]) /\ Len(ledger[s]) \in Nat
        /\ DOMAIN ledger'[s] = 1 .. Len(ledger[s]) + 1
        /\ \A k \in 1 .. Len(ledger[s]) : ledger'[s][k] = ledger[s][k]
        /\ ledger'[s][Len(ledger[s]) + 1] = e
    BY <2>1, AppendProperties, LenProperties
  <2>3. \A k \in DOMAIN ledger'[s] : k \in DOMAIN ledger[s] \/ k = Len(ledger[s]) + 1
    BY <2>2
  <2>4. \A k \in DOMAIN ledger[s] : ledger'[s][k].batch # b
    BY <1>2, <2>2
  <2>5. ledger'[s][Len(ledger[s]) + 1].batch = b
    BY <2>1, <2>2
  <2>6. i \in DOMAIN ledger[s] /\ j \in DOMAIN ledger[s] => i = j
    BY <1>1, <2>2
  <2>. QED  BY <2>3, <2>4, <2>5, <2>6
<1>. QED  BY <1>3, <1>4

LEMMA ApplyOrder ==
    ASSUME Inv, Order, NEW c \in Clerks, Undisturbed(c), ApplySubmit(c),
           NEW b \in Batches, b = req[c].batch
    PROVE  Order'
<1>1. /\ status[b] = "DRAFT" /\ view[c].items = items[b] /\ returns[b] = {}
      /\ Moved(b) = {} /\ voucher[b] = None
  BY ApplyFacts DEF Undisturbed, Order, DraftsOK
<1>2. Moved(b)' = items[b] /\ \A d \in Batches : d # b => Moved(d)' = Moved(d)
  BY <1>1, ApplyMoves
<1>3. UNCHANGED <<items, returns, voucher>> /\ status' = [status EXCEPT ![b] = "SUBMITTED"]
  BY DEF ApplySubmit
<1>4. /\ status'[b] = "SUBMITTED" /\ \A d \in Batches : d # b => status'[d] = status[d]
  BY <1>1, <1>3 DEF Inv, TypeOK
<1>5. SubmittedIsMoved' /\ ReturnsShelved'
  BY <1>1, <1>2, <1>3, <1>4 DEF Order, OrderlyBatches, SubmittedIsMoved, ReturnsShelved
<1>6. VoucherIsMoved' /\ DraftsOK'
  BY <1>1, <1>2, <1>3, <1>4 DEF Order, OrderlyBatches, VoucherIsMoved, DraftsOK
<1>7. OneOpenBatch'
  BY <1>1, <1>3, <1>4 DEF Order, OrderlyBatches, OneOpenBatch
<1>8. MovedOnce'
  BY <1>1, ApplyOnce DEF Order, OrderlyBatches
<1>. QED  BY <1>5, <1>6, <1>7, <1>8 DEF Order, OrderlyBatches

LEMMA WorkerOrder ==
    ASSUME Order, TypeOK, NEW b \in Batches, BuildVoucher(b)
    PROVE  Order'
<1>1. /\ status[b] = "SUBMITTED" /\ voucher' = [voucher EXCEPT ![b] = items[b]]
      /\ UNCHANGED <<ledger, status, items, returns>>
  BY DEF BuildVoucher
<1>2. \A d \in Batches : Moved(d)' = Moved(d)
  BY <1>1 DEF Moved
<1>3. SubmittedIsMoved' /\ ReturnsShelved'
  BY <1>1, <1>2 DEF Order, OrderlyBatches, SubmittedIsMoved, ReturnsShelved
<1>4. VoucherIsMoved' /\ DraftsOK'
  BY <1>1, <1>2 DEF Order, OrderlyBatches, VoucherIsMoved, DraftsOK, SubmittedIsMoved, TypeOK
<1>5. OneOpenBatch' /\ MovedOnce'
  BY <1>1 DEF Order, OrderlyBatches, OneOpenBatch, MovedOnce
<1>. QED  BY <1>3, <1>4, <1>5 DEF Order, OrderlyBatches

(* The steps that only load or check leave the data alone; what they have  *)
(* found is so.                                                            *)
LEMMA CheckOrder ==
    ASSUME TypeOK, Order, NEW c \in Clerks, Undisturbed(c),
           \/ CheckScan(c) \/ CheckReturn(c) \/ CheckShelf(c) \/ ValidateSubmit(c) \/ Fail(c)
           \/ \E n \in 1 .. Cardinality(Serials) : CheckPick(c, n)
    PROVE  Order' /\ Undisturbed(c)'
<1> USE DEF dbVars
<1>1. UNCHANGED dbVars
  BY DEF CheckScan, CheckReturn, CheckShelf, ValidateSubmit, Fail, CheckPick
<1>2. Order'
  BY <1>1 DEF Order, DraftsOK, OrderlyBatches, SubmittedIsMoved, VoucherIsMoved, OneOpenBatch,
     ReturnsShelved, MovedOnce, Moved
<1>3. req[c] # None => req[c] \in Request
  BY RequestType
<1>4. CASE CheckScan(c)
  <2>1. /\ req'[c].batch = req[c].batch /\ req'[c].serials = req[c].serials
        /\ req'[c].op = "scan" /\ req[c] # None
    BY <1>3, <1>4 DEF CheckScan, Asked, TypeOK, Request
  <2>2. NotElsewhere(req[c].batch, req[c].serials)
    BY <1>4 DEF CheckScan, InOtherDraft, NotElsewhere
  <2>. QED  BY <1>1, <1>2, <2>1, <2>2 DEF Undisturbed, NotElsewhere
<1>5. ASSUME NEW n \in 1 .. Cardinality(Serials), CheckPick(c, n) PROVE Undisturbed(c)'
  <2> DEFINE S == {s \in FefoCandidates(TypeOf[req[c].batch]) :
                     Cardinality({t \in FefoCandidates(TypeOf[req[c].batch]) : t < s}) < n}
  <2>1. req' = [req EXCEPT ![c].pc = "checked", ![c].serials = S] /\ req[c].op = "fefo"
        /\ req[c] # None
    BY <1>5 DEF CheckPick, Asked
  <2>2. S \cap InDraft = {}
    BY DEF FefoCandidates
  <2> HIDE DEF S
  <2>3. req'[c].batch = req[c].batch /\ req'[c].serials = S /\ req'[c].op = "fefo"
    BY <1>3, <2>1 DEF TypeOK, Request
  <2>4. NotElsewhere(req[c].batch, S)
    BY <2>2 DEF InDraft, NotElsewhere
  <2>. QED  BY <1>1, <2>1, <2>3, <2>4 DEF Undisturbed, NotElsewhere
<1>6. CASE CheckReturn(c) \/ CheckShelf(c)
  <2>1. /\ req'[c].batch = req[c].batch /\ req'[c].op \in {"return", "shelf"} /\ req[c] # None
    <3>1. CASE CheckReturn(c)
      BY <1>3, <3>1 DEF CheckReturn, Asked, TypeOK, Request
    <3>2. CASE CheckShelf(c)
      <4>1. PICK S : req' = [req EXCEPT ![c] = [@ EXCEPT !.pc = "checked", !.serials = S]]
        BY <3>2 DEF CheckShelf
      <4>. QED  BY <1>3, <3>2, <4>1 DEF CheckShelf, Asked, TypeOK, Request
    <3>. QED  BY <1>6, <3>1, <3>2
  <2>. QED  BY <1>1, <1>2, <2>1 DEF Undisturbed
<1>7. CASE ValidateSubmit(c)
  <2>1. /\ req'[c].batch = req[c].batch /\ req'[c].op = "submit" /\ req[c] # None
        /\ req[c].op = "submit" /\ view' = view
    BY <1>3, <1>7 DEF ValidateSubmit, Asked, TypeOK, Request
  <2>2. returns[req[c].batch] = {}
    BY <1>7 DEF ValidateSubmit, ReturnsComplete
  <2>. QED  BY <1>1, <1>2, <2>1, <2>2 DEF Undisturbed
<1>8. CASE Fail(c)
  BY <1>2, <1>8, DoneKeeps DEF Fail, Undisturbed
<1>. QED  BY <1>2, <1>4, <1>5, <1>6, <1>7, <1>8

(* The steps that write inside their draft.                                *)
LEMMA WriteOrder ==
    ASSUME TypeOK, Order, NEW c \in Clerks, Undisturbed(c),
           \/ Insert(c) \/ Remove(c) \/ Rate(c) \/ Return(c)
           \/ \E l \in Shelves : ScanShelf(c, l)
    PROVE  Order'
<1> DEFINE b == req[c].batch
           S == req[c].serials
<1>1. req[c] # None /\ UNCHANGED <<ledger, status, voucher>>
  BY DEF Insert, Remove, Rate, Return, ScanShelf, Asked
<1>2. b \in Batches /\ status[b] = "DRAFT" /\ S \subseteq Serials
  BY <1>1, RequestType DEF Undisturbed
<1>3. \A d \in Batches : d # b => items'[d] = items[d]
  BY DEF Insert, Remove, Rate, Return, ScanShelf, DropItems, TypeOK
<1>4. \A d \in Batches : d # b => returns'[d] = returns[d]
  BY DEF Insert, Remove, Rate, Return, ScanShelf, TypeOK
<1>5. OneOpenBatch'
  <2>1. CASE Insert(c)
    <3>1. items' = [items EXCEPT ![b] = @ \cup S] /\ NotElsewhere(b, S)
      BY <2>1, <1>1 DEF Insert, Asked, Undisturbed
    <3>2. items'[b] = items[b] \cup S
      BY <1>2, <3>1 DEF TypeOK
    <3> HIDE DEF b, S
    <3>. QED  BY <1>1, <1>2, <1>3, <3>1, <3>2 DEF Order, OrderlyBatches, OneOpenBatch, NotElsewhere
  <2>2. CASE ~Insert(c)
    <3>1. items'[b] \subseteq items[b]
      BY <2>2, <1>2 DEF Remove, Rate, Return, ScanShelf, DropItems, TypeOK
    <3> HIDE DEF b, S
    <3>. QED  BY <1>1, <1>3, <3>1 DEF Order, OrderlyBatches, OneOpenBatch
  <2>. QED  BY <2>1, <2>2
<1>. HIDE DEF b, S
<1>. QED  BY <1>1, <1>2, <1>3, <1>4, <1>5, DraftStep

LEMMA OrderStep ==
    ASSUME Alone, Inv, OrderInv, [Next]_vars
    PROVE  OrderInv'
<1> USE DEF OrderInv
<1>0. TypeOK /\ \A c, d \in Clerks : c = d
  BY DEF Inv, Alone
<1>1. ASSUME NEW c \in Clerks, Undisturbed(c)' PROVE \A d \in Clerks : Undisturbed(d)'
  BY <1>0, <1>1
<1>2. ASSUME NEW c \in Clerks, NEW op \in Operations, NEW b \in Batches, NEW s \in Serials,
             Open(c, op, b, s)
      PROVE  OrderInv'
  <2>1. UNCHANGED dbVars /\ status[b] = "DRAFT"
    BY <1>2 DEF Open
  <2>2. Order'
    BY <2>1 DEF Order, DraftsOK, OrderlyBatches, SubmittedIsMoved, VoucherIsMoved, OneOpenBatch,
       ReturnsShelved, MovedOnce, Moved, dbVars
  <2>3. /\ req'[c].batch = b /\ req'[c].pc = "open" /\ req'[c].op = op
        /\ op = "submit" => view'[c].items = items[b]
    BY <1>0, <1>2 DEF Open, TypeOK
  <2>4. Undisturbed(c)'
    BY <2>1, <2>3 DEF Undisturbed, dbVars
  <2>. QED  BY <1>1, <2>2, <2>4
<1>3. ASSUME NEW c \in Clerks, Handle(c) PROVE OrderInv'
  <2>1. CASE \/ CheckScan(c) \/ CheckReturn(c) \/ CheckShelf(c) \/ ValidateSubmit(c) \/ Fail(c)
             \/ \E n \in 1 .. Cardinality(Serials) : CheckPick(c, n)
    BY <1>0, <1>1, <2>1, CheckOrder
  <2>2. CASE \/ Insert(c) \/ Remove(c) \/ Rate(c) \/ Return(c)
             \/ \E l \in Shelves : ScanShelf(c, l)
    <3>1. Done(c)
      BY <2>2 DEF Insert, Remove, Rate, Return, ScanShelf
    <3>2. Undisturbed(c)'
      BY <1>0, <3>1, DoneKeeps DEF Undisturbed
    <3>. QED  BY <1>0, <1>1, <2>2, <3>2, WriteOrder
  <2>3. CASE ApplySubmit(c)
    <3>1. Undisturbed(c)'
      BY <1>0, <2>3, DoneKeeps DEF ApplySubmit, Undisturbed
    <3>2. req[c].batch \in Batches
      BY <2>3, ApplyFacts
    <3>. QED  BY <1>1, <2>3, <3>1, <3>2, ApplyOrder
  <2>. QED  BY <1>3, <2>1, <2>2, <2>3 DEF Handle
<1>4. ASSUME NEW b \in Batches, BuildVoucher(b) PROVE OrderInv'
  <2>1. \A c \in Clerks : Undisturbed(c)'
    BY <1>4 DEF BuildVoucher, Undisturbed, NotElsewhere
  <2>. QED  BY <1>0, <1>4, <2>1, WorkerOrder
<1>5. CASE UNCHANGED vars
  <2>1. Order'
    BY <1>5 DEF Order, DraftsOK, OrderlyBatches, SubmittedIsMoved, VoucherIsMoved, OneOpenBatch,
       ReturnsShelved, MovedOnce, Moved, vars, dbVars
  <2>2. \A c \in Clerks : Undisturbed(c)'
    BY <1>5 DEF Undisturbed, NotElsewhere, vars, dbVars
  <2>. QED  BY <2>1, <2>2
<1>. QED  BY <1>2, <1>3, <1>4, <1>5 DEF Next

LEMMA InitOrder == Init => OrderInv
<1> SUFFICES ASSUME Init PROVE OrderInv
  OBVIOUS
<1>1. \A b \in Batches : Moved(b) = {}
  BY DEF Init, Moved
<1>2. Order
  BY <1>1 DEF Init, Order, DraftsOK, OrderlyBatches, SubmittedIsMoved, VoucherIsMoved,
     OneOpenBatch, ReturnsShelved, MovedOnce
<1>. QED  BY <1>2 DEF Init, OrderInv, Undisturbed

(* When requests come one at a time, a submitted batch is at once its      *)
(* items, its voucher and its moves, complete and one time only, for any   *)
(* number of batches and serials (submit_batch with the scans before it).  *)
THEOREM OrderlyBatchesCorrect ==
    ASSUME Alone
    PROVE  Spec => []OrderlyBatches
<1>1. OrderInv => OrderlyBatches
  BY DEF OrderInv, Order
<1>2. Inv /\ OrderInv /\ [Next]_vars => OrderInv'
  BY OrderStep
<1>. QED  BY <1>1, <1>2, InitOrder, Invariance, PTL DEF Spec

-----------------------------------------------------------------------------
(* The worker is one side.                                                 *)
LEMMA WorkerStarts == SubmitsInit => W!Init
BY DEF SubmitsInit

LEMMA WorkerMoves == [SubmitsNext]_everything => [W!Next]_(W!vars)
BY DEF SubmitsNext, everything, worker, W!vars

-----------------------------------------------------------------------------
(* Type correctness.                                                       *)

LEMMA LimitIsNat == \A k \in W!Kinds : W!Limit[k] \in Nat
BY WorkerAssumption DEF W!Limit, W!Kinds

LEMMA Counted ==
    ASSUME W!TypeOK, NEW k \in W!Kinds
    PROVE  W!Limit[k] \in Nat /\ work[k] \in Nat /\ work[k] <= W!Limit[k]
BY LimitIsNat DEF W!TypeOK

LEMMA Counters ==
    ASSUME W!TypeOK
    PROVE  /\ MaxChecks \in Nat /\ MaxStarts \in Nat /\ MaxFailures \in Nat
           /\ starts \in 0..MaxStarts /\ checks \in 0..MaxChecks /\ failures \in 0..MaxFailures
BY WorkerAssumption DEF W!TypeOK

(* One unit of work more, where there is room, or one less.                *)
LEMMA Count ==
    ASSUME W!TypeOK, NEW k \in W!Kinds, NEW n \in Nat, n <= W!Limit[k],
           work' = [work EXCEPT ![k] = n]
    PROVE  work' \in [W!Kinds -> Nat] /\ (\A i \in W!Kinds : work'[i] <= W!Limit[i])
<1>1. work' \in [W!Kinds -> Nat]
  BY DEF W!TypeOK
<1>2. ASSUME NEW i \in W!Kinds PROVE work'[i] <= W!Limit[i]
  <2>1. CASE i = k
    BY <2>1 DEF W!TypeOK
  <2>2. CASE i # k
    BY <2>2 DEF W!TypeOK
  <2>. QED  BY <2>1, <2>2
<1>. QED  BY <1>1, <1>2

LEMMA TypeInit == W!Init => W!TypeOK
BY WorkerAssumption, LimitIsNat DEF W!Init, W!TypeOK, W!Places, W!Posted

LEMMA TypeThread ==
    ASSUME W!TypeOK, NEW t \in Threads,
           W!Gateway(t) \/ W!Jobs(t) \/ W!BatchQueue(t) \/ W!Ask(t) \/ W!Answer(t)
    PROVE  /\ work' \in [W!Kinds -> Nat] /\ (\A k \in W!Kinds : work'[k] <= W!Limit[k])
           /\ prefer' \in BOOLEAN
           /\ at' \in [Threads -> W!Places]
           /\ took' \in [Threads -> (W!Scanning \X W!Kinds) \cup {None}]
           /\ lock' \in Threads \cup {None}
<1> USE DEF W!TypeOK, W!Places
<1>1. ASSUME NEW k \in W!Kinds, W!Take(t, k), at[t] \in W!Scanning
      PROVE  /\ work' \in [W!Kinds -> Nat] /\ (\A i \in W!Kinds : work'[i] <= W!Limit[i])
             /\ at' \in [Threads -> W!Places]
             /\ took' \in [Threads -> (W!Scanning \X W!Kinds) \cup {None}]
             /\ prefer' = prefer /\ lock' = lock
  <2>1. work[k] - 1 \in Nat /\ work[k] - 1 <= W!Limit[k] /\ work' = [work EXCEPT ![k] = work[k] - 1]
    <3> HIDE DEF W!TypeOK, W!Places
    <3>1. W!Limit[k] \in Nat /\ work[k] \in Nat /\ work[k] <= W!Limit[k] /\ work[k] > 0
      BY <1>1, Counted DEF W!Take
    <3>. QED  BY <1>1, <3>1 DEF W!Take
  <2>2. work' \in [W!Kinds -> Nat] /\ (\A i \in W!Kinds : work'[i] <= W!Limit[i])
    BY <2>1, Count
  <2>. QED  BY <1>1, <2>2 DEF W!Take
<1>2. ASSUME NEW p \in W!Places, W!GoTo(t, p)
      PROVE  at' \in [Threads -> W!Places] /\ UNCHANGED <<work, took, prefer, lock>>
  BY <1>2 DEF W!GoTo
<1>3. CASE W!Gateway(t)
  BY <1>1, <1>2, <1>3 DEF W!Gateway, W!Scanning, W!Kinds
<1>4. CASE W!Jobs(t)
  BY <1>1, <1>2, <1>4 DEF W!Jobs, W!Scanning, W!Kinds, W!Over
<1>5. CASE W!BatchQueue(t)
  BY <1>1, <1>2, <1>5 DEF W!BatchQueue, W!Scanning, W!Kinds, W!Over
<1>6. CASE W!Ask(t)
  BY <1>6 DEF W!Ask
<1>7. CASE W!Answer(t)
  BY <1>7 DEF W!Answer, W!Preferred, W!Over
<1>. QED  BY <1>3, <1>4, <1>5, <1>6, <1>7

LEMMA TypeNext == W!TypeOK /\ [W!Next]_(W!vars) => W!TypeOK'
<1> SUFFICES ASSUME W!TypeOK, [W!Next]_(W!vars) PROVE W!TypeOK'
  OBVIOUS
<1> USE DEF W!TypeOK, W!threadVars, W!counters
<1>1. ASSUME NEW r \in Requesters, NEW k \in W!Announced, W!Post(r, k) PROVE W!TypeOK'
  <2>1. /\ k \in W!Kinds /\ work[k] + 1 \in Nat /\ work[k] + 1 <= W!Limit[k]
        /\ work' = [work EXCEPT ![k] = work[k] + 1]
    <3> HIDE DEF W!TypeOK
    <3>1. k \in W!Kinds
      BY DEF W!Announced, W!Kinds
    <3>2. W!Limit[k] \in Nat /\ work[k] \in Nat /\ work[k] < W!Limit[k]
      BY <1>1, <3>1, Counted DEF W!Post, W!Room
    <3>. QED  BY <1>1, <3>1, <3>2 DEF W!Post
  <2>2. work' \in [W!Kinds -> Nat] /\ (\A i \in W!Kinds : work'[i] <= W!Limit[i])
    BY <2>1, Count
  <2>3. checks' \in 0..MaxChecks
    <3> HIDE DEF W!TypeOK
    <3>. QED  BY <1>1, Counters DEF W!Post
  <2>. QED  BY <1>1, <2>2, <2>3 DEF W!Post
<1>2. ASSUME NEW r \in Requesters, W!Repeat(r) \/ W!ReadEvent(r) \/ W!SetEvent(r) PROVE W!TypeOK'
  <2>1. CASE W!Repeat(r)
    BY <2>1 DEF W!Repeat
  <2>2. CASE W!ReadEvent(r)
    BY <2>2 DEF W!ReadEvent
  <2>3. CASE W!SetEvent(r)
    BY <2>3, WorkerAssumption DEF W!SetEvent, W!Posted
  <2>. QED  BY <1>2, <2>1, <2>2, <2>3
<1>3. CASE W!Ripen
  <2>1. /\ "ripe" \in W!Kinds /\ work["ripe"] + 1 \in Nat /\ work["ripe"] + 1 <= W!Limit["ripe"]
        /\ work' = [work EXCEPT !["ripe"] = work["ripe"] + 1]
    <3> HIDE DEF W!TypeOK
    <3>1. "ripe" \in W!Kinds
      BY DEF W!Kinds
    <3>2. W!Limit["ripe"] \in Nat /\ work["ripe"] \in Nat /\ work["ripe"] < W!Limit["ripe"]
      BY <1>3, <3>1, Counted DEF W!Ripen, W!Room
    <3>. QED  BY <1>3, <3>1, <3>2 DEF W!Ripen
  <2>2. work' \in [W!Kinds -> Nat] /\ (\A i \in W!Kinds : work'[i] <= W!Limit[i])
    BY <2>1, Count
  <2>. QED  BY <1>3, <2>2 DEF W!Ripen
<1>4. ASSUME NEW t \in Threads, W!ThreadStep(t) PROVE W!TypeOK'
  BY <1>4, TypeThread DEF W!ThreadStep
<1>5. ASSUME NEW t \in Threads, W!Fail(t) PROVE W!TypeOK'
  <2>1. failures' \in 0..MaxFailures
    <3> HIDE DEF W!TypeOK
    <3>. QED  BY <1>5, Counters DEF W!Fail
  <2>. QED  BY <1>5, <2>1 DEF W!Fail, W!Places, W!Over
<1>6. ASSUME NEW t \in Threads, W!Leftover(t) \/ W!BeginPass(t) \/ W!EndPass(t) PROVE W!TypeOK'
  BY <1>6 DEF W!Leftover, W!GoTo, W!BeginPass, W!EndPass, W!ClearEvent, W!Places, W!Scanning
<1>7. CASE W!Wake \/ W!IntervalEnds \/ W!Stop
  BY <1>7 DEF W!Wake, W!IntervalEnds, W!Stop
<1>8. CASE W!Start
  <2>1. starts' \in 0..MaxStarts /\ event' \in 1..MaxStarts \cup {None}
    <3> HIDE DEF W!TypeOK
    <3>1. MaxStarts \in Nat /\ starts \in 0..MaxStarts
      BY Counters
    <3>2. starts < MaxStarts /\ starts' = starts + 1 /\ event' = starts + 1
      BY <1>8 DEF W!Start
    <3>3. starts + 1 \in 0..MaxStarts /\ starts + 1 \in 1..MaxStarts
      BY <3>1, <3>2
    <3>. QED  BY <3>2, <3>3
  <2>2. /\ loop' = "first_pass"
        /\ UNCHANGED <<work, prefer, set, pass, at, took, lock, telling, checks, failures>>
    BY <1>8 DEF W!Start
  <2>3. event' \in 1..MaxStarts \cup {None}
    BY <2>1
  <2>4. starts' \in 0..MaxStarts
    BY <2>1
  <2>. HIDE DEF W!TypeOK
  <2>5. W!TypeOK
    OBVIOUS
  <2>. QED  BY <2>2, <2>3, <2>4, <2>5 DEF W!TypeOK
<1>9. CASE UNCHANGED W!vars
  BY <1>9 DEF W!vars
<1>. QED  BY <1>1, <1>2, <1>3, <1>4, <1>5, <1>6, <1>7, <1>8, <1>9
          DEF W!Next, W!RequestNext, W!ThreadNext, W!LoopStep

(* The variables of the loop, its threads and its counters keep their      *)
(* types; the queues keep their limits.                                    *)
THEOREM WorkerTypeCorrect == SubmitsSpec => []W!TypeOK
BY WorkerStarts, WorkerMoves, TypeInit, TypeNext, PTL DEF SubmitsSpec

-----------------------------------------------------------------------------
(* One request at a time.                                                  *)

AskerHoldsLock == \A t \in Threads : at[t] = "asking" => lock = t

LEMMA AskerStep == W!TypeOK /\ AskerHoldsLock /\ [W!Next]_(W!vars) => AskerHoldsLock'
<1> SUFFICES ASSUME W!TypeOK, AskerHoldsLock, [W!Next]_(W!vars) PROVE AskerHoldsLock'
  OBVIOUS
<1> USE DEF AskerHoldsLock, W!TypeOK, W!threadVars
<1>1. ASSUME NEW t \in Threads, W!Gateway(t) \/ W!Jobs(t) \/ W!BatchQueue(t) PROVE AskerHoldsLock'
  <2>1. at[t] \in W!Scanning /\ lock' = lock
    BY <1>1 DEF W!Gateway, W!Jobs, W!BatchQueue, W!Take, W!GoTo, W!Scanning
  <2>2. PICK p \in W!Places \ {"asking"} : at' = [at EXCEPT ![t] = p]
    BY <1>1 DEF W!Gateway, W!Jobs, W!BatchQueue, W!Take, W!GoTo, W!Places, W!Scanning, W!Over
  <2>. QED  BY <2>1, <2>2
<1>2. ASSUME NEW t \in Threads, W!Ask(t) PROVE AskerHoldsLock'
  <2>1. \A u \in Threads : at[u] # "asking"
    BY <1>2, WorkerAssumption DEF W!Ask
  <2>. QED  BY <1>2, <2>1 DEF W!Ask
<1>3. ASSUME NEW t \in Threads, W!Answer(t) PROVE AskerHoldsLock'
  BY <1>3 DEF W!Answer
<1>4. ASSUME NEW t \in Threads, W!Fail(t) PROVE AskerHoldsLock'
  BY <1>4 DEF W!Fail
<1>5. ASSUME NEW t \in Threads, W!Leftover(t) \/ W!BeginPass(t) \/ W!EndPass(t)
      PROVE  AskerHoldsLock'
  BY <1>5 DEF W!Leftover, W!GoTo, W!BeginPass, W!EndPass
<1>6. CASE W!Wake \/ W!IntervalEnds \/ W!Stop \/ W!Start \/ W!Ripen
  BY <1>6 DEF W!Wake, W!IntervalEnds, W!Stop, W!Start, W!Ripen
<1>7. CASE W!RequestNext
  BY <1>7 DEF W!RequestNext, W!Post, W!Repeat, W!ReadEvent, W!SetEvent
<1>8. CASE UNCHANGED W!vars
  BY <1>8 DEF W!vars
<1>. QED  BY <1>1, <1>2, <1>3, <1>4, <1>5, <1>6, <1>7, <1>8
        DEF W!Next, W!ThreadNext, W!ThreadStep, W!LoopStep

(* TALLY_REQUEST_LOCK keeps the requests of the loop's thread and of the   *)
(* thread a stopped worker left apart.                                     *)
THEOREM OneRequestCorrect == SubmitsSpec => []OneRequest
<1>1. W!Init => AskerHoldsLock
  BY DEF W!Init, AskerHoldsLock
<1>2. W!TypeOK /\ AskerHoldsLock => OneRequest
  BY DEF W!TypeOK, AskerHoldsLock, OneRequest, W!OneRequest
<1>. QED
  BY <1>1, <1>2, WorkerStarts, WorkerMoves, AskerStep, WorkerTypeCorrect, PTL DEF SubmitsSpec

-----------------------------------------------------------------------------
(* No lost wake-up.                                                        *)

(* Where a pass still has the look at a queue before it, or has found      *)
(* something, after which the loop starts over without waiting.            *)
Ahead(k) ==
    IF k = "gateway" THEN {"gateway"}
    ELSE {"gateway", "jobs", "batches", IF k = "job" THEN "last_jobs" ELSE "last_batches"}
StartsOver == {"taken", "asking", "found", "failed"}

(* In the pass after the event was cleared, what it no longer looks at has *)
(* been announced since.                                                   *)
SecondLook ==
    loop = "second_pass" =>
        \A k \in W!Announced : work[k] > 0 =>
            \/ W!WakeComing
            \/ pass = None
            \/ at[pass] \in Ahead(k) \cup StartsOver

PassRuns ==
    /\ loop # "stopped" => event # None
    /\ pass # None => at[pass] # "idle" /\ loop \in {"first_pass", "second_pass"}

WakeInv == PassRuns /\ SecondLook /\ W!NoLostWakeup

(* A wake-up that is coming still comes, unless the event is cleared.      *)
LEMMA StillComing ==
    ASSUME W!TypeOK, [W!Next]_(W!vars), W!WakeComing, event' = event,
           event # None, set \subseteq set'
    PROVE  W!WakeComing'
<1>1. CASE event \in set
  BY <1>1 DEF W!WakeComing
<1>2. ASSUME NEW r \in Requesters, telling[r] = W!Posted \/ telling[r] = event
      PROVE  W!WakeComing'
  <2>1. CASE telling'[r] = telling[r]
    BY <1>2, <2>1 DEF W!WakeComing
  <2>2. CASE telling'[r] # telling[r]
    <3>1. event \in 1..MaxStarts /\ event # W!Posted /\ telling[r] # None
      <4>1. event \in 1..MaxStarts
        BY DEF W!TypeOK
      <4>2. event \in Nat /\ event # 0
        BY <4>1, Counters
      <4>3. telling[r] = 0 \/ telling[r] = event
        BY <1>2 DEF W!Posted
      <4>4. None # 0 /\ None # event
        BY <4>2, WorkerAssumption
      <4>. QED  BY <4>1, <4>2, <4>3, <4>4 DEF W!Posted
    <3>2. \A q \in Requesters :
             (\E k \in W!Announced : W!Post(q, k)) \/ W!Repeat(q) => telling'[r] = telling[r]
      BY <3>1 DEF W!Post, W!Repeat, W!TypeOK
    <3>3. W!RequestNext
      BY <2>2 DEF W!Next, W!vars, W!Ripen, W!ThreadNext, W!ThreadStep, W!Fail, W!Leftover, W!LoopStep,
                  W!BeginPass,
                  W!EndPass, W!Wake, W!IntervalEnds, W!Stop, W!Start
    <3>4. PICK q \in Requesters : W!ReadEvent(q) \/ W!SetEvent(q)
      BY <2>2, <3>2, <3>3 DEF W!RequestNext
    <3>5. q = r
      BY <2>2, <3>4 DEF W!ReadEvent, W!SetEvent, W!TypeOK
    <3>6. CASE W!ReadEvent(r)
      BY <3>6 DEF W!ReadEvent, W!TypeOK, W!WakeComing
    <3>7. CASE W!SetEvent(r)
      <4>1. telling[r] = event
        BY <1>2, <3>7 DEF W!SetEvent
      <4>. QED  BY <3>7, <4>1 DEF W!SetEvent, W!WakeComing
    <3>. QED  BY <3>4, <3>5, <3>6, <3>7
  <2>. QED  BY <2>1, <2>2
<1>. QED  BY <1>1, <1>2 DEF W!WakeComing

(* Steps that neither begin or end a pass nor move its thread.             *)
LEMMA WakeKept ==
    ASSUME W!TypeOK, WakeInv, [W!Next]_(W!vars),
           event' = event, loop' = loop, pass' = pass, set \subseteq set',
           pass # None => at'[pass] = at[pass],
           \A k \in W!Announced : work'[k] > 0 => work[k] > 0 \/ W!WakeComing'
    PROVE  WakeInv'
<1>1. PassRuns'
  BY DEF WakeInv, PassRuns
<1>2. loop # "stopped" /\ W!WakeComing => W!WakeComing'
  BY StillComing DEF WakeInv, PassRuns
<1>3. SecondLook'
  BY <1>2 DEF WakeInv, SecondLook
<1>4. W!NoLostWakeup'
  BY <1>2 DEF WakeInv, W!NoLostWakeup
<1>. QED  BY <1>1, <1>3, <1>4 DEF WakeInv

(* What a look at one queue leaves ahead for the others.                   *)
LEMMA NextPlace ==
    ASSUME NEW k \in W!Announced
    PROVE  /\ k # "gateway" => "jobs" \in Ahead(k) /\ "batches" \in Ahead(k)
           /\ k # "job" => /\ "jobs" \in Ahead(k) => "last_batches" \in Ahead(k)
                           /\ "last_jobs" \notin Ahead(k)
           /\ k # "batch" => /\ "batches" \in Ahead(k) => "last_jobs" \in Ahead(k)
                             /\ "last_batches" \notin Ahead(k)
<1>1. CASE k = "gateway"
  BY <1>1 DEF Ahead
<1>2. CASE k = "job"
  BY <1>2 DEF Ahead
<1>3. CASE k = "batch"
  BY <1>3 DEF Ahead
<1>. QED  BY <1>1, <1>2, <1>3 DEF W!Announced

LEMMA WakeInit == W!Init => WakeInv
BY DEF W!Init, WakeInv, PassRuns, SecondLook, W!NoLostWakeup

LEMMA WakeRequest ==
    ASSUME W!TypeOK, WakeInv, [W!Next]_(W!vars), W!RequestNext \/ W!Ripen
    PROVE  WakeInv'
<1> USE DEF W!threadVars
<1>1. ASSUME NEW r \in Requesters, NEW k \in W!Announced, W!Post(r, k) PROVE WakeInv'
  <2>1. W!WakeComing'
    BY <1>1 DEF W!Post, W!WakeComing, W!TypeOK
  <2>2. UNCHANGED <<event, loop, pass, set, at>>
    BY <1>1 DEF W!Post
  <2>. QED  BY <2>1, <2>2, WakeKept
<1>2. ASSUME NEW r \in Requesters, W!Repeat(r) \/ W!ReadEvent(r) \/ W!SetEvent(r) PROVE WakeInv'
  <2>1. UNCHANGED <<event, loop, pass, at, work>> /\ set \subseteq set'
    BY <1>2 DEF W!Repeat, W!ReadEvent, W!SetEvent
  <2>. QED  BY <2>1, WakeKept
<1>3. CASE W!Ripen
  <2>1. UNCHANGED <<event, loop, pass, at, set>> /\ \A k \in W!Announced : work'[k] = work[k]
    BY <1>3 DEF W!Ripen, W!TypeOK, W!Announced, W!Kinds
  <2>. QED  BY <2>1, WakeKept
<1>. QED  BY <1>1, <1>2, <1>3 DEF W!RequestNext

(* Threads only take work away.                                            *)
LEMMA ThreadTakes ==
    ASSUME W!TypeOK, NEW t \in Threads, W!ThreadStep(t) \/ W!Fail(t) \/ W!Leftover(t),
           NEW k \in W!Announced
    PROVE  work'[k] > 0 => work[k] > 0
<1>1. k \in W!Kinds /\ work[k] \in Nat
  BY Counted DEF W!Announced, W!Kinds
<1>2. ASSUME NEW i \in W!Kinds, W!Take(t, i) PROVE work'[k] > 0 => work[k] > 0
  BY <1>1, <1>2, Counted DEF W!Take, W!TypeOK
<1>3. CASE work' = work
  BY <1>3
<1>4. work' = work \/ \E i \in W!Kinds : W!Take(t, i)
  BY DEF W!ThreadStep, W!Gateway, W!Jobs, W!BatchQueue, W!Ask, W!Answer,
         W!Fail, W!Leftover, W!GoTo, W!Kinds
<1>. QED  BY <1>2, <1>3, <1>4

(* The thread of the pass looks at one queue after the other; it leaves a  *)
(* queue behind only when it is empty.                                     *)
LEMMA WakePass ==
    ASSUME W!TypeOK, WakeInv, [W!Next]_(W!vars), NEW t \in Threads, t = pass,
           W!ThreadStep(t) \/ W!Fail(t)
    PROVE  WakeInv'
<1>1. UNCHANGED <<event, set, loop, pass, telling>>
  BY DEF W!ThreadStep, W!Fail
<1>2. W!WakeComing' <=> W!WakeComing
  BY <1>1 DEF W!WakeComing
<1>3. t # None
  BY WorkerAssumption
<1>4. CASE at'[t] \in StartsOver
  <2>1. at'[t] # "idle"
    BY <1>4 DEF StartsOver
  <2>2. W!NoLostWakeup'
    BY <1>1, <1>2, ThreadTakes DEF WakeInv, W!NoLostWakeup
  <2>. QED  BY <1>1, <1>4, <2>1, <2>2 DEF WakeInv, PassRuns, SecondLook
<1>5. ASSUME NEW p \in {"jobs", "batches", "last_batches", "last_jobs", "nothing"}, W!GoTo(t, p),
             NEW q \in W!Kinds, work[q] = 0,
             \A k \in W!Announced \ {q} : at[t] \in Ahead(k) => p \in Ahead(k),
             at[t] \notin StartsOver
      PROVE  WakeInv'
  <2>1. at'[t] = p /\ work' = work
    BY <1>5 DEF W!GoTo, W!TypeOK
  <2>2. PassRuns'
    BY <1>1, <2>1 DEF WakeInv, PassRuns
  <2>3. W!NoLostWakeup'
    BY <1>1, <1>2, <2>1 DEF WakeInv, W!NoLostWakeup
  <2>4. \A k \in W!Announced : work[k] > 0 => k # q
    BY <1>5
  <2>5. SecondLook'
    BY <1>1, <1>2, <1>3, <1>5, <2>1, <2>4 DEF WakeInv, SecondLook
  <2>. QED  BY <2>2, <2>3, <2>5 DEF WakeInv
<1>6. ASSUME NEW k \in W!Kinds, W!Take(t, k) PROVE WakeInv'
  BY <1>4, <1>6 DEF W!Take, W!TypeOK, StartsOver
<1>7. CASE W!Gateway(t)
  <2>1. CASE work["gateway"] = 0 /\ W!GoTo(t, IF prefer THEN "jobs" ELSE "batches")
    <3>1. PICK p \in {"jobs", "batches"} : p = IF prefer THEN "jobs" ELSE "batches"
      OBVIOUS
    <3>2. at[t] \in {"gateway"}
      BY <1>7 DEF W!Gateway
    <3>3. \A k \in W!Announced \ {"gateway"} : at[t] \in Ahead(k) => p \in Ahead(k)
      BY <3>1, <3>2, NextPlace
    <3>4. at[t] \notin StartsOver /\ "gateway" \in W!Kinds
      BY <3>2 DEF StartsOver, W!Kinds
    <3>. QED  BY <1>5, <2>1, <3>1, <3>3, <3>4
  <2>. QED  BY <1>6, <1>7, <2>1 DEF W!Gateway, W!Kinds
<1>8. CASE W!Jobs(t)
  <2>1. CASE work["job"] = 0 /\ W!GoTo(t, IF at[t] = "jobs" THEN "last_batches" ELSE "nothing")
    <3>1. PICK p \in {"last_batches", "nothing"} :
                p = IF at[t] = "jobs" THEN "last_batches" ELSE "nothing"
      OBVIOUS
    <3>2. at[t] \in {"jobs", "last_jobs"}
      BY <1>8 DEF W!Jobs
    <3>3. \A k \in W!Announced \ {"job"} : at[t] \in Ahead(k) => p \in Ahead(k)
      BY <3>1, <3>2, NextPlace
    <3>4. at[t] \notin StartsOver /\ "job" \in W!Kinds
      BY <3>2 DEF StartsOver, W!Kinds
    <3>. QED  BY <1>5, <2>1, <3>1, <3>3, <3>4
  <2>. QED  BY <1>6, <1>8, <2>1 DEF W!Jobs, W!Kinds
<1>9. CASE W!BatchQueue(t)
  <2>1. CASE work["batch"] = 0 /\ W!GoTo(t, IF at[t] = "batches" THEN "last_jobs" ELSE "nothing")
    <3>1. PICK p \in {"last_jobs", "nothing"} :
                p = IF at[t] = "batches" THEN "last_jobs" ELSE "nothing"
      OBVIOUS
    <3>2. at[t] \in {"batches", "last_batches"}
      BY <1>9 DEF W!BatchQueue
    <3>3. \A k \in W!Announced \ {"batch"} : at[t] \in Ahead(k) => p \in Ahead(k)
      BY <3>1, <3>2, NextPlace
    <3>4. at[t] \notin StartsOver /\ "batch" \in W!Kinds
      BY <3>2 DEF StartsOver, W!Kinds
    <3>. QED  BY <1>5, <2>1, <3>1, <3>3, <3>4
  <2>. QED  BY <1>6, <1>9, <2>1 DEF W!BatchQueue, W!Kinds
<1>10. CASE W!Ask(t) \/ W!Answer(t) \/ W!Fail(t)
  BY <1>4, <1>10 DEF W!Ask, W!Answer, W!Fail, W!TypeOK, StartsOver
<1>. QED  BY <1>7, <1>8, <1>9, <1>10 DEF W!ThreadStep

LEMMA WakeLoop ==
    ASSUME W!TypeOK, WakeInv, [W!Next]_(W!vars), W!LoopStep \/ W!Stop \/ W!Start
    PROVE  WakeInv'
<1> USE DEF W!threadVars
<1>1. ASSUME NEW t \in Threads, W!BeginPass(t) PROVE WakeInv'
  <2>1. /\ at'[t] = "gateway" /\ pass' = t /\ loop' = loop /\ UNCHANGED event
        /\ loop \in {"first_pass", "second_pass"}
    BY <1>1 DEF W!BeginPass, W!TypeOK
  <2>2. \A k \in W!Announced : "gateway" \in Ahead(k)
    BY DEF W!Announced, Ahead
  <2>. QED  BY <2>1, <2>2 DEF WakeInv, PassRuns, SecondLook, W!NoLostWakeup
<1>2. ASSUME NEW t \in Threads, W!EndPass(t) PROVE WakeInv'
  <2>1. pass' = None /\ UNCHANGED <<event, work, telling>>
    BY <1>2 DEF W!EndPass
  <2>2. CASE loop' = "waiting"
    <3>1. loop = "second_pass" /\ pass = t /\ at[t] = "nothing" /\ set' = set
      BY <1>2, <2>2, WorkerAssumption DEF W!EndPass, W!ClearEvent, WakeInv, PassRuns
    <3>2. \A k \in W!Announced : at[t] \notin Ahead(k) \cup StartsOver
      BY <3>1 DEF W!Announced, Ahead, StartsOver
    <3>3. W!WakeComing' <=> W!WakeComing
      BY <2>1, <3>1 DEF W!WakeComing
    <3>4. W!NoLostWakeup'
      BY <2>1, <3>1, <3>2, <3>3, WorkerAssumption DEF WakeInv, SecondLook, W!NoLostWakeup
    <3>. QED  BY <2>1, <2>2, <3>1, <3>4 DEF WakeInv, PassRuns, SecondLook
  <2>3. CASE loop' # "waiting"
    <3>1. event # None
      BY <1>2, WorkerAssumption DEF W!EndPass, WakeInv, PassRuns
    <3>. QED  BY <2>1, <2>3, <3>1 DEF WakeInv, PassRuns, SecondLook, W!NoLostWakeup
  <2>. QED  BY <2>2, <2>3
<1>3. CASE W!Wake \/ W!IntervalEnds
  BY <1>3 DEF W!Wake, W!IntervalEnds, WakeInv, PassRuns, SecondLook, W!NoLostWakeup
<1>4. CASE W!Stop
  BY <1>4 DEF W!Stop, WakeInv, PassRuns, SecondLook, W!NoLostWakeup
<1>5. CASE W!Start
  <2>1. event' # None
    <3>1. starts \in Nat /\ event' = starts + 1
      <4>1. starts \in 0..MaxStarts
        BY Counters
      <4>2. event' = starts + 1
        BY <1>5 DEF W!Start
      <4>. QED  BY <4>1, <4>2
    <3>2. event' \in Nat
      BY <3>1
    <3>. QED  BY <3>2, WorkerAssumption
  <2>. QED  BY <1>5, <2>1 DEF W!Start, WakeInv, PassRuns, SecondLook, W!NoLostWakeup
<1>. QED  BY <1>1, <1>2, <1>3, <1>4, <1>5 DEF W!LoopStep

LEMMA WakeNext == W!TypeOK /\ WakeInv /\ [W!Next]_(W!vars) => WakeInv'
<1> SUFFICES ASSUME W!TypeOK, WakeInv, [W!Next]_(W!vars) PROVE WakeInv'
  OBVIOUS
<1>1. CASE W!RequestNext \/ W!Ripen
  BY <1>1, WakeRequest
<1>2. ASSUME NEW t \in Threads, W!ThreadStep(t) \/ W!Fail(t) \/ W!Leftover(t) PROVE WakeInv'
  <2>1. CASE t = pass
    <3>1. ~W!Leftover(t)
      BY <2>1 DEF W!Leftover
    <3>. QED  BY <1>2, <2>1, <3>1, WakePass
  <2>2. CASE t # pass
    <3>1. UNCHANGED <<event, loop, pass, set>> /\ \A u \in Threads : u # t => at'[u] = at[u]
      BY <1>2 DEF W!ThreadStep, W!Gateway, W!Jobs, W!BatchQueue, W!Ask, W!Answer,
         W!Fail, W!Leftover, W!GoTo, W!Take, W!TypeOK
    <3>2. pass # None => pass \in Threads
      BY DEF W!TypeOK
    <3>. QED  BY <1>2, <2>2, <3>1, <3>2, ThreadTakes, WakeKept
  <2>. QED  BY <2>1, <2>2
<1>3. CASE W!LoopStep \/ W!Stop \/ W!Start
  BY <1>3, WakeLoop
<1>4. CASE UNCHANGED W!vars
  BY <1>4, WakeKept DEF W!vars
<1>. QED  BY <1>1, <1>2, <1>3, <1>4 DEF W!Next, W!ThreadNext

(* The worker never waits for its interval while a request that somebody   *)
(* made is there and nobody is about to wake it.                           *)
THEOREM NoLostWakeupCorrect == SubmitsSpec => []NoLostWakeup
<1>1. WakeInv => NoLostWakeup
  BY DEF WakeInv, NoLostWakeup
<1>. QED
  BY <1>1, WorkerStarts, WorkerMoves, WakeInit, WakeNext, WorkerTypeCorrect, PTL DEF SubmitsSpec
=============================================================================
