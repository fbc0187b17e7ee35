-------------------------- MODULE TallyJobsProofs --------------------------
(* However many threads ask at one time, a range is asked for once and the *)
(* queue keeps its limit; and what a request leaves in the cache is at     *)
(* least as new as the request.  The other queue keeps its types, and a    *)
(* check of the gateway gets an answer of its own.                         *)
EXTENDS TallyQueues, FiniteSetTheorems, TLAPS

Inv == TypeOK /\ FoundStillHolds /\ OneActivePerKey /\ ActiveBounded

-----------------------------------------------------------------------------
(* Facts about rows.                                                       *)

LEMMA RowFields ==
    ASSUME NEW r \in Row
    PROVE  /\ r # None
           /\ r.range \in Ranges /\ r.status \in Active \cup {"succeeded", "failed"}
           /\ r.error \in Errors /\ r.late \in BOOLEAN /\ r.asked \in 1..MaxEdits + 1
BY NoneAssumption DEF Row

(* A set of row numbers is finite, and one more element counts one more.   *)
LEMMA Counting ==
    ASSUME NEW S \in SUBSET Ids
    PROVE  /\ IsFiniteSet(S) /\ Cardinality(S) \in Nat
           /\ \A n : Cardinality(S \cup {n}) <= Cardinality(S) + 1
           /\ \A T \in SUBSET S : Cardinality(T) <= Cardinality(S)
<1>1. IsFiniteSet(Ids)
    BY BoundsAssumption, FS_Interval DEF Ids
<1>2. IsFiniteSet(S) /\ Cardinality(S) \in Nat
    BY <1>1, FS_Subset, FS_CardinalityType
<1>3. \A n : Cardinality(S \cup {n}) <= Cardinality(S) + 1
    BY <1>2, FS_AddElement
<1>4. \A T \in SUBSET S : Cardinality(T) <= Cardinality(S)
    BY <1>2, FS_Subset
<1> QED BY <1>2, <1>3, <1>4

(* If the active rows are no more than before, and keep their ranges, the  *)
(* queue stays as good as it was for those who have the lock.              *)
Shrinks ==
    /\ ActiveIds' \subseteq ActiveIds
    /\ \A i \in ActiveIds' : rows'[i].range = rows[i].range
    /\ \A a \in Askers : asking'[a] # None => asking'[a] = asking[a]

LEMMA ShrinkingKeeps ==
    ASSUME Inv, Shrinks
    PROVE  FoundStillHolds' /\ OneActivePerKey' /\ ActiveBounded'
<1>1. ActiveIds \in SUBSET Ids /\ ActiveIds' \in SUBSET Ids
    BY DEF ActiveIds
<1>2. /\ Cardinality(ActiveIds') <= Cardinality(ActiveIds)
      /\ Cardinality(ActiveIds') \in Nat /\ Cardinality(ActiveIds) \in Nat
    BY <1>1, Counting DEF Shrinks
<1>3. MaxActive \in Nat
    BY BoundsAssumption
<1>4. OneActivePerKey'
    BY DEF Inv, Shrinks, OneActivePerKey
<1>5. ActiveBounded'
    BY <1>2, <1>3 DEF Inv, ActiveBounded
<1>6. ASSUME NEW a \in Askers, asking'[a] # None
      PROVE  /\ \A i \in ActiveIds' : rows'[i].range # asking'[a]
             /\ Cardinality(ActiveIds') < MaxActive
    <2>1. asking'[a] = asking[a] /\ asking[a] # None
        BY <1>6 DEF Shrinks
    <2>2. \A i \in ActiveIds : rows[i].range # asking[a]
        BY <2>1 DEF Inv, FoundStillHolds
    <2>3. Cardinality(ActiveIds) < MaxActive
        BY <2>1 DEF Inv, FoundStillHolds
    <2>4. \A i \in ActiveIds' : rows'[i].range # asking'[a]
        BY <2>1, <2>2 DEF Shrinks
    <2> QED BY <2>3, <2>4, <1>2, <1>3
<1>7. FoundStillHolds'
    BY <1>6 DEF FoundStillHolds
<1> QED BY <1>4, <1>5, <1>7

-----------------------------------------------------------------------------
(* Types.                                                                  *)

LEMMA InitTyped == Init => TypeOK
<1> SUFFICES ASSUME Init PROVE TypeOK
    OBVIOUS
<1>1. book \in Seq(Books) /\ Now = 1
    BY DEF Init, Now
<1>2. Now \in 1..MaxEdits + 1 /\ faults \in 0..MaxFaults
    BY <1>1, BoundsAssumption DEF Init
<1>3. cached \in Books
    BY DEF Init, Books
<1>4. rows \in [Ids -> Row \cup {None}] /\ asking \in [Askers -> Ranges \cup {None}]
    BY DEF Init
<1> QED BY <1>1, <1>2, <1>3, <1>4 DEF Init, TypeOK, Errors

LEMMA NowTyped ==
    ASSUME TypeOK
    PROVE  /\ Now \in 1..MaxEdits + 1 /\ Now \in Nat
           /\ book[Now] \in Books
BY BoundsAssumption DEF TypeOK, Now

(* The row that an insertion writes is not one that the worker holds.      *)
LEMMA FreeIsFree ==
    ASSUME TypeOK, NEW n \in Free
    PROVE  n \in Ids /\ n \notin ActiveIds
<1>1. n \in Ids
    BY DEF Free
<1>2. ASSUME n \in ActiveIds PROVE FALSE
    <2>1. rows[n] # None /\ n \notin Purged
        BY <1>2 DEF ActiveIds, Purged
    <2>2. n < n
        BY <1>1, <2>1 DEF Free
    <2> QED BY <1>1, <2>2 DEF Ids
<1> QED BY <1>1, <1>2

(* What an insertion does to the rows.                                     *)
LEMMA Inserted ==
    ASSUME TypeOK, NEW a \in Askers, Insert(a)
    PROVE  \E n \in Ids :
             /\ n \notin ActiveIds
             /\ rows' \in [Ids -> Row \cup {None}]
             /\ rows'[n].range = asking[a]
             /\ rows'[n].status = "queued" /\ rows'[n].asked = Now
             /\ \A i \in Ids \ {n} : rows'[i] \in {None, rows[i]}
             /\ ActiveIds' = ActiveIds \cup {n}
             /\ \A i \in ActiveIds : rows'[i] = rows[i]
<1>1. PICK n \in Free :
        rows' = [i \in Ids |->
                   IF i = n THEN [range |-> asking[a], status |-> "queued",
                                  error |-> None, late |-> FALSE, asked |-> Now]
                   ELSE IF i \in Purged THEN None ELSE rows[i]]
    BY DEF Insert
<1> DEFINE new == [range |-> asking[a], status |-> "queued",
                   error |-> None, late |-> FALSE, asked |-> Now]
<1>2. n \in Ids /\ n \notin ActiveIds
    BY <1>1, FreeIsFree
<1>3. new \in Row
    BY NowTyped DEF Insert, TypeOK, Row, Active, Errors
<1>4. new # None /\ new.status = "queued" /\ new.range = asking[a] /\ new.asked = Now
    BY <1>3, RowFields
<1>5. rows \in [Ids -> Row \cup {None}]
    BY DEF TypeOK
<1>6. rows'[n] = new
    BY <1>1, <1>2
<1>7. \A i \in Ids : i # n => rows'[i] = IF i \in Purged THEN None ELSE rows[i]
    BY <1>1
<1>8. rows' \in [Ids -> Row \cup {None}]
    BY <1>1, <1>3, <1>5
<1> HIDE DEF new
<1>9. \A i \in ActiveIds : i # n /\ i \notin Purged
    BY <1>2 DEF ActiveIds, Purged
<1>10. \A i \in ActiveIds : rows'[i] = rows[i]
    BY <1>7, <1>9 DEF ActiveIds
<1>11. ActiveIds' = ActiveIds \cup {n}
    <2>1. n \in ActiveIds'
        BY <1>2, <1>4, <1>6 DEF ActiveIds, Active
    <2>2. ASSUME NEW i \in Ids, i # n PROVE i \in ActiveIds' <=> i \in ActiveIds
        <3>1. CASE i \in Purged
            BY <1>7, <2>2, <3>1 DEF ActiveIds, Purged
        <3>2. CASE i \notin Purged
            BY <1>7, <2>2, <3>2 DEF ActiveIds
        <3> QED BY <3>1, <3>2
    <2>3. ActiveIds \subseteq Ids /\ ActiveIds' \subseteq Ids
        BY DEF ActiveIds
    <2> QED BY <1>2, <2>1, <2>2, <2>3
<1>12. \A i \in Ids \ {n} : rows'[i] \in {None, rows[i]}
    BY <1>7
<1> QED BY <1>2, <1>4, <1>6, <1>8, <1>10, <1>11, <1>12

-----------------------------------------------------------------------------
(* Every action keeps the types.                                           *)

LEMMA LookTyped ==
    ASSUME TypeOK, NEW a \in Askers, NEW r \in Ranges, Look(a, r)
    PROVE  TypeOK'
<1>1. UNCHANGED <<book, rows, cached, at, mine, answer, error, faults>>
    BY DEF Look, tables, worker
<1>2. ActiveIds' = ActiveIds /\ Now' = Now
    BY <1>1 DEF ActiveIds, Now
<1>3. /\ guard = None /\ guard' = a /\ asking' = [asking EXCEPT ![a] = r]
    BY DEF Look, EnqueueLock
<1>4. guard' \in Askers \cup {None} /\ asking' \in [Askers -> Ranges \cup {None}]
    BY <1>3 DEF TypeOK
<1>5. \A e \in Askers : asking'[e] # None => guard' = e
    BY <1>3, NoneAssumption DEF TypeOK
<1> QED BY <1>1, <1>2, <1>4, <1>5 DEF TypeOK

LEMMA InsertTyped ==
    ASSUME TypeOK, NEW a \in Askers, Insert(a)
    PROVE  TypeOK'
<1>1. UNCHANGED <<book, cached, at, mine, answer, error, faults>>
    BY DEF Insert, worker
<1>2. Now' = Now
    BY <1>1 DEF Now
<1>3. PICK n \in Ids :
        /\ rows' \in [Ids -> Row \cup {None}]
        /\ ActiveIds' = ActiveIds \cup {n}
        /\ \A i \in ActiveIds : rows'[i] = rows[i]
    BY Inserted
<1>4. at' # "idle" => mine' \in ActiveIds' /\ rows'[mine'].status = "running"
    BY <1>1, <1>3 DEF TypeOK
<1>5. guard' = None /\ asking' = [asking EXCEPT ![a] = None] /\ guard = a
    BY DEF Insert, TypeOK
<1>6. asking' \in [Askers -> Ranges \cup {None}]
    BY <1>5 DEF TypeOK
<1>7. \A e \in Askers : asking'[e] # None => guard' = e
    BY <1>5 DEF TypeOK
<1> QED BY <1>1, <1>2, <1>3, <1>4, <1>5, <1>6, <1>7 DEF TypeOK

LEMMA ClaimTyped ==
    ASSUME TypeOK, Claim
    PROVE  TypeOK' /\ Shrinks
<1>1. PICK i \in Available :
        /\ rows' = [rows EXCEPT ![i] = [@ EXCEPT !.status = "running", !.late = FALSE]]
        /\ mine' = i
    BY DEF Claim
<1>2. i \in Ids /\ i \in ActiveIds /\ rows[i] \in Row
    BY <1>1 DEF Available, ActiveIds, TypeOK
<1> DEFINE new == [rows[i] EXCEPT !.status = "running", !.late = FALSE]
<1>3. new \in Row /\ new.status = "running" /\ new.range = rows[i].range
    BY <1>2 DEF Row, Active
<1>4. rows' = [rows EXCEPT ![i] = new]
    BY <1>1
<1>5. new # None
    BY <1>3, RowFields
<1> HIDE DEF new
<1>6. rows' \in [Ids -> Row \cup {None}] /\ rows'[i] = new
    BY <1>2, <1>3, <1>4 DEF TypeOK
<1>7. \A k \in Ids : k # i => rows'[k] = rows[k]
    BY <1>4 DEF TypeOK
<1>8. ActiveIds' = ActiveIds
    BY <1>2, <1>3, <1>5, <1>6, <1>7 DEF ActiveIds, Active
<1>9. UNCHANGED <<book, cached, guard, asking, answer, error, faults>> /\ at' = "claimed"
    BY DEF Claim, askers
<1>10. Now' = Now
    BY <1>9 DEF Now
<1>11. mine' # None
    BY <1>1, <1>2, NoneAssumption DEF Ids
<1>12. mine' \in ActiveIds' /\ rows'[mine'].status = "running"
    BY <1>1, <1>2, <1>3, <1>6, <1>8
<1>13. TypeOK'
    BY <1>6, <1>9, <1>10, <1>11, <1>12 DEF TypeOK
<1>14. \A k \in ActiveIds' : rows'[k].range = rows[k].range
    BY <1>3, <1>6, <1>7, <1>8 DEF ActiveIds
<1>15. Shrinks
    BY <1>8, <1>9, <1>14 DEF Shrinks
<1> QED BY <1>13, <1>15

LEMMA FetchTyped ==
    ASSUME TypeOK, Fetch
    PROVE  TypeOK' /\ Shrinks
<1>1. UNCHANGED <<book, rows, cached, guard, asking, mine, faults>> /\ at = "claimed"
    BY DEF Fetch, tables, askers
<1>2. ActiveIds' = ActiveIds /\ Now' = Now
    BY <1>1 DEF ActiveIds, Now
<1>3. at' \in {"answered", "done"}
    BY DEF Fetch
<1>4. [v \in Vouchers |-> IF book[Now][v] \in rows[mine].range THEN book[Now][v] ELSE None]
        \in Books
    BY NowTyped DEF Books
<1>5. answer' \in Books \cup {None} /\ error' \in Errors
    BY <1>4 DEF Fetch, TypeOK, Errors
<1>6. at' = "answered" => answer' \in Books
    BY <1>4 DEF Fetch
<1> QED BY <1>1, <1>2, <1>3, <1>5, <1>6 DEF TypeOK, Shrinks

LEMMA StoreTyped ==
    ASSUME TypeOK, Store
    PROVE  TypeOK' /\ Shrinks
<1>1. UNCHANGED <<book, rows, guard, asking, mine, answer, faults>>
      /\ at = "answered" /\ at' = "done"
    BY DEF Store, askers
<1>2. ActiveIds' = ActiveIds /\ Now' = Now
    BY <1>1 DEF ActiveIds, Now
<1>3. cached' \in Books
    <2>1. CASE Duplicate
        BY <2>1 DEF Store, TypeOK
    <2>2. CASE ~Duplicate
        <3>1. cached' = Replaced
            BY <2>2 DEF Store
        <3>2. ASSUME NEW v \in Vouchers
              PROVE  (IF answer[v] # None THEN answer[v]
                      ELSE IF InRange(v) THEN None ELSE cached[v]) \in Dates \cup {None}
            <4>1. cached[v] \in Dates \cup {None}
                BY DEF TypeOK, Books
            <4>2. answer \in Books
                BY <1>1 DEF TypeOK
            <4> QED BY <4>1, <4>2 DEF Books
        <3> QED BY <3>1, <3>2 DEF Replaced, Books
    <2> QED BY <2>1, <2>2
<1>4. error' \in Errors
    BY DEF Store, TypeOK, Errors
<1> QED BY <1>1, <1>2, <1>3, <1>4 DEF TypeOK, Shrinks

LEMMA FinishTyped ==
    ASSUME TypeOK, Finish
    PROVE  TypeOK' /\ Shrinks
<1> DEFINE new == [rows[mine] EXCEPT !.status = Outcome, !.error = error, !.late = FALSE]
<1>1. mine \in Ids /\ mine \in ActiveIds /\ rows[mine] \in Row
    BY DEF Finish, TypeOK, ActiveIds
<1>2. new \in Row /\ new.range = rows[mine].range /\ new.status \notin Active
    BY <1>1 DEF Row, Active, Outcome, TypeOK
<1>3. rows' = [rows EXCEPT ![mine] = new]
    BY DEF Finish
<1>4. new # None
    BY <1>2, RowFields
<1> HIDE DEF new
<1>5. rows' \in [Ids -> Row \cup {None}] /\ rows'[mine] = new
    BY <1>1, <1>2, <1>3 DEF TypeOK
<1>6. \A k \in Ids : k # mine => rows'[k] = rows[k]
    BY <1>3 DEF TypeOK
<1>7. ActiveIds' \subseteq ActiveIds \ {mine}
    BY <1>2, <1>5, <1>6 DEF ActiveIds
<1>8. UNCHANGED <<book, cached, guard, asking, faults>>
      /\ at' = "idle" /\ mine' = None /\ answer' = None /\ error' = None
    BY DEF Finish, askers, Release
<1>9. Now' = Now
    BY <1>8 DEF Now
<1>10. TypeOK'
    BY <1>5, <1>8, <1>9 DEF TypeOK, Errors
<1>11. \A k \in ActiveIds' : rows'[k].range = rows[k].range
    BY <1>6, <1>7 DEF ActiveIds
<1> QED BY <1>7, <1>8, <1>10, <1>11 DEF Shrinks

(* The worker stops, and with it the request threads if they are gone too. *)
LEMMA StopTyped ==
    ASSUME TypeOK, Raise \/ Crash
    PROVE  TypeOK' /\ Shrinks
<1>1. UNCHANGED <<book, rows, cached>>
      /\ at' = "idle" /\ mine' = None /\ answer' = None /\ error' = None
    BY DEF Raise, Crash, Release, tables
<1>2. ActiveIds' = ActiveIds /\ Now' = Now
    BY <1>1 DEF ActiveIds, Now
<1>3. faults' \in 0..MaxFaults
    BY BoundsAssumption DEF Raise, Crash, Fault, TypeOK
<1>4. CASE UNCHANGED <<guard, asking>>
    BY <1>1, <1>2, <1>3, <1>4 DEF TypeOK, Errors, Shrinks
<1>5. CASE guard' = None /\ asking' = [a \in Askers |-> None]
    BY <1>1, <1>2, <1>3, <1>5 DEF TypeOK, Errors, Shrinks
<1> QED BY <1>4, <1>5 DEF Raise, Crash, askers

LEMMA TimeTyped ==
    ASSUME TypeOK, NEW i \in Ids, TimePasses(i)
    PROVE  TypeOK' /\ Shrinks
<1> DEFINE new == [rows[i] EXCEPT !.late = TRUE]
<1>1. rows[i] \in Row /\ rows[i] # None
    BY DEF TimePasses, TypeOK
<1>2. new \in Row /\ new.range = rows[i].range /\ new.status = rows[i].status
    BY <1>1 DEF Row
<1>3. rows' = [rows EXCEPT ![i] = new]
    BY DEF TimePasses
<1>4. new # None
    BY <1>2, RowFields
<1> HIDE DEF new
<1>5. rows' \in [Ids -> Row \cup {None}] /\ rows'[i] = new
    BY <1>2, <1>3 DEF TypeOK
<1>6. \A k \in Ids : k # i => rows'[k] = rows[k]
    BY <1>3 DEF TypeOK
<1>7. ActiveIds' = ActiveIds
    BY <1>1, <1>2, <1>4, <1>5, <1>6 DEF ActiveIds
<1>8. \A k \in Ids : rows[k] # None => rows'[k].range = rows[k].range
                                      /\ rows'[k].status = rows[k].status
    BY <1>2, <1>5, <1>6
<1>9. UNCHANGED <<book, cached, guard, asking, at, mine, answer, error, faults>>
    BY DEF TimePasses, askers, worker
<1>10. Now' = Now
    BY <1>9 DEF Now
<1>11. at' # "idle" => mine' \in ActiveIds' /\ rows'[mine'].status = "running"
    BY <1>7, <1>8, <1>9 DEF TypeOK, ActiveIds
<1>12. TypeOK'
    BY <1>5, <1>9, <1>10, <1>11 DEF TypeOK
<1> QED BY <1>7, <1>8, <1>9, <1>12 DEF Shrinks, ActiveIds

LEMMA EditTyped ==
    ASSUME TypeOK, NEW v \in Vouchers, NEW d \in Dates \cup {None}, Edit(v, d)
    PROVE  TypeOK' /\ Shrinks
<1>1. book[Now] \in Books /\ Now \in Nat /\ MaxEdits \in Nat
    BY NowTyped, BoundsAssumption
<1>2. [book[Now] EXCEPT ![v] = d] \in Books
    BY <1>1 DEF Books
<1>3. book' \in Seq(Books) /\ Now' = Now + 1
    BY <1>2 DEF Edit, TypeOK, Now
<1>4. Now' \in 1..MaxEdits + 1
    BY <1>1, <1>3 DEF Edit
<1>5. UNCHANGED <<rows, cached, guard, asking, at, mine, answer, error, faults>>
    BY DEF Edit, tables, askers, worker
<1>6. ActiveIds' = ActiveIds
    BY <1>5 DEF ActiveIds
<1> QED BY <1>3, <1>4, <1>5, <1>6 DEF TypeOK, Shrinks

-----------------------------------------------------------------------------
(* The queue.                                                              *)

(* Whoever looks has the lock alone.                                       *)
LEMMA LookKeeps ==
    ASSUME Inv, NEW a \in Askers, NEW r \in Ranges, Look(a, r)
    PROVE  FoundStillHolds' /\ OneActivePerKey' /\ ActiveBounded'
<1>1. ActiveIds' = ActiveIds /\ rows' = rows
    BY DEF Look, tables, ActiveIds
<1>2. /\ \A i \in ActiveIds : rows[i].range # r
      /\ Cardinality(ActiveIds) < MaxActive
      /\ asking' = [asking EXCEPT ![a] = r]
    BY DEF Look
<1>3. \A e \in Askers : e # a => asking'[e] = None
    BY <1>2, NoneAssumption DEF Inv, TypeOK, Look, EnqueueLock
<1>4. asking'[a] = r
    BY <1>2 DEF Inv, TypeOK
<1>5. FoundStillHolds'
    BY <1>1, <1>2, <1>3, <1>4 DEF FoundStillHolds
<1>6. OneActivePerKey' /\ ActiveBounded'
    BY <1>1 DEF Inv, OneActivePerKey, ActiveBounded
<1> QED BY <1>5, <1>6

(* So what it found still holds when it inserts.                           *)
LEMMA InsertKeeps ==
    ASSUME Inv, NEW a \in Askers, Insert(a)
    PROVE  FoundStillHolds' /\ OneActivePerKey' /\ ActiveBounded'
<1>1. PICK n \in Ids :
        /\ n \notin ActiveIds
        /\ rows'[n].range = asking[a]
        /\ ActiveIds' = ActiveIds \cup {n}
        /\ \A i \in ActiveIds : rows'[i] = rows[i]
    BY Inserted DEF Inv
<1>2. asking[a] # None /\ asking' = [asking EXCEPT ![a] = None]
    BY DEF Insert
<1>3. /\ \A i \in ActiveIds : rows[i].range # asking[a]
      /\ Cardinality(ActiveIds) < MaxActive
    BY <1>2 DEF Inv, FoundStillHolds
<1>4. \A e \in Askers : asking'[e] = None
    BY <1>2, NoneAssumption DEF Inv, TypeOK
<1>5. FoundStillHolds'
    BY <1>4 DEF FoundStillHolds
<1>6. OneActivePerKey'
    BY <1>1, <1>3 DEF Inv, OneActivePerKey
<1>7. ActiveIds \in SUBSET Ids /\ ActiveIds' \in SUBSET Ids /\ MaxActive \in Nat
    BY BoundsAssumption DEF ActiveIds
<1>8. Cardinality(ActiveIds') <= Cardinality(ActiveIds) + 1
    BY <1>1, <1>7, Counting
<1>9. Cardinality(ActiveIds) \in Nat /\ Cardinality(ActiveIds') \in Nat
    BY <1>7, Counting
<1>10. ActiveBounded'
    BY <1>3, <1>7, <1>8, <1>9 DEF ActiveBounded
<1> QED BY <1>5, <1>6, <1>10

LEMMA InitKeeps == Init => Inv
<1> SUFFICES ASSUME Init PROVE Inv
    OBVIOUS
<1>1. TypeOK
    BY InitTyped
<1>2. ActiveIds = {} /\ Cardinality(ActiveIds) = 0
    BY FS_EmptySet DEF Init, ActiveIds
<1>3. FoundStillHolds /\ OneActivePerKey
    BY <1>2 DEF Init, FoundStillHolds, OneActivePerKey
<1>4. ActiveBounded
    BY <1>2, BoundsAssumption DEF ActiveBounded
<1> QED BY <1>1, <1>3, <1>4 DEF Inv

LEMMA StepKeeps == Inv /\ [Next]_vars => Inv'
<1> SUFFICES ASSUME Inv, [Next]_vars PROVE Inv'
    OBVIOUS
<1>1. TypeOK
    BY DEF Inv
<1>2. ASSUME TypeOK', Shrinks PROVE Inv'
    BY <1>2, ShrinkingKeeps DEF Inv
<1>3. ASSUME NEW a \in Askers, NEW r \in Ranges, Look(a, r) PROVE Inv'
    BY <1>1, <1>3, LookTyped, LookKeeps DEF Inv
<1>4. ASSUME NEW a \in Askers, Insert(a) PROVE Inv'
    BY <1>1, <1>4, InsertTyped, InsertKeeps DEF Inv
<1>5. CASE Claim
    BY <1>1, <1>2, <1>5, ClaimTyped
<1>6. CASE Fetch
    BY <1>1, <1>2, <1>6, FetchTyped
<1>7. CASE Store
    BY <1>1, <1>2, <1>7, StoreTyped
<1>8. CASE Finish
    BY <1>1, <1>2, <1>8, FinishTyped
<1>9. CASE Raise \/ Crash
    BY <1>1, <1>2, <1>9, StopTyped
<1>10. ASSUME NEW i \in Ids, TimePasses(i) PROVE Inv'
    BY <1>1, <1>2, <1>10, TimeTyped
<1>11. ASSUME NEW v \in Vouchers, NEW d \in Dates \cup {None}, Edit(v, d) PROVE Inv'
    BY <1>1, <1>2, <1>11, EditTyped
<1>12. CASE UNCHANGED vars
    <2>1. UNCHANGED <<book, rows, cached, guard, asking, at, mine, answer, error, faults>>
        BY <1>12 DEF vars, tables, askers, worker
    <2>2. ActiveIds' = ActiveIds /\ Now' = Now
        BY <2>1 DEF ActiveIds, Now
    <2>3. TypeOK' /\ Shrinks
        BY <1>1, <2>1, <2>2 DEF TypeOK, Shrinks
    <2> QED BY <1>2, <2>3
<1> QED BY <1>3, <1>4, <1>5, <1>6, <1>7, <1>8, <1>9, <1>10, <1>11, <1>12
        DEF Next, AskNext, WorkerNext

LEMMA InvCorrect == Spec => []Inv
BY InitKeeps, StepKeeps, PTL DEF Spec

(* The types of every variable, the thread that holds _enqueue_lock and    *)
(* the row the worker is busy with.                                        *)
THEOREM TypeCorrect == Spec => []TypeOK
<1>1. Inv => TypeOK
    BY DEF Inv
<1> QED BY <1>1, InvCorrect, PTL

(* queue_tally_data_job inserts on what it has found out under the lock.   *)
THEOREM FoundStillHoldsCorrect == Spec => []FoundStillHolds
<1>1. Inv => FoundStillHolds
    BY DEF Inv
<1> QED BY <1>1, InvCorrect, PTL

(* A range is asked for by one row at a time, for any number of threads,   *)
(* whatever the worker, the leases and the crashes do.                     *)
THEOREM OneActivePerKeyCorrect == Spec => []OneActivePerKey
<1>1. Inv => OneActivePerKey
    BY DEF Inv
<1> QED BY <1>1, InvCorrect, PTL

(* The queue never holds more than MAX_ACTIVE_TALLY_DATA_JOBS.             *)
THEOREM ActiveBoundedCorrect == Spec => []ActiveBounded
<1>1. Inv => ActiveBounded
    BY DEF Inv
<1> QED BY <1>1, InvCorrect, PTL

(* So the queue is kept: one row for each range, and not too many.         *)
THEOREM QueueKeptCorrect == Spec => []QueueKept
<1>1. FoundStillHolds /\ OneActivePerKey /\ ActiveBounded => QueueKept
    BY DEF QueueKept
<1> QED BY <1>1, FoundStillHoldsCorrect, OneActivePerKeyCorrect, ActiveBoundedCorrect, PTL

-----------------------------------------------------------------------------
(* The cache.                                                              *)

(* On date d the cache is as Tally was at a moment since the a-th.         *)
Fresh(a, d) == \E n \in a..Now : OnDate(cached, d) = OnDate(book[n], d)

Succeeded == {i \in Ids : rows[i] # None /\ rows[i].status = "succeeded"}

(* Tally gave the answer at its n-th state, after whatever succeeded since *)
(* was asked for: rows that succeed after it have to wait for the worker.  *)
AnswerOf(n) ==
    /\ \A v \in Vouchers :
          answer[v] = IF book[n][v] \in rows[mine].range THEN book[n][v] ELSE None
    /\ \A i \in Succeeded \cup {mine} : rows[i].asked <= n

AskedBefore == \A i \in Ids : rows[i] # None => rows[i].asked <= Now
Caught ==
    /\ AskedBefore
    /\ at = "answered" => \E n \in 1..Now : AnswerOf(n)
    /\ at = "done" /\ error = None =>
          \A d \in rows[mine].range : Fresh(rows[mine].asked, d)
    /\ FreshAsAsked

(* The steps that leave the cache as it is and succeed with nothing.       *)
Quiet ==
    /\ TypeOK /\ TypeOK'
    /\ Now <= Now' /\ \A n \in 1..Now : book'[n] = book[n]
    /\ cached' = cached
    /\ \A i \in Succeeded' : /\ i \in Succeeded
                             /\ rows'[i].asked = rows[i].asked
                             /\ rows'[i].range = rows[i].range
    /\ at' \in {"answered", "done"} =>
          /\ UNCHANGED <<at, mine, answer, error>>
          /\ rows'[mine].asked = rows[mine].asked
          /\ rows'[mine].range = rows[mine].range

LEMMA FreshLater ==
    ASSUME Quiet, NEW a \in Nat \ {0}, NEW d, Fresh(a, d)
    PROVE  Fresh(a, d)'
<1>1. PICK n \in a..Now : OnDate(cached, d) = OnDate(book[n], d)
    BY DEF Fresh
<1>2. Now \in Nat /\ Now' \in Nat
    BY NowTyped, BoundsAssumption DEF Quiet, TypeOK
<1>3. n \in 1..Now /\ n \in a..Now'
    BY <1>1, <1>2 DEF Quiet
<1>4. book'[n] = book[n] /\ cached' = cached
    BY <1>3 DEF Quiet
<1>5. OnDate(cached', d) = OnDate(book'[n], d)
    BY <1>1, <1>4
<1> QED BY <1>3, <1>5 DEF Fresh

LEMMA BusyRow ==
    ASSUME TypeOK, at # "idle"
    PROVE  /\ mine \in Ids /\ rows[mine] \in Row /\ rows[mine] # None
           /\ rows[mine].asked \in Nat \ {0}
<1>1. mine \in Ids /\ rows[mine] \in Row /\ rows[mine] # None
    BY DEF TypeOK, ActiveIds
<1>2. rows[mine].asked \in 1..MaxEdits + 1
    BY <1>1, RowFields
<1> QED BY <1>1, <1>2, BoundsAssumption

LEMMA QuietKeeps ==
    ASSUME Caught, Quiet, AskedBefore'
    PROVE  Caught'
<1>1. TypeOK /\ Now \in Nat /\ Now' \in Nat /\ Now <= Now'
    BY NowTyped, BoundsAssumption DEF Quiet, TypeOK
<1>2. ASSUME at' = "answered" PROVE \E n \in 1..Now' : AnswerOf(n)'
    <2>1. at = "answered" /\ UNCHANGED <<mine, answer>>
        BY <1>2 DEF Quiet
    <2>2. PICK n \in 1..Now : AnswerOf(n)
        BY <2>1 DEF Caught
    <2>3. n \in 1..Now' /\ book'[n] = book[n]
        BY <1>1, <2>2 DEF Quiet
    <2>4. rows'[mine].range = rows[mine].range /\ rows'[mine].asked = rows[mine].asked
        BY <1>2 DEF Quiet
    <2>5. \A i \in Succeeded' \cup {mine'} : rows'[i].asked <= n
        BY <2>1, <2>2, <2>4 DEF Quiet, AnswerOf
    <2>6. \A v \in Vouchers :
            answer'[v] = IF book'[n][v] \in rows'[mine'].range THEN book'[n][v] ELSE None
        BY <2>1, <2>2, <2>3, <2>4 DEF AnswerOf
    <2>7. AnswerOf(n)'
        BY <2>5, <2>6 DEF AnswerOf
    <2> QED BY <2>3, <2>7
<1>3. ASSUME at' = "done", error' = None
      PROVE  (\A d \in rows[mine].range : Fresh(rows[mine].asked, d))'
    <2>1. at = "done" /\ error = None /\ mine' = mine
        BY <1>3 DEF Quiet
    <2>2. rows'[mine].range = rows[mine].range /\ rows'[mine].asked = rows[mine].asked
        BY <1>3 DEF Quiet
    <2>3. \A d \in rows[mine].range : Fresh(rows[mine].asked, d)
        BY <2>1 DEF Caught
    <2> QED BY <1>1, <2>1, <2>2, <2>3, BusyRow, FreshLater
<1>4. ASSUME NEW i \in Succeeded', NEW d \in rows'[i].range
      PROVE  \E n \in rows'[i].asked..Now' : OnDate(cached', d) = OnDate(book'[n], d)
    <2>1. /\ i \in Succeeded
          /\ rows'[i].asked = rows[i].asked /\ rows'[i].range = rows[i].range
        BY <1>4 DEF Quiet
    <2>2. i \in Ids /\ rows[i] \in Row
        BY <1>1, <2>1 DEF Succeeded, TypeOK
    <2>3. rows[i].asked \in Nat \ {0}
        BY <2>2, RowFields, BoundsAssumption
    <2>4. Fresh(rows[i].asked, d)
        BY <1>4, <2>1, <2>2 DEF Caught, FreshAsAsked, Fresh, Succeeded
    <2>5. PICK n \in rows[i].asked..Now : OnDate(cached, d) = OnDate(book[n], d)
        BY <2>4 DEF Fresh
    <2>6. n \in 1..Now /\ n \in rows[i].asked..Now'
        BY <1>1, <2>3, <2>5
    <2>7. book'[n] = book[n] /\ cached' = cached
        BY <2>6 DEF Quiet
    <2> QED BY <2>1, <2>5, <2>6, <2>7
<1>5. FreshAsAsked'
    BY <1>4 DEF FreshAsAsked, Succeeded
<1> QED BY <1>2, <1>3, <1>5 DEF Caught, Fresh

LEMMA QuietSteps ==
    ASSUME Inv, Inv', Caught,
           \/ \E a \in Askers : Insert(a) \/ \E r \in Ranges : Look(a, r)
           \/ Claim \/ Raise \/ Crash
           \/ \E i \in Ids : TimePasses(i)
           \/ \E v \in Vouchers, d \in Dates \cup {None} : Edit(v, d)
           \/ UNCHANGED vars
    PROVE  Caught'
<1> USE DEF Inv
<1>1. /\ Now \in Nat /\ Now' \in Nat /\ AskedBefore /\ TypeOK
      /\ \A i \in Ids : rows[i] # None => rows[i] \in Row /\ rows[i].asked \in Nat
    <2>1. \A i \in Ids : rows[i] # None => rows[i] \in Row
        BY DEF TypeOK
    <2>2. \A i \in Ids : rows[i] # None => rows[i].asked \in Nat
        BY <2>1, RowFields, BoundsAssumption
    <2> QED BY <2>1, <2>2, NowTyped, BoundsAssumption DEF Caught, TypeOK
<1>2. SUFFICES Quiet /\ AskedBefore'
    BY QuietKeeps
<1>3. ASSUME UNCHANGED <<rows, book, cached>>, at' \in {"answered", "done"} =>
                                              UNCHANGED <<at, mine, answer, error>>
      PROVE  Quiet /\ AskedBefore'
    <2>1. Now' = Now /\ Succeeded' = Succeeded
        BY <1>3 DEF Now, Succeeded
    <2> QED BY <1>1, <1>3, <2>1 DEF Quiet, AskedBefore
<1>4. CASE \E a \in Askers : \E r \in Ranges : Look(a, r)
    BY <1>3, <1>4 DEF Look, tables, worker
<1>5. ASSUME NEW a \in Askers, Insert(a) PROVE Quiet /\ AskedBefore'
    <2>1. UNCHANGED <<book, cached, at, mine, answer, error>> /\ Now' = Now
        BY <1>5 DEF Insert, worker, Now
    <2>2. PICK n \in Ids :
            /\ n \notin ActiveIds
            /\ rows'[n].status = "queued" /\ rows'[n].asked = Now
            /\ \A i \in Ids \ {n} : rows'[i] \in {None, rows[i]}
            /\ \A i \in ActiveIds : rows'[i] = rows[i]
        BY <1>5, Inserted
    <2>3. AskedBefore'
        BY <1>1, <2>1, <2>2 DEF AskedBefore
    <2>4. \A i \in Succeeded' : i \in Succeeded /\ rows'[i] = rows[i]
        BY <2>2 DEF Succeeded
    <2>5. at # "idle" => rows'[mine] = rows[mine]
        BY <2>2 DEF TypeOK
    <2> QED BY <1>1, <2>1, <2>3, <2>4, <2>5 DEF Quiet
<1>6. ASSUME NEW i \in Ids, NEW new \in Row, rows[i] # None, rows' = [rows EXCEPT ![i] = new],
             new.asked = rows[i].asked, new.range = rows[i].range,
             new.status \in {rows[i].status, "running"},
             UNCHANGED <<book, cached>>,
             at' \in {"answered", "done"} => UNCHANGED <<at, mine, answer, error>>
      PROVE  Quiet /\ AskedBefore'
    <2>1. Now' = Now
        BY <1>6 DEF Now
    <2>2. rows'[i] = new /\ \A k \in Ids : k # i => rows'[k] = rows[k]
        BY <1>6 DEF TypeOK
    <2>3. AskedBefore'
        BY <1>1, <1>6, <2>1, <2>2 DEF AskedBefore
    <2>4. \A k \in Succeeded' : /\ k \in Succeeded /\ rows'[k].asked = rows[k].asked
                                /\ rows'[k].range = rows[k].range
        BY <1>6, <2>2 DEF Succeeded
    <2>5. at' \in {"answered", "done"} => mine \in Ids
        BY <1>6 DEF TypeOK, ActiveIds
    <2>6. at' \in {"answered", "done"} => /\ rows'[mine].asked = rows[mine].asked
                                          /\ rows'[mine].range = rows[mine].range
        BY <1>6, <2>2, <2>5
    <2> QED BY <1>1, <1>6, <2>1, <2>3, <2>4, <2>6 DEF Quiet
<1>7. CASE Claim
    <2>1. PICK i \in Available :
            rows' = [rows EXCEPT ![i] = [@ EXCEPT !.status = "running", !.late = FALSE]]
        BY <1>7 DEF Claim
    <2>2. i \in Ids /\ rows[i] # None /\ rows[i] \in Row
        BY <1>1, <2>1 DEF Available, ActiveIds
    <2> DEFINE new == [rows[i] EXCEPT !.status = "running", !.late = FALSE]
    <2>3. /\ new \in Row /\ new.asked = rows[i].asked /\ new.range = rows[i].range
          /\ new.status = "running"
        BY <2>2 DEF Row, Active
    <2>4. rows' = [rows EXCEPT ![i] = new]
        BY <2>1
    <2>5. UNCHANGED <<book, cached>> /\ at' = "claimed"
        BY <1>7 DEF Claim
    <2> HIDE DEF new
    <2> QED BY <1>6, <2>2, <2>3, <2>4, <2>5
<1>8. ASSUME NEW i \in Ids, TimePasses(i) PROVE Quiet /\ AskedBefore'
    <2>1. rows[i] # None /\ rows[i] \in Row
        BY <1>1, <1>8 DEF TimePasses
    <2> DEFINE new == [rows[i] EXCEPT !.late = TRUE]
    <2>2. /\ new \in Row /\ new.asked = rows[i].asked /\ new.range = rows[i].range
          /\ new.status = rows[i].status
        BY <2>1 DEF Row, Active
    <2>3. rows' = [rows EXCEPT ![i] = new] /\ UNCHANGED <<book, cached, at, mine, answer, error>>
        BY <1>8 DEF TimePasses, worker
    <2> HIDE DEF new
    <2> QED BY <1>6, <2>1, <2>2, <2>3
<1>9. CASE Raise \/ Crash
    BY <1>3, <1>9 DEF Raise, Crash, Release, tables
<1>10. ASSUME NEW v \in Vouchers, NEW d \in Dates \cup {None}, Edit(v, d)
       PROVE  Quiet /\ AskedBefore'
    <2>1. UNCHANGED <<rows, cached, at, mine, answer, error>> /\ Succeeded' = Succeeded
        BY <1>10 DEF Edit, tables, worker, Succeeded
    <2>2. [book[Now] EXCEPT ![v] = d] \in Books /\ book \in Seq(Books)
        BY <1>1, NowTyped DEF Books, TypeOK
    <2>3. Now' = Now + 1 /\ \A n \in 1..Now : book'[n] = book[n]
        BY <1>10, <2>2 DEF Edit, Now
    <2>4. AskedBefore'
        BY <1>1, <2>1, <2>3 DEF AskedBefore
    <2> QED BY <1>1, <2>1, <2>3, <2>4 DEF Quiet
<1>11. CASE UNCHANGED vars
    BY <1>3, <1>11 DEF vars, tables, worker
<1> QED BY <1>4, <1>5, <1>7, <1>8, <1>9, <1>10, <1>11

(* What Tally answers is its book of this moment.                          *)
LEMMA FetchCatches ==
    ASSUME Inv, Caught, Fetch
    PROVE  Caught'
<1>1. UNCHANGED <<book, rows, cached, mine>> /\ at = "claimed"
    BY DEF Fetch, tables
<1>2. TypeOK /\ Now \in 1..Now /\ Now' = Now /\ Succeeded' = Succeeded
    BY <1>1, NowTyped DEF Inv, Now, Succeeded
<1>3. AskedBefore' /\ FreshAsAsked'
    BY <1>1, <1>2 DEF Caught, AskedBefore, FreshAsAsked
<1>4. \A i \in Succeeded \cup {mine} : rows[i].asked <= Now
    BY <1>1, <1>2, BusyRow DEF Caught, AskedBefore, Succeeded
<1>5. CASE error' = "no_answer" /\ at' = "done"
    BY <1>3, <1>5, NoneAssumption DEF Caught
<1>6. CASE /\ answer' = [v \in Vouchers |->
                 IF book[Now][v] \in rows[mine].range THEN book[Now][v] ELSE None]
           /\ at' = "answered"
    <2>1. AnswerOf(Now)'
        BY <1>1, <1>2, <1>4, <1>6 DEF AnswerOf
    <2>2. \E n \in 1..Now' : AnswerOf(n)'
        <3>1. (\E n \in 1..Now : AnswerOf(n))'
            BY <1>2, <2>1
        <3> QED BY <3>1
    <2> QED BY <1>3, <1>6, <2>2 DEF Caught
<1> QED BY <1>5, <1>6 DEF Fetch

(* The answer replaces the cache of its dates and leaves every other date  *)
(* as it was.                                                              *)
LEMMA StoreCatches ==
    ASSUME Inv, Caught, Store
    PROVE  Caught'
<1>1. UNCHANGED <<book, rows, mine, answer>> /\ at = "answered" /\ at' = "done"
    BY DEF Store
<1>2. TypeOK /\ Now \in Nat /\ Now' = Now /\ Succeeded' = Succeeded
    BY <1>1, NowTyped DEF Inv, Now, Succeeded
<1>3. AskedBefore'
    BY <1>1, <1>2 DEF Caught, AskedBefore
<1>4. CASE Duplicate
    <2>1. cached' = cached /\ error' = "not_stored"
        BY <1>4 DEF Store
    <2>2. FreshAsAsked'
        BY <1>1, <1>2, <2>1 DEF Caught, FreshAsAsked
    <2> QED BY <1>1, <1>3, <2>1, <2>2, NoneAssumption DEF Caught
<1>5. CASE ~Duplicate
    <2>1. cached' = Replaced
        BY <1>5 DEF Store
    <2>2. PICK n \in 1..Now : AnswerOf(n)
        BY <1>1 DEF Caught
    <2>3. rows[mine].range \subseteq Dates /\ mine \in Ids /\ rows[mine].asked \in Nat \ {0}
        BY <1>1, <1>2, BusyRow, RowFields, RangesAssumption
    <2>4. ASSUME NEW d \in rows[mine].range
          PROVE  OnDate(cached', d) = OnDate(book[n], d)
        <3>1. d # None
            BY <2>3, NoneAssumption
        <3>2. ASSUME NEW v \in Vouchers PROVE cached'[v] = d <=> book[n][v] = d
            BY <2>1, <2>2, <2>4, <3>1 DEF Replaced, AnswerOf, InRange
        <3> QED BY <3>2 DEF OnDate
    <2>5. ASSUME NEW d \in Dates, d \notin rows[mine].range
          PROVE  OnDate(cached', d) = OnDate(cached, d)
        <3>1. ASSUME NEW v \in Vouchers PROVE cached'[v] = d <=> cached[v] = d
            <4>1. d # None
                BY NoneAssumption
            <4>2. CASE answer[v] # None
                <5>1. answer[v] \in rows[mine].range
                    BY <2>2, <4>2 DEF AnswerOf
                <5>2. cached[v] = None \/ cached[v] \in rows[mine].range
                    BY <1>5, <4>2 DEF Duplicate, InRange
                <5> QED BY <2>1, <2>5, <4>1, <4>2, <5>1, <5>2 DEF Replaced
            <4>3. CASE answer[v] = None
                BY <2>1, <2>5, <4>1, <4>3 DEF Replaced, InRange
            <4> QED BY <4>2, <4>3
        <3> QED BY <3>1 DEF OnDate
    <2>6. \A d \in rows[mine].range :
            \E k \in rows[mine].asked..Now : OnDate(cached', d) = OnDate(book[k], d)
        <3>1. n \in rows[mine].asked..Now
            BY <1>2, <2>2, <2>3 DEF AnswerOf
        <3> QED BY <2>4, <3>1
    <2>7. ASSUME NEW i \in Succeeded, NEW d \in rows[i].range
          PROVE  \E k \in rows[i].asked..Now : OnDate(cached', d) = OnDate(book[k], d)
        <3>1. i \in Ids /\ rows[i] \in Row
            BY <1>2, <2>7 DEF Succeeded, TypeOK
        <3>2. rows[i].asked \in Nat /\ d \in Dates
            BY <2>7, <3>1, RowFields, RangesAssumption, BoundsAssumption
        <3>3. CASE d \in rows[mine].range
            <4>1. n \in rows[i].asked..Now
                BY <1>2, <2>2, <3>2 DEF AnswerOf
            <4> QED BY <2>4, <3>3, <4>1
        <3>4. CASE d \notin rows[mine].range
            BY <2>5, <2>7, <3>1, <3>2, <3>4 DEF Caught, FreshAsAsked, Succeeded
        <3> QED BY <3>3, <3>4
    <2>8. FreshAsAsked'
        BY <1>1, <1>2, <2>7 DEF FreshAsAsked, Succeeded
    <2>9. (\A d \in rows[mine].range : Fresh(rows[mine].asked, d))'
        BY <1>1, <1>2, <2>6 DEF Fresh
    <2> QED BY <1>1, <1>3, <2>8, <2>9 DEF Caught
<1> QED BY <1>4, <1>5

(* What the worker has stored is what the row it finishes asked for.       *)
LEMMA FinishCatches ==
    ASSUME Inv, Caught, Finish
    PROVE  Caught'
<1> DEFINE new == [rows[mine] EXCEPT !.status = Outcome, !.error = error, !.late = FALSE]
<1>1. UNCHANGED <<book, cached>> /\ at = "done" /\ at' = "idle"
    BY DEF Finish, Release
<1>2. TypeOK /\ Now' = Now
    BY <1>1 DEF Inv, Now
<1>3. mine \in Ids /\ rows[mine] \in Row /\ rows[mine] # None
    BY <1>1, <1>2, BusyRow
<1>4. /\ new.asked = rows[mine].asked /\ new.range = rows[mine].range
      /\ new.status = Outcome
    BY <1>3 DEF Row
<1>5. rows' = [rows EXCEPT ![mine] = new]
    BY DEF Finish
<1> HIDE DEF new
<1>6. rows'[mine] = new /\ \A k \in Ids : k # mine => rows'[k] = rows[k]
    BY <1>3, <1>5, <1>2 DEF TypeOK
<1>7. AskedBefore'
    BY <1>2, <1>3, <1>4, <1>6 DEF Caught, AskedBefore
<1>8. ASSUME NEW i \in Ids, rows'[i] # None, rows'[i].status = "succeeded",
             NEW d \in rows'[i].range
      PROVE  \E n \in rows'[i].asked..Now : OnDate(cached, d) = OnDate(book[n], d)
    <2>1. CASE i = mine
        <3>1. error = None
            BY <1>4, <1>6, <1>8, <2>1 DEF Outcome
        <3>2. Fresh(rows[mine].asked, d)
            BY <1>1, <1>4, <1>6, <1>8, <2>1, <3>1 DEF Caught
        <3> QED BY <1>4, <1>6, <2>1, <3>2 DEF Fresh
    <2>2. CASE i # mine
        BY <1>6, <1>8, <2>2 DEF Caught, FreshAsAsked
    <2> QED BY <2>1, <2>2
<1>9. FreshAsAsked'
    BY <1>1, <1>2, <1>8 DEF FreshAsAsked
<1> QED BY <1>1, <1>7, <1>9 DEF Caught

LEMMA InitCaught == Init => Caught
BY DEF Init, Caught, AskedBefore, FreshAsAsked

LEMMA StepCaught == Inv /\ Inv' /\ Caught /\ [Next]_vars => Caught'
BY QuietSteps, FetchCatches, StoreCatches, FinishCatches DEF Next, AskNext, WorkerNext

(* process_pending_tally_data_job: the cache a succeeded request leaves is *)
(* Tally's book of a moment after the request, for each of its dates,      *)
(* whatever is refreshed later and however often the worker is killed.     *)
THEOREM FreshAsAskedCorrect == Spec => []FreshAsAsked
<1>1. Caught => FreshAsAsked
    BY DEF Caught
<1> QED BY <1>1, InitCaught, StepCaught, InvCorrect, PTL DEF Spec

-----------------------------------------------------------------------------
(* The check of the gateway.                                               *)

Busy(w, where) == work[w].at \in where

(* A check that is not idle was asked for.  What a worker writes over the  *)
(* row is a value of the row of its own check, and is not an answer yet.   *)
CheckAsked == row.status # "idle" => row.id \in 1..last
OwnCheck   == \A w \in Workers :
    /\ Busy(w, {"claim", "finish"}) => work[w].seen.id = work[w].id
    /\ Busy(w, {"claim"}) => work[w].seen.status \in {"queued", "running"}
GatewayInv == G!TypeOK /\ CheckAsked /\ OwnCheck /\ G!AnswerIsOwn

LEMMA GatewayStarts == G!Init => GatewayInv
<1> SUFFICES ASSUME G!Init PROVE GatewayInv
    OBVIOUS
<1>1. 0 \in 0..MaxChecks /\ 0 \in 0..MaxFaults /\ First \in Workers
    BY GatewayAssumption, BoundsAssumption
<1>2. G!TypeOK
    BY <1>1 DEF G!Init, G!TypeOK, G!Row, G!Status, G!Job, G!Nothing
<1> QED BY <1>2 DEF G!Init, GatewayInv, CheckAsked, OwnCheck, Busy, G!AnswerIsOwn, G!Nothing

(* A check is asked for by a click that finds the row as it loaded it.     *)
LEMMA ClickKeeps ==
    ASSUME GatewayInv, NEW t \in Askers, G!Click(t) \/ G!Queue(t)
    PROVE  GatewayInv'
<1>1. UNCHANGED <<work, alive, crashes>>
    BY DEF G!Click, G!Queue
<1>2. last \in Nat /\ MaxChecks \in Nat /\ last <= MaxChecks
    BY GatewayAssumption DEF GatewayInv, G!TypeOK
<1>3. CASE UNCHANGED <<row, last>>
    <2>1. click' \in [Askers -> G!Row \cup {None}]
        BY <1>3 DEF G!Click, G!Queue, GatewayInv, G!TypeOK
    <2> QED
        BY <1>1, <1>3, <2>1
        DEF GatewayInv, G!TypeOK, CheckAsked, OwnCheck, Busy, G!AnswerIsOwn
<1>4. CASE /\ row' = [id |-> last + 1, status |-> "queued", aged |-> FALSE, answer |-> 0]
           /\ last' = last + 1 /\ last < MaxChecks
           /\ click' = [click EXCEPT ![t] = None]
    <2>1. /\ last + 1 \in 0..MaxChecks /\ last + 1 \in 1..(last + 1) /\ 0 \in 0..MaxChecks
          /\ last + 1 <= last + 1 /\ \A i \in 1..last : i \in 1..(last + 1)
        BY <1>2, <1>4
    <2>2. row' \in G!Row
        BY <1>4, <2>1 DEF G!Row, G!Status
    <2>3. G!TypeOK'
        BY <1>1, <1>4, <2>1, <2>2 DEF GatewayInv, G!TypeOK
    <2> QED
        BY <1>1, <1>4, <2>1, <2>3 DEF GatewayInv, CheckAsked, OwnCheck, Busy, G!AnswerIsOwn
<1> QED BY <1>3, <1>4 DEF G!Click, G!Queue

(* What a worker is about.                                                 *)
LEMMA JobFields ==
    ASSUME GatewayInv, NEW w \in Workers
    PROVE  /\ work[w] \in G!Job
           /\ work[w].at # "look" => work[w].id \in 1..last
           /\ Busy(w, {"claim", "finish"}) => /\ work[w].seen \in G!Row
                                              /\ work[w].seen.id = work[w].id
<1>1. work[w] \in G!Job /\ (work[w].at \in {"claim", "finish"} => work[w].seen # None)
    BY DEF GatewayInv, G!TypeOK
<1> QED BY <1>1 DEF GatewayInv, G!TypeOK, OwnCheck, Busy, G!Job

(* A worker goes on with a job of its own; the others with theirs.         *)
LEMMA WorkSet ==
    ASSUME GatewayInv, NEW w \in Workers, NEW j \in G!Job, work' = [work EXCEPT ![w] = j],
           last' = last,
           j.at # "look" => j.id \in 1..last,
           j.at \in {"claim", "finish"} => j.seen # None /\ j.seen.id = j.id,
           j.at = "claim" => j.seen.status \in {"queued", "running"}
    PROVE  /\ work' \in [Workers -> G!Job] /\ OwnCheck'
           /\ \A v \in Workers : /\ work'[v].at # "look" => work'[v].id \in 1..last'
                                 /\ work'[v].at \in {"claim", "finish"} => work'[v].seen # None
<1>1. /\ work' \in [Workers -> G!Job] /\ work'[w] = j
      /\ \A v \in Workers : v # w => work'[v] = work[v]
    BY DEF GatewayInv, G!TypeOK
<1> QED BY <1>1 DEF GatewayInv, G!TypeOK, OwnCheck, Busy

LEMMA WorkerKeeps ==
    ASSUME GatewayInv, NEW w \in Workers, G!WorkerStep(w) \/ G!Crash(w)
    PROVE  GatewayInv'
<1>1. UNCHANGED <<last, click, alive>> /\ row \in G!Row /\ last \in Nat
    BY DEF G!WorkerStep, G!Look, G!Claim, G!Reload, G!Finish, G!Crash, GatewayInv, G!TypeOK
<1>2. G!Nothing \in G!Job /\ G!Nothing.at = "look"
    BY GatewayAssumption DEF G!Nothing, G!Job
<1>3. crashes' \in 0..MaxFaults
    BY BoundsAssumption
    DEF G!WorkerStep, G!Look, G!Claim, G!Reload, G!Finish, G!Crash, GatewayInv, G!TypeOK
<1>4. ASSUME NEW j \in G!Job, work' = [work EXCEPT ![w] = j],
             j.at # "look" => j.id \in 1..last,
             j.at \in {"claim", "finish"} => j.seen # None /\ j.seen.id = j.id,
             j.at = "claim" => j.seen.status \in {"queued", "running"},
             row' \in G!Row, row'.id <= last,
             row'.status # "idle" => row'.id \in 1..last,
             row'.status = "done" => row'.answer = row'.id
      PROVE  GatewayInv'
    <2>1. /\ work' \in [Workers -> G!Job] /\ OwnCheck'
          /\ \A v \in Workers : /\ work'[v].at # "look" => work'[v].id \in 1..last'
                                /\ work'[v].at \in {"claim", "finish"} => work'[v].seen # None
        BY <1>1, <1>4, WorkSet
    <2>2. G!TypeOK'
        BY <1>1, <1>3, <1>4, <2>1 DEF GatewayInv, G!TypeOK
    <2> QED BY <1>1, <1>4, <2>1, <2>2 DEF GatewayInv, CheckAsked, G!AnswerIsOwn
<1>5. /\ row.id <= last /\ (row.status # "idle" => row.id \in 1..last)
      /\ (row.status = "done" => row.answer = row.id) /\ row # None
    BY <1>1, GatewayAssumption DEF GatewayInv, G!TypeOK, CheckAsked, G!AnswerIsOwn
<1>6. CASE row' = row /\ work' = [work EXCEPT ![w] = G!Nothing]
    BY <1>1, <1>2, <1>4, <1>5, <1>6
<1>7. CASE G!Look(w)
    <2> DEFINE j == [at |-> "claim", id |-> row.id, seen |-> row]
    <2>1. row.status \in {"queued", "running"} /\ row' = row /\ work' = [work EXCEPT ![w] = j]
        BY <1>7 DEF G!Look, G!Claimable
    <2>2. j \in G!Job
        BY <1>1 DEF G!Job, G!Row
    <2> QED BY <1>1, <1>4, <1>5, <2>1, <2>2
<1>8. CASE G!Claim(w) /\ row = work[w].seen
    <2> DEFINE j == [work[w] EXCEPT !.at = "ask", !.seen = None]
               r == [row EXCEPT !.status = "running", !.aged = FALSE]
    <2>1. Busy(w, {"claim", "finish"}) /\ row' = r /\ work' = [work EXCEPT ![w] = j]
        BY <1>8 DEF G!Claim, Busy, GatewayInv, G!TypeOK
    <2>2. work[w] \in G!Job /\ work[w].id \in 1..last /\ row.id = work[w].id
        BY <1>8, <2>1, JobFields DEF Busy
    <2>3. j \in G!Job /\ j.at = "ask" /\ j.id = work[w].id
        BY <2>2 DEF G!Job
    <2>4. r \in G!Row /\ r.id = row.id /\ r.status = "running"
        BY <1>1 DEF G!Row, G!Status
    <2> HIDE DEF j, r
    <2> QED BY <1>4, <1>5, <2>1, <2>2, <2>3, <2>4
<1>9. CASE G!Reload(w) /\ row.id = work[w].id
    <2> DEFINE j == [work[w] EXCEPT !.at = "finish", !.seen = row]
    <2>1. work[w].at = "ask" /\ row' = row /\ work' = [work EXCEPT ![w] = j]
        BY <1>9 DEF G!Reload, G!SameCheck, GatewayInv, G!TypeOK
    <2>2. work[w] \in G!Job /\ work[w].id \in 1..last
        BY <2>1, JobFields
    <2>3. j \in G!Job /\ j.at = "finish" /\ j.id = work[w].id /\ j.seen = row
        BY <1>1, <2>2 DEF G!Job
    <2> HIDE DEF j
    <2> QED BY <1>1, <1>4, <1>5, <1>9, <2>1, <2>2, <2>3
<1>10. CASE G!Finish(w)
    <2> DEFINE r == [work[w].seen EXCEPT !.status = "done", !.answer = work[w].id]
    <2>1. Busy(w, {"claim", "finish"}) /\ row' = r /\ work' = [work EXCEPT ![w] = G!Nothing]
        BY <1>10 DEF G!Finish, Busy
    <2>2. work[w].id \in 1..last /\ work[w].seen \in G!Row /\ work[w].seen.id = work[w].id
        BY <1>10, <2>1, JobFields DEF G!Finish
    <2>3. work[w].id \in 0..MaxChecks
        BY <2>2, GatewayAssumption DEF G!Row
    <2>4. r \in G!Row /\ r.id = work[w].id /\ r.status = "done" /\ r.answer = work[w].id
        BY <2>2, <2>3 DEF G!Row, G!Status
    <2> HIDE DEF r
    <2>5. r.id <= last
        BY <1>1, <2>2, <2>4
    <2> QED BY <1>2, <1>4, <2>1, <2>2, <2>4, <2>5
<1> QED
    BY <1>6, <1>7, <1>8, <1>9, <1>10
    DEF G!WorkerStep, G!Claim, G!Reload, G!SameCheck, G!Crash

LEMMA GatewayKeeps == GatewayInv /\ [G!Next]_gateway => GatewayInv'
<1> SUFFICES ASSUME GatewayInv, [G!Next]_gateway PROVE GatewayInv'
    OBVIOUS
<1>1. CASE UNCHANGED gateway
    BY <1>1 DEF gateway, GatewayInv, G!TypeOK, CheckAsked, OwnCheck, Busy, G!AnswerIsOwn
<1>2. CASE G!LeaseEnds
    <2> DEFINE r == [row EXCEPT !.aged = TRUE]
    <2>1. row' = r /\ UNCHANGED <<last, click, work, alive, crashes>> /\ row \in G!Row
        BY <1>2 DEF G!LeaseEnds, GatewayInv, G!TypeOK
    <2>2. r \in G!Row /\ r.id = row.id /\ r.status = row.status /\ r.answer = row.answer
        BY <2>1 DEF G!Row
    <2> HIDE DEF r
    <2> QED BY <2>1, <2>2 DEF GatewayInv, G!TypeOK, CheckAsked, OwnCheck, Busy, G!AnswerIsOwn
<1>3. ASSUME NEW w \in Workers, G!Restart(w) PROVE GatewayInv'
    BY <1>3 DEF G!Restart, GatewayInv, G!TypeOK, CheckAsked, OwnCheck, Busy, G!AnswerIsOwn
<1>4. CASE G!Poll
    BY <1>1, <1>4 DEF G!Poll, G!vars, gateway
<1> QED BY <1>1, <1>2, <1>3, <1>4, ClickKeeps, WorkerKeeps DEF G!Next

(* Both queues: rows, requests and workers keep their types, and a worker  *)
(* is only ever busy with what somebody asked for.                         *)
THEOREM TypesCorrect == QueueSpec => []Types
<1>1. QueueInit => TypeOK /\ Inv /\ GatewayInv
    BY InitTyped, InitKeeps, GatewayStarts DEF QueueInit
<1>2. [QueueNext]_everything => [Next]_vars /\ [G!Next]_gateway
    BY DEF QueueNext, everything
<1>3. Inv /\ GatewayInv => Types
    BY DEF Inv, GatewayInv, Types
<1> QED BY <1>1, <1>2, <1>3, StepKeeps, GatewayKeeps, PTL DEF QueueSpec

(* _finish_gateway_check: the page never shows for a check the answer to   *)
(* another one, however late a worker comes back.                          *)
THEOREM AnswerIsOwnCorrect == QueueSpec => []G!AnswerIsOwn
<1>1. QueueInit => GatewayInv
    BY GatewayStarts DEF QueueInit
<1>2. [QueueNext]_everything => [G!Next]_gateway
    BY DEF QueueNext, everything
<1>3. GatewayInv => G!AnswerIsOwn
    BY DEF GatewayInv
<1> QED BY <1>1, <1>2, <1>3, GatewayKeeps, PTL DEF QueueSpec
=============================================================================
