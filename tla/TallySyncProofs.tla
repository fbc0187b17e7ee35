-------------------------- MODULE TallySyncProofs --------------------------
(***************************************************************************)
(* Proofs about TallySync, for every value of its constants.               *)
(***************************************************************************)
EXTENDS TallySync, SequenceTheorems, FiniteSetTheorems, TLAPS

-----------------------------------------------------------------------------
(* Type correctness.                                                       *)

(* Updating the status of one attempt keeps the sequence well typed.       *)
LEMMA RowUpdate ==
    ASSUME NEW s \in Seq(Row), NEW i \in Nat, NEW o \in Outcomes
    PROVE  [s EXCEPT ![i].status = o] \in Seq(Row)
<1>1. CASE i \in 1..Len(s)
  <2>1. s[i] \in Row
    BY <1>1, ElementOfSeq
  <2>2. [s[i] EXCEPT !.status = o] \in Row
    BY <2>1 DEF Row
  <2>. QED  BY <1>1, <2>2, ExceptSeq
<1>2. CASE i \notin 1..Len(s)
  <2>1. [s EXCEPT ![i].status = o] = s
    BY <1>2
  <2>. QED  BY <2>1
<1>. QED  BY <1>1, <1>2

LEMMA TypedInit == Init => Typed
BY NoneAssumption, FaultsAssumption
   DEF Init, Typed, TypeOK, JobOK, LockOK, Statuses

(* What a click may do to the row of a batch.                              *)
LEMMA RequeueType ==
    ASSUME TypeOK, NEW u \in Users, Requeue(u)
    PROVE  /\ status' \in [Batches -> Statuses]
           /\ frozen' \in [Batches -> Payloads \cup {None}]
           /\ started' \in [Batches -> Nat]
           /\ aged' \subseteq Batches
           /\ cooldown' \in [Batches -> {"none", "cooling", "due"}]
           /\ click' \in [Users -> Seen \cup {None}]
           /\ UNCHANGED <<rid, attempts, settings, workerVars, tallyVars, faults>>
<1> DEFINE b == click[u].batch
<1>1. click[u] \in Seen
  BY DEF Requeue, TypeOK
<1>2. b \in Batches
  BY <1>1 DEF Seen
<1>3. click' \in [Users -> Seen \cup {None}]
  BY DEF TypeOK, Requeue
<1>4. CASE UNCHANGED <<status, frozen, started, aged, cooldown>>
  BY <1>3, <1>4 DEF TypeOK, Requeue
<1>5. CASE /\ status'   = [status EXCEPT ![b] = "PENDING_SYNC"]
           /\ frozen'   = [frozen EXCEPT ![b] = None]
           /\ started'  = [started EXCEPT ![b] = 0]
           /\ aged'     = aged \ {b}
           /\ cooldown' = [cooldown EXCEPT ![b] = "none"]
  BY <1>2, <1>3, <1>5 DEF TypeOK, Requeue, Statuses
<1>6. CASE /\ cooldown' = [cooldown EXCEPT ![b] = "none"]
           /\ UNCHANGED <<status, frozen, started, aged>>
  BY <1>2, <1>3, <1>6 DEF TypeOK, Requeue
<1>. QED  BY <1>4, <1>5, <1>6 DEF Requeue

LEMMA TypedRequest == Typed /\ RequestNext => Typed'
<1> SUFFICES ASSUME Typed, RequestNext PROVE Typed'
  OBVIOUS
<1> USE DEF Typed, TypeOK, JobOK, LockOK, Statuses, workerVars, tallyVars, dbVars
<1>1. ASSUME NEW b \in Batches, Submit(b) PROVE Typed'
  BY <1>1 DEF Submit
<1>2. ASSUME NEW u \in Users, NEW b \in Batches, OpenRetry(u, b) PROVE Typed'
  <2>1. [batch |-> b, status |-> status[b], stamped |-> cooldown[b] # "none"] \in Seen
    BY DEF Seen
  <2>. QED  BY <1>2, <2>1 DEF OpenRetry
<1>3. ASSUME NEW u \in Users, Requeue(u) PROVE Typed'
  <2>1. /\ status' \in [Batches -> Statuses]
        /\ frozen' \in [Batches -> Payloads \cup {None}]
        /\ started' \in [Batches -> Nat]
        /\ aged' \subseteq Batches
        /\ cooldown' \in [Batches -> {"none", "cooling", "due"}]
        /\ click' \in [Users -> Seen \cup {None}]
        /\ UNCHANGED <<rid, attempts, settings, workerVars, tallyVars, faults>>
    BY <1>3, RequeueType
  <2>. QED  BY <2>1
<1>4. ASSUME NEW s \in Settings, SaveSettings(s) PROVE Typed'
  BY <1>4 DEF SaveSettings
<1>. QED  BY <1>1, <1>2, <1>3, <1>4 DEF RequestNext

LEMMA LoadType == ASSUME TypeOK, NEW b \in Batches PROVE Load(b) \in Job
BY DEF Load, Job, TypeOK

LEMMA SettingsPayload ==
    ASSUME TypeOK, NEW j \in Job
    PROVE  /\ TallyRemoteId(j) \in Rids
           /\ BuildVoucherXml(j) \in Payloads
BY DEF TypeOK, TallyRemoteId, BuildVoucherXml, Job, Rids, Payloads, Settings

LEMMA TypedWorker ==
    ASSUME NEW w \in Workers, Typed,
           (\E b \in Batches : Select(w, b)) \/ SyncStep(w)
    PROVE  Typed'
<1> USE DEF Typed, TypeOK, JobOK, LockOK, workerVars, tallyVars, dbVars
<1>0. wpc[w] # "idle" => job[w] \in Job /\ job[w].batch \in Batches
  BY DEF Job
<1>1. ASSUME NEW b \in Batches, Select(w, b) PROVE Typed'
  BY <1>1, LoadType, NoneAssumption DEF Select
<1>2. CASE SkipSynced(w)
  BY <1>2, NoneAssumption DEF SkipSynced
<1>3. CASE Lock(w)
  <2>1. Load(job[w].batch) \in Job
    BY <1>3, <1>0, LoadType DEF Lock
  <2>. QED  BY <1>0, <1>3, <2>1, NoneAssumption DEF Lock
<1>4. CASE SkipLeased(w)
  BY <1>4, NoneAssumption DEF SkipLeased, Release
<1>5. CASE Prepare(w)
  <2>1. job[w] \in Job /\ BuildVoucherXml(job[w]) \in Payloads
    BY <1>0, <1>5, SettingsPayload DEF Prepare
  <2>2. ~MustBuild(job[w]) => job[w].frozen \in Payloads
    BY <2>1 DEF MustBuild, Job
  <2>3. job'[w] \in Job /\ job'[w].xml \in Payloads
    BY <1>5, <2>1, <2>2 DEF Prepare, Job
  <2>. QED  BY <1>5, <2>3, NoneAssumption DEF Prepare
<1>6. CASE BuildFails(w)
  <2>1. job[w] \in Job /\ TallyRemoteId(job[w]) \in Rids
    BY <1>0, <1>6, SettingsPayload DEF BuildFails
  <2>. QED  BY <1>0, <1>6, <2>1, NoneAssumption
            DEF BuildFails, PutBack, Flushed, Release, Job, Statuses
<1>7. CASE SyncDisabled(w)
  <2>1. job[w] \in Job /\ RidOf(job[w]) \in Rids /\ job[w].xml \in Payloads
    BY <1>0, <1>7 DEF SyncDisabled, RidOf, Job, Payloads
  <2>2. /\ status' \in [Batches -> Statuses]
        /\ rid' \in [Batches -> Rids \cup {None}]
        /\ frozen' \in [Batches -> Payloads \cup {None}]
        /\ cooldown' \in [Batches -> {"none", "cooling", "due"}]
    BY <1>0, <1>7, <2>1 DEF SyncDisabled, PutBack, Flushed, Statuses
  <2>. QED  BY <1>7, <2>2, NoneAssumption DEF SyncDisabled, PutBack, Release
<1>8. CASE Claim(w)
  <2> DEFINE b == job[w].batch
             n == Len(attempts[b]) + 1
             r == [xml |-> job[w].xml, status |-> "SYNCING"]
  <2>1. b \in Batches /\ job[w] \in Job /\ job[w].xml \in Payloads /\ RidOf(job[w]) \in Rids
    BY <1>0, <1>8 DEF Claim, RidOf, Job, Payloads
  <2>2. n \in Nat
    BY <2>1
  <2>3. r \in Row
    BY <2>1 DEF Row
  <2>4. Append(attempts[b], r) \in Seq(Row)
    BY <2>1, <2>3
  <2>5. job'[w] \in Job /\ job'[w].xml \in Payloads
    <3>1. job'[w] = [batch |-> b, status |-> "SYNCING", frozen |-> job[w].xml,
                     rid |-> RidOf(job[w]), started |-> n, aged |-> FALSE,
                     xml |-> job[w].xml]
      BY <1>8 DEF Claim
    <3>. HIDE DEF b, n, r
    <3>. QED  BY <2>1, <2>2, <3>1 DEF Job, Statuses
  <2>6. /\ status' \in [Batches -> Statuses]
        /\ rid' \in [Batches -> Rids \cup {None}]
        /\ frozen' \in [Batches -> Payloads \cup {None}]
        /\ started' \in [Batches -> Nat]
        /\ aged' \subseteq Batches
        /\ cooldown' \in [Batches -> {"none", "cooling", "due"}]
        /\ attempts' \in [Batches -> Seq(Row)]
    BY <1>8, <2>1, <2>2, <2>4 DEF Claim, Statuses
  <2>7. /\ wpc' = [wpc EXCEPT ![w] = "claimed"]
        /\ job' = [job EXCEPT ![w] = job'[w]]
        /\ UNCHANGED <<settings, click, active, lock, tallyVars, faults>>
        /\ wpc[w] = "built"
    BY <1>8 DEF Claim
  <2>. HIDE DEF b, n, r
  <2>. QED  BY <2>5, <2>6, <2>7, NoneAssumption
<1>9. CASE ClaimLost(w)
  BY <1>9, NoneAssumption DEF ClaimLost, Release
<1>10. CASE Send(w)
  BY <1>10, NoneAssumption DEF Send
<1>11. CASE Commit(w)
  <2> DEFINE b == job[w].batch
             i == job[w].started
             o == job[w].status
  <2>1. b \in Batches /\ i \in Nat /\ o \in Outcomes /\ job[w] \in Job
    BY <1>0, <1>11 DEF Commit, Job
  <2>2. [attempts[b] EXCEPT ![i].status = o] \in Seq(Row)
    BY <2>1, RowUpdate
  <2>3. attempts' \in [Batches -> Seq(Row)]
    BY <1>11, <2>1, <2>2 DEF Commit, Recorded
  <2>4. /\ status' \in [Batches -> Statuses]
        /\ started' \in [Batches -> Nat]
        /\ aged' \subseteq Batches
        /\ cooldown' \in [Batches -> {"none", "cooling", "due"}]
    BY <1>11, <2>1 DEF Commit, Statuses, Outcomes
  <2>. HIDE DEF b, i, o
  <2>. QED  BY <1>11, <2>3, <2>4, NoneAssumption DEF Commit, Release
<1>. QED
  BY <1>1, <1>2, <1>3, <1>4, <1>5, <1>6, <1>7, <1>8, <1>9, <1>10, <1>11 DEF SyncStep

LEMMA FaultCount == ASSUME TypeOK, NEW k, Fault(k) PROVE faults' \in 0..MaxFaults
BY FaultsAssumption DEF TypeOK, Fault

LEMMA ImportType == ASSUME TypeOK, NEW p \in Payloads PROVE Imported(p) \subseteq Payloads
BY DEF TypeOK, Imported

LEMMA TypedAnswer ==
    ASSUME NEW w \in Workers, Typed, Answer(w)
    PROVE  Typed'
<1> USE DEF Typed, TypeOK, JobOK, LockOK, workerVars, tallyVars, dbVars
<1>1. /\ wpc[w] = "posting" /\ job[w] \in Job /\ wire = job[w].xml /\ wire \in Payloads
      /\ lock = w
  BY DEF Answer, Accept, Reject, Unreadable, Timeout
<1>2. \A v \in Workers : v # w => wpc[v] # "posting"
  BY <1>1
<1>3. Imported(wire) \subseteq Payloads
  BY <1>1, ImportType
<1>4. books' \subseteq Payloads /\ wire' \in Payloads \cup {None}
  BY <1>1, <1>3 DEF Answer, Accept, Reject, Unreadable, Timeout
<1>5. faults' \in 0..MaxFaults
  BY FaultCount DEF Answer, Accept, Reject, Unreadable, Timeout
<1>6. \E o \in Outcomes : Answered(w, o)
  BY DEF Answer, Accept, Reject, Unreadable, Timeout, Outcomes
<1>7. PICK o \in Outcomes : Answered(w, o)
  BY <1>6
<1>8. job'[w] \in Job /\ job'[w].xml \in Payloads /\ job'[w].status \in Outcomes
  BY <1>1, <1>7 DEF Answered, Job, Statuses, Outcomes
<1>. QED  BY <1>1, <1>2, <1>4, <1>5, <1>7, <1>8 DEF Answered

LEMMA TypedRest ==
    ASSUME Typed,
           (\E w \in Workers : Exception(w) \/ RestartWorker(w)) \/ EnvironmentNext
    PROVE  Typed'
<1> USE DEF Typed, TypeOK, JobOK, LockOK, workerVars, tallyVars, dbVars
<1>1. ASSUME NEW w \in Workers, Exception(w) PROVE Typed'
  BY <1>1, FaultCount, NoneAssumption DEF Exception
<1>2. ASSUME NEW w \in Workers, RestartWorker(w) PROVE Typed'
  BY <1>2, FaultCount DEF RestartWorker
<1>3. CASE LateImport
  BY <1>3, ImportType DEF LateImport, Abandoned
<1>4. CASE LateDrop
  BY <1>4 DEF LateDrop, Abandoned
<1>5. CASE Crash
  BY <1>5, FaultCount, NoneAssumption DEF Crash
<1>6. ASSUME NEW b \in Batches, LeaseExpires(b) PROVE Typed'
  BY <1>6 DEF LeaseExpires
<1>7. ASSUME NEW b \in Batches, CooldownEnds(b) PROVE Typed'
  BY <1>7 DEF CooldownEnds
<1>. QED  BY <1>1, <1>2, <1>3, <1>4, <1>5, <1>6, <1>7 DEF EnvironmentNext

LEMMA TypedNext == Typed /\ [Next]_vars => Typed'
<1> SUFFICES ASSUME Typed, [Next]_vars PROVE Typed'
  OBVIOUS
<1>1. CASE RequestNext
  BY <1>1, TypedRequest
<1>2. CASE WorkerNext
  BY <1>2, TypedWorker, TypedAnswer, TypedRest DEF WorkerNext
<1>3. CASE EnvironmentNext
  BY <1>3, TypedRest
<1>4. CASE UNCHANGED vars
  BY <1>4 DEF vars, Typed, TypeOK, JobOK, LockOK, dbVars, workerVars, tallyVars
<1>. QED  BY <1>1, <1>2, <1>3, <1>4 DEF Next

(* Every variable keeps its type, a worker past the lock holds it and has  *)
(* a payload, and what is on the wire is what its sender posted.           *)
THEOREM TypeCorrect == Spec => []Typed
BY TypedInit, TypedNext, PTL DEF Spec

THEOREM TypeOKCorrect == Spec => []TypeOK
BY TypeCorrect, PTL DEF Typed

-----------------------------------------------------------------------------
(* The safety invariant that holds whatever fails.                         *)

PastLock == {"locked", "built", "claimed", "posting", "answered"}
Posting  == {"claimed", "posting", "answered"}

LEMMA LockIsExclusive ==
    ASSUME Typed, NEW v \in Workers, NEW w \in Workers,
           wpc[v] \in PastLock, wpc[w] \in PastLock
    PROVE  v = w
BY DEF Typed, LockOK, PastLock

(* The batch a worker has loaded is one; a batch names its remote ids.     *)
LEMMA JobBatch ==
    ASSUME Typed, NEW w \in Workers, wpc[w] # "idle"
    PROVE  job[w] \in Job /\ job[w].batch \in Batches
BY DEF Typed, JobOK, Job

LEMMA SafeInit == Init => Safe
BY DEF Init, Safe, Belongs, RowBelongs, JobBelongs, ClaimIsHeld, SyncedIsInTally, NothingLeftToImport

(* A step of a request thread or of the clock touches only rows that are   *)
(* neither claimed nor synced, and does not make them so.                  *)
LEMMA RowStep ==
    ASSUME Typed, Safe, UNCHANGED <<wpc, job, lock, books, wire>>,
           \A b \in Batches :
              \/ /\ status'[b] = status[b] /\ frozen'[b] = frozen[b] /\ rid'[b] = rid[b]
                 /\ started'[b] = started[b] /\ attempts'[b] = attempts[b]
              \/ /\ status[b] # "SYNCING" /\ status'[b] # "SYNCED"
                 /\ frozen'[b] \in {frozen[b], None} /\ rid'[b] = rid[b]
    PROVE  Safe'
<1>1. Belongs'
  BY DEF Safe, Belongs, RowBelongs, JobBelongs
<1>2. ClaimIsHeld'
  <2> SUFFICES ASSUME NEW w \in Workers, wpc[w] \in Posting
               PROVE  ClaimIsHeld!(w)'
    BY DEF ClaimIsHeld, Posting
  <2>1. job[w].batch \in Batches /\ ClaimIsHeld!(w)
    BY JobBatch DEF Safe, ClaimIsHeld, Posting
  <2>. QED  BY <2>1 DEF Posting
<1>3. SyncedIsInTally'
  BY DEF Safe, SyncedIsInTally
<1>4. NothingLeftToImport'
  <2>1. wire # None => wire.rid[2] \in Batches
    BY DEF Typed, TypeOK, Payloads, Rids
  <2>2. \A w \in Workers : wpc[w] \in {"locked", "built"} => job[w].batch \in Batches
    BY JobBatch
  <2>. QED  BY <2>1, <2>2 DEF Safe, NothingLeftToImport
<1>. QED  BY <1>1, <1>2, <1>3, <1>4 DEF Safe

LEMMA SafeRequest ==
    ASSUME Typed, Safe, RequestNext
    PROVE  Safe'
<1> USE DEF Typed, TypeOK, workerVars, tallyVars, dbVars
<1>1. ASSUME NEW b \in Batches, Submit(b) PROVE Safe'
  BY <1>1, RowStep DEF Submit
<1>2. ASSUME NEW u \in Users, NEW b \in Batches, OpenRetry(u, b) PROVE Safe'
  BY <1>2, RowStep DEF OpenRetry
<1>3. ASSUME NEW u \in Users, Requeue(u) PROVE Safe'
  <2>1. click[u].batch \in Batches
    BY <1>3 DEF Requeue, Seen
  <2>. QED  BY <1>3, <2>1, RowStep DEF Requeue, StillAsSeen
<1>4. ASSUME NEW s \in Settings, SaveSettings(s) PROVE Safe'
  BY <1>4, RowStep DEF SaveSettings
<1>. QED  BY <1>1, <1>2, <1>3, <1>4 DEF RequestNext

(* A step of a worker that touches neither the rows nor Tally, and leaves  *)
(* it idle or with a batch object that may be loaded.                      *)
LEMMA LocalStep ==
    ASSUME Typed, Safe, NEW w \in Workers,
           UNCHANGED <<status, frozen, rid, started, attempts, books, wire>>,
           \A v \in Workers : v # w => wpc'[v] = wpc[v] /\ job'[v] = job[v],
           \/ wpc'[w] = "idle"
           \/ /\ wpc'[w] \in {"selected", "locked", "built"}
              /\ JobBelongs(job'[w])
              /\ job'[w].status # "SYNCED"
              /\ wpc'[w] \in {"locked", "built"} => status[job'[w].batch] # "SYNCED",
           \A v \in Workers : v # w /\ wpc[v] \in Posting => lock' = v
    PROVE  Safe'
<1>1. Belongs'
  <2>1. ASSUME NEW v \in Workers, wpc'[v] # "idle" PROVE JobBelongs(job'[v])
    <3>1. CASE v = w
      BY <2>1, <3>1
    <3>2. CASE v # w
      BY <2>1, <3>2 DEF Safe, Belongs, RowBelongs, JobBelongs
    <3>. QED  BY <3>1, <3>2
  <2>. QED  BY <2>1 DEF Safe, Belongs, RowBelongs, JobBelongs
<1>2. ClaimIsHeld'
  <2> SUFFICES ASSUME NEW v \in Workers, wpc'[v] \in Posting
               PROVE  ClaimIsHeld!(v)'
    BY DEF ClaimIsHeld, Posting
  <2>1. v # w /\ wpc'[v] = wpc[v] /\ job'[v] = job[v] /\ lock' = v
    BY DEF Posting
  <2>. QED  BY <2>1 DEF Safe, ClaimIsHeld, Posting
<1>3. SyncedIsInTally'
  BY DEF Safe, SyncedIsInTally
<1>4. NothingLeftToImport'
  <2> SUFFICES ASSUME NEW v \in Workers
               PROVE  NothingLeftToImport!2!(v)'
    BY DEF Safe, NothingLeftToImport
  <2>1. CASE v = w
    BY <2>1
  <2>2. CASE v # w
    BY <2>2 DEF Safe, NothingLeftToImport
  <2>. QED  BY <2>1, <2>2
<1>. QED  BY <1>1, <1>2, <1>3, <1>4 DEF Safe

LEMMA LoadBelongs ==
    ASSUME Typed, Safe, NEW b \in Batches
    PROVE  JobBelongs(Load(b)) /\ Load(b).batch = b /\ Load(b).status = status[b]
BY DEF Load, Safe, Belongs, RowBelongs, JobBelongs

LEMMA SafeLocal ==
    ASSUME Typed, Safe, NEW w \in Workers,
           \/ \E b \in Batches : Select(w, b)
           \/ SkipSynced(w) \/ Lock(w) \/ SkipLeased(w) \/ Prepare(w) \/ ClaimLost(w)
           \/ Exception(w)
    PROVE  Safe'
<1> USE DEF Typed, TypeOK, dbVars, tallyVars, workerVars
<1>0. \A v \in Workers : wpc[v] \in Posting => lock = v
  BY DEF Safe, ClaimIsHeld, Posting
<1>1. ASSUME NEW b \in Batches, Select(w, b) PROVE Safe'
  <2>1. status[b] # "SYNCED"
    BY <1>1 DEF Select, Due
  <2>2. wpc'[w] = "selected" /\ job'[w] = Load(b)
    BY <1>1 DEF Select
  <2>3. \A v \in Workers : v # w => wpc'[v] = wpc[v] /\ job'[v] = job[v]
    BY <1>1 DEF Select
  <2>4. JobBelongs(job'[w]) /\ job'[w].status # "SYNCED"
    BY <2>1, <2>2, LoadBelongs
  <2>. QED  BY <1>0, <1>1, <2>2, <2>3, <2>4, LocalStep DEF Select
<1>2. CASE SkipSynced(w)
  BY <1>0, <1>2, LocalStep DEF SkipSynced
<1>3. CASE Lock(w)
  <2> DEFINE b == job[w].batch
  <2>1. b \in Batches /\ wpc[w] = "selected" /\ lock = None
    BY <1>3, JobBatch DEF Lock
  <2>2. \A v \in Workers : wpc[v] \notin Posting
    BY <1>0, <2>1, NoneAssumption
  <2>3. job'[w] = job[w] \/ job'[w] = Load(b)
    BY <1>3 DEF Lock
  <2>4. job[w].status # "SYNCED" /\ status[b] # "SYNCED"
    BY <1>3, <2>1 DEF Safe, NothingLeftToImport, Lock
  <2>5. JobBelongs(job[w])
    BY <2>1 DEF Safe, Belongs, RowBelongs, JobBelongs
  <2>6. /\ job'[w].batch = b /\ job'[w].status # "SYNCED"
        /\ JobBelongs(job'[w])
    BY <2>1, <2>3, <2>4, <2>5, LoadBelongs
  <2>7. wpc'[w] = "locked" /\ \A v \in Workers : v # w => wpc'[v] = wpc[v] /\ job'[v] = job[v]
    BY <1>3 DEF Lock
  <2>. HIDE DEF b
  <2>. QED  BY <1>3, <2>2, <2>4, <2>6, <2>7, LocalStep DEF Lock
<1>4. CASE SkipLeased(w)
  BY <1>0, <1>4, LockIsExclusive, LocalStep DEF SkipLeased, Release, PastLock, Posting
<1>5. CASE Prepare(w)
  <2>1. wpc[w] = "locked" /\ job[w] \in Job /\ job[w].batch \in Batches
    BY <1>5, JobBatch DEF Prepare
  <2>2. /\ wpc'[w] = "built"
        /\ job'[w] = [job[w] EXCEPT !.xml = IF MustBuild(job[w]) THEN BuildVoucherXml(job[w])
                                                                 ELSE job[w].frozen]
    BY <1>5, <2>1 DEF Prepare
  <2>3. /\ job'[w].batch = job[w].batch /\ job'[w].status = job[w].status
        /\ job'[w].frozen = job[w].frozen /\ job'[w].rid = job[w].rid
        /\ job'[w].xml = IF MustBuild(job[w]) THEN BuildVoucherXml(job[w]) ELSE job[w].frozen
    BY <2>1, <2>2 DEF Job
  <2>4. BuildVoucherXml(job[w]).rid[2] = job[w].batch
    BY <2>1 DEF BuildVoucherXml, TallyRemoteId, Safe, Belongs, RowBelongs, JobBelongs
  <2>5. job'[w].xml.rid[2] = job[w].batch
    BY <2>1, <2>3, <2>4 DEF MustBuild, Safe, Belongs, RowBelongs, JobBelongs
  <2>6. JobBelongs(job'[w])
    BY <2>1, <2>3, <2>5 DEF Safe, Belongs, RowBelongs, JobBelongs
  <2>7. job'[w].status # "SYNCED" /\ status[job'[w].batch] # "SYNCED"
    BY <2>1, <2>3 DEF Safe, NothingLeftToImport
  <2>8. \A v \in Workers : v # w => wpc'[v] = wpc[v] /\ job'[v] = job[v]
    BY <1>5 DEF Prepare
  <2>. QED  BY <1>0, <1>5, <2>2, <2>6, <2>7, <2>8, LocalStep DEF Prepare
<1>6. CASE ClaimLost(w)
  <2>1. wpc'[w] = "idle" /\ \A v \in Workers : v # w => wpc'[v] = wpc[v] /\ job'[v] = job[v]
    BY <1>6 DEF ClaimLost, Release
  <2>2. \A v \in Workers : wpc[v] \in Posting => v = w
    BY <1>6, LockIsExclusive DEF ClaimLost, PastLock, Posting
  <2>. QED  BY <1>6, <2>1, <2>2, LocalStep DEF ClaimLost
<1>7. CASE Exception(w)
  BY <1>0, <1>7, LocalStep DEF Exception
<1>. QED  BY <1>1, <1>2, <1>3, <1>4, <1>5, <1>6, <1>7

(* A batch goes back to PENDING_SYNC under the lock: its row is neither    *)
(* claimed by another worker nor synced.                                   *)
LEMMA SafePutBack ==
    ASSUME Typed, Safe, NEW w \in Workers, BuildFails(w) \/ SyncDisabled(w)
    PROVE  Safe'
<1> DEFINE b == job[w].batch
<1> USE DEF Typed, TypeOK, dbVars, tallyVars, workerVars
<1>1. wpc[w] \in {"locked", "built"} /\ job[w] \in Job /\ b \in Batches
  BY JobBatch DEF BuildFails, SyncDisabled
<1>2. PICK r \in Rids, x \in Payloads \cup {None} :
         /\ PutBack(w, r, x) /\ r[2] = b
         /\ x # None => x.rid[2] = b
  <2>1. CASE BuildFails(w)
    <3>1. TallyRemoteId(job[w]) \in Rids /\ job[w].frozen \in Payloads \cup {None}
      BY <1>1, SettingsPayload DEF Job
    <3>2. TallyRemoteId(job[w])[2] = b
      BY <1>1 DEF TallyRemoteId, Safe, Belongs, RowBelongs, JobBelongs
    <3>. QED  BY <1>1, <2>1, <3>1, <3>2 DEF BuildFails, Safe, Belongs, RowBelongs, JobBelongs
  <2>2. CASE SyncDisabled(w)
    <3>1. job[w].xml \in Payloads /\ RidOf(job[w]) \in Rids /\ wpc[w] # "idle"
      BY <1>1, <2>2 DEF SyncDisabled, JobOK, RidOf, Job, Payloads
    <3>2. RidOf(job[w])[2] = b /\ job[w].xml.rid[2] = b
      BY <1>1, <3>1, NoneAssumption DEF RidOf, Safe, Belongs, RowBelongs, JobBelongs
    <3>. QED  BY <2>2, <3>1, <3>2 DEF SyncDisabled
  <2>. QED  BY <2>1, <2>2
<1>3. \A v \in Workers : /\ v # w => wpc'[v] = wpc[v] /\ job'[v] = job[v] /\ wpc[v] \notin PastLock
                         /\ wpc'[w] = "idle"
  BY <1>1, <1>2, LockIsExclusive DEF PutBack, Release, PastLock
<1>4. status[b] # "SYNCED" /\ status'[b] # "SYNCED"
  BY <1>1, <1>2 DEF Safe, NothingLeftToImport, PutBack, Flushed
<1>5. \A c \in Batches : c # b => status'[c] = status[c] /\ frozen'[c] = frozen[c] /\ rid'[c] = rid[c]
  BY <1>1, <1>2 DEF PutBack
<1>6. books' = books /\ wire' = wire
  BY <1>2 DEF PutBack
<1>7. Belongs'
  <2>1. /\ frozen'[b] # None => frozen'[b].rid[2] = b
        /\ rid'[b] # None => rid'[b][2] = b
    BY <1>1, <1>2 DEF PutBack, Flushed, Safe, Belongs, RowBelongs, JobBelongs
  <2>2. ASSUME NEW c \in Batches PROVE RowBelongs(c)'
    <3>1. CASE c = b
      BY <2>1, <3>1 DEF RowBelongs
    <3>2. CASE c # b
      BY <1>5, <3>2 DEF Safe, Belongs, RowBelongs
    <3>. QED  BY <3>1, <3>2
  <2>3. ASSUME NEW v \in Workers, wpc'[v] # "idle" PROVE JobBelongs(job[v])'
    BY <1>3, <2>3 DEF Safe, Belongs
  <2>. QED  BY <2>2, <2>3 DEF Belongs
<1>8. ClaimIsHeld'
  BY <1>3 DEF ClaimIsHeld, PastLock
<1>9. SyncedIsInTally'
  BY <1>4, <1>5, <1>6 DEF Safe, SyncedIsInTally
<1>10. NothingLeftToImport'
  <2>1. wire # None => wire.rid[2] \in Batches
    BY DEF Payloads, Rids
  <2>2. \A v \in Workers : wpc[v] \in {"locked", "built"} => job[v].batch \in Batches
    BY JobBatch
  <2>3. wire' # None => status'[wire'.rid[2]] # "SYNCED"
    BY <1>4, <1>5, <1>6, <2>1 DEF Safe, NothingLeftToImport
  <2>4. \A v \in Workers : wpc'[v] \notin PastLock
    BY <1>3 DEF PastLock
  <2>5. \A v \in Workers : wpc'[v] = "selected" => job'[v].status # "SYNCED"
    BY <1>3 DEF Safe, NothingLeftToImport
  <2>. QED  BY <2>3, <2>4, <2>5 DEF NothingLeftToImport, PastLock
<1>. QED  BY <1>7, <1>8, <1>9, <1>10 DEF Safe

(* The claim itself: the row becomes the worker's.                         *)
LEMMA SafeClaim ==
    ASSUME Typed, Safe, NEW w \in Workers, Claim(w)
    PROVE  Safe'
<1> DEFINE b == job[w].batch
           n == Len(attempts[b]) + 1
           x == job[w].xml
           r == RidOf(job[w])
<1>1. /\ wpc[w] = "built" /\ b \in Batches /\ job[w] \in Job
      /\ lock = w /\ lock' = lock /\ books' = books /\ wire' = wire
  BY JobBatch DEF Claim, Typed, LockOK, tallyVars
<1>2. x \in Payloads /\ x.rid[2] = b /\ r[2] = b
  BY <1>1, NoneAssumption DEF Typed, JobOK, Safe, Belongs, RowBelongs, JobBelongs, RidOf
<1>3. attempts[b] \in Seq(Row)
  BY <1>1 DEF Typed, TypeOK
<1>4. /\ status'[b] = "SYNCING" /\ frozen'[b] = x /\ rid'[b] = r /\ started'[b] = n
      /\ attempts'[b] = Append(attempts[b], [xml |-> x, status |-> "SYNCING"])
  BY <1>1 DEF Claim, Typed, TypeOK
<1>5. \A c \in Batches : c # b => status'[c] = status[c] /\ frozen'[c] = frozen[c] /\ rid'[c] = rid[c]
  BY <1>1 DEF Claim, Typed, TypeOK
<1>6. /\ wpc'[w] = "claimed"
      /\ job'[w] = [batch |-> b, status |-> "SYNCING", frozen |-> x, rid |-> r,
                    started |-> n, aged |-> FALSE, xml |-> x]
      /\ \A v \in Workers : v # w => wpc'[v] = wpc[v] /\ job'[v] = job[v]
  BY DEF Claim, Typed, TypeOK
<1>7. \A v \in Workers : v # w => wpc[v] \notin PastLock
  BY <1>1, LockIsExclusive DEF PastLock
<1>8. attempts'[b][n] = [xml |-> x, status |-> "SYNCING"]
  BY <1>3, <1>4
<1>. HIDE DEF b, n, x, r
<1>9. Belongs'
  <2>1. ASSUME NEW c \in Batches PROVE RowBelongs(c)'
    <3>1. CASE c = b
      BY <1>2, <1>4, <3>1 DEF RowBelongs
    <3>2. CASE c # b
      BY <1>5, <3>2 DEF Safe, Belongs, RowBelongs
    <3>. QED  BY <3>1, <3>2
  <2>2. ASSUME NEW v \in Workers, wpc'[v] # "idle" PROVE JobBelongs(job[v])'
    <3>1. CASE v = w
      BY <1>2, <1>6, <3>1 DEF JobBelongs
    <3>2. CASE v # w
      BY <1>6, <2>2, <3>2 DEF Safe, Belongs
    <3>. QED  BY <3>1, <3>2
  <2>. QED  BY <2>1, <2>2 DEF Belongs
<1>10. ClaimIsHeld'
  <2> SUFFICES ASSUME NEW v \in Workers, wpc'[v] \in Posting
               PROVE  ClaimIsHeld!(v)'
    BY DEF ClaimIsHeld, Posting
  <2>1. v = w
    BY <1>6, <1>7 DEF PastLock, Posting
  <2>2. job'[v].batch = b /\ job'[v].xml = x /\ job'[v].started = n
    BY <1>6, <2>1
  <2>. QED  BY <1>1, <1>4, <1>8, <2>1, <2>2
<1>11. SyncedIsInTally'
  BY <1>1, <1>4, <1>5 DEF Safe, SyncedIsInTally
<1>12. NothingLeftToImport'
  <2>1. wire # None => wire.rid[2] \in Batches
    BY DEF Typed, TypeOK, Payloads, Rids
  <2>2. wire' # None => status'[wire'.rid[2]] # "SYNCED"
    BY <1>1, <1>4, <1>5, <2>1 DEF Safe, NothingLeftToImport
  <2>3. \A v \in Workers : wpc'[v] \notin {"locked", "built", "answered"}
    BY <1>6, <1>7 DEF PastLock
  <2>4. \A v \in Workers : wpc'[v] = "selected" => job'[v].status # "SYNCED"
    BY <1>6 DEF Safe, NothingLeftToImport
  <2>. QED  BY <2>2, <2>3, <2>4 DEF NothingLeftToImport
<1>. QED  BY <1>9, <1>10, <1>11, <1>12 DEF Safe

LEMMA SafeSend ==
    ASSUME Typed, Safe, NEW w \in Workers, Send(w)
    PROVE  Safe'
<1>1. /\ wpc[w] = "claimed" /\ wpc'[w] = "posting" /\ job' = job /\ lock' = lock
      /\ wire' = job[w].xml /\ books' = books
      /\ UNCHANGED <<status, frozen, rid, started, attempts>>
      /\ \A v \in Workers : v # w => wpc'[v] = wpc[v]
  BY DEF Send, Typed, TypeOK, dbVars
<1>2. \A v \in Workers : v # w => wpc[v] \notin PastLock
  BY <1>1, LockIsExclusive DEF PastLock
<1>3. Belongs'
  BY <1>1 DEF Safe, Belongs, RowBelongs, JobBelongs
<1>4. ClaimIsHeld'
  <2>1. ClaimIsHeld!(w)
    BY DEF Safe, ClaimIsHeld
  <2>2. \A v \in Workers : wpc'[v] \in Posting => v = w
    BY <1>1, <1>2 DEF PastLock, Posting
  <2>. QED  BY <1>1, <2>1, <2>2 DEF ClaimIsHeld, Posting
<1>5. SyncedIsInTally'
  BY <1>1 DEF Safe, SyncedIsInTally
<1>6. NothingLeftToImport'
  <2>1. job[w].xml.rid[2] = job[w].batch /\ status[job[w].batch] = "SYNCING"
    BY <1>1, NoneAssumption DEF Typed, JobOK, Safe, Belongs, RowBelongs, JobBelongs, ClaimIsHeld
  <2>2. \A v \in Workers : wpc'[v] \notin {"locked", "built", "answered"}
    BY <1>1, <1>2 DEF PastLock
  <2>3. \A v \in Workers : wpc'[v] = "selected" => job'[v].status # "SYNCED"
    BY <1>1 DEF Safe, NothingLeftToImport
  <2>. QED  BY <1>1, <2>1, <2>2, <2>3 DEF NothingLeftToImport
<1>. QED  BY <1>3, <1>4, <1>5, <1>6 DEF Safe

(* The last commit: what the row is told is what Tally answered.           *)
LEMMA SafeCommit ==
    ASSUME Typed, Safe, NEW w \in Workers, Commit(w)
    PROVE  Safe'
<1> DEFINE b == job[w].batch
<1>1. /\ wpc[w] = "answered" /\ b \in Batches /\ books' = books /\ wire' = wire
      /\ frozen' = frozen /\ rid' = rid /\ wpc'[w] = "idle"
      /\ \A v \in Workers : v # w => wpc'[v] = wpc[v] /\ job'[v] = job[v]
  BY JobBatch DEF Commit, Release, Typed, TypeOK, tallyVars
<1>2. status'[b] = job[w].status /\ \A c \in Batches : c # b => status'[c] = status[c]
  BY <1>1 DEF Commit, Typed, TypeOK
<1>3. \A v \in Workers : v # w => wpc[v] \notin PastLock
  BY <1>1, LockIsExclusive DEF PastLock
<1>4. job[w].status = "SYNCED" => frozen[b] \in books /\ wire = None
  BY <1>1 DEF Safe, NothingLeftToImport, ClaimIsHeld
<1>. HIDE DEF b
<1>5. Belongs'
  BY <1>1 DEF Safe, Belongs, RowBelongs, JobBelongs
<1>6. ClaimIsHeld'
  BY <1>1, <1>3 DEF ClaimIsHeld, PastLock
<1>7. SyncedIsInTally'
  BY <1>1, <1>2, <1>4 DEF Safe, SyncedIsInTally
<1>8. NothingLeftToImport'
  <2>1. wire # None => wire.rid[2] \in Batches
    BY DEF Typed, TypeOK, Payloads, Rids
  <2>2. wire' # None => status'[wire'.rid[2]] # "SYNCED"
    BY <1>1, <1>2, <1>4, <2>1 DEF Safe, NothingLeftToImport
  <2>3. \A v \in Workers : wpc'[v] \notin {"locked", "built", "answered"}
    BY <1>1, <1>3 DEF PastLock
  <2>4. \A v \in Workers : wpc'[v] = "selected" => job'[v].status # "SYNCED"
    BY <1>1 DEF Safe, NothingLeftToImport
  <2>. QED  BY <2>2, <2>3, <2>4 DEF NothingLeftToImport
<1>. QED  BY <1>5, <1>6, <1>7, <1>8 DEF Safe

(* An import never replaces the voucher of a synced batch: the request on  *)
(* the wire is not about one, and another batch has another remote id.     *)
LEMMA KeepSynced ==
    ASSUME Typed, Safe, wire # None, NEW c \in Batches, status[c] = "SYNCED"
    PROVE  frozen[c] \in Imported(wire)
<1>1. frozen[c] \in books /\ frozen[c] # None
  BY NoneAssumption DEF Safe, SyncedIsInTally, Typed, TypeOK
<1>2. frozen[c].rid[2] = c /\ wire.rid[2] # c
  BY <1>1 DEF Safe, Belongs, RowBelongs, JobBelongs, NothingLeftToImport
<1>. QED  BY <1>1, <1>2 DEF Imported, SameVoucher

LEMMA SafeAnswer ==
    ASSUME Typed, Safe, NEW w \in Workers, Answer(w)
    PROVE  Safe'
<1>1. PICK o \in Outcomes : Answered(w, o)
  BY DEF Answer, Accept, Reject, Unreadable, Timeout, Outcomes
<1>2. /\ wpc[w] = "posting" /\ wire = job[w].xml /\ wire # None /\ job[w] \in Job
      /\ job[w].batch \in Batches
  BY JobBatch, NoneAssumption DEF Answer, Accept, Reject, Unreadable, Timeout, Typed, JobOK
<1>3. /\ wpc'[w] = "answered" /\ job'[w] = [job[w] EXCEPT !.status = o]
      /\ \A v \in Workers : v # w => wpc'[v] = wpc[v] /\ job'[v] = job[v]
      /\ lock' = lock
      /\ UNCHANGED <<status, frozen, rid, started, attempts>>
  BY <1>1 DEF Answered, Typed, TypeOK, dbVars
<1>4. /\ job'[w].batch = job[w].batch /\ job'[w].xml = job[w].xml /\ job'[w].status = o
      /\ job'[w].frozen = job[w].frozen /\ job'[w].rid = job[w].rid
      /\ job'[w].started = job[w].started
  BY <1>2, <1>3 DEF Job
<1>5. /\ books' \in {books, Imported(wire)} /\ wire' \in {wire, None}
      /\ o = "SYNCED" => books' = Imported(wire) /\ wire' = None
  <2>1. o = "SYNCED" => ~Reject(w) /\ ~Unreadable(w) /\ ~Timeout(w)
    BY <1>1, <1>2, <1>3, <1>4 DEF Reject, Unreadable, Timeout, Answered, Typed, TypeOK, Job
  <2>. QED  BY <2>1 DEF Answer, Accept, Reject, Unreadable, Timeout, tallyVars
<1>6. \A v \in Workers : v # w => wpc[v] \notin PastLock
  BY <1>2, LockIsExclusive DEF PastLock
<1>7. Belongs'
  <2>1. ASSUME NEW v \in Workers, wpc'[v] # "idle" PROVE JobBelongs(job'[v])
    <3>1. CASE v = w
      BY <1>2, <1>4, <3>1 DEF Safe, Belongs, RowBelongs, JobBelongs
    <3>2. CASE v # w
      BY <1>3, <2>1, <3>2 DEF Safe, Belongs, RowBelongs, JobBelongs
    <3>. QED  BY <3>1, <3>2
  <2>. QED  BY <1>3, <2>1 DEF Safe, Belongs, RowBelongs, JobBelongs
<1>8. ClaimIsHeld'
  <2> SUFFICES ASSUME NEW v \in Workers, wpc'[v] \in Posting
               PROVE  ClaimIsHeld!(v)'
    BY DEF ClaimIsHeld, Posting
  <2>1. v = w
    BY <1>3, <1>6 DEF PastLock, Posting
  <2>2. ClaimIsHeld!(w)
    BY <1>2 DEF Safe, ClaimIsHeld
  <2>. QED  BY <1>2, <1>3, <1>4, <2>1, <2>2
<1>9. SyncedIsInTally'
  BY <1>2, <1>3, <1>5, KeepSynced DEF Safe, SyncedIsInTally
<1>10. NothingLeftToImport'
  <2>1. wire' # None => status'[wire'.rid[2]] # "SYNCED"
    BY <1>3, <1>5 DEF Safe, NothingLeftToImport
  <2>2. \A v \in Workers : wpc'[v] \notin {"locked", "built"} /\ (wpc'[v] = "answered" => v = w)
    BY <1>3, <1>6 DEF PastLock
  <2>3. \A v \in Workers : wpc'[v] = "selected" => job'[v].status # "SYNCED"
    BY <1>3 DEF Safe, NothingLeftToImport
  <2>4. o = "SYNCED" => job'[w].xml \in books' /\ wire' = None
    BY <1>2, <1>4, <1>5 DEF Imported
  <2>. QED  BY <1>4, <2>1, <2>2, <2>3, <2>4 DEF NothingLeftToImport
<1>. QED  BY <1>7, <1>8, <1>9, <1>10 DEF Safe

LEMMA SafeEnvironment ==
    ASSUME Typed, Safe,
           (\E w \in Workers : RestartWorker(w)) \/ EnvironmentNext
    PROVE  Safe'
<1>1. ASSUME NEW w \in Workers, RestartWorker(w) PROVE Safe'
  BY <1>1, RowStep DEF RestartWorker, dbVars, tallyVars
<1>2. CASE LateImport
  <2>1. /\ UNCHANGED <<status, frozen, rid, started, attempts, wpc, job, lock>>
        /\ wire # None /\ wire' = None /\ books' = Imported(wire)
    BY <1>2 DEF LateImport, Abandoned, dbVars, workerVars
  <2>2. Belongs' /\ ClaimIsHeld'
    BY <2>1 DEF Safe, Belongs, RowBelongs, JobBelongs, ClaimIsHeld
  <2>3. SyncedIsInTally'
    BY <2>1, KeepSynced DEF Safe, SyncedIsInTally
  <2>4. NothingLeftToImport'
    BY <2>1 DEF Safe, NothingLeftToImport
  <2>. QED  BY <2>2, <2>3, <2>4 DEF Safe
<1>3. CASE LateDrop
  BY <1>3 DEF LateDrop, dbVars, workerVars, Safe, Belongs, RowBelongs, JobBelongs, ClaimIsHeld, SyncedIsInTally,
              NothingLeftToImport
<1>4. CASE Crash
  BY <1>4 DEF Crash, dbVars, tallyVars, Safe, Belongs, RowBelongs, JobBelongs, ClaimIsHeld, SyncedIsInTally,
              NothingLeftToImport
<1>5. ASSUME NEW b \in Batches, LeaseExpires(b) PROVE Safe'
  BY <1>5, RowStep DEF LeaseExpires, workerVars, tallyVars
<1>6. ASSUME NEW b \in Batches, CooldownEnds(b) PROVE Safe'
  BY <1>6, RowStep DEF CooldownEnds, workerVars, tallyVars
<1>. QED  BY <1>1, <1>2, <1>3, <1>4, <1>5, <1>6 DEF EnvironmentNext

LEMMA SafeNext == Typed /\ Safe /\ [Next]_vars => Safe'
<1> SUFFICES ASSUME Typed, Safe, [Next]_vars PROVE Safe'
  OBVIOUS
<1>1. CASE RequestNext
  BY <1>1, SafeRequest
<1>2. ASSUME NEW w \in Workers, SyncStep(w) PROVE Safe'
  BY <1>2, SafeLocal, SafePutBack, SafeClaim, SafeSend, SafeCommit DEF SyncStep
<1>3. CASE WorkerNext
  BY <1>2, <1>3, SafeLocal, SafeAnswer, SafeEnvironment DEF WorkerNext
<1>4. CASE EnvironmentNext
  BY <1>4, SafeEnvironment
<1>5. CASE UNCHANGED vars
  BY <1>5, RowStep DEF vars, dbVars, workerVars, tallyVars
<1>. QED  BY <1>1, <1>3, <1>4, <1>5 DEF Next

(* Whatever fails, a claim stays its worker's until it is settled, and a   *)
(* batch shown as synced is in Tally as the row says.                      *)
THEOREM SafetyCorrect == Spec => []Safe
BY SafeInit, SafeNext, TypeCorrect, TypedInit, PTL DEF Spec

THEOREM ClaimIsHeldCorrect == Spec => []ClaimIsHeld
BY SafetyCorrect, PTL DEF Safe

THEOREM SyncedIsInTallyCorrect == Spec => []SyncedIsInTally
BY SafetyCorrect, PTL DEF Safe

-----------------------------------------------------------------------------
(* A synced batch is left alone.                                           *)

(* An import does not touch the vouchers of another batch.                 *)
LEMMA OtherVouchers ==
    ASSUME Typed, NEW b \in Batches, wire # None, wire.rid[2] # b
    PROVE  {p \in Imported(wire) : p.rid[2] = b} = Vouchers(b)
BY DEF Imported, SameVoucher, Vouchers

(* No step changes the row or the attempts of a synced batch.              *)
LEMMA SyncedRow ==
    ASSUME Typed, Safe, [Next]_vars, NEW b \in Batches, status[b] = "SYNCED"
    PROVE  status'[b] = "SYNCED" /\ attempts'[b] = attempts[b]
<1> USE DEF Typed, TypeOK
<1>1. ASSUME NEW c \in Batches, Submit(c) PROVE status'[b] = status[b] /\ attempts' = attempts
  BY <1>1 DEF Submit
<1>2. ASSUME NEW u \in Users, Requeue(u) PROVE status'[b] = status[b] /\ attempts' = attempts
  <2>1. click[u].batch \in Batches
    BY <1>2 DEF Requeue, Seen
  <2>. QED  BY <1>2, <2>1 DEF Requeue, StillAsSeen
<1>3. ASSUME NEW w \in Workers, wpc[w] \in PastLock
      PROVE  job[w].batch \in Batches \ {b}
  <2>1. status[job[w].batch] # "SYNCED"
    BY <1>3 DEF Safe, NothingLeftToImport, ClaimIsHeld, PastLock
  <2>. QED  BY <1>3, <2>1, JobBatch DEF PastLock
<1>4. ASSUME NEW w \in Workers, BuildFails(w) \/ SyncDisabled(w)
      PROVE  status'[b] = status[b] /\ attempts' = attempts
  BY <1>3, <1>4 DEF BuildFails, SyncDisabled, PutBack, PastLock
<1>5. ASSUME NEW w \in Workers, Claim(w)
      PROVE  status'[b] = status[b] /\ attempts'[b] = attempts[b]
  BY <1>3, <1>5 DEF Claim, PastLock
<1>6. ASSUME NEW w \in Workers, Commit(w)
      PROVE  status'[b] = status[b] /\ attempts'[b] = attempts[b]
  BY <1>3, <1>6 DEF Commit, PastLock
<1>7. ASSUME NEW w \in Workers, SyncStep(w)
      PROVE  status'[b] = status[b] /\ attempts'[b] = attempts[b]
  <2>1. CASE BuildFails(w) \/ SyncDisabled(w)
    BY <1>4, <2>1
  <2>2. CASE Claim(w)
    BY <1>5, <2>2
  <2>3. CASE Commit(w)
    BY <1>6, <2>3
  <2>4. CASE SkipSynced(w) \/ Lock(w) \/ SkipLeased(w) \/ Prepare(w) \/ ClaimLost(w) \/ Send(w)
    BY <2>4 DEF SkipSynced, Lock, SkipLeased, Prepare, ClaimLost, Send, dbVars
  <2>. QED  BY <1>7, <2>1, <2>2, <2>3, <2>4 DEF SyncStep
<1>8. ASSUME NEW w \in Workers, Answer(w) \/ Exception(w) \/ RestartWorker(w)
      PROVE  status' = status /\ attempts' = attempts
  BY <1>8 DEF Answer, Accept, Reject, Unreadable, Timeout, Answered, Exception, RestartWorker, dbVars
<1>9. CASE RequestNext
  BY <1>1, <1>2, <1>9 DEF RequestNext, OpenRetry, SaveSettings, dbVars
<1>10. CASE WorkerNext
  BY <1>7, <1>8, <1>10 DEF WorkerNext, Select, dbVars
<1>11. CASE EnvironmentNext
  BY <1>11 DEF EnvironmentNext, LateImport, LateDrop, Crash, LeaseExpires, CooldownEnds, dbVars
<1>12. CASE UNCHANGED vars
  BY <1>12 DEF vars, dbVars
<1>. QED  BY <1>9, <1>10, <1>11, <1>12 DEF Next

(* Tally's books change only by the import of what is on the wire.         *)
LEMMA BooksStep ==
    ASSUME Typed, [Next]_vars
    PROVE  books' = books \/ (wire # None /\ books' = Imported(wire))
<1> USE DEF tallyVars
<1>1. CASE RequestNext
  <2>1. \A b \in Batches : Submit(b) => books' = books
    BY DEF Submit
  <2>2. \A u \in Users, b \in Batches : OpenRetry(u, b) => books' = books
    BY DEF OpenRetry
  <2>3. \A u \in Users : Requeue(u) => books' = books
    BY DEF Requeue
  <2>4. \A t \in Settings : SaveSettings(t) => books' = books
    BY DEF SaveSettings
  <2>. QED  BY <1>1, <2>1, <2>2, <2>3, <2>4 DEF RequestNext
<1>2. ASSUME NEW w \in Workers, SyncStep(w) PROVE books' = books
  <2>1. SkipSynced(w) \/ Lock(w) \/ SkipLeased(w) \/ Prepare(w) \/ ClaimLost(w) => books' = books
    BY DEF SkipSynced, Lock, SkipLeased, Prepare, ClaimLost
  <2>2. BuildFails(w) \/ SyncDisabled(w) => books' = books
    BY DEF BuildFails, SyncDisabled, PutBack
  <2>3. Claim(w) => books' = books
    BY DEF Claim
  <2>4. Send(w) => books' = books
    BY DEF Send
  <2>5. Commit(w) => books' = books
    BY DEF Commit
  <2>. QED  BY <1>2, <2>1, <2>2, <2>3, <2>4, <2>5 DEF SyncStep
<1>3. ASSUME NEW w \in Workers, Answer(w)
      PROVE  books' = books \/ (wire # None /\ books' = Imported(wire))
  <2>1. wpc[w] = "posting"
    BY <1>3 DEF Answer, Accept, Reject, Unreadable, Timeout
  <2>2. wire # None
    BY <2>1, NoneAssumption DEF Typed, JobOK
  <2>3. Accept(w) \/ Unreadable(w) => books' = books \/ books' = Imported(wire)
    BY DEF Accept, Unreadable
  <2>4. Reject(w) \/ Timeout(w) => books' = books
    BY DEF Reject, Timeout
  <2>. QED  BY <1>3, <2>2, <2>3, <2>4 DEF Answer
<1>4. CASE WorkerNext
  <2>1. \A w \in Workers : Exception(w) \/ RestartWorker(w) => books' = books
    BY DEF Exception, RestartWorker
  <2>2. \A w \in Workers, b \in Batches : Select(w, b) => books' = books
    BY DEF Select
  <2>. QED  BY <1>2, <1>3, <1>4, <2>1, <2>2 DEF WorkerNext
<1>5. CASE EnvironmentNext
  <2>1. LateImport => wire # None /\ books' = Imported(wire)
    BY DEF LateImport, Abandoned
  <2>2. LateDrop \/ Crash => books' = books
    BY DEF LateDrop, Crash
  <2>3. \A b \in Batches : LeaseExpires(b) \/ CooldownEnds(b) => books' = books
    BY DEF LeaseExpires, CooldownEnds
  <2>. QED  BY <1>5, <2>1, <2>2, <2>3 DEF EnvironmentNext
<1>6. CASE UNCHANGED vars
  BY <1>6 DEF vars
<1>. QED  BY <1>1, <1>4, <1>5, <1>6 DEF Next

LEMMA SyncedStep ==
    ASSUME Typed, Safe, [Next]_vars, NEW b \in Batches, status[b] = "SYNCED"
    PROVE  Vouchers(b)' = Vouchers(b)
<1>1. CASE books' = books
  BY <1>1 DEF Vouchers
<1>2. CASE wire # None /\ books' = Imported(wire)
  <2>1. wire.rid[2] # b
    BY <1>2 DEF Safe, NothingLeftToImport
  <2>. QED  BY <1>2, <2>1, OtherVouchers DEF Vouchers
<1>. QED  BY <1>1, <1>2, BooksStep

(* Once a batch is shown as synced, no step of any thread claims it again, *)
(* adds an attempt or touches its voucher in Tally.                        *)
THEOREM SyncedIsFinalCorrect == Spec => SyncedIsFinal
<1>1. Typed /\ Safe /\ [Next]_vars =>
        [\A b \in Batches : status[b] = "SYNCED" =>
           /\ status'[b] = "SYNCED"
           /\ attempts'[b] = attempts[b]
           /\ Vouchers(b)' = Vouchers(b)]_vars
  BY SyncedRow, SyncedStep
<1>. QED  BY <1>1, TypeCorrect, SafetyCorrect, PTL DEF Spec, SyncedIsFinal
-----------------------------------------------------------------------------
(* The attempts of a batch tell what was sent.                             *)

Announced(p) == \E i \in DOMAIN attempts[p.rid[2]] : attempts[p.rid[2]][i].xml = p
SyncedLast(b) == \A i \in DOMAIN attempts[b] :
    attempts[b][i].status = "SYNCED" <=> status[b] = "SYNCED" /\ i = Len(attempts[b])

(* What is on the wire was announced, and a claim is the last attempt.     *)
Trail ==
    /\ \A p \in books : Announced(p)
    /\ wire # None => Announced(wire)
    /\ \A b \in Batches : SyncedLast(b)
    /\ \A w \in Workers : wpc[w] \in Posting =>
          job[w].started = Len(attempts[job[w].batch]) /\ job[w].started > 0

LEMMA TrailInit == Init => Trail
BY NoneAssumption DEF Init, Trail, Announced, SyncedLast, Posting

LEMMA VoucherBatch ==
    ASSUME Typed, NEW p, p \in books \/ (p = wire /\ wire # None)
    PROVE  p \in Payloads /\ p.rid[2] \in Batches
BY DEF Typed, TypeOK, Payloads, Rids

(* All steps but a claim, a commit and a request that is sent.             *)
LEMMA QuietStep ==
    ASSUME Typed, Safe, Trail, attempts' = attempts,
           \A b \in Batches : status'[b] = "SYNCED" <=> status[b] = "SYNCED",
           books' = books \/ (wire # None /\ books' = Imported(wire)),
           wire' \in {wire, None},
           \A w \in Workers : wpc'[w] \in Posting =>
              /\ wpc[w] \in Posting
              /\ job'[w].batch = job[w].batch /\ job'[w].started = job[w].started
    PROVE  Trail'
<1>1. \A p \in books' : Announced(p)
  BY DEF Trail, Imported
<1>2. (\A p \in books' : Announced(p)') /\ (wire' # None => Announced(wire)')
  BY <1>1 DEF Trail, Announced
<1>3. \A b \in Batches : SyncedLast(b)'
  BY DEF Trail, SyncedLast
<1>. QED  BY <1>2, <1>3 DEF Trail

LEMMA TrailClaim ==
    ASSUME Typed, Safe, Trail, NEW w \in Workers, Claim(w)
    PROVE  Trail'
<1>1. PICK b, n, x :
        /\ b = job[w].batch /\ n = Len(attempts[b]) + 1 /\ x = job[w].xml
        /\ wpc[w] = "built" /\ b \in Batches /\ x \in Payloads
        /\ books' = books /\ wire' = wire
        /\ status'[b] = "SYNCING" /\ status[b] # "SYNCED"
        /\ attempts'[b] = Append(attempts[b], [xml |-> x, status |-> "SYNCING"])
        /\ attempts[b] \in Seq(Row)
        /\ \A c \in Batches : c # b => status'[c] = status[c] /\ attempts'[c] = attempts[c]
        /\ job'[w].batch = b /\ job'[w].started = n
        /\ \A v \in Workers : v # w => wpc'[v] = wpc[v] /\ job'[v] = job[v]
  <2>1. wpc[w] = "built" /\ job[w].batch \in Batches /\ job[w].xml \in Payloads
    BY JobBatch DEF Claim, Typed, JobOK
  <2>2. status[job[w].batch] # "SYNCED"
    BY <2>1 DEF Safe, NothingLeftToImport
  <2>. QED  BY <2>1, <2>2 DEF Claim, Typed, TypeOK, tallyVars
<1>2. /\ Len(attempts[b]) \in Nat /\ n \in Nat /\ n > 0
      /\ Len(attempts'[b]) = n /\ DOMAIN attempts'[b] = DOMAIN attempts[b] \cup {n}
      /\ \A i \in DOMAIN attempts[b] : attempts'[b][i] = attempts[b][i]
      /\ attempts'[b][n] = [xml |-> x, status |-> "SYNCING"]
  BY <1>1
<1>3. ASSUME NEW p, Announced(p), p.rid[2] \in Batches PROVE Announced(p)'
  <2>1. PICK c \in Batches : c = p.rid[2]
    BY <1>3
  <2>2. PICK i \in DOMAIN attempts[c] : attempts[c][i].xml = p
    BY <1>3, <2>1 DEF Announced
  <2>3. i \in DOMAIN attempts'[c] /\ attempts'[c][i] = attempts[c][i]
    <3>1. CASE c = b
      BY <1>2, <2>2, <3>1
    <3>2. CASE c # b
      BY <1>1, <2>2, <3>2
    <3>. QED  BY <3>1, <3>2
  <2>. QED  BY <2>1, <2>2, <2>3 DEF Announced
<1>4. (\A p \in books' : Announced(p)') /\ (wire' # None => Announced(wire)')
  <2>1. \A p \in books' : Announced(p)'
    BY <1>1, <1>3, VoucherBatch DEF Trail
  <2>2. ASSUME wire # None PROVE Announced(wire)'
    <3>1. PICK p : p = wire
      OBVIOUS
    <3>2. Announced(p)'
      BY <1>3, <2>2, <3>1, VoucherBatch DEF Trail
    <3>. QED  BY <1>1, <3>1, <3>2
  <2>. QED  BY <1>1, <2>1, <2>2
<1>5. ASSUME NEW c \in Batches PROVE SyncedLast(c)'
  <2>1. CASE c = b
    <3>1. \A i \in DOMAIN attempts[b] : attempts[b][i].status # "SYNCED"
      BY <1>1 DEF Trail, SyncedLast
    <3>2. [xml |-> x, status |-> "SYNCING"].status = "SYNCING"
      OBVIOUS
    <3>3. \A i \in DOMAIN attempts'[b] : attempts'[b][i].status # "SYNCED"
      BY <1>2, <3>1, <3>2
    <3>4. status'[c] # "SYNCED" /\ attempts'[c] = attempts'[b]
      BY <1>1, <2>1
    <3>. QED  BY <3>3, <3>4 DEF SyncedLast
  <2>2. CASE c # b
    BY <1>1, <2>2 DEF Trail, SyncedLast
  <2>. QED  BY <2>1, <2>2
<1>6. ASSUME NEW v \in Workers, wpc'[v] \in Posting
      PROVE  job'[v].started = Len(attempts'[job'[v].batch]) /\ job'[v].started > 0
  <2>1. CASE v = w
    BY <1>1, <1>2, <2>1
  <2>2. CASE v # w
    <3>1. wpc[v] \in PastLock /\ wpc[w] \in PastLock
      BY <1>1, <1>6, <2>2 DEF PastLock, Posting
    <3>. QED  BY <2>2, <3>1, LockIsExclusive
  <2>. QED  BY <2>1, <2>2
<1>. QED  BY <1>4, <1>5, <1>6 DEF Trail

LEMMA TrailSend ==
    ASSUME Typed, Safe, Trail, NEW w \in Workers, Send(w)
    PROVE  Trail'
<1>1. PICK b, x :
        /\ b = job[w].batch /\ x = job[w].xml /\ wpc[w] = "claimed" /\ wire' = x
        /\ books' = books /\ UNCHANGED <<status, attempts, job>>
        /\ \A v \in Workers : wpc'[v] \in Posting => wpc[v] \in Posting
        /\ b \in Batches /\ x.rid[2] = b /\ attempts[b] \in Seq(Row)
  <2>1. wpc[w] = "claimed" /\ job[w].batch \in Batches /\ job[w].xml # None
    BY JobBatch, NoneAssumption DEF Send, Typed, JobOK
  <2>2. job[w].xml.rid[2] = job[w].batch
    BY <2>1 DEF Safe, Belongs, JobBelongs
  <2>. QED  BY <2>1, <2>2 DEF Send, dbVars, Posting, Typed, TypeOK
<1>2. /\ status[b] = "SYNCING" /\ frozen[b] = x /\ started[b] = job[w].started
      /\ attempts[b][started[b]] = [xml |-> frozen[b], status |-> "SYNCING"]
  BY <1>1 DEF Safe, ClaimIsHeld
<1>3. started[b] \in DOMAIN attempts[b]
  BY <1>1, <1>2 DEF Trail, Posting
<1>4. Announced(x)
  BY <1>1, <1>2, <1>3 DEF Announced
<1>. QED  BY <1>1, <1>4 DEF Trail, Announced, SyncedLast

LEMMA TrailCommit ==
    ASSUME Typed, Safe, Trail, NEW w \in Workers, Commit(w)
    PROVE  Trail'
<1>1. PICK b, n, s :
        /\ b = job[w].batch /\ n = job[w].started /\ s = job[w].status
        /\ wpc[w] = "answered" /\ wpc'[w] = "idle" /\ b \in Batches
        /\ books' = books /\ wire' = wire
        /\ status[b] = "SYNCING" /\ status'[b] = s
        /\ attempts'[b] = [attempts[b] EXCEPT ![n].status = s]
        /\ attempts[b] \in Seq(Row) /\ n = Len(attempts[b]) /\ n > 0
        /\ \A c \in Batches : c # b => status'[c] = status[c] /\ attempts'[c] = attempts[c]
        /\ \A v \in Workers : v # w => wpc'[v] = wpc[v] /\ job'[v] = job[v]
  <2>1. wpc[w] = "answered" /\ job[w].batch \in Batches
    BY JobBatch DEF Commit
  <2>2. status[job[w].batch] = "SYNCING"
    BY <2>1 DEF Safe, ClaimIsHeld
  <2>3. job[w].started = Len(attempts[job[w].batch]) /\ job[w].started > 0
    BY <2>1 DEF Trail, Posting
  <2>. QED  BY <2>1, <2>2, <2>3 DEF Commit, Recorded, Release, Typed, TypeOK, tallyVars
<1>2. n \in DOMAIN attempts[b] /\ attempts[b][n] \in Row
  BY <1>1, ElementOfSeq
<1>3. /\ DOMAIN attempts'[b] = DOMAIN attempts[b] /\ Len(attempts'[b]) = Len(attempts[b])
      /\ \A i \in DOMAIN attempts[b] \ {n} : attempts'[b][i] = attempts[b][i]
      /\ attempts'[b][n].status = s /\ attempts'[b][n].xml = attempts[b][n].xml
  BY <1>1, <1>2 DEF Row
<1>4. ASSUME NEW p, Announced(p), p.rid[2] \in Batches PROVE Announced(p)'
  <2>1. PICK i \in DOMAIN attempts[p.rid[2]] : attempts[p.rid[2]][i].xml = p
    BY <1>4 DEF Announced
  <2>2. i \in DOMAIN attempts'[p.rid[2]] /\ attempts'[p.rid[2]][i].xml = p
    <3>1. CASE p.rid[2] = b
      <4>1. CASE i = n
        BY <1>3, <2>1, <3>1, <4>1
      <4>2. CASE i # n
        BY <1>3, <2>1, <3>1, <4>2
      <4>. QED  BY <4>1, <4>2
    <3>2. CASE p.rid[2] # b
      BY <1>1, <1>4, <2>1, <3>2
    <3>. QED  BY <3>1, <3>2
  <2>. QED  BY <2>2 DEF Announced
<1>5. (\A p \in books' : Announced(p)') /\ (wire' # None => Announced(wire)')
  <2>1. \A p \in books' : Announced(p)'
    BY <1>1, <1>4, VoucherBatch DEF Trail
  <2>2. ASSUME wire # None PROVE Announced(wire)'
    <3>1. PICK p : p = wire
      OBVIOUS
    <3>2. Announced(p)'
      BY <1>4, <2>2, <3>1, VoucherBatch DEF Trail
    <3>. QED  BY <1>1, <3>1, <3>2
  <2>. QED  BY <1>1, <2>1, <2>2
<1>6. ASSUME NEW c \in Batches PROVE SyncedLast(c)'
  <2>1. CASE c = b
    <3>1. \A i \in DOMAIN attempts[b] : attempts[b][i].status # "SYNCED"
      BY <1>1 DEF Trail, SyncedLast
    <3>2. \A i \in DOMAIN attempts'[b] :
             attempts'[b][i].status = "SYNCED" <=> s = "SYNCED" /\ i = n
      BY <1>3, <3>1
    <3>3. status'[c] = s /\ attempts'[c] = attempts'[b] /\ Len(attempts'[b]) = n
      BY <1>1, <1>3, <2>1
    <3>. QED  BY <3>2, <3>3 DEF SyncedLast
  <2>2. CASE c # b
    BY <1>1, <2>2 DEF Trail, SyncedLast
  <2>. QED  BY <2>1, <2>2
<1>7. \A v \in Workers : wpc'[v] \notin Posting
  <2>1. ASSUME NEW v \in Workers, v # w, wpc'[v] \in Posting PROVE FALSE
    BY <1>1, <2>1, LockIsExclusive DEF PastLock, Posting
  <2>. QED  BY <1>1, <2>1 DEF Posting
<1>. QED  BY <1>5, <1>6, <1>7 DEF Trail
(* The worker w takes a step before its claim or ends its turn.            *)
LEMMA TrailLocal ==
    ASSUME Typed, Safe, Trail, NEW w \in Workers, wpc'[w] \notin Posting,
           \A v \in Workers : v # w => wpc'[v] = wpc[v] /\ job'[v] = job[v],
           attempts' = attempts, books' = books, wire' = wire,
           \A b \in Batches : status'[b] = "SYNCED" <=> status[b] = "SYNCED"
    PROVE  Trail'
<1>1. \A v \in Workers : wpc'[v] \in Posting =>
        wpc[v] \in Posting /\ job'[v].batch = job[v].batch /\ job'[v].started = job[v].started
  OBVIOUS
<1>. QED  BY <1>1, QuietStep

LEMMA TrailRequest ==
    ASSUME Typed, Safe, Trail, RequestNext
    PROVE  Trail'
<1> USE DEF workerVars, tallyVars, dbVars
<1>1. UNCHANGED <<wpc, job, books, wire, attempts>>
  BY DEF RequestNext, Submit, OpenRetry, Requeue, SaveSettings
<1>2. ASSUME NEW b \in Batches PROVE status'[b] = "SYNCED" <=> status[b] = "SYNCED"
  <2>1. ASSUME NEW c \in Batches, Submit(c) PROVE status'[b] = "SYNCED" <=> status[b] = "SYNCED"
    BY <2>1 DEF Submit, Typed, TypeOK
  <2>2. ASSUME NEW u \in Users, Requeue(u) PROVE status'[b] = "SYNCED" <=> status[b] = "SYNCED"
    <3>1. click[u].batch \in Batches /\ status \in [Batches -> Statuses]
      BY <2>2 DEF Requeue, Seen, Typed, TypeOK
    <3>. QED  BY <2>2, <3>1 DEF Requeue, StillAsSeen
  <2>. QED  BY <2>1, <2>2 DEF RequestNext, OpenRetry, SaveSettings
<1>. QED  BY <1>1, <1>2, QuietStep

LEMMA TrailWorker ==
    ASSUME Typed, Safe, Trail, NEW w \in Workers,
           \/ \E b \in Batches : Select(w, b)
           \/ SkipSynced(w) \/ Lock(w) \/ SkipLeased(w) \/ Prepare(w) \/ ClaimLost(w)
           \/ Exception(w)
    PROVE  Trail'
<1>1. UNCHANGED <<status, attempts, books, wire>>
  BY DEF Select, SkipSynced, Lock, SkipLeased, Prepare, ClaimLost, Exception, dbVars, tallyVars
<1>2. wpc \in [Workers -> {"idle", "selected", "locked", "built", "claimed", "posting", "answered"}]
      /\ job \in [Workers -> Job \cup {None}]
  BY DEF Typed, TypeOK
<1>3. \A v \in Workers : v # w => wpc'[v] = wpc[v] /\ job'[v] = job[v]
  BY <1>2 DEF Select, SkipSynced, Lock, SkipLeased, Prepare, ClaimLost, Exception, Release
<1>4. wpc'[w] \notin Posting
  BY <1>2 DEF Select, SkipSynced, Lock, SkipLeased, Prepare, ClaimLost, Exception, Release, Posting
<1>. QED  BY <1>1, <1>3, <1>4, TrailLocal

LEMMA TrailPutBack ==
    ASSUME Typed, Safe, Trail, NEW w \in Workers, BuildFails(w) \/ SyncDisabled(w)
    PROVE  Trail'
<1>1. wpc[w] \in {"locked", "built"} /\ job[w] \in Job /\ job[w].batch \in Batches
  BY JobBatch DEF BuildFails, SyncDisabled
<1>2. status[job[w].batch] # "SYNCED"
  BY <1>1 DEF Safe, NothingLeftToImport
<1>3. /\ status' = [status EXCEPT ![job[w].batch] =
                       Flushed(@, job[w].status, "PENDING_SYNC")]
      /\ Release(w) /\ UNCHANGED <<attempts, books, wire>>
  BY DEF BuildFails, SyncDisabled, PutBack, tallyVars
<1>4. \A b \in Batches : status'[b] = "SYNCED" <=> status[b] = "SYNCED"
  BY <1>1, <1>2, <1>3 DEF Flushed, Typed, TypeOK
<1>5. \A v \in Workers : v # w => wpc'[v] = wpc[v] /\ job'[v] = job[v]
  BY <1>3 DEF Release, Typed, TypeOK
<1>6. wpc'[w] \notin Posting
  BY <1>3 DEF Release, Typed, TypeOK, Posting
<1>. QED  BY <1>3, <1>4, <1>5, <1>6, TrailLocal

LEMMA TrailAnswer ==
    ASSUME Typed, Safe, Trail, NEW w \in Workers, Answer(w), [Next]_vars
    PROVE  Trail'
<1>1. PICK o \in Outcomes : Answered(w, o)
  BY DEF Answer, Accept, Reject, Unreadable, Timeout, Outcomes
<1>2. wpc[w] = "posting" /\ wire' \in {wire, None} /\ job[w] \in Job
  BY JobBatch DEF Answer, Accept, Reject, Unreadable, Timeout, tallyVars
<1>3. UNCHANGED <<status, attempts>>
  BY <1>1 DEF Answered, dbVars
<1>4. /\ \A v \in Workers : v # w => wpc'[v] = wpc[v] /\ job'[v] = job[v]
      /\ job'[w].batch = job[w].batch /\ job'[w].started = job[w].started
  BY <1>1, <1>2 DEF Answered, Typed, TypeOK, Job
<1>5. \A v \in Workers : wpc'[v] \in Posting =>
        wpc[v] \in Posting /\ job'[v].batch = job[v].batch /\ job'[v].started = job[v].started
  BY <1>2, <1>4 DEF Posting
<1>. QED  BY <1>2, <1>3, <1>5, BooksStep, QuietStep

LEMMA TrailEnvironment ==
    ASSUME Typed, Safe, Trail, [Next]_vars,
           \/ \E w \in Workers : RestartWorker(w)
           \/ EnvironmentNext \/ UNCHANGED vars
    PROVE  Trail'
<1>1. UNCHANGED <<status, attempts>> /\ wire' \in {wire, None}
  BY DEF RestartWorker, EnvironmentNext, LateImport, LateDrop, Crash, LeaseExpires,
         CooldownEnds, dbVars, tallyVars, vars
<1>2. UNCHANGED <<wpc, job>> \/ (wpc' = [w \in Workers |-> "idle"])
  BY DEF RestartWorker, EnvironmentNext, LateImport, LateDrop, Crash, LeaseExpires,
         CooldownEnds, workerVars, vars
<1>3. \A v \in Workers : wpc'[v] \in Posting =>
        wpc[v] \in Posting /\ job'[v].batch = job[v].batch /\ job'[v].started = job[v].started
  BY <1>2 DEF Posting
<1>. QED  BY <1>1, <1>3, BooksStep, QuietStep

LEMMA TrailNext == Typed /\ Safe /\ Trail /\ [Next]_vars => Trail'
<1> SUFFICES ASSUME Typed, Safe, Trail, [Next]_vars PROVE Trail'
  OBVIOUS
<1>1. ASSUME NEW w \in Workers, SyncStep(w) PROVE Trail'
  BY <1>1, TrailWorker, TrailPutBack, TrailClaim, TrailSend, TrailCommit DEF SyncStep
<1>2. CASE WorkerNext
  BY <1>1, <1>2, TrailWorker, TrailAnswer, TrailEnvironment DEF WorkerNext
<1>. QED  BY <1>2, TrailRequest, TrailEnvironment DEF Next

(* Whatever is lost, times out or crashes: every voucher in Tally was      *)
(* announced by an attempt before it was sent, and only the last attempt   *)
(* of a synced batch says that it succeeded.                               *)
THEOREM AttemptTrailCorrect == Spec => []AttemptTrail
<1>1. Trail => AttemptTrail
  BY DEF Trail, AttemptTrail, Announced, SyncedLast
<1>. QED  BY <1>1, TrailInit, TrailNext, TypeCorrect, SafetyCorrect, PTL DEF Spec

-----------------------------------------------------------------------------
(***************************************************************************)
(* Where Tally's answers can be read and no thread of a stopped worker is  *)
(* left (Reliable), TallySync implements VoucherOnce: for every number of  *)
(* batches, companies, users, crashes, exceptions, timeouts and refusals.  *)
(***************************************************************************)

Loaded == {"selected", "locked", "built"}

(* The parts of Steady, as they read where Reliable holds.                 *)
OneThread == \A w \in Workers : w # active => wpc[w] = "idle"
LoadedIsCurrent(w) ==
    LET b == job[w].batch
    IN  /\ job[w].status = status[b]
        /\ status[b] \in {"SUBMITTED", "PENDING_SYNC", "SYNCING"}
        /\ job[w].frozen = frozen[b]
        /\ wpc[w] = "built" => job[w].xml = frozen[b] \/ Reachable(b) = {}
RefusedIsGone(w) == wpc[w] = "answered" /\ job[w].status = "FAILED" => Reachable(job[w].batch) = {}
HeldIsFrozen(b) == Reachable(b) \subseteq {frozen[b]}
FailedIsGone(b) == status[b] = "FAILED" => Reachable(b) = {}

LEMMA SteadyParts ==
    ASSUME Reliable
    PROVE  Steady <=> /\ OneThread
                      /\ \A w \in Workers : wpc[w] \in Loaded => LoadedIsCurrent(w)
                      /\ \A w \in Workers : RefusedIsGone(w)
                      /\ \A b \in Batches : HeldIsFrozen(b) /\ FailedIsGone(b)
BY DEF Steady, OneThread, Loaded, LoadedIsCurrent, RefusedIsGone, HeldIsFrozen, FailedIsGone

LEMMA SteadyInit == Init => Steady
BY DEF Init, Steady, Reachable, Vouchers

-----------------------------------------------------------------------------
(* What Tally holds or may still receive of a batch.                       *)

(* Answering, losing or importing a request adds nothing to it.            *)
LEMMA ReachableShrinks ==
    ASSUME Typed, books' = books \/ (wire # None /\ books' = Imported(wire)), wire' \in {wire, None},
           NEW b \in Batches
    PROVE  Reachable(b)' \subseteq Reachable(b)
BY DEF Reachable, Vouchers, Imported

LEMMA ReachableArePayloads ==
    ASSUME Typed, NEW b \in Batches
    PROVE  Reachable(b) \subseteq Payloads /\ None \notin Reachable(b)
BY NoneAssumption DEF Typed, TypeOK, Reachable, Vouchers

-----------------------------------------------------------------------------
(* Steps that change no row: they may load, look at or finish with one.    *)
LEMMA SteadyLocal ==
    ASSUME Typed, Steady, Reliable, active' = active, UNCHANGED <<status, frozen>>,
           \A b \in Batches : Reachable(b)' \subseteq Reachable(b),
           \A w \in Workers :
              \/ wpc'[w] = "idle"
              \/ wpc'[w] = wpc[w] /\ job'[w] = job[w]
              \/ /\ w = active
                 /\ wpc'[w] \in Loaded => LoadedIsCurrent(w)'
                 /\ RefusedIsGone(w)'
    PROVE  Steady'
<1>1. OneThread'
  BY SteadyParts DEF OneThread
<1>2. ASSUME NEW w \in Workers, wpc'[w] \in Loaded PROVE LoadedIsCurrent(w)'
  <2>1. CASE wpc'[w] = wpc[w] /\ job'[w] = job[w]
    <3>1. job[w].batch \in Batches /\ LoadedIsCurrent(w)
      BY <1>2, <2>1, JobBatch, SteadyParts DEF Loaded
    <3>. QED  BY <2>1, <3>1 DEF LoadedIsCurrent
  <2>. QED  BY <1>2, <2>1 DEF Loaded
<1>3. ASSUME NEW w \in Workers PROVE RefusedIsGone(w)'
  <2>1. CASE wpc'[w] = wpc[w] /\ job'[w] = job[w] /\ wpc[w] = "answered"
    <3>1. job[w].batch \in Batches /\ RefusedIsGone(w)
      BY <2>1, JobBatch, SteadyParts
    <3>. QED  BY <2>1, <3>1 DEF RefusedIsGone
  <2>. QED  BY <1>3, <2>1 DEF RefusedIsGone
<1>4. ASSUME NEW b \in Batches PROVE HeldIsFrozen(b)' /\ FailedIsGone(b)'
  BY <1>4, SteadyParts DEF HeldIsFrozen, FailedIsGone
<1>5. Reliable'
  BY DEF Reliable
<1>. QED  BY <1>1, <1>2, <1>3, <1>4, <1>5 DEF Steady, OneThread, Loaded, LoadedIsCurrent, RefusedIsGone, HeldIsFrozen, FailedIsGone

(* Steps that change the row of one batch, which no worker has loaded once *)
(* they are done, and leave Tally alone.                                   *)
LEMMA SteadyRow ==
    ASSUME Typed, Steady, Reliable, active' = active, UNCHANGED tallyVars, NEW b \in Batches,
           \A c \in Batches : c # b => status'[c] = status[c] /\ frozen'[c] = frozen[c],
           \A w \in Workers :
              \/ wpc'[w] \notin Loaded \cup {"answered"} /\ (w # active => wpc'[w] = "idle")
              \/ wpc'[w] = wpc[w] /\ job'[w] = job[w] /\ job[w].batch # b
              \/ wpc'[w] = wpc[w] /\ wpc[w] \notin Loaded /\ job'[w] = job[w],
           HeldIsFrozen(b)', FailedIsGone(b)'
    PROVE  Steady'
<1>1. OneThread'
  BY SteadyParts DEF OneThread
<1>2. \A c \in Batches : Reachable(c)' = Reachable(c)
  BY DEF Reachable, Vouchers, tallyVars
<1>3. ASSUME NEW w \in Workers, wpc'[w] \in Loaded PROVE LoadedIsCurrent(w)'
  <2>1. wpc'[w] = wpc[w] /\ job'[w] = job[w] /\ job[w].batch # b
    BY <1>3
  <2>2. job[w].batch \in Batches /\ LoadedIsCurrent(w)
    BY <1>3, <2>1, JobBatch, SteadyParts DEF Loaded
  <2>. QED  BY <1>2, <2>1, <2>2 DEF LoadedIsCurrent
<1>4. ASSUME NEW w \in Workers PROVE RefusedIsGone(w)'
  <2>1. CASE wpc'[w] = "answered"
    <3>1. wpc'[w] = wpc[w] /\ job'[w] = job[w]
      BY <2>1
    <3>2. job[w].batch \in Batches /\ RefusedIsGone(w)
      BY <2>1, <3>1, JobBatch, SteadyParts
    <3>. QED  BY <1>2, <3>1, <3>2 DEF RefusedIsGone
  <2>. QED  BY <2>1 DEF RefusedIsGone
<1>5. ASSUME NEW c \in Batches PROVE HeldIsFrozen(c)' /\ FailedIsGone(c)'
  <2>1. CASE c = b
    BY <2>1
  <2>2. CASE c # b
    BY <1>2, <2>2, SteadyParts DEF HeldIsFrozen, FailedIsGone
  <2>. QED  BY <2>1, <2>2
<1>. QED  BY <1>1, <1>3, <1>4, <1>5 DEF Steady, OneThread, Loaded, LoadedIsCurrent, RefusedIsGone, HeldIsFrozen, FailedIsGone

-----------------------------------------------------------------------------
(* Request threads.                                                        *)

LEMMA SteadyRequest ==
    ASSUME Typed, Steady, Reliable, RequestNext
    PROVE  Steady'
<1>1. UNCHANGED <<workerVars, tallyVars>>
  BY DEF RequestNext, Submit, OpenRetry, Requeue, SaveSettings
<1>2. \A b \in Batches : Reachable(b)' = Reachable(b)
  BY <1>1 DEF Reachable, Vouchers, tallyVars
<1>3. CASE UNCHANGED <<status, frozen>>
  BY <1>1, <1>2, <1>3, SteadyLocal DEF workerVars
<1>4. ASSUME NEW b \in Batches, status[b] \in {"DRAFT", "FAILED"},
             \A c \in Batches : c # b => status'[c] = status[c] /\ frozen'[c] = frozen[c],
             status'[b] # "FAILED",
             frozen'[b] = frozen[b] \/ status[b] = "FAILED"
      PROVE  Steady'
  <2>1. \A w \in Workers : wpc[w] \in Loaded => job[w].batch # b
    BY <1>4, SteadyParts DEF LoadedIsCurrent
  <2>2. HeldIsFrozen(b)' /\ FailedIsGone(b)'
    BY <1>2, <1>4, SteadyParts DEF HeldIsFrozen, FailedIsGone
  <2>. QED  BY <1>1, <1>4, <2>1, <2>2, SteadyRow DEF workerVars
<1>5. ASSUME NEW b \in Batches, Submit(b) PROVE Steady'
  BY <1>4, <1>5 DEF Submit, Typed, TypeOK
<1>6. ASSUME NEW u \in Users, Requeue(u) PROVE Steady'
  <2>1. click[u] \in Seen /\ click[u].batch \in Batches
    BY <1>6 DEF Requeue, Typed, TypeOK, Seen
  <2>2. CASE /\ StillAsSeen(u) /\ click[u].status = "FAILED"
             /\ status' = [status EXCEPT ![click[u].batch] = "PENDING_SYNC"]
             /\ frozen' = [frozen EXCEPT ![click[u].batch] = None]
    <3> DEFINE b == click[u].batch
    <3>1. b \in Batches /\ status[b] = "FAILED" /\ status'[b] # "FAILED"
      BY <2>1, <2>2 DEF StillAsSeen, Typed, TypeOK
    <3>2. \A c \in Batches : c # b => status'[c] = status[c] /\ frozen'[c] = frozen[c]
      BY <2>2 DEF Typed, TypeOK
    <3>. HIDE DEF b
    <3>. QED  BY <1>4, <3>1, <3>2
  <2>. QED  BY <1>3, <1>6, <2>2 DEF Requeue
<1>. QED  BY <1>3, <1>5, <1>6 DEF RequestNext, OpenRetry, SaveSettings, dbVars

-----------------------------------------------------------------------------
(* The worker, up to the row it writes.                                    *)

LEMMA WhoWorks ==
    ASSUME Steady, Reliable, NEW w \in Workers, wpc[w] # "idle"
    PROVE  w = active /\ \A v \in Workers : v # w => wpc[v] = "idle"
BY SteadyParts DEF OneThread

LEMMA SteadyLook ==
    ASSUME Typed, Steady, Reliable, NEW w \in Workers,
           \/ \E b \in Batches : Select(w, b)
           \/ SkipSynced(w) \/ Lock(w) \/ SkipLeased(w) \/ Prepare(w) \/ ClaimLost(w)
           \/ Exception(w)
    PROVE  Steady'
<1>1. UNCHANGED <<status, frozen, active, tallyVars>>
  BY DEF Select, SkipSynced, Lock, SkipLeased, Prepare, ClaimLost, Exception, Release, dbVars
<1>2. \A b \in Batches : Reachable(b)' = Reachable(b)
  BY <1>1 DEF Reachable, Vouchers, tallyVars
<1>3. \A v \in Workers : v # w => wpc'[v] = wpc[v] /\ job'[v] = job[v]
  BY DEF Select, SkipSynced, Lock, SkipLeased, Prepare, ClaimLost, Exception, Release, Typed, TypeOK
<1>4. ASSUME wpc'[w] = "idle" PROVE Steady'
  BY <1>1, <1>2, <1>3, <1>4, SteadyLocal
<1>5. ASSUME w = active, wpc'[w] \in Loaded, LoadedIsCurrent(w)' PROVE Steady'
  <2>1. RefusedIsGone(w)'
    BY <1>5 DEF Loaded, RefusedIsGone
  <2>. QED  BY <1>1, <1>2, <1>3, <1>5, <2>1, SteadyLocal
<1>6. ASSUME NEW b \in Batches, Select(w, b) PROVE Steady'
  <2>1. /\ w = active /\ wpc'[w] = "selected" /\ job'[w] = Load(b)
        /\ status[b] \in {"SUBMITTED", "PENDING_SYNC", "SYNCING"}
    BY <1>6 DEF Select, Due, Typed, TypeOK
  <2>2. LoadedIsCurrent(w)'
    BY <1>1, <2>1 DEF LoadedIsCurrent, Load
  <2>. QED  BY <1>5, <2>1, <2>2 DEF Loaded
<1>7. CASE Lock(w)
  <2>1. wpc[w] = "selected" /\ wpc'[w] = "locked"
    BY <1>7 DEF Lock, Typed, TypeOK
  <2>2. w = active /\ LoadedIsCurrent(w)
    BY <2>1, WhoWorks, SteadyParts DEF Loaded
  <2>3. job'[w] = job[w]
    BY <1>7, <2>2 DEF Lock, LoadedIsCurrent, Typed, TypeOK
  <2>4. LoadedIsCurrent(w)'
    BY <1>1, <2>1, <2>2, <2>3 DEF LoadedIsCurrent
  <2>. QED  BY <1>5, <2>1, <2>2, <2>4 DEF Loaded
<1>8. CASE Prepare(w)
  <2>1. wpc[w] = "locked" /\ wpc'[w] = "built" /\ job[w] \in Job /\ job[w].batch \in Batches
    BY <1>8, JobBatch DEF Prepare, Typed, TypeOK
  <2>2. w = active /\ LoadedIsCurrent(w)
    BY <2>1, WhoWorks, SteadyParts DEF Loaded
  <2>3. /\ job'[w].batch = job[w].batch /\ job'[w].status = job[w].status
        /\ job'[w].frozen = job[w].frozen
        /\ ~MustBuild(job[w]) => job'[w].xml = job[w].frozen
    BY <1>8, <2>1 DEF Prepare, Typed, TypeOK, Job
  <2>4. MustBuild(job[w]) => Reachable(job[w].batch) = {}
    <3>1. MustBuild(job[w]) => frozen[job[w].batch] = None
      BY <2>2 DEF MustBuild, LoadedIsCurrent
    <3>. QED  BY <2>1, <3>1, ReachableArePayloads, SteadyParts DEF HeldIsFrozen
  <2>5. LoadedIsCurrent(w)'
    BY <1>1, <1>2, <2>1, <2>2, <2>3, <2>4 DEF LoadedIsCurrent
  <2>. QED  BY <1>5, <2>1, <2>2, <2>5 DEF Loaded
<1>9. CASE SkipSynced(w) \/ SkipLeased(w) \/ ClaimLost(w) \/ Exception(w)
  BY <1>4, <1>9 DEF SkipSynced, SkipLeased, ClaimLost, Exception, Release, Typed, TypeOK
<1>. QED  BY <1>6, <1>7, <1>8, <1>9

-----------------------------------------------------------------------------
(* The worker's writes.                                                    *)

LEMMA SteadyPutBack ==
    ASSUME Typed, Steady, Reliable, NEW w \in Workers, BuildFails(w) \/ SyncDisabled(w)
    PROVE  Steady'
<1>0. PICK b \in Batches : b = job[w].batch
  BY JobBatch DEF Loaded, BuildFails, SyncDisabled, Claim, Commit, Send
<1>1. wpc[w] \in Loaded /\ b \in Batches /\ job[w] \in Job
  BY <1>0, JobBatch DEF BuildFails, SyncDisabled, Loaded
<1>2. w = active /\ LoadedIsCurrent(w) /\ \A v \in Workers : v # w => wpc[v] = "idle"
  BY <1>0, <1>1, WhoWorks, SteadyParts DEF Loaded
<1>3. PICK r, x : PutBack(w, r, x) /\ (x = frozen[b] \/ Reachable(b) = {})
  BY <1>0, <1>2 DEF BuildFails, SyncDisabled, LoadedIsCurrent
<1>4. /\ wpc'[w] = "idle" /\ \A v \in Workers : v # w => wpc'[v] = "idle"
      /\ active' = active /\ UNCHANGED tallyVars
  BY <1>0, <1>2, <1>3 DEF PutBack, Release, Typed, TypeOK
<1>5. /\ status'[b] # "FAILED"
      /\ frozen'[b] = frozen[b] \/ Reachable(b) = {}
  BY <1>0, <1>1, <1>2, <1>3 DEF PutBack, Flushed, LoadedIsCurrent, Typed, TypeOK
<1>6. \A c \in Batches : c # b => status'[c] = status[c] /\ frozen'[c] = frozen[c]
  BY <1>0, <1>3 DEF PutBack, Typed, TypeOK
<1>7. Reachable(b)' = Reachable(b)
  BY <1>0, <1>4 DEF Reachable, Vouchers, tallyVars
<1>8. HeldIsFrozen(b)' /\ FailedIsGone(b)'
  BY <1>0, <1>1, <1>5, <1>7, SteadyParts DEF HeldIsFrozen, FailedIsGone
<1>. QED  BY <1>0, <1>0, <1>1, <1>4, <1>6, <1>8, SteadyRow DEF Loaded

LEMMA SteadyClaim ==
    ASSUME Typed, Steady, Reliable, NEW w \in Workers, Claim(w)
    PROVE  Steady'
<1>0. PICK b \in Batches : b = job[w].batch
  BY JobBatch DEF Loaded, BuildFails, SyncDisabled, Claim, Commit, Send
<1>1. wpc[w] = "built" /\ b \in Batches /\ active' = active /\ UNCHANGED tallyVars
  BY <1>0 DEF Claim
<1>2. w = active /\ LoadedIsCurrent(w) /\ \A v \in Workers : v # w => wpc[v] = "idle"
  BY <1>0, <1>1, WhoWorks, SteadyParts DEF Loaded
<1>3. wpc'[w] = "claimed" /\ \A v \in Workers : v # w => wpc'[v] = "idle"
  BY <1>0, <1>2 DEF Claim, Typed, TypeOK
<1>4. status'[b] # "FAILED" /\ (frozen'[b] = frozen[b] \/ Reachable(b) = {})
  BY <1>0, <1>1, <1>2 DEF Claim, LoadedIsCurrent, Typed, TypeOK
<1>5. \A c \in Batches : c # b => status'[c] = status[c] /\ frozen'[c] = frozen[c]
  BY <1>0 DEF Claim, Typed, TypeOK
<1>6. Reachable(b)' = Reachable(b)
  BY <1>0, <1>1 DEF Reachable, Vouchers, tallyVars
<1>7. HeldIsFrozen(b)' /\ FailedIsGone(b)'
  BY <1>0, <1>1, <1>4, <1>6, SteadyParts DEF HeldIsFrozen, FailedIsGone
<1>. QED  BY <1>0, <1>0, <1>1, <1>2, <1>3, <1>5, <1>7, SteadyRow DEF Loaded

LEMMA SteadyCommit ==
    ASSUME Typed, Steady, Reliable, NEW w \in Workers, Commit(w)
    PROVE  Steady'
<1>0. PICK b \in Batches : b = job[w].batch
  BY JobBatch DEF Loaded, BuildFails, SyncDisabled, Claim, Commit, Send
<1>1. wpc[w] = "answered" /\ b \in Batches /\ active' = active /\ UNCHANGED tallyVars
  BY <1>0 DEF Commit, Release
<1>2. w = active /\ RefusedIsGone(w) /\ \A v \in Workers : v # w => wpc[v] = "idle"
  BY <1>0, <1>1, WhoWorks, SteadyParts
<1>3. wpc'[w] = "idle" /\ \A v \in Workers : v # w => wpc'[v] = "idle"
  BY <1>0, <1>2 DEF Commit, Release, Typed, TypeOK
<1>4. status'[b] = job[w].status /\ frozen' = frozen
  BY <1>0, <1>1 DEF Commit, Typed, TypeOK
<1>5. \A c \in Batches : c # b => status'[c] = status[c]
  BY <1>0 DEF Commit, Typed, TypeOK
<1>6. Reachable(b)' = Reachable(b)
  BY <1>0, <1>1 DEF Reachable, Vouchers, tallyVars
<1>7. HeldIsFrozen(b)' /\ FailedIsGone(b)'
  BY <1>0, <1>1, <1>2, <1>4, <1>6, SteadyParts DEF HeldIsFrozen, FailedIsGone, RefusedIsGone
<1>. QED  BY <1>0, <1>0, <1>1, <1>3, <1>4, <1>5, <1>7, SteadyRow DEF Loaded

-----------------------------------------------------------------------------
(* Tally.                                                                  *)

(* What is sent is the payload of the row that was claimed.                *)
LEMMA SteadySend ==
    ASSUME Typed, Safe, Steady, Reliable, NEW w \in Workers, Send(w)
    PROVE  Steady'
<1>0. PICK b \in Batches : b = job[w].batch
  BY JobBatch DEF Loaded, BuildFails, SyncDisabled, Claim, Commit, Send
<1>1. /\ wpc[w] = "claimed" /\ b \in Batches /\ wire = None /\ wire' = job[w].xml
      /\ UNCHANGED <<status, frozen, job, active, books>>
  BY <1>0 DEF Send, dbVars
<1>2. \A v \in Workers : v # w => wpc[v] = "idle"
  BY <1>0, <1>1, WhoWorks
<1>3. /\ wpc'[w] = "posting" /\ \A v \in Workers : v # w => wpc'[v] = "idle"
      /\ w = active
  BY <1>0, <1>1, <1>2, WhoWorks DEF Send, Typed, TypeOK
<1>4. frozen[b] = job[w].xml /\ status[b] = "SYNCING"
  BY <1>0, <1>1 DEF Safe, ClaimIsHeld
<1>5. job[w].xml # None => job[w].xml.rid[2] = b
  BY <1>0, <1>1 DEF Safe, Belongs, JobBelongs
<1>6. Reachable(b)' \subseteq Reachable(b) \cup {frozen[b]}
  BY <1>0, <1>1, <1>4 DEF Reachable, Vouchers
<1>7. \A c \in Batches : c # b => Reachable(c)' = Reachable(c)
  BY <1>0, <1>1, <1>5 DEF Reachable, Vouchers
<1>8. ASSUME NEW c \in Batches PROVE HeldIsFrozen(c)' /\ FailedIsGone(c)'
  <2>1. HeldIsFrozen(c) /\ FailedIsGone(c)
    BY SteadyParts
  <2>2. CASE c = b
    BY <1>0, <1>1, <1>4, <1>6, <2>1, <2>2 DEF HeldIsFrozen, FailedIsGone
  <2>3. CASE c # b
    BY <1>0, <1>1, <1>7, <2>1, <2>3 DEF HeldIsFrozen, FailedIsGone
  <2>. QED  BY <2>2, <2>3
<1>9. OneThread'
  BY <1>0, <1>1, <1>3 DEF OneThread
<1>10. \A v \in Workers : wpc'[v] \notin Loaded \cup {"answered"}
  BY <1>0, <1>3 DEF Loaded
<1>. QED  BY <1>0, <1>0, <1>8, <1>9, <1>10 DEF Steady, OneThread, Loaded, RefusedIsGone, HeldIsFrozen, FailedIsGone

LEMMA SteadyAnswer ==
    ASSUME Typed, Safe, Steady, Reliable, NEW w \in Workers, Answer(w)
    PROVE  Steady'
<1>1. PICK o \in Outcomes : Answered(w, o) /\ (o = "FAILED" => Reject(w))
  BY DEF Answer, Accept, Reject, Unreadable, Timeout, Outcomes, Reliable, Fault
<1>2. /\ wpc[w] = "posting" /\ wire = job[w].xml /\ job[w] \in Job /\ job[w].batch \in Batches
      /\ wire \in Payloads /\ wire # None
  BY JobBatch, NoneAssumption DEF Answer, Accept, Reject, Unreadable, Timeout, Typed, TypeOK, JobOK
<1>3. w = active /\ \A v \in Workers : v # w => wpc[v] = "idle"
  BY <1>2, WhoWorks
<1>4. /\ wpc'[w] = "answered" /\ job'[w].status = o /\ job'[w].batch = job[w].batch
      /\ \A v \in Workers : v # w => wpc'[v] = wpc[v] /\ job'[v] = job[v]
      /\ UNCHANGED <<status, frozen, active>>
  BY <1>1, <1>2 DEF Answered, Typed, TypeOK, Job, dbVars
<1>5. \A b \in Batches : Reachable(b)' \subseteq Reachable(b)
  <2>1. books' \in {books, Imported(wire)} /\ wire' \in {wire, None}
    BY DEF Answer, Accept, Reject, Unreadable, Timeout, tallyVars
  <2>. QED  BY <1>2, <2>1, ReachableShrinks
(* Tally refuses only what it does not have.                               *)
<1>6. o = "FAILED" => Reachable(job[w].batch)' = {}
  <2> SUFFICES ASSUME Reject(w) PROVE Reachable(job[w].batch)' = {}
    BY <1>1, <1>4
  <2>1. wire' = None /\ books' = books /\ MayRefuse(wire)
    BY DEF Reject
  <2>2. frozen[job[w].batch] = wire
    BY <1>2 DEF Safe, ClaimIsHeld
  <2>3. Vouchers(job[w].batch) \subseteq {wire}
    BY <1>2, <2>2, SteadyParts DEF HeldIsFrozen, Reachable
  <2>4. wire \notin books
    BY <2>1 DEF MayRefuse, SameVoucher
  <2>5. Vouchers(job[w].batch) = {}
    BY <2>3, <2>4 DEF Vouchers
  <2>6. Reachable(job[w].batch)' = Vouchers(job[w].batch)'
    BY <2>1 DEF Reachable
  <2>7. Vouchers(job[w].batch)' = {}
    BY <1>4, <2>1, <2>5 DEF Vouchers
  <2>. QED  BY <2>6, <2>7
<1>7. RefusedIsGone(w)'
  BY <1>4, <1>6 DEF RefusedIsGone
<1>8. wpc'[w] \notin Loaded
  BY <1>4 DEF Loaded
<1>. QED  BY <1>3, <1>4, <1>5, <1>7, <1>8, SteadyLocal

LEMMA SteadyEnvironment ==
    ASSUME Typed, Steady, Reliable, EnvironmentNext
    PROVE  Steady'
<1>1. UNCHANGED <<status, frozen, active>>
  BY DEF EnvironmentNext, LateImport, LateDrop, Crash, LeaseExpires, CooldownEnds, dbVars, workerVars
<1>2. \A w \in Workers : wpc'[w] = "idle" \/ (wpc'[w] = wpc[w] /\ job'[w] = job[w])
  BY DEF EnvironmentNext, LateImport, LateDrop, Crash, LeaseExpires, CooldownEnds, workerVars
<1>3. /\ books' = books \/ (wire # None /\ books' = Imported(wire))
      /\ wire' \in {wire, None}
  BY DEF EnvironmentNext, LateImport, LateDrop, Crash, LeaseExpires, CooldownEnds, Abandoned, tallyVars
<1>4. \A b \in Batches : Reachable(b)' \subseteq Reachable(b)
  BY <1>3, ReachableShrinks
<1>. QED  BY <1>1, <1>2, <1>4, SteadyLocal

LEMMA SteadyNext == Typed /\ Safe /\ Steady /\ [Next]_vars => Steady'
<1> SUFFICES ASSUME Typed, Safe, Steady, [Next]_vars, Reliable PROVE Steady'
  BY DEF Steady, Reliable
<1>1. CASE RequestNext
  BY <1>1, SteadyRequest
<1>2. ASSUME NEW w \in Workers, SyncStep(w) PROVE Steady'
  BY <1>2, SteadyLook, SteadyPutBack, SteadyClaim, SteadySend, SteadyCommit DEF SyncStep
<1>3. CASE WorkerNext
  <2>1. \A w \in Workers : ~RestartWorker(w)
    BY DEF RestartWorker, Fault, Reliable
  <2>. QED  BY <1>2, <1>3, <2>1, SteadyLook, SteadyAnswer DEF WorkerNext
<1>4. CASE EnvironmentNext
  BY <1>4, SteadyEnvironment
<1>5. CASE UNCHANGED vars
  <2>1. \A b \in Batches : Reachable(b)' = Reachable(b)
    BY <1>5 DEF vars, tallyVars, Reachable, Vouchers
  <2>. QED  BY <1>5, <2>1, SteadyLocal DEF vars, dbVars, workerVars
<1>. QED  BY <1>1, <1>3, <1>4, <1>5 DEF Next

(* Where Reliable holds, the only worker decides on what the row says, and *)
(* it replaces a payload only of a batch that Tally has nothing of.        *)
THEOREM SteadyCorrect == Spec => []Steady
BY SteadyInit, SteadyNext, TypeCorrect, SafetyCorrect, PTL DEF Spec

(* Whatever Tally holds of a batch, or may still receive, is the payload   *)
(* that its row keeps.                                                     *)
THEOREM TallyHoldsFrozenCorrect == Spec => []TallyHoldsFrozen
<1>1. Steady => TallyHoldsFrozen
  BY DEF Steady, TallyHoldsFrozen
<1>. QED  BY <1>1, SteadyCorrect, PTL

(* So it never holds two vouchers of one batch.                            *)
THEOREM OneVoucherCorrect == Spec => []OneVoucher
<1>1. Steady => OneVoucher
  <2> SUFFICES ASSUME Steady, Reliable, NEW b \in Batches
               PROVE  Cardinality(Vouchers(b)) <= 1
    BY DEF OneVoucher
  <2>1. Vouchers(b) \subseteq {frozen[b]}
    BY DEF Steady, Reachable
  <2>2. IsFiniteSet({frozen[b]}) /\ Cardinality({frozen[b]}) = 1
    BY FS_Singleton
  <2>3. Cardinality(Vouchers(b)) <= Cardinality({frozen[b]})
    BY <2>1, <2>2, FS_Subset
  <2>. QED  BY <2>2, <2>3
<1>. QED  BY <1>1, SteadyCorrect, PTL

(* And a batch shown as FAILED has none.                                   *)
THEOREM FailedIsNotInTallyCorrect == Spec => []FailedIsNotInTally
<1>1. Steady => FailedIsNotInTally
  BY DEF Steady, FailedIsNotInTally
<1>. QED  BY <1>1, SteadyCorrect, PTL

(* One batch is one voucher, the one that its row keeps.                   *)
THEOREM OneTrueVoucherCorrect == Spec => []OneTrueVoucher
<1>1. TallyHoldsFrozen /\ OneVoucher /\ FailedIsNotInTally => OneTrueVoucher
  BY DEF OneTrueVoucher
<1>. QED  BY <1>1, TallyHoldsFrozenCorrect, OneVoucherCorrect, FailedIsNotInTallyCorrect, PTL

-----------------------------------------------------------------------------
(* TallySync implements VoucherOnce.                                       *)

MappedVouchers  == [b \in Batches |-> Vouchers(b)]
MappedConfirmed == {b \in Batches : status[b] = "SYNCED"}

(* An import is a Post of the abstract specification, or changes nothing.  *)
LEMMA ImportIsPost ==
    ASSUME Typed, Safe, Steady, Reliable, wire # None, books' = Imported(wire)
    PROVE  LET b == wire.rid[2]
           IN  /\ b \in Batches
               /\ \/ MappedVouchers' = MappedVouchers
                  \/ /\ Vouchers(b) = {}
                     /\ MappedVouchers' = [MappedVouchers EXCEPT ![b] = {wire}]
<1>1. PICK b \in Batches : b = wire.rid[2]
  BY DEF Typed, TypeOK, Payloads, Rids
<1>2. Vouchers(b) \subseteq {wire}
  <2>1. wire \in Reachable(b) /\ Reachable(b) \subseteq {frozen[b]}
    BY <1>1, SteadyParts DEF Reachable, HeldIsFrozen
  <2>. QED  BY <2>1 DEF Reachable
<1>3. Vouchers(b)' = {wire}
  BY <1>1, <1>2 DEF Vouchers, Imported
<1>4. \A c \in Batches : c # b => Vouchers(c)' = Vouchers(c)
  BY <1>1, OtherVouchers DEF Vouchers
<1>5. CASE Vouchers(b) = {}
  BY <1>1, <1>3, <1>4, <1>5 DEF MappedVouchers
<1>6. CASE Vouchers(b) = {wire}
  BY <1>1, <1>3, <1>4, <1>6 DEF MappedVouchers
<1>. QED  BY <1>1, <1>2, <1>5, <1>6

(* Only the last commit of sync_batch makes a batch SYNCED.                *)
LEMMA ConfirmedByCommit ==
    ASSUME Typed, Safe, [Next]_vars, NEW b \in Batches, status[b] # "SYNCED", status'[b] = "SYNCED"
    PROVE  \E w \in Workers : Commit(w) /\ job[w].batch = b /\ job[w].status = "SYNCED"
<1> USE DEF Typed, TypeOK
<1>1. ASSUME NEW c \in Batches, Submit(c) PROVE FALSE
  BY <1>1 DEF Submit
<1>2. ASSUME NEW u \in Users, Requeue(u) PROVE FALSE
  BY <1>2 DEF Requeue
<1>3. ASSUME NEW w \in Workers, SyncStep(w)
      PROVE  Commit(w) /\ job[w].batch = b /\ job[w].status = "SYNCED"
  <2>1. CASE BuildFails(w) \/ SyncDisabled(w)
    <3>1. PICK r, x : PutBack(w, r, x)
      BY <2>1 DEF BuildFails, SyncDisabled
    <3>. QED  BY <3>1 DEF PutBack, Flushed
  <2>2. CASE Claim(w)
    BY <2>2 DEF Claim
  <2>3. CASE Commit(w)
    BY <2>3 DEF Commit
  <2>4. CASE SkipSynced(w) \/ Lock(w) \/ SkipLeased(w) \/ Prepare(w) \/ ClaimLost(w) \/ Send(w)
    BY <2>4 DEF SkipSynced, Lock, SkipLeased, Prepare, ClaimLost, Send, dbVars
  <2>. QED  BY <1>3, <2>1, <2>2, <2>3, <2>4 DEF SyncStep
<1>4. CASE RequestNext
  BY <1>1, <1>2, <1>4 DEF RequestNext, OpenRetry, SaveSettings, dbVars
<1>5. CASE WorkerNext
  <2>1. \A w \in Workers : ~(Answer(w) \/ Exception(w) \/ RestartWorker(w))
    BY DEF Answer, Accept, Reject, Unreadable, Timeout, Answered, Exception, RestartWorker, dbVars
  <2>. QED  BY <1>3, <1>5, <2>1 DEF WorkerNext, Select, dbVars
<1>6. CASE EnvironmentNext
  BY <1>6 DEF EnvironmentNext, LateImport, LateDrop, Crash, LeaseExpires, CooldownEnds, dbVars
<1>7. CASE UNCHANGED vars
  BY <1>7 DEF vars, dbVars
<1>. QED  BY <1>4, <1>5, <1>6, <1>7 DEF Next

LEMMA PromiseInit == Init => Promise!Init
BY DEF Init, Promise!Init, Vouchers

LEMMA PromiseStep ==
    ASSUME Typed, Safe, Steady, Reliable, [Next]_vars
    PROVE  [Promise!Next]_<<MappedVouchers, MappedConfirmed>>
<1>1. ASSUME NEW b \in Batches, status[b] # "SYNCED", status'[b] = "SYNCED"
      PROVE  Promise!Confirm(b)
  <2>1. PICK w \in Workers : Commit(w) /\ job[w].batch = b /\ job[w].status = "SYNCED"
    BY <1>1, ConfirmedByCommit
  <2>2. books' = books /\ MappedVouchers' = MappedVouchers
    BY <2>1 DEF Commit, tallyVars, MappedVouchers, Vouchers
  <2>3. job[w].xml \in books /\ job[w].xml.rid[2] = b
    BY <2>1, NoneAssumption DEF Commit, Typed, JobOK, Safe, NothingLeftToImport, Belongs, JobBelongs
  <2>4. Vouchers(b) # {}
    BY <2>3 DEF Vouchers
  <2>5. MappedConfirmed' = MappedConfirmed \cup {b}
    <3>1. \A c \in Batches : c # b => status'[c] = status[c]
      BY <2>1 DEF Commit, Typed, TypeOK
    <3>. QED  BY <1>1, <3>1 DEF MappedConfirmed
  <2>. QED  BY <1>1, <2>2, <2>4, <2>5 DEF Promise!Confirm, MappedVouchers, MappedConfirmed
<1>2. ASSUME \A b \in Batches : status[b] # "SYNCED" => status'[b] # "SYNCED"
      PROVE  MappedConfirmed' = MappedConfirmed
  BY <1>2, SyncedRow DEF MappedConfirmed
<1>3. CASE books' = books
  <2>1. MappedVouchers' = MappedVouchers
    BY <1>3 DEF MappedVouchers, Vouchers
  <2>. QED  BY <1>1, <1>2, <2>1 DEF Promise!Next
<1>4. CASE wire # None /\ books' = Imported(wire) /\ books' # books
  <2>1. \A b \in Batches : status[b] # "SYNCED" => status'[b] # "SYNCED"
    <3>1. \A w \in Workers : ~Commit(w)
      BY <1>4 DEF Commit, tallyVars
    <3>. QED  BY <3>1, ConfirmedByCommit
  <2>2. MappedConfirmed' = MappedConfirmed
    BY <1>2, <2>1
  <2>3. wire \in Payloads
    BY <1>4 DEF Typed, TypeOK
  <2>4. PICK b \in Batches :
           \/ MappedVouchers' = MappedVouchers
           \/ Vouchers(b) = {} /\ MappedVouchers' = [MappedVouchers EXCEPT ![b] = {wire}]
    BY <1>4, ImportIsPost
  <2>5. CASE Vouchers(b) = {} /\ MappedVouchers' = [MappedVouchers EXCEPT ![b] = {wire}]
    <3>1. Promise!Post(b, wire)
      BY <2>2, <2>5 DEF Promise!Post, MappedVouchers, MappedConfirmed
    <3>. QED  BY <2>3, <3>1 DEF Promise!Next
  <2>. QED  BY <2>2, <2>4, <2>5
<1>. QED  BY <1>3, <1>4, BooksStep

(* One voucher of each batch, never a second or a changed one, and a batch *)
(* shown as synced only when its voucher is there.                         *)
THEOREM PromiseKeptCorrect == ASSUME Reliable PROVE Spec => PromiseKept
<1>1. Typed /\ Safe /\ Steady /\ [Next]_vars => [Promise!Next]_<<MappedVouchers, MappedConfirmed>>
  BY PromiseStep
<1>. QED  BY <1>1, PromiseInit, TypeCorrect, SafetyCorrect, SteadyCorrect, PTL
          DEF Spec, PromiseKept, Promise!Spec, MappedVouchers, MappedConfirmed
=============================================================================
