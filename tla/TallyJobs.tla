----------------------------- MODULE TallyJobs -----------------------------
(***************************************************************************)
(* The queue of data requests to Tally and the cache they fill: request    *)
(* threads put rows into tally_data_jobs, the worker claims the oldest,    *)
(* asks Tally, replaces the cached sales book of the dates asked for and   *)
(* finishes the row (services/tally_jobs.py, services/tally_cache.py).     *)
(*                                                                         *)
(* One Tally company of one profile, so a request_key is its range of      *)
(* dates.  A ledger list is replaced as a whole, as a book with one range. *)
(* Ghost: book keeps Tally's earlier states, `asked` the age of a request. *)
(***************************************************************************)
EXTENDS Naturals, Sequences, FiniteSets

CONSTANTS
    Vouchers,   \* sales vouchers of the Tally company, by their identity
    Dates,
    Ranges,     \* the ranges of dates somebody asks for
    Askers,     \* request threads
    MaxActive,  \* MAX_ACTIVE_TALLY_DATA_JOBS
    MaxJobs,    \* BOUND: rows of the table at one time
    MaxEdits,   \* BOUND: changes somebody makes in Tally
    MaxFaults,  \* BOUND: crashes and exceptions
    None

ASSUME RangesAssumption == Ranges \subseteq SUBSET Dates
ASSUME BoundsAssumption == {MaxActive, MaxJobs, MaxEdits, MaxFaults} \subseteq Nat
Ids    == 1..MaxJobs
Active == {"queued", "running"}
Books  == [Vouchers -> Dates \cup {None}]   \* the date of each voucher, if it is there
Errors == {None, "no_answer", "not_stored"}
Row    == [range : Ranges, status : Active \cup {"succeeded", "failed"},
           error : Errors,
           late : BOOLEAN,                  \* the lease, or the retention, has ended
           asked : 1..MaxEdits + 1]

ASSUME NoneAssumption ==
    /\ None \notin Dates /\ None \notin Ranges /\ None \notin Askers
    /\ None \notin Nat /\ None \notin Row /\ None \notin {"no_answer", "not_stored"}

VARIABLES
    book,      \* the states of Tally's sales book, the last one being its present
    rows,      \* tally_data_jobs: Row or None, numbered in the order of created_at
    cached,    \* tally_sales_voucher_cache
    guard,     \* _enqueue_lock
    asking,    \* per request thread: the range it is about to insert, or None
    at,        \* where the worker is in process_pending_tally_data_job
    mine,      \* the row it has claimed
    answer,    \* what Tally answered
    error,     \* the exception, or None
    faults

tables  == <<rows, cached>>
askers  == <<guard, asking>>
worker  == <<at, mine, answer, error>>
vars    == <<book, tables, askers, worker, faults>>

Now == Len(book)

Init ==
    /\ \E f \in Books : book = <<f>>
    /\ rows   = [i \in Ids |-> None]
    /\ cached = [v \in Vouchers |-> None]
    /\ guard  = None
    /\ asking = [a \in Askers |-> None]
    /\ at = "idle" /\ mine = None /\ answer = None /\ error = None
    /\ faults = 0

ActiveIds == {i \in Ids : rows[i] # None /\ rows[i].status \in Active}
Fault     == faults < MaxFaults /\ faults' = faults + 1

-----------------------------------------------------------------------------
(* queue_tally_data_job.                                                   *)

LockFree    == TRUE        \* variant: without _enqueue_lock
EnqueueLock == guard = None

(* A request that is queued or running already is shared, and a full queue *)
(* refuses: then nothing changes.  Otherwise the thread goes on to insert. *)
Look(a, r) ==
    /\ asking[a] = None /\ EnqueueLock
    /\ \A i \in ActiveIds : rows[i].range # r
    /\ Cardinality(ActiveIds) < MaxActive
    /\ guard'  = a
    /\ asking' = [asking EXCEPT ![a] = r]
    /\ UNCHANGED <<book, tables, worker, faults>>

Purged == {i \in Ids : rows[i] # None /\ rows[i].late /\ rows[i].status \notin Active}

(* SQLite numbers a row one above the greatest number in use.              *)
Free == {n \in Ids : \A i \in Ids : rows[i] # None /\ i \notin Purged => i < n}

Insert(a) ==
    /\ asking[a] # None
    /\ \E n \in Free :
        /\ \A i \in Free : n <= i
        /\ rows' = [i \in Ids |->
                      IF i = n THEN [range |-> asking[a], status |-> "queued",
                                     error |-> None, late |-> FALSE, asked |-> Now]
                      ELSE IF i \in Purged THEN None ELSE rows[i]]
    /\ guard'  = None
    /\ asking' = [asking EXCEPT ![a] = None]
    /\ UNCHANGED <<book, cached, worker, faults>>

-----------------------------------------------------------------------------
(* process_pending_tally_data_job.                                         *)

Queued    == {i \in ActiveIds : rows[i].status = "queued"}  \* variant: without the lease
Available == {i \in ActiveIds : rows[i].status = "queued" \/ rows[i].late}

Claim ==
    /\ at = "idle"
    /\ \E i \in Available :
        /\ \A k \in Available : i <= k
        /\ rows' = [rows EXCEPT ![i] = [@ EXCEPT !.status = "running", !.late = FALSE]]
        /\ mine' = i
    /\ at' = "claimed"
    /\ UNCHANGED <<book, cached, askers, answer, error, faults>>

(* Tally answers with the vouchers it has in the range, or it does not.    *)
Fetch ==
    /\ at = "claimed"
    /\ \/ /\ answer' = [v \in Vouchers |->
                          IF book[Now][v] \in rows[mine].range THEN book[Now][v] ELSE None]
          /\ at' = "answered" /\ UNCHANGED error
       \/ error' = "no_answer" /\ at' = "done" /\ UNCHANGED answer
    /\ UNCHANGED <<book, tables, askers, mine, faults>>

(* replace_cached_sales_book looks for the rows of the range by their date *)
(* and for a voucher among these; one that is cached under another date is *)
(* inserted a second time, which the table's unique constraint refuses.    *)
InRange(v)  == cached[v] # None /\ cached[v] \in rows[mine].range
Duplicate   == \E v \in Vouchers : answer[v] # None /\ cached[v] # None /\ ~InRange(v)
Merged      ==             \* variant: rows that Tally no longer lists are kept
    [v \in Vouchers |-> IF answer[v] # None THEN answer[v] ELSE cached[v]]
Replaced    ==
    [v \in Vouchers |-> IF answer[v] # None THEN answer[v]
                        ELSE IF InRange(v) THEN None ELSE cached[v]]

Store ==
    /\ at = "answered"
    /\ at' = "done"
    /\ IF Duplicate THEN error' = "not_stored" /\ UNCHANGED cached
                    ELSE cached' = Replaced /\ UNCHANGED error
    /\ UNCHANGED <<book, rows, askers, mine, answer, faults>>

Release == at' = "idle" /\ mine' = None /\ answer' = None /\ error' = None

RetriedByLease == IF error = None THEN "succeeded" ELSE "running"  \* variant: no failure
Outcome        == IF error = None THEN "succeeded" ELSE "failed"

Finish ==
    /\ at = "done"
    /\ rows' = [rows EXCEPT ![mine] =
          [@ EXCEPT !.status = Outcome, !.error = error, !.late = FALSE]]
    /\ Release
    /\ UNCHANGED <<book, cached, askers, faults>>

(* An exception of the database leaves the row running.                    *)
Raise ==
    /\ at # "idle" /\ Fault
    /\ Release
    /\ UNCHANGED <<book, tables, askers>>

Crash ==
    /\ Fault
    /\ Release
    /\ guard' = None /\ asking' = [a \in Askers |-> None]
    /\ UNCHANGED <<book, tables>>

-----------------------------------------------------------------------------
(* The lease of a running row, or the retention of a finished one, ends.   *)
TimePasses(i) ==
    /\ rows[i] # None /\ rows[i].status # "queued" /\ ~rows[i].late
    /\ rows' = [rows EXCEPT ![i].late = TRUE]
    /\ UNCHANGED <<book, cached, askers, worker, faults>>

(* Somebody enters, deletes or re-dates a voucher in Tally.                *)
Edit(v, d) ==
    /\ Now <= MaxEdits
    /\ book[Now][v] # d
    /\ book' = Append(book, [book[Now] EXCEPT ![v] = d])
    /\ UNCHANGED <<tables, askers, worker, faults>>

AskNext    == \E a \in Askers : Insert(a) \/ \E r \in Ranges : Look(a, r)
WorkerNext == Claim \/ Fetch \/ Store \/ Finish
LeaseEnds(i) == i \in ActiveIds /\ TimePasses(i)

Next ==
    \/ AskNext \/ WorkerNext \/ Raise \/ Crash
    \/ \E i \in Ids : TimePasses(i)
    \/ \E v \in Vouchers, d \in Dates \cup {None} : Edit(v, d)

Spec == Init /\ [][Next]_vars

(* The worker polls, leases end, and a request ends.                       *)
Fairness ==
    /\ WF_vars(WorkerNext)
    /\ \A i \in Ids : WF_vars(LeaseEnds(i))
    /\ \A a \in Askers : WF_vars(Insert(a))

FairSpec == Spec /\ Fairness

-----------------------------------------------------------------------------
(* Properties.                                                             *)

(* Types; who is about to insert holds the lock; and a worker that is busy *)
(* holds a row that runs.                                                  *)
TypeOK ==
    /\ book \in Seq(Books) /\ Now \in 1..MaxEdits + 1
    /\ rows \in [Ids -> Row \cup {None}]
    /\ cached \in Books
    /\ guard \in Askers \cup {None}
    /\ asking \in [Askers -> Ranges \cup {None}]
    /\ \A a \in Askers : asking[a] # None => guard = a
    /\ at \in {"idle", "claimed", "answered", "done"}
    /\ at = "idle" <=> mine = None
    /\ at # "idle" => mine \in ActiveIds /\ rows[mine].status = "running"
    /\ answer \in Books \cup {None} /\ error \in Errors
    /\ at = "answered" => answer \in Books
    /\ faults \in 0..MaxFaults

(* What a thread has found out under the lock is still so when it inserts. *)
FoundStillHolds ==
    \A a \in Askers : asking[a] # None =>
        /\ \A i \in ActiveIds : rows[i].range # asking[a]
        /\ Cardinality(ActiveIds) < MaxActive

(* However often and however fast somebody clicks, a range is asked for by *)
(* one row at a time.                                                      *)
OneActivePerKey == \A i, k \in ActiveIds : i # k => rows[i].range # rows[k].range

(* Requests that come together do not get the queue over its limit.        *)
ActiveBounded == Cardinality(ActiveIds) <= MaxActive

(* The queue holds one row for each range that was asked for, and no more  *)
(* rows than its limit; and what a thread saw under the lock is still so.  *)
QueueKept == FoundStillHolds /\ OneActivePerKey /\ ActiveBounded

(* What a succeeded request leaves in the cache is, for each date, what    *)
(* Tally had on that date at some moment after it was asked for, whatever  *)
(* overlapping ranges are refreshed later, and although a crash may make   *)
(* the worker ask again.                                                   *)
OnDate(f, d) == {v \in Vouchers : f[v] = d}
FreshAsAsked ==
    \A i \in Ids : rows[i] # None /\ rows[i].status = "succeeded" =>
        \A d \in rows[i].range :
            \E n \in rows[i].asked..Now : OnDate(cached, d) = OnDate(book[n], d)

(* Every request ends, also one whose worker died.                         *)
EveryJobEnds == \A i \in Ids : i \in ActiveIds ~> i \notin ActiveIds
=============================================================================
