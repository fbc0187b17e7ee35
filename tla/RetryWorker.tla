---------------------------- MODULE RetryWorker ----------------------------
(***************************************************************************)
(* The single consumer of everything that is asked of Tally: the asyncio   *)
(* task retry_worker_loop, the threads it runs process_next_tally_request  *)
(* in, and the request threads that add work and wake it                   *)
(* (services/sync_worker.py, services/tally_jobs.py).                      *)
(*                                                                         *)
(* A unit of work is only counted here: what is done with a batch is       *)
(* module TallySync, with a data job TallyJobs; a gateway check is counted *)
(* only.                                                                   *)
(***************************************************************************)
EXTENDS Naturals, FiniteSets

CONSTANTS
    Requesters,  \* request threads
    Threads,     \* threads of the executor that asyncio.to_thread uses
    MaxJobs,     \* MAX_ACTIVE_TALLY_DATA_JOBS
    MaxBatches,  \* BOUND: batches that wait at one time
    MaxChecks,   \* BOUND: gateway checks in one behaviour
    MaxStarts,   \* BOUND: starts of the worker
    MaxFailures, \* BOUND: exceptions
    None

ASSUME BoundsAssumption ==
    {MaxJobs, MaxBatches, MaxChecks, MaxStarts, MaxFailures} \subseteq Nat
ASSUME NoneAssumption == None \notin Threads \cup Nat

(* A gateway check, a data job, a batch that somebody asked for, and one   *)
(* that is due because its cooldown or its lease has ended.                *)
Kinds     == {"gateway", "job", "batch", "ripe"}
Announced == {"gateway", "job", "batch"}
Limit     == [gateway |-> 1, job |-> MaxJobs, batch |-> MaxBatches, ripe |-> 1]

VARIABLES
    work,      \* rows of the database that wait, by kind
    prefer,    \* _prefer_data_job
    event,     \* _worker_wake_event: the number of the start that made it, or None
    set,       \* the events that are set
    loop,      \* where the task of the last start is
    pass,      \* the thread the task awaits, or None
    at,        \* per thread: where it is in process_next_tally_request
    took,      \* per thread: the work it has taken
    lock,      \* TALLY_REQUEST_LOCK
    telling,   \* per request thread: None, Posted, or the event it is setting
    starts, checks, failures

vars == <<work, prefer, event, set, loop, pass, at, took, lock, telling,
          starts, checks, failures>>

threadVars == <<at, took, lock>>
counters   == <<starts, checks, failures>>

Posted   == 0       \* a request thread has committed and not read the event yet
Scanning == {"gateway", "jobs", "batches", "last_batches", "last_jobs"}
Over     == {"found", "nothing", "failed"}
Places   == {"idle", "taken", "asking"} \cup Scanning \cup Over

Init ==
    /\ work     = [k \in Kinds |-> 0]
    /\ prefer   = TRUE
    /\ event    = None
    /\ set      = {}
    /\ loop     = "stopped"
    /\ pass     = None
    /\ at       = [t \in Threads |-> "idle"]
    /\ took     = [t \in Threads |-> None]
    /\ lock     = None
    /\ telling  = [r \in Requesters |-> None]
    /\ starts   = 0
    /\ checks   = 0
    /\ failures = 0

-----------------------------------------------------------------------------
(* Request threads: queue_tally_gateway_check, queue_tally_data_job and    *)
(* queue_batch_for_sync commit their row and then call                     *)
(* notify_retry_worker; so do they for a request that is there already.    *)

Room(k) == work[k] < Limit[k]

Post(r, k) ==
    /\ telling[r] = None
    /\ Room(k)
    /\ k = "gateway" => checks < MaxChecks
    /\ checks'  = IF k = "gateway" THEN checks + 1 ELSE checks
    /\ work'    = [work EXCEPT ![k] = @ + 1]
    /\ telling' = [telling EXCEPT ![r] = Posted]
    /\ UNCHANGED <<prefer, event, set, loop, pass, threadVars, starts, failures>>

Repeat(r) ==
    /\ telling[r] = None
    /\ telling' = [telling EXCEPT ![r] = Posted]
    /\ UNCHANGED <<work, prefer, event, set, loop, pass, threadVars, counters>>

(* notify_retry_worker reads the event, which a restart may replace, and   *)
(* has the event loop set it.                                              *)
ReadEvent(r) ==
    /\ telling[r] = Posted
    /\ telling' = [telling EXCEPT ![r] = event]
    /\ UNCHANGED <<work, prefer, event, set, loop, pass, threadVars, counters>>

SetEvent(r) ==
    /\ telling[r] \in Nat \ {Posted}
    /\ set'     = set \cup {telling[r]}
    /\ telling' = [telling EXCEPT ![r] = None]
    /\ UNCHANGED <<work, prefer, event, loop, pass, threadVars, counters>>

(* A cooldown or a lease ends; nobody tells the worker.                    *)
Ripen ==
    /\ Room("ripe")
    /\ work' = [work EXCEPT !["ripe"] = @ + 1]
    /\ UNCHANGED <<prefer, event, set, loop, pass, threadVars, telling, counters>>

-----------------------------------------------------------------------------
(* process_next_tally_request, in a thread.                                *)

GoTo(t, place) ==
    /\ at' = [at EXCEPT ![t] = place]
    /\ UNCHANGED <<work, took, prefer, lock>>

Take(t, k) ==
    /\ work[k] > 0
    /\ work' = [work EXCEPT ![k] = @ - 1]
    /\ at'   = [at EXCEPT ![t] = "taken"]
    /\ took' = [took EXCEPT ![t] = <<at[t], k>>]
    /\ UNCHANGED <<prefer, lock>>

(* process_pending_gateway_check; then the order of the other two.         *)
Gateway(t) ==
    /\ at[t] = "gateway"
    /\ \/ Take(t, "gateway")
       \/ work["gateway"] = 0 /\ GoTo(t, IF prefer THEN "jobs" ELSE "batches")

(* process_pending_tally_data_job                                          *)
Jobs(t) ==
    /\ at[t] \in {"jobs", "last_jobs"}
    /\ \/ Take(t, "job")
       \/ work["job"] = 0 /\ GoTo(t, IF at[t] = "jobs" THEN "last_batches" ELSE "nothing")

(* retry_pending_batches(1): those that were never retried come first.     *)
BatchQueue(t) ==
    /\ at[t] \in {"batches", "last_batches"}
    /\ \/ Take(t, "batch")
       \/ work["batch"] = 0 /\ Take(t, "ripe")
       \/ /\ work["batch"] = 0 /\ work["ripe"] = 0
          /\ GoTo(t, IF at[t] = "batches" THEN "last_jobs" ELSE "nothing")

(* Every request to Tally is made under TALLY_REQUEST_LOCK.                *)
AskUnlocked(t) ==          \* variant: the loop alone keeps requests apart
    /\ at[t] = "taken"
    /\ lock' = t
    /\ at'   = [at EXCEPT ![t] = "asking"]
    /\ UNCHANGED <<work, took, prefer>>
Ask(t) ==
    /\ at[t] = "taken" /\ lock = None
    /\ lock' = t
    /\ at'   = [at EXCEPT ![t] = "asking"]
    /\ UNCHANGED <<work, took, prefer>>

(* A batch is followed by a data job, a data job by a batch.               *)
JobsWait(t) ==             \* variant: _prefer_data_job is never set again
    IF took[t][2] = "job" THEN FALSE ELSE prefer
BatchesWait(t) ==          \* variant: nor is it ever cleared
    IF took[t][1] = "batches" THEN TRUE ELSE prefer
Preferred(t) ==
    IF took[t][2] = "job" THEN FALSE
    ELSE IF took[t][1] = "batches" THEN TRUE
    ELSE prefer

Answer(t) ==
    /\ at[t] = "asking"
    /\ lock'   = None
    /\ prefer' = Preferred(t)
    /\ took'   = [took EXCEPT ![t] = None]
    /\ at'     = [at EXCEPT ![t] = "found"]
    /\ UNCHANGED work

(* An exception; what was taken stays taken until its lease ends.          *)
Fail(t) ==
    /\ at[t] \in Scanning \cup {"taken", "asking"}
    /\ failures < MaxFailures /\ failures' = failures + 1
    /\ lock' = IF lock = t THEN None ELSE lock
    /\ took' = [took EXCEPT ![t] = None]
    /\ at'   = [at EXCEPT ![t] = "failed"]
    /\ UNCHANGED <<work, prefer, event, set, loop, pass, telling, starts, checks>>

(* The thread of a task that was cancelled runs to its end.                *)
Leftover(t) ==
    /\ t # pass /\ at[t] \in Over
    /\ GoTo(t, "idle")
    /\ UNCHANGED <<event, set, loop, pass, telling, counters>>

ThreadStep(t) ==
    /\ Gateway(t) \/ Jobs(t) \/ BatchQueue(t) \/ Ask(t) \/ Answer(t)
    /\ UNCHANGED <<event, set, loop, pass, telling, counters>>

-----------------------------------------------------------------------------
(* retry_worker_loop.  The pauses between requests only take time.         *)

BeginPass(t) ==
    /\ loop \in {"first_pass", "second_pass"} /\ pass = None
    /\ at[t] = "idle"
    /\ pass' = t
    /\ at'   = [at EXCEPT ![t] = "gateway"]
    /\ UNCHANGED <<work, prefer, event, set, loop, took, lock, telling, counters>>

ClearLate ==               \* variant: the event is cleared before the wait
    set' = IF loop = "second_pass" THEN set \ {event} ELSE set
ClearEvent == set' = IF loop = "first_pass" THEN set \ {event} ELSE set

(* The event is cleared before the second pass; after that the task waits. *)
EndPass(t) ==
    /\ t = pass /\ at[t] \in Over
    /\ pass' = None
    /\ at'   = [at EXCEPT ![t] = "idle"]
    /\ IF at[t] = "nothing"
       THEN /\ ClearEvent
            /\ loop' = IF loop = "first_pass" THEN "second_pass" ELSE "waiting"
       ELSE loop' = "first_pass" /\ UNCHANGED set
    /\ UNCHANGED <<work, prefer, event, took, lock, telling, counters>>

Wake ==
    /\ loop = "waiting" /\ event \in set
    /\ loop' = "first_pass"
    /\ UNCHANGED <<work, prefer, event, set, pass, threadVars, telling, counters>>

IntervalEnds ==
    /\ loop = "waiting" /\ event \notin set
    /\ loop' = "first_pass"
    /\ UNCHANGED <<work, prefer, event, set, pass, threadVars, telling, counters>>

(* stop_retry_worker cancels the task; a thread it awaited runs on.        *)
Stop ==
    /\ loop # "stopped"
    /\ loop'  = "stopped"
    /\ event' = None
    /\ pass'  = None
    /\ UNCHANGED <<work, prefer, set, threadVars, telling, counters>>

Start ==
    /\ loop = "stopped" /\ starts < MaxStarts
    /\ starts' = starts + 1
    /\ event'  = starts + 1
    /\ loop'   = "first_pass"
    /\ UNCHANGED <<work, prefer, set, pass, threadVars, telling, checks, failures>>

LoopStep == (\E t \in Threads : BeginPass(t) \/ EndPass(t)) \/ Wake \/ IntervalEnds

-----------------------------------------------------------------------------
RequestNext ==
    \E r \in Requesters :
        \/ \E k \in Announced : Post(r, k)
        \/ Repeat(r) \/ ReadEvent(r) \/ SetEvent(r)

ThreadNext == \E t \in Threads : ThreadStep(t) \/ Fail(t) \/ Leftover(t)

Next == RequestNext \/ Ripen \/ ThreadNext \/ LoopStep \/ Stop \/ Start

Spec == Init /\ [][Next]_vars

(* Threads run, Tally answers or the request times out, the interval ends, *)
(* and a worker that was stopped is started again.                         *)
Fairness ==
    /\ \A t \in Threads : WF_vars(ThreadStep(t)) /\ WF_vars(Leftover(t))
    /\ WF_vars(LoopStep)
    /\ WF_vars(Start)
    /\ \A r \in Requesters : WF_vars(ReadEvent(r)) /\ WF_vars(SetEvent(r))

FairSpec == Spec /\ Fairness

-----------------------------------------------------------------------------
(* Properties.                                                             *)

TypeOK ==
    /\ work \in [Kinds -> Nat] /\ \A k \in Kinds : work[k] <= Limit[k]
    /\ prefer \in BOOLEAN
    /\ event \in 1..MaxStarts \cup {None} /\ set \subseteq 1..MaxStarts
    /\ loop \in {"stopped", "first_pass", "second_pass", "waiting"}
    /\ pass \in Threads \cup {None}
    /\ at \in [Threads -> Places]
    /\ took \in [Threads -> (Scanning \X Kinds) \cup {None}]
    /\ lock \in Threads \cup {None}
    /\ telling \in [Requesters -> {None, Posted} \cup 1..MaxStarts]
    /\ starts \in 0..MaxStarts /\ checks \in 0..MaxChecks /\ failures \in 0..MaxFailures

(* Tally never receives two requests of this process at once, whatever     *)
(* thread a stopped worker has left running.                               *)
OneRequest == \A t, u \in Threads : at[t] = "asking" /\ at[u] = "asking" => t = u

(* Somebody is about to set the event the worker waits for.                *)
WakeComing ==
    \/ event \in set
    \/ \E r \in Requesters : telling[r] = Posted \/ telling[r] = event

(* A wake-up is not lost: the worker never waits for its interval while a  *)
(* request somebody made is there and nobody is about to wake it.          *)
NoLostWakeup ==
    loop = "waiting" /\ (\E k \in Announced : work[k] > 0) => WakeComing

(* Neither queue starves the other: a full queue gets shorter, however     *)
(* fast the other one is filled.                                           *)
Running      == loop # "stopped"
JobsMove     == (<>[]Running) => (work["job"] = MaxJobs ~> work["job"] < MaxJobs)
BatchesMove  == (<>[]Running) => (work["batch"] = MaxBatches ~> work["batch"] < MaxBatches)
QueuesMove   == JobsMove /\ BatchesMove
=============================================================================
