------------------------------ MODULE Submits ------------------------------
(***************************************************************************)
(* Clerks who fill and submit batches at the same time (BatchStock), and   *)
(* the worker that their requests wake (RetryWorker), with the thread that *)
(* a stopped worker leaves running.  RetryWorker only counts batches, so   *)
(* the two share no state and `side` chooses the one that moves.           *)
(***************************************************************************)
EXTENDS BatchStock

CONSTANTS
    Requesters, Threads, MaxJobs, MaxChecks, MaxStarts, MaxFailures,   \* see RetryWorker
    MaxQueued                                                          \* its MaxBatches

ASSUME WorkerAssumption ==
    /\ {MaxJobs, MaxQueued, MaxChecks, MaxStarts, MaxFailures} \subseteq Nat
    /\ None \notin Threads \cup Nat

VARIABLES work, prefer, event, set, loop, pass, at, took, lock, telling,
          starts, checks, failures
worker == <<work, prefer, event, set, loop, pass, at, took, lock, telling,
            starts, checks, failures>>
W == INSTANCE RetryWorker WITH MaxBatches <- MaxQueued

VARIABLE side
everything == <<vars, worker, side>>

SubmitsInit == Init /\ W!Init /\ side \in {"clerks", "worker"}
SubmitsNext ==
    /\ \/ side = "clerks" /\ Next /\ UNCHANGED worker
       \/ side = "worker" /\ W!Next /\ UNCHANGED vars
    /\ UNCHANGED side
SubmitsSpec == SubmitsInit /\ [][SubmitsNext]_everything

(* RetryWorker: one request to Tally at a time.                            *)
OneRequest == W!OneRequest
(* RetryWorker: no wake-up is lost.                                        *)
NoLostWakeup == W!NoLostWakeup
=============================================================================
