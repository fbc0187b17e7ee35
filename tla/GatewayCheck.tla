---------------------------- MODULE GatewayCheck ----------------------------
(***************************************************************************)
(* The test of the Tally gateway: one row of settings that holds the last  *)
(* check somebody asked for, claimed and answered by the request worker    *)
(* (services/sync_worker.py:52-196).  Clicks and claims compare and set    *)
(* the whole value of the row; the answer is written over what is there.   *)
(*                                                                         *)
(* A restore that fails starts a second worker while the thread of the     *)
(* first may still wait for Tally.                                         *)
(***************************************************************************)
EXTENDS Naturals

CONSTANTS
    Clerks,      \* request threads
    Workers,     \* threads of request workers
    First,       \* the one that runs from the start
    MaxChecks,   \* BOUND: checks asked for, a number
    MaxCrashes,  \* BOUND: deaths of a worker thread
    None

Ids    == 1..MaxChecks
Status == {"idle", "queued", "running", "done"}
Row    == [id : 0..MaxChecks, status : Status, aged : BOOLEAN, answer : 0..MaxChecks]

VARIABLES
    row,      \* the value of _tally_gateway_check_state
    last,     \* the greatest identifier in use
    click,    \* per thread: the value a click has loaded
    work,     \* per worker: what it is doing, on which check and value
    alive,    \* workers that have been started
    crashes

vars == <<row, last, click, work, alive, crashes>>

Nothing == [at |-> "look", id |-> 0, seen |-> None]

Init ==
    /\ row = [id |-> 0, status |-> "idle", aged |-> FALSE, answer |-> 0]
    /\ last = 0
    /\ click = [t \in Clerks |-> None]
    /\ work = [w \in Workers |-> Nothing]
    /\ alive = {First}
    /\ crashes = 0

Pending == row.status \in {"queued", "running"}

-----------------------------------------------------------------------------
(* queue_tally_gateway_check: a click while a check is pending joins it.   *)
Click(t) ==
    /\ click[t] = None /\ ~Pending
    /\ click' = [click EXCEPT ![t] = row]
    /\ UNCHANGED <<row, last, work, alive, crashes>>

Queue(t) ==
    /\ click[t] # None /\ last < MaxChecks
    /\ IF row = click[t]
       THEN /\ row' = [id |-> last + 1, status |-> "queued", aged |-> FALSE, answer |-> 0]
            /\ last' = last + 1
            /\ click' = [click EXCEPT ![t] = None]
       ELSE /\ click' = [click EXCEPT ![t] = IF Pending THEN None ELSE row]
            /\ UNCHANGED <<row, last>>
    /\ UNCHANGED <<work, alive, crashes>>

(* test_gateway_status: the page polls.                                    *)
Poll == UNCHANGED vars

-----------------------------------------------------------------------------
(* _claim_gateway_check: what is queued, or runs beyond its lease.         *)
Unfinished  == row.status # "done"            \* variant: also before any click
NewOnly     == row.status = "queued"          \* variant: no lease
Claimable   == row.status = "queued" \/ (row.status = "running" /\ row.aged)

Look(w) ==
    /\ w \in alive /\ work[w].at = "look" /\ Claimable
    /\ work' = [work EXCEPT ![w] = [at |-> "claim", id |-> row.id, seen |-> row]]
    /\ UNCHANGED <<row, last, click, alive, crashes>>

Claim(w) ==
    /\ work[w].at = "claim"
    /\ IF row = work[w].seen
       THEN /\ row' = [row EXCEPT !.status = "running", !.aged = FALSE]
            /\ work' = [work EXCEPT ![w].at = "ask", ![w].seen = None]
       ELSE /\ work' = [work EXCEPT ![w] = Nothing]
            /\ UNCHANGED row
    /\ UNCHANGED <<last, click, alive, crashes>>

(* Tally answers, or the request fails; then _finish_gateway_check loads   *)
(* the row and writes the answer if it is still that of its request.       *)
AnyCheck(w) == TRUE                           \* variant: no look at request_id
SameCheck(w) == row.id = work[w].id

Reload(w) ==
    /\ work[w].at = "ask"
    /\ work' = [work EXCEPT ![w] = IF SameCheck(w) THEN [@ EXCEPT !.at = "finish", !.seen = row]
                                   ELSE Nothing]
    /\ UNCHANGED <<row, last, click, alive, crashes>>

Finish(w) ==
    /\ work[w].at = "finish"
    /\ row' = [work[w].seen EXCEPT !.status = "done", !.answer = work[w].id]
    /\ work' = [work EXCEPT ![w] = Nothing]
    /\ UNCHANGED <<last, click, alive, crashes>>

-----------------------------------------------------------------------------
Crash(w) ==
    /\ w \in alive /\ work[w] # Nothing
    /\ crashes < MaxCrashes /\ crashes' = crashes + 1
    /\ work' = [work EXCEPT ![w] = Nothing]
    /\ UNCHANGED <<row, last, click, alive>>

Restart(w) ==
    /\ w \notin alive /\ alive' = alive \cup {w}
    /\ UNCHANGED <<row, last, click, work, crashes>>

LeaseEnds ==
    /\ row.status = "running" /\ ~row.aged
    /\ row' = [row EXCEPT !.aged = TRUE]
    /\ UNCHANGED <<last, click, work, alive, crashes>>

WorkerStep(w) == Look(w) \/ Claim(w) \/ Reload(w) \/ Finish(w)

Next ==
    \/ \E t \in Clerks : Click(t) \/ Queue(t)
    \/ \E w \in Workers : WorkerStep(w) \/ Crash(w) \/ Restart(w)
    \/ LeaseEnds \/ Poll

Spec == Init /\ [][Next]_vars

(* The loop of a worker polls for ever, its requests end (the HTTP         *)
(* timeout), and leases end.                                               *)
Fairness == WF_vars(LeaseEnds) /\ \A w \in Workers : WF_vars(WorkerStep(w))
FairSpec == Spec /\ Fairness

-----------------------------------------------------------------------------
(* Properties.                                                             *)

Job == [at : {"look", "claim", "ask", "finish"}, id : 0..MaxChecks, seen : Row \cup {None}]

(* Types, and a worker is only ever busy with a check somebody asked for.  *)
TypeOK ==
    /\ row \in Row /\ last \in 0..MaxChecks /\ row.id <= last
    /\ click \in [Clerks -> Row \cup {None}]
    /\ work \in [Workers -> Job] /\ \A w \in Workers : work[w].at # "look" => work[w].id \in 1..last
    /\ alive \subseteq Workers /\ crashes \in 0..MaxCrashes
    /\ \A w \in Workers : work[w].at \in {"claim", "finish"} => work[w].seen # None

(* While only one worker has run, every check that was queued is answered: *)
(* not dropped with a thread that died, and not overwritten.  And the page *)
(* always shows for a check its own answer, never the one to an earlier    *)
(* click, however late a thread whose lease had ended comes back.          *)
AnswerIsOwn == row.status = "done" => row.answer = row.id

EveryCheckAnswered ==
    /\ []AnswerIsOwn
    /\ \A i \in Ids : (row.id = i /\ row.status = "queued")
                         ~> (alive # {First} \/ (row.id = i /\ row.answer = i))
=============================================================================
