----------------------------- MODULE TallySync -----------------------------
(***************************************************************************)
(* The life of a submitted batch on its way into Tally: the "Retry" clicks *)
(* of request threads, the worker thread that claims a batch, posts its    *)
(* voucher and records the answer, and Tally itself, which is reached over *)
(* HTTP and may answer, refuse, garble or lose a request.                  *)
(*                                                                         *)
(* Source: services/tally.py (sync_batch and what it calls) and            *)
(* services/sync_worker.py (queue_batch_for_sync, retry_pending_batches,   *)
(* start/stop of the worker).  A row of table `batches` is the value of    *)
(* status, frozen, rid, started and cooldown at a batch; the rows of       *)
(* `sync_attempts` that record a request are attempts[b].                  *)
(***************************************************************************)
EXTENDS Naturals, Sequences, FiniteSets

CONSTANTS
    Batches,      \* batches, identified by their unique batch_number
    Supported,    \* those whose type is in TALLY_XML_SUPPORTED_BATCH_TYPES
    Companies,    \* values of the setting company_name
    Ledgers,      \* values of all the other settings a voucher is built from
    BadLedgers,   \* those with which build_voucher_xml raises
    Users,        \* request threads that may run the "Retry" handler
    Workers,      \* threads that may run retry_pending_batches
    Faults,       \* which faults may happen, a subset of FaultKinds
    MaxFaults,    \* BOUND: how many of them in one behaviour
    None          \* SQL NULL, a free lock, an idle thread

FaultKinds == {"crash", "exception", "timeout", "reject", "unreadable", "restart"}

ASSUME SupportedAssumption == Supported \subseteq Batches
ASSUME BadLedgersAssumption == BadLedgers \subseteq Ledgers
ASSUME FaultsAssumption == Faults \subseteq FaultKinds /\ MaxFaults \in Nat

(* tally_remote_id is a UUID of the company name and the batch number, so  *)
(* a remote id is the pair of them; a payload (the XML) names the company  *)
(* it is posted to, its REMOTEID and the settings it was built from.       *)
Rids     == Companies \X Batches
Payloads == [company : Companies, rid : Rids, ledgers : Ledgers]
Settings == [company : Companies, ledgers : Ledgers, enabled : BOOLEAN]

ASSUME NoneAssumption == None \notin Payloads \cup Rids \cup Workers \cup Batches

Statuses == {"DRAFT", "SUBMITTED", "PENDING_SYNC", "SYNCING", "FAILED", "SYNCED"}
Outcomes == {"PENDING_SYNC", "FAILED", "SYNCED"}

VARIABLES
    status,     \* batches.status
    frozen,     \* batches.sync_request_xml
    rid,        \* batches.sync_remote_id
    started,    \* batches.sync_started_at: 0 for NULL, else the number of the claim
    aged,       \* batches whose sync_started_at is older than SYNC_LEASE_MINUTES
    cooldown,   \* batches.last_retry_at: NULL, within or beyond the retry interval
    attempts,   \* sync_attempts of each batch that record a request, oldest first
    settings,   \* table `settings`
    click,      \* per request thread: the batch object its session has loaded
    wpc,        \* per worker: where it is in retry_pending_batches / sync_batch
    job,        \* per worker: the batch object its session has loaded, and `xml`
    active,     \* the worker whose retry_worker_loop task is running
    lock,       \* TALLY_REQUEST_LOCK
    books,      \* vouchers in Tally's company files
    wire,       \* the request Tally has not answered yet
    faults      \* faults so far

dbVars     == <<status, frozen, rid, started, aged, cooldown, attempts>>
workerVars == <<wpc, job, active, lock>>
tallyVars  == <<books, wire>>
vars       == <<dbVars, settings, click, workerVars, tallyVars, faults>>

Seen == [batch : Batches, status : Statuses, stamped : BOOLEAN]
Job  == [batch : Batches, status : Statuses, frozen : Payloads \cup {None},
         rid : Rids \cup {None}, started : Nat, aged : BOOLEAN,
         xml : Payloads \cup {None}]
Row  == [xml : Payloads, status : {"SYNCING"} \cup Outcomes]

(* What a query of the batch loads into a worker's session.                *)
Load(b) == [batch |-> b, status |-> status[b], frozen |-> frozen[b],
            rid |-> rid[b], started |-> started[b], aged |-> b \in aged,
            xml |-> None]

Init ==
    /\ status   = [b \in Batches |-> "DRAFT"]
    /\ frozen   = [b \in Batches |-> None]
    /\ rid      = [b \in Batches |-> None]
    /\ started  = [b \in Batches |-> 0]
    /\ aged     = {}
    /\ cooldown = [b \in Batches |-> "none"]
    /\ attempts = [b \in Batches |-> <<>>]
    /\ settings \in Settings
    /\ click    = [u \in Users |-> None]
    /\ wpc      = [w \in Workers |-> "idle"]
    /\ job      = [w \in Workers |-> None]
    /\ active   \in Workers
    /\ lock     = None
    /\ books    = {}
    /\ wire     = None
    /\ faults   = 0

Fault(kind) == kind \in Faults /\ faults < MaxFaults /\ faults' = faults + 1

-----------------------------------------------------------------------------
(* Request threads.                                                        *)

(* The commit of submit_batch; the call of queue_batch_for_sync that       *)
(* follows it in the same request is an OpenRetry of the same batch.       *)
Submit(b) ==
    /\ status[b] = "DRAFT"
    /\ status' = [status EXCEPT ![b] = "SUBMITTED"]
    /\ UNCHANGED <<frozen, rid, started, aged, cooldown, attempts, settings,
                   click, workerVars, tallyVars, faults>>

(* retry_batch: the request loads the batch and looks at its status.       *)
OpenRetry(u, b) ==
    /\ click[u] = None
    /\ status[b] \in {"SUBMITTED", "PENDING_SYNC", "FAILED"}
    /\ click' = [click EXCEPT ![u] = [batch |-> b, status |-> status[b],
                                      stamped |-> cooldown[b] # "none"]]
    /\ UNCHANGED <<dbVars, settings, workerVars, tallyVars, faults>>

(* queue_batch_for_sync decides on what the request loaded; its UPDATEs    *)
(* apply only to a row that still has that status.                         *)
BlindUpdate(u) == TRUE     \* variant: an UPDATE by primary key alone
StillAsSeen(u) == status[click[u].batch] = click[u].status

Requeue(u) ==
    /\ click[u] # None
    /\ LET b == click[u].batch
           cas == StillAsSeen(u)
       IN  \/ /\ cas /\ click[u].status = "FAILED"
              /\ status'   = [status EXCEPT ![b] = "PENDING_SYNC"]
              /\ frozen'   = [frozen EXCEPT ![b] = None]
              /\ started'  = [started EXCEPT ![b] = 0]
              /\ aged'     = aged \ {b}
              /\ cooldown' = [cooldown EXCEPT ![b] = "none"]
           \/ /\ cas /\ click[u].status = "PENDING_SYNC" /\ click[u].stamped
              /\ cooldown' = [cooldown EXCEPT ![b] = "none"]
              /\ UNCHANGED <<status, frozen, started, aged>>
           \/ /\ \/ ~cas
                 \/ click[u].status = "SUBMITTED"
                 \/ click[u].status = "PENDING_SYNC" /\ ~click[u].stamped
              /\ UNCHANGED <<status, frozen, started, aged, cooldown>>
    /\ click' = [click EXCEPT ![u] = None]
    /\ UNCHANGED <<rid, attempts, settings, workerVars, tallyVars, faults>>

(* An administrator saves the settings, or activates another company       *)
(* (which saves that company's settings with the sync switched off).       *)
SaveSettings(s) ==
    /\ s # settings
    /\ settings' = s
    /\ UNCHANGED <<dbVars, click, workerVars, tallyVars, faults>>

-----------------------------------------------------------------------------
(* The worker.                                                             *)

(* The rows retry_pending_batches selects.                                 *)
DueWithoutLease(b) ==      \* variant: a stale SYNCING batch is not taken up
    /\ b \in Supported
    /\ \/ status[b] = "SUBMITTED"
       \/ status[b] = "PENDING_SYNC" /\ cooldown[b] # "cooling"
Due(b) ==
    /\ b \in Supported
    /\ \/ status[b] = "SUBMITTED"
       \/ status[b] = "PENDING_SYNC" /\ cooldown[b] # "cooling"
       \/ status[b] = "SYNCING" /\ b \in aged

(* process_next_tally_request asks for one batch; never-retried ones come  *)
(* first.  Which one among equals is left open: age decides it.            *)
Select(w, b) ==
    /\ w = active /\ wpc[w] = "idle"
    /\ settings.enabled
    /\ Due(b)
    /\ cooldown[b] = "none" \/ \A c \in Batches : Due(c) => cooldown[c] # "none"
    /\ wpc' = [wpc EXCEPT ![w] = "selected"]
    /\ job' = [job EXCEPT ![w] = Load(b)]
    /\ UNCHANGED <<dbVars, settings, click, active, lock, tallyVars, faults>>

(* sync_batch took the lock and finds the batch already done.              *)
SkipSynced(w) ==
    /\ wpc[w] = "selected" /\ lock = None
    /\ status[job[w].batch] = "SYNCED"
    /\ wpc' = [wpc EXCEPT ![w] = "idle"]
    /\ job' = [job EXCEPT ![w] = None]
    /\ UNCHANGED <<dbVars, settings, click, active, lock, tallyVars, faults>>

(* sync_batch took the lock: the batch object is refreshed only when its   *)
(* status is no longer the one that was loaded.                            *)
LockUnchecked(w) ==        \* variant: the status is not looked at under the lock
    /\ wpc[w] = "selected" /\ lock = None
    /\ lock' = w
    /\ wpc'  = [wpc EXCEPT ![w] = "locked"]
    /\ UNCHANGED <<dbVars, settings, click, job, active, tallyVars, faults>>
Lock(w) ==
    /\ wpc[w] = "selected" /\ lock = None
    /\ status[job[w].batch] # "SYNCED"
    /\ lock' = w
    /\ wpc'  = [wpc EXCEPT ![w] = "locked"]
    /\ job'  = [job EXCEPT ![w] = IF status[@.batch] = @.status THEN @ ELSE Load(@.batch)]
    /\ UNCHANGED <<dbVars, settings, click, active, tallyVars, faults>>

KeepLock(w) ==             \* variant: an early return that forgets the lock
    /\ wpc'  = [wpc EXCEPT ![w] = "idle"]
    /\ job'  = [job EXCEPT ![w] = None]
    /\ UNCHANGED <<active, lock>>
Release(w) ==
    /\ lock' = None
    /\ wpc'  = [wpc EXCEPT ![w] = "idle"]
    /\ job'  = [job EXCEPT ![w] = None]
    /\ UNCHANGED active

LeaseIsLive(j) == j.status = "SYNCING" /\ j.started # 0 /\ ~j.aged

(* Another worker's claim is still within its lease.                       *)
SkipLeased(w) ==
    /\ wpc[w] = "locked" /\ LeaseIsLive(job[w])
    /\ Release(w)
    /\ UNCHANGED <<dbVars, settings, click, tallyVars, faults>>

CompanyRemoteId(j) ==      \* variant: the batch number is not part of the id
    <<settings.company, CHOOSE b \in Batches : TRUE>>
TallyRemoteId(j) == IF j.rid # None THEN j.rid ELSE <<settings.company, j.batch>>

BuildVoucherXml(j) ==
    [company |-> settings.company, rid |-> TallyRemoteId(j), ledgers |-> settings.ledgers]

(* A rejected batch is rebuilt; any other keeps the payload it has.        *)
RebuildAlways(j) == TRUE   \* variant: every attempt is built from the settings
MustBuild(j) == j.status = "FAILED" \/ j.frozen = None

Prepare(w) ==
    /\ wpc[w] = "locked" /\ ~LeaseIsLive(job[w])
    /\ MustBuild(job[w]) => settings.ledgers \notin BadLedgers
    /\ wpc' = [wpc EXCEPT ![w] = "built"]
    /\ job' = [job EXCEPT ![w].xml = IF MustBuild(job[w]) THEN BuildVoucherXml(job[w])
                                                          ELSE job[w].frozen]
    /\ UNCHANGED <<dbVars, settings, click, active, lock, tallyVars, faults>>

(* The remote id of the batch object: its own, or the one just computed.   *)
RidOf(j) == IF j.rid # None THEN j.rid ELSE j.xml.rid

(* A flush writes the columns whose value differs from what was loaded, to *)
(* the row as it is by now: it has no predicate on the row's status.       *)
Flushed(row, loaded, new) == IF new = loaded THEN row ELSE new

PutBack(w, newRid, newFrozen) ==
    LET b == job[w].batch
    IN  /\ status'   = [status EXCEPT ![b] = Flushed(@, job[w].status, "PENDING_SYNC")]
        /\ rid'      = [rid EXCEPT ![b] = Flushed(@, job[w].rid, newRid)]
        /\ frozen'   = [frozen EXCEPT ![b] = Flushed(@, job[w].frozen, newFrozen)]
        /\ cooldown' = [cooldown EXCEPT ![b] = "cooling"]
        /\ Release(w)
        /\ UNCHANGED <<started, aged, attempts, settings, click, tallyVars, faults>>

(* build_voucher_xml raised: the batch waits for its settings.             *)
BuildFails(w) ==
    /\ wpc[w] = "locked" /\ ~LeaseIsLive(job[w])
    /\ MustBuild(job[w]) /\ settings.ledgers \in BadLedgers
    /\ PutBack(w, TallyRemoteId(job[w]), job[w].frozen)

(* The sync was switched off after the batch was selected.                 *)
SyncDisabled(w) ==
    /\ wpc[w] = "built" /\ ~settings.enabled
    /\ PutBack(w, RidOf(job[w]), job[w].xml)

(* The UPDATE that claims the batch finds the row as it was loaded.        *)
StillClaimable(j) ==
    /\ status[j.batch] = j.status
    /\ j.status = "SYNCING" => started[j.batch] = j.started

Claim(w) ==
    LET b == job[w].batch
        n == Len(attempts[b]) + 1
    IN  /\ wpc[w] = "built" /\ settings.enabled
        /\ StillClaimable(job[w])
        /\ status'   = [status EXCEPT ![b] = "SYNCING"]
        /\ rid'      = [rid EXCEPT ![b] = RidOf(job[w])]
        /\ frozen'   = [frozen EXCEPT ![b] = job[w].xml]
        /\ started'  = [started EXCEPT ![b] = n]
        /\ aged'     = aged \ {b}
        /\ cooldown' = [cooldown EXCEPT ![b] =
                          IF job[w].status = "SUBMITTED" THEN "none" ELSE "cooling"]
        /\ attempts' = [attempts EXCEPT ![b] =
                          Append(@, [xml |-> job[w].xml, status |-> "SYNCING"])]
        /\ wpc' = [wpc EXCEPT ![w] = "claimed"]
        /\ job' = [job EXCEPT ![w] =
                     [batch |-> b, status |-> "SYNCING", frozen |-> job[w].xml,
                      rid |-> RidOf(job[w]), started |-> n, aged |-> FALSE,
                      xml |-> job[w].xml]]
        /\ UNCHANGED <<settings, click, active, lock, tallyVars, faults>>

ClaimLost(w) ==
    /\ wpc[w] = "built" /\ settings.enabled
    /\ ~StillClaimable(job[w])
    /\ Release(w)
    /\ UNCHANGED <<dbVars, settings, click, tallyVars, faults>>

(* post_to_tally: Tally answers requests in the order they reach it, so a  *)
(* request whose sender gave up is settled before the next one is heard.   *)
Send(w) ==
    /\ wpc[w] = "claimed" /\ wire = None
    /\ wire' = job[w].xml
    /\ wpc'  = [wpc EXCEPT ![w] = "posting"]
    /\ UNCHANGED <<dbVars, settings, click, job, active, lock, books, faults>>

(* What the answer makes of the batch object, before it is committed.      *)
Answered(w, outcome) ==
    /\ wpc' = [wpc EXCEPT ![w] = "answered"]
    /\ job' = [job EXCEPT ![w].status = outcome]
    /\ UNCHANGED <<dbVars, settings, click, active, lock>>

(* The attempt the claim added gets the outcome.                           *)
RecordedFirst(b, j) == [attempts[b] EXCEPT ![1].status = j.status]  \* variant
Recorded(b, j)      == [attempts[b] EXCEPT ![j.started].status = j.status]

(* The last commit of _sync_batch_locked, again without a status predicate.*)
Commit(w) ==
    LET b == job[w].batch
    IN  /\ wpc[w] = "answered"
        /\ status'   = [status EXCEPT ![b] = job[w].status]
        /\ started'  = [started EXCEPT ![b] = 0]
        /\ aged'     = aged \ {b}
        /\ cooldown' = [cooldown EXCEPT ![b] = IF job[w].status = "SYNCED" THEN @ ELSE "cooling"]
        /\ attempts' = [attempts EXCEPT ![b] = Recorded(b, job[w])]
        /\ Release(w)
        /\ UNCHANGED <<frozen, rid, settings, click, tallyVars, faults>>

-----------------------------------------------------------------------------
(* Tally.                                                                  *)

SameVoucher(p, q) == p.company = q.company /\ p.rid = q.rid

(* An import with a REMOTEID the company file has replaces that voucher.   *)
Imported(p) == {q \in books : ~SameVoucher(p, q)} \cup {p}

(* Tally is steady: what it has imported once, it alters when asked again. *)
MayRefuse(p) == \A q \in books : ~SameVoucher(p, q)

Accept(w) ==
    /\ wpc[w] = "posting"
    /\ books' = Imported(wire) /\ wire' = None
    /\ Answered(w, "SYNCED")
    /\ UNCHANGED faults

(* LINEERROR, or nothing created and nothing altered.                      *)
Reject(w) ==
    /\ wpc[w] = "posting" /\ MayRefuse(wire)
    /\ Fault("reject")
    /\ wire' = None
    /\ Answered(w, "FAILED")
    /\ UNCHANGED books

(* The answer is not XML; the import may have been done or not.            *)
Unreadable(w) ==
    /\ wpc[w] = "posting"
    /\ Fault("unreadable")
    /\ books' \in {books, Imported(wire)} /\ wire' = None
    /\ Answered(w, "FAILED")

(* URLError or OSError: no answer within the timeout, or no connection.    *)
TimeoutIsFailure(w) ==     \* variant: no answer is taken for a refusal
    wpc[w] = "posting" /\ Fault("timeout") /\ Answered(w, "FAILED") /\ UNCHANGED tallyVars
TimeoutIsSuccess(w) ==     \* variant: or for an import
    wpc[w] = "posting" /\ Fault("timeout") /\ Answered(w, "SYNCED") /\ UNCHANGED tallyVars
Timeout(w) ==
    /\ wpc[w] = "posting"
    /\ Fault("timeout")
    /\ Answered(w, "PENDING_SYNC")
    /\ UNCHANGED tallyVars

(* A request nobody waits for any more: Tally imports it late, or never.   *)
Abandoned == wire # None /\ \A w \in Workers : wpc[w] # "posting"

LateImport ==
    /\ Abandoned
    /\ books' = Imported(wire) /\ wire' = None
    /\ UNCHANGED <<dbVars, settings, click, workerVars, faults>>

LateDrop ==
    /\ Abandoned
    /\ wire' = None
    /\ UNCHANGED <<dbVars, settings, click, workerVars, books, faults>>

-----------------------------------------------------------------------------
(* Failures of the program, and time.                                      *)

(* An exception other than TallySyncError ends the pass of one worker: a   *)
(* commit that fails, a response body that breaks off.  The session is     *)
(* rolled back and the lock released.                                      *)
Exception(w) ==
    /\ wpc[w] \in {"selected", "locked", "built", "claimed", "posting", "answered"}
    /\ Fault("exception")
    /\ lock' = IF lock = w THEN None ELSE lock
    /\ wpc'  = [wpc EXCEPT ![w] = "idle"]
    /\ job'  = [job EXCEPT ![w] = None]
    /\ UNCHANGED <<dbVars, settings, click, active, tallyVars>>

(* The process dies and is started again: only the database is left.       *)
Crash ==
    /\ Fault("crash")
    /\ lock'  = None
    /\ wpc'   = [w \in Workers |-> "idle"]
    /\ job'   = [w \in Workers |-> None]
    /\ click' = [u \in Users |-> None]
    /\ UNCHANGED <<dbVars, settings, active, tallyVars>>

(* A reset or restore that failed stopped and started the worker task: a   *)
(* cancelled asyncio.to_thread leaves its thread running to the end.       *)
RestartWorker(w) ==
    /\ w # active /\ wpc[w] = "idle"
    /\ Fault("restart")
    /\ active' = w
    /\ UNCHANGED <<dbVars, settings, click, wpc, job, lock, tallyVars>>

LeaseExpires(b) ==
    /\ started[b] # 0 /\ b \notin aged
    /\ aged' = aged \cup {b}
    /\ UNCHANGED <<status, frozen, rid, started, cooldown, attempts, settings,
                   click, workerVars, tallyVars, faults>>

CooldownEnds(b) ==
    /\ cooldown[b] = "cooling"
    /\ cooldown' = [cooldown EXCEPT ![b] = "due"]
    /\ UNCHANGED <<status, frozen, rid, started, aged, attempts, settings,
                   click, workerVars, tallyVars, faults>>

-----------------------------------------------------------------------------
RequestNext ==
    \/ \E b \in Batches : Submit(b)
    \/ \E u \in Users, b \in Batches : OpenRetry(u, b)
    \/ \E u \in Users : Requeue(u)
    \/ \E s \in Settings : SaveSettings(s)

SyncStep(w) ==
    \/ SkipSynced(w) \/ Lock(w) \/ SkipLeased(w) \/ Prepare(w) \/ BuildFails(w)
    \/ SyncDisabled(w) \/ Claim(w) \/ ClaimLost(w) \/ Send(w) \/ Commit(w)

Answer(w) == Accept(w) \/ Reject(w) \/ Unreadable(w) \/ Timeout(w)

WorkerNext ==
    \E w \in Workers :
        \/ \E b \in Batches : Select(w, b)
        \/ SyncStep(w)
        \/ Answer(w)
        \/ Exception(w)
        \/ RestartWorker(w)

EnvironmentNext ==
    \/ LateImport \/ LateDrop \/ Crash
    \/ \E b \in Batches : LeaseExpires(b) \/ CooldownEnds(b)

Next == RequestNext \/ WorkerNext \/ EnvironmentNext

Spec == Init /\ [][Next]_vars

(* The worker thread runs; its loop polls for ever and takes the batch     *)
(* that waited longest, so no due batch is passed over for ever; a request *)
(* times out if it is not answered; time passes.                           *)
Fairness ==
    /\ \A w \in Workers : WF_vars(SyncStep(w)) /\ WF_vars(Answer(w))
    /\ \A b \in Batches : SF_vars(\E w \in Workers : Select(w, b))
    /\ \A b \in Batches : WF_vars(LeaseExpires(b)) /\ WF_vars(CooldownEnds(b))
    /\ WF_vars(LateImport \/ LateDrop)

FairSpec == Spec /\ Fairness

-----------------------------------------------------------------------------
(* Properties.                                                             *)

TypeOK ==
    /\ status \in [Batches -> Statuses]
    /\ frozen \in [Batches -> Payloads \cup {None}]
    /\ rid \in [Batches -> Rids \cup {None}]
    /\ started \in [Batches -> Nat]
    /\ aged \subseteq Batches
    /\ cooldown \in [Batches -> {"none", "cooling", "due"}]
    /\ attempts \in [Batches -> Seq(Row)]
    /\ settings \in Settings
    /\ click \in [Users -> Seen \cup {None}]
    /\ wpc \in [Workers -> {"idle", "selected", "locked", "built", "claimed",
                            "posting", "answered"}]
    /\ job \in [Workers -> Job \cup {None}]
    /\ active \in Workers
    /\ lock \in Workers \cup {None}
    /\ books \subseteq Payloads
    /\ wire \in Payloads \cup {None}
    /\ faults \in 0..MaxFaults

(* A worker that is not idle has a batch loaded; from Prepare on it has a  *)
(* payload, and the answer it got is an outcome.                           *)
JobOK ==
    \A w \in Workers :
        /\ wpc[w] # "idle" => job[w] \in Job
        /\ wpc[w] \in {"built", "claimed", "posting", "answered"} => job[w].xml \in Payloads
        /\ wpc[w] = "posting" => wire = job[w].xml
        /\ wpc[w] = "answered" => job[w].status \in Outcomes

(* Exactly the worker that holds the lock is past it.                      *)
LockOK ==
    \A w \in Workers :
        lock = w <=> wpc[w] \in {"locked", "built", "claimed", "posting", "answered"}

Typed == TypeOK /\ JobOK /\ LockOK

(* The vouchers of a batch in Tally, and the one that may yet arrive.      *)
Vouchers(b)   == {p \in books : p.rid[2] = b}
Reachable(b)  == Vouchers(b) \cup {p \in {wire} \ {None} : p.rid[2] = b}

(* While a worker talks to Tally about a batch, the row stays its claim:   *)
(* no stale click, second worker or expired lease changes it.              *)
ClaimIsHeld ==
    \A w \in Workers : wpc[w] \in {"claimed", "posting", "answered"} =>
        LET b == job[w].batch
        IN  /\ lock = w
            /\ status[b] = "SYNCING"
            /\ frozen[b] = job[w].xml
            /\ started[b] = job[w].started
            /\ attempts[b][started[b]] = [xml |-> frozen[b], status |-> "SYNCING"]

(* A batch shown as synced is in Tally, with the payload the row keeps.    *)
SyncedIsInTally == \A b \in Batches : status[b] = "SYNCED" => frozen[b] \in books

(* Every voucher in Tally was announced by a sync_attempts row before it   *)
(* was sent, and only a synced batch has a row that says so, its last.     *)
AttemptTrail ==
    /\ \A p \in books : \E i \in DOMAIN attempts[p.rid[2]] : attempts[p.rid[2]][i].xml = p
    /\ \A b \in Batches : \A i \in DOMAIN attempts[b] :
          attempts[b][i].status = "SYNCED" <=> status[b] = "SYNCED" /\ i = Len(attempts[b])

(* The premises under which the next three hold: Tally's answers can be    *)
(* read, and no thread of a stopped worker is left running.                *)
Reliable == Faults \cap {"unreadable", "restart"} = {}

(* Whatever Tally holds of a batch, or may still receive, is the payload   *)
(* the row keeps: a lost answer, a crash or a change of settings never     *)
(* makes the next attempt send something else.                             *)
TallyHoldsFrozen == Reliable => \A b \in Batches : Reachable(b) \subseteq {frozen[b]}

(* One batch is one voucher: never a second one under another remote id or *)
(* in another company.                                                     *)
OneVoucher == Reliable => \A b \in Batches : Cardinality(Vouchers(b)) <= 1

(* A batch shown as FAILED was refused: Tally has nothing of it.           *)
FailedIsNotInTally ==
    Reliable => \A b \in Batches : status[b] = "FAILED" => Reachable(b) = {}

(* The three together: one batch is one voucher, the one that its row keeps. *)
OneTrueVoucher == TallyHoldsFrozen /\ OneVoucher /\ FailedIsNotInTally

(* Once synced, always synced: no later step claims the batch again or     *)
(* changes its vouchers.                                                   *)
SyncedIsFinal ==
    [][\A b \in Batches : status[b] = "SYNCED" =>
          /\ status'[b] = "SYNCED"
          /\ attempts'[b] = attempts[b]
          /\ Vouchers(b)' = Vouchers(b)]_vars

(* What makes them inductive: remote ids and payloads belong to their      *)
(* batch, and a batch that is synced or about to be has no request left    *)
(* that Tally could still import over it.                                  *)
RowBelongs(b) ==
    /\ frozen[b] # None => frozen[b].rid[2] = b
    /\ rid[b] # None => rid[b][2] = b
JobBelongs(j) ==
    /\ j.frozen # None => j.frozen.rid[2] = j.batch
    /\ j.rid # None => j.rid[2] = j.batch
    /\ j.xml # None => j.xml.rid[2] = j.batch
Belongs ==
    /\ \A b \in Batches : RowBelongs(b)
    /\ \A w \in Workers : wpc[w] # "idle" => JobBelongs(job[w])

NothingLeftToImport ==
    /\ wire # None => status[wire.rid[2]] # "SYNCED"
    /\ \A w \in Workers :
          /\ wpc[w] \in {"selected", "locked", "built"} => job[w].status # "SYNCED"
          /\ wpc[w] \in {"locked", "built"} => status[job[w].batch] # "SYNCED"
          /\ wpc[w] = "answered" /\ job[w].status = "SYNCED" =>
                job[w].xml \in books /\ wire = None

Safe == Belongs /\ ClaimIsHeld /\ SyncedIsInTally /\ NothingLeftToImport

(* The same for the properties that need Reliable: what the only worker    *)
(* has loaded is still what the row says, and a batch it is about to claim *)
(* with another payload, or has seen refused, is not in Tally.             *)
Steady == Reliable =>
    /\ \A w \in Workers : w # active => wpc[w] = "idle"
    /\ \A w \in Workers : wpc[w] \in {"selected", "locked", "built"} =>
          LET b == job[w].batch
          IN  /\ job[w].status = status[b]
              /\ status[b] \in {"SUBMITTED", "PENDING_SYNC", "SYNCING"}
              /\ job[w].frozen = frozen[b]
              /\ wpc[w] = "built" => job[w].xml = frozen[b] \/ Reachable(b) = {}
    /\ \A w \in Workers : wpc[w] = "answered" /\ job[w].status = "FAILED" =>
          Reachable(job[w].batch) = {}
    /\ \A b \in Batches : Reachable(b) \subseteq {frozen[b]}
    /\ \A b \in Batches : status[b] = "FAILED" => Reachable(b) = {}

(* The abstract promise of module VoucherOnce.                             *)
Promise == INSTANCE VoucherOnce WITH
    vouchers  <- [b \in Batches |-> Vouchers(b)],
    confirmed <- {b \in Batches : status[b] = "SYNCED"}

(* Where Reliable holds, this specification implements it.                 *)
PromiseKept == Promise!Spec

(* When the settings stay usable and Tally and the program stop failing, a *)
(* submitted batch of a supported type is settled, whatever happened to it *)
(* before: no lost answer, expired lease or cooldown strands it.           *)
Healthy == settings.enabled /\ settings.ledgers \notin BadLedgers
SettlesWhenHealthy ==
    \A b \in Supported :
        <>[]Healthy => (status[b] \in {"SUBMITTED", "SYNCING", "PENDING_SYNC"}
                          ~> status[b] \in {"SYNCED", "FAILED"})
=============================================================================
