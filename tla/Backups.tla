------------------------------ MODULE Backups ------------------------------
(***************************************************************************)
(* Backup, restore and reset of the database file (services/backup.py,     *)
(* backup_worker.py, database_reset.py, schema.py, routers/maintenance.py) *)
(* while requests go on reading and writing.                               *)
(*                                                                         *)
(* The database is a file and a write-ahead log beside it.  A backup is a  *)
(* snapshot of both; a restore replaces the file and removes the log.  The *)
(* maintenance lock lets one backup or restore run at a time; requests and *)
(* a reset do not take it.  A file is what it holds of the transactions    *)
(* ever committed, how far its layout has come, and whether it has the     *)
(* triggers that keep the relocation history.                              *)
(*                                                                         *)
(* Ghosts: `needed` is what the database held when the restore under way   *)
(* (or the last one) began, `cleared` what a reset threw away, `torn` says *)
(* that a change of the layout was cut between a column and its index,     *)
(* `halfway` that a restore failed with its file in place, and no later    *)
(* one and no start has finished what it left.                             *)
(***************************************************************************)
EXTENDS Naturals, FiniteSets, SequencesExt

CONSTANTS
    Writes,         \* transactions
    Prints,         \* those that log a printed label
    Folders,        \* "local", and "offsite" where an off-machine copy is configured
    Requests,       \* request threads that write
    MaxKeep,        \* bound on BACKUP_RETENTION_COUNT
    MaxFaults,      \* bound on crashes, failing folders and failing reloads
    MaxClicks,      \* bound on restores, resets and saved settings
    None

ASSUME FoldersAssumption == {"local"} \subseteq Folders /\ Folders \subseteq {"local", "offsite"}
ASSUME PrintsAssumption == Prints \subseteq Writes
ASSUME KeepAssumption   == MaxKeep \in Nat \ {0}

Layouts == {"old", "column", "indexed", "full", "bare"}
File    == [has : SUBSET Writes, layout : Layouts, guards : BOOLEAN]
Fresh   == [has |-> {}, layout |-> "full", guards |-> TRUE]
Uploads == {None, [has |-> {}, layout |-> "old", guards |-> FALSE]}   \* None: no Setuora file

VARIABLES
    main,       \* the database file
    log,        \* transactions that are only in its write-ahead log
    conn,       \* what each request's connection has open
    shelf,      \* per folder its backups, the newest first
    settings,   \* [enabled, keep]
    loop,       \* the backup worker's task runs
    asked,      \* a restore that waits for its turn
    job,        \* the holder of the maintenance lock
    reset,      \* a reset under way
    phase,      \* of the program
    answer,     \* what the page said last
    plan,       \* the layout that ensure_runtime_schema has found
    faults, clicks, needed, cleared, torn, halfway

disk == <<main, log>>
ghosts == <<needed, cleared, torn, halfway>>
people == <<settings, clicks>>
rest == <<phase, plan, answer, faults>>
vars == <<disk, conn, shelf, people, loop, asked, job, reset, rest, ghosts>>

Idle    == [kind |-> "none", pc |-> "none", copy |-> None, keep |-> 0, met |-> FALSE, past |-> {}]
Content == main.has \cup log
Current == [main EXCEPT !.has = Content]
Held    == reset \in {"dropping", "deleting"} \/ \E r \in Requests : conn[r] = "open"
Serving == phase = "serving"
At(pc)  == job.pc = pc
GoTo(pc) == job' = [job EXCEPT !.pc = pc]

Init ==
    /\ main = Fresh /\ log = {}
    /\ conn = [r \in Requests |-> "none"]
    /\ shelf = [f \in Folders |-> <<>>]
    /\ settings = [enabled |-> TRUE, keep |-> MaxKeep]
    /\ loop = FALSE /\ asked = <<>> /\ job = Idle /\ reset = "none"
    /\ phase = "down" /\ plan = "full" /\ answer = "none" /\ faults = 0 /\ clicks = 0
    /\ needed = {} /\ cleared = {} /\ torn = FALSE /\ halfway = FALSE

-----------------------------------------------------------------------------
(* Requests.  A connection stays with the file it has opened: once that    *)
(* file or its log has lost its name, no later reader finds what it wrote. *)
Listed == UNION {ToSet(shelf[d]) : d \in Folders}
Unused == Writes \ (Content \cup needed \cup cleared \cup job.past \cup UNION {f.has : f \in Listed})

Met == job' = [job EXCEPT !.met = @ \/ At("tidy")]
Connect(r) ==
    /\ Serving /\ conn[r] = "none"
    /\ conn' = [conn EXCEPT ![r] = "open"] /\ Met
    /\ UNCHANGED <<disk, shelf, people, loop, asked, reset, rest, ghosts>>

Commit(r) ==
    /\ conn[r] # "none"
    /\ \E w \in Unused : log' = (IF conn[r] = "open" THEN log \cup {w} ELSE log)
    /\ conn' = [conn EXCEPT ![r] = "none"]
    /\ UNCHANGED <<main, shelf, people, loop, asked, job, reset, rest, ghosts>>

Merged(f) == [f EXCEPT !.has = @ \cup log]
Checkpoint ==
    /\ Held /\ log # {}
    /\ main' = Merged(main) /\ log' = {}
    /\ UNCHANGED <<conn, shelf, people, loop, asked, job, reset, rest, ghosts>>

-----------------------------------------------------------------------------
(* create_scheduled_backup, by the worker or as the safety copy of a       *)
(* restore: a verified copy gets its name at once, then goes to the other  *)
(* folder, then both folders are pruned.                                   *)
StartBackup ==
    /\ Serving /\ loop /\ settings.enabled /\ At("none")
    /\ job' = [Idle EXCEPT !.kind = "backup", !.pc = "copy"]
    /\ needed' = {}
    /\ UNCHANGED <<disk, conn, shelf, people, loop, asked, reset, rest, cleared, torn, halfway>>

Copy ==
    /\ At("copy")
    /\ shelf' = [shelf EXCEPT !["local"] = <<Current>> \o @]
    /\ job' = [job EXCEPT !.pc = "offsite", !.keep = settings.keep]
    /\ UNCHANGED <<disk, conn, people, loop, asked, reset, rest, ghosts>>

CopyOffsite ==
    /\ At("offsite")
    /\ shelf' = [f \in Folders |-> IF f = "offsite" THEN <<Head(shelf["local"])>> \o shelf[f]
                                   ELSE shelf[f]]
    /\ GoTo("prune")
    /\ UNCHANGED <<disk, conn, people, loop, asked, reset, rest, ghosts>>

OldestKept(s, k) == SubSeq(s, IF Len(s) > k THEN Len(s) - k + 1 ELSE 1, Len(s))  \* variant
NotPruned(s, k) == s                                                            \* variant
Pruned(s, k) == SubSeq(s, 1, IF Len(s) > k THEN k ELSE Len(s))
Prune ==
    /\ At("prune")
    /\ shelf' = [f \in Folders |-> Pruned(shelf[f], job.keep)]
    /\ IF job.kind = "backup" THEN job' = Idle ELSE GoTo("dispose")
    /\ UNCHANGED <<disk, conn, people, loop, asked, reset, rest, ghosts>>

-----------------------------------------------------------------------------
(* restore_sqlite_backup_file.  The page lists the backups of both folders *)
(* or takes an upload; the workers stop, and the restore waits for the     *)
(* lock.  Only then is its file looked at.                                 *)
Click == clicks < MaxClicks /\ clicks' = clicks + 1
AskRestore ==
    /\ Serving /\ asked = <<>> /\ Click
    /\ \E f \in Listed \cup Uploads : asked' = <<f>>
    /\ loop' = FALSE
    /\ UNCHANGED <<disk, conn, shelf, settings, job, reset, rest, ghosts>>

NotAfterRestore == loop' = (settings.enabled /\ job.kind # "restore")    \* variant
StartWorkers == loop' = settings.enabled
EndRestore(says) ==
    /\ job' = Idle /\ asked' = <<>> /\ answer' = says
    /\ StartWorkers

Gone(f) == f \notin Listed \cup (Uploads \ {None})
BeginRestore ==
    /\ asked # <<>> /\ At("none")
    /\ IF Gone(asked[1]) THEN EndRestore("restore_failed") /\ UNCHANGED needed
       ELSE /\ job' = [Idle EXCEPT !.kind = "restore", !.pc = "copy", !.copy = asked[1]]
            /\ needed' = Content
            /\ UNCHANGED <<asked, answer, loop>>
    /\ UNCHANGED <<disk, conn, shelf, people, reset, phase, plan, faults, cleared, torn, halfway>>

(* engine.dispose closes the connections nobody uses; the last one to go   *)
(* takes the log into the file.                                            *)
Dispose ==
    /\ At("dispose")
    /\ IF Held THEN UNCHANGED disk ELSE main' = Merged(main) /\ log' = {}
    /\ GoTo("unlink")
    /\ UNCHANGED <<conn, shelf, people, loop, asked, reset, rest, ghosts>>

(* Names go away from under whoever has the files open ...                 *)
CutOff ==
    /\ conn' = [r \in Requests |-> IF conn[r] = "open" THEN "orphan" ELSE conn[r]]
    /\ reset' = IF reset = "none" THEN "none" ELSE "orphan"

Unlink ==
    /\ At("unlink")
    /\ log' = {} /\ CutOff
    /\ GoTo("replace")
    /\ UNCHANGED <<main, shelf, people, loop, asked, rest, ghosts>>

Replace ==
    /\ At("replace")
    /\ main' = job.copy /\ CutOff
    /\ job' = [job EXCEPT !.pc = "tidy", !.past = Content]
    /\ UNCHANGED <<log, shelf, people, loop, asked, rest, ghosts>>

(* ... except on Windows, where an open file keeps its name and the        *)
(* restore fails, be it with the new file in place and its layout old.     *)
FileInUse ==
    /\ At("unlink") \/ At("replace") \/ At("tidy")
    /\ Held
    /\ EndRestore("restore_failed")
    /\ halfway' = (halfway \/ At("tidy"))
    /\ UNCHANGED <<disk, conn, shelf, people, reset, phase, plan, faults, needed, cleared, torn>>

LogStays == log' = log      \* variant: the log is only removed before
LogGoes  == log' = {}
Tidy ==
    /\ At("tidy")
    /\ LogGoes /\ CutOff
    /\ GoTo("reload") /\ plan' = main.layout
    /\ UNCHANGED <<main, shelf, people, loop, asked, phase, answer, faults, ghosts>>

-----------------------------------------------------------------------------
(* ensure_runtime_schema, at a start and after a restore.  The statements  *)
(* that add columns commit one by one, and the index of a column is        *)
(* created only when the column was found missing.  From the UPDATE of the *)
(* products to the triggers they are one transaction.  Then the tables     *)
(* that lack foreign keys are built anew, in another.                      *)
Migrating == phase = "booting" \/ At("reload")
Migrated  == main.layout \in {"full", "bare"} /\ main.guards
Altered ==
    CASE main.layout = "old" -> "column"
      [] main.layout = "column" /\ plan = "old" -> "indexed"
      [] OTHER -> main.layout
Rebuilt ==
    CASE main.layout = "column"  -> "bare"
      [] main.layout = "indexed" -> "full"
      [] OTHER -> main.layout
Migrate ==
    /\ Migrating /\ ~Migrated
    /\ main' = IF Altered # main.layout THEN [main EXCEPT !.layout = Altered]
               ELSE IF ~main.guards THEN [main EXCEPT !.guards = TRUE]
               ELSE [main EXCEPT !.layout = Rebuilt]
    /\ UNCHANGED <<log, conn, shelf, people, loop, asked, job, reset, rest, ghosts>>

NotAsked == TRUE            \* variant: a restore leaves the layout as it is
Reloaded == Migrated
EndReload ==
    /\ At("reload") /\ Reloaded
    /\ EndRestore("restored")
    /\ halfway' = FALSE
    /\ UNCHANGED <<disk, conn, shelf, people, reset, phase, plan, faults, needed, cleared, torn>>

Boot ==
    /\ phase = "down"
    /\ phase' = "booting" /\ plan' = main.layout
    /\ UNCHANGED <<disk, conn, shelf, people, loop, asked, job, reset, answer, faults, ghosts>>
BootedAnyway ==             \* variant: the program serves whatever layout it finds
    /\ phase = "booting"
    /\ phase' = "serving" /\ StartWorkers /\ halfway' = FALSE
    /\ UNCHANGED <<disk, conn, shelf, people, asked, job, reset, plan, answer, faults,
                   needed, cleared, torn>>
Booted ==
    /\ phase = "booting" /\ Migrated
    /\ phase' = "serving" /\ StartWorkers /\ halfway' = FALSE
    /\ UNCHANGED <<disk, conn, shelf, people, asked, job, reset, plan, answer, faults,
                   needed, cleared, torn>>

-----------------------------------------------------------------------------
(* save_backup_settings.                                                   *)
SaveSettings ==
    /\ Serving /\ Click
    /\ settings' \in [enabled : BOOLEAN, keep : 1 .. MaxKeep]
    /\ loop' = settings'.enabled
    /\ UNCHANGED <<disk, conn, shelf, asked, job, reset, rest, ghosts>>

(* reset_database_and_cache: the triggers are dropped before a transaction *)
(* is open, so for good; the delete statements leave out the log of        *)
(* printed labels, whose rows refer to serials and users.                  *)
AskReset ==
    /\ Serving /\ reset = "none" /\ Click
    /\ reset' = "dropping" /\ loop' = FALSE /\ Met
    /\ UNCHANGED <<disk, conn, shelf, settings, asked, rest, ghosts>>
DropGuards ==
    /\ reset = "dropping"
    /\ main' = [main EXCEPT !.guards = FALSE]
    /\ reset' = "deleting"
    /\ UNCHANGED <<log, conn, shelf, people, loop, asked, job, rest, ghosts>>
DeleteAll ==
    /\ reset = "deleting"
    /\ IF Content \cap Prints = {}
       THEN /\ main' = [main EXCEPT !.has = {}, !.guards = TRUE] /\ log' = {}
            /\ cleared' = cleared \cup Content /\ needed' = {}
            /\ answer' = "database_reset"
       ELSE UNCHANGED <<disk, needed, cleared>> /\ answer' = "reset_failed"
    /\ reset' = "none" /\ StartWorkers
    /\ UNCHANGED <<conn, shelf, people, asked, job, phase, plan, faults, torn, halfway>>
ResetLost ==
    /\ reset = "orphan"
    /\ answer' \in {"database_reset", "reset_failed"}
    /\ reset' = "none" /\ StartWorkers
    /\ UNCHANGED <<disk, conn, shelf, people, asked, job, phase, plan, faults, ghosts>>

-----------------------------------------------------------------------------
(* Faults: a folder that cannot be written, a reload that finds the        *)
(* database busy, a crash.                                                 *)
Fault == faults < MaxFaults /\ faults' = faults + 1
Tears == torn' = (torn \/ (Migrating /\ main.layout = "column"))

JobFails ==
    /\ Fault /\ (At("copy") \/ At("offsite") \/ At("reload")) /\ Tears
    /\ IF job.kind = "backup" THEN job' = Idle /\ UNCHANGED <<asked, answer, loop>>
       ELSE EndRestore("restore_failed")
    /\ halfway' = (halfway \/ At("reload"))
    /\ UNCHANGED <<disk, conn, shelf, people, reset, phase, plan, needed, cleared>>

Crash ==
    /\ Fault /\ phase # "down" /\ Tears
    /\ phase' = "down" /\ conn' = [r \in Requests |-> "none"]
    /\ job' = Idle /\ asked' = <<>> /\ loop' = FALSE /\ reset' = "none" /\ answer' = "none"
    /\ UNCHANGED <<disk, shelf, people, plan, needed, cleared, halfway>>

Worker  == StartBackup \/ Copy \/ CopyOffsite \/ Prune
Restore == BeginRestore \/ Dispose \/ Unlink \/ Replace \/ FileInUse \/ Tidy \/ EndReload
Reset   == DropGuards \/ DeleteAll \/ ResetLost
Start   == Boot \/ Migrate \/ Booted
Next ==
    \/ \E r \in Requests : Connect(r) \/ Commit(r)
    \/ Checkpoint \/ Worker \/ AskRestore \/ Restore \/ Start
    \/ SaveSettings \/ AskReset \/ Reset \/ JobFails \/ Crash

(* Threads go on, and the program is started again after a crash.          *)
Fairness == WF_vars(Worker) /\ WF_vars(Restore) /\ WF_vars(Start) /\ WF_vars(Reset)
Spec == Init /\ [][Next]_vars /\ Fairness

-----------------------------------------------------------------------------
(* Properties.                                                             *)

(* Types; and no folder ever holds more than its retention allows and the  *)
(* copies of the runs that did not come to their pruning.                  *)
TypeOK ==
    /\ main \in File /\ log \subseteq Writes
    /\ conn \in [Requests -> {"none", "open", "orphan"}]
    /\ shelf \in [Folders -> Seq(File)]
    /\ \A f \in Folders : Len(shelf[f]) <= MaxKeep + 1 + faults
    /\ settings \in [enabled : BOOLEAN, keep : 1 .. MaxKeep]
    /\ job.kind = "restore" => asked = <<job.copy>> /\ job.copy \in File
    /\ loop => Serving
    /\ reset \in {"none", "dropping", "deleting", "orphan"}
    /\ needed \subseteq Writes /\ cleared \subseteq Writes

(* "creates a safety backup of the current database, replaces              *)
(* data/setuora.db" (docs/deployment/backup-restore-guide.md:51): what the *)
(* database held when a restore began is in it or in the newest backup,    *)
(* however far the restore came, wherever the program died, and whatever   *)
(* retention pruned - until the next backup begins.                        *)
RestoreIsUndoable ==
    needed \subseteq Content
      \/ (shelf["local"] # <<>> /\ needed \subseteq shelf["local"][1].has)

(* What a restore leaves is the backup that was chosen, also when it was   *)
(* pruned meanwhile, without a transaction of the database it replaced -   *)
(* unless a request connected between the new file and the old log.        *)
RestoredIsChosen ==
    At("reload") /\ ~job.met =>
        job.copy.has \ cleared \subseteq Content /\ Content \cap job.past \subseteq job.copy.has

(* Whenever the program serves and no restore is under way, requests find  *)
(* the layout it is written for, whatever was restored, wherever the       *)
(* program died and was started again, and whatever a reset did.  A        *)
(* restore that fails with its file in place leaves the layout of that     *)
(* file, which the page says, until a start or a restore; a change that    *)
(* was cut between a column and its index costs the index and no more.     *)
ServedIsCurrent ==
    Serving /\ job.kind # "restore" /\ ~halfway =>
        main.layout = "full" \/ (torn /\ main.layout = "bare")

(* While automatic backups are on, every transaction gets into a backup,   *)
(* or is taken out of the database by a restore or a reset.                *)
Protected ==
    \A w \in Writes : w \in Content
        ~> \/ w \notin Content \/ ~settings.enabled
           \/ \E f \in Listed : w \in f.has
=============================================================================
