---------------------------- MODULE BackupsProofs ----------------------------
(* However backups, restores, resets, requests and crashes overlap: a      *)
(* restore can be undone, leaves what was chosen, and what is served has   *)
(* the layout the program is written for.                                  *)
EXTENDS Backups, SequenceTheorems, TLAPS

Steps  == {"none", "copy", "offsite", "prune", "dispose", "unlink", "replace", "tidy", "reload"}
Copied == {"offsite", "prune", "dispose", "unlink", "replace", "tidy", "reload"}
Jobs   == [kind : {"none", "backup", "restore"}, pc : Steps, copy : File \cup {None},
           keep : 0 .. MaxKeep, met : BOOLEAN, past : SUBSET Writes]

(* Who holds the maintenance lock, and how far it has come.                *)
JobOK ==
    /\ job \in Jobs
    /\ job.kind = "none" <=> At("none")
    /\ job.kind = "backup" => job.pc \in {"copy", "offsite", "prune"}
    /\ job.kind = "restore" => asked = <<job.copy>> /\ job.copy \in File
    /\ job.pc \in Copied => job.keep >= 1

(* A program that does not serve has no work under way.                    *)
PhaseOK ==
    /\ phase \in {"down", "booting", "serving"}
    /\ asked = <<>> \/ \E f \in File \cup {None} : asked = <<f>>
    /\ reset \in {"none", "dropping", "deleting", "orphan"}
    /\ ~Serving => /\ job.kind = "none" /\ asked = <<>> /\ reset = "none"
                   /\ answer = "none" /\ ~loop

DiskOK ==
    /\ main \in File /\ log \subseteq Writes
    /\ needed \subseteq Writes /\ cleared \subseteq Writes
    /\ torn \in BOOLEAN /\ halfway \in BOOLEAN /\ faults \in Nat
PeopleOK ==
    /\ conn \in [Requests -> {"none", "open", "orphan"}]
    /\ settings \in [enabled : BOOLEAN, keep : 1 .. MaxKeep]
    /\ loop \in BOOLEAN

(* A run that has not come to its pruning has put one file too many into   *)
(* a folder; one that failed before was a fault.                           *)
Extra(f) == IF At("prune") \/ (At("offsite") /\ f = "local") THEN 1 ELSE 0
ShelfOK ==
    /\ shelf \in [Folders -> Seq(File)]
    /\ \A f \in Folders : Len(shelf[f]) <= MaxKeep + faults + Extra(f)
    /\ job.pc \in Copied => shelf["local"] # <<>>

Sound == JobOK /\ PhaseOK /\ DiskOK /\ PeopleOK /\ ShelfOK

(* From its safety copy on, a restore has all it may take away in it.      *)
Covered == shelf["local"] # <<>> /\ needed \subseteq shelf["local"][1].has
Undoable ==
    /\ At("copy") => needed \subseteq Content
    /\ job.pc \in Copied => Covered
    /\ RestoreIsUndoable

(* From the replacement on, nobody has the new file open who did not meet  *)
(* the old log.                                                            *)
Chosen ==
    /\ At("tidy") /\ ~job.met =>
          /\ \A r \in Requests : conn[r] # "open"
          /\ reset \in {"none", "orphan"}
          /\ main.has = job.copy.has
    /\ RestoredIsChosen

(* A column without its index is only there while a layout is migrated     *)
(* that was found without the column.                                      *)
Whole == {"old", "indexed", "full"}
LayoutsOK ==
    ~torn => /\ main.layout \in Whole \/ (main.layout = "column" /\ Migrating /\ plan = "old")
             /\ Migrating /\ main.layout = "old" => plan = "old"
             /\ \A f \in Listed : f.layout \in Whole
             /\ job.kind = "restore" => job.copy.layout \in Whole

(* Who serves has come through a migration since the file was replaced.    *)
ServedOK ==
    Serving /\ ~halfway /\ job.pc \notin {"tidy", "reload"} => main.layout \in {"full", "bare"}

Inv == Sound /\ Undoable /\ Chosen /\ LayoutsOK /\ ServedOK
-----------------------------------------------------------------------------
(* The fields of a job after a step.                                       *)

LEMMA JobGoes ==
    ASSUME job \in Jobs, NEW p \in Steps, GoTo(p)
    PROVE  /\ job' \in Jobs /\ job'.pc = p
           /\ job'.kind = job.kind /\ job'.copy = job.copy /\ job'.keep = job.keep
           /\ job'.met = job.met /\ job'.past = job.past
BY DEF Jobs, GoTo

LEMMA JobMeets ==
    ASSUME job \in Jobs, Met
    PROVE  /\ job' \in Jobs /\ job'.pc = job.pc
           /\ job'.kind = job.kind /\ job'.copy = job.copy /\ job'.keep = job.keep
           /\ job'.met = (job.met \/ At("tidy")) /\ job'.past = job.past
BY DEF Jobs, Met, At

LEMMA JobIdles ==
    /\ Idle \in Jobs /\ Idle.kind = "none" /\ Idle.pc = "none" /\ Idle.copy = None
    /\ Idle.keep = 0 /\ Idle.met = FALSE /\ Idle.past = {}
BY KeepAssumption DEF Jobs, Idle, Steps

LEMMA BackupStarts ==
    ASSUME StartBackup
    PROVE  /\ job' \in Jobs /\ job'.kind = "backup" /\ job'.pc = "copy" /\ ~job'.met
<1>1. job' = [Idle EXCEPT !.kind = "backup", !.pc = "copy"]
    BY DEF StartBackup
<1>2. "backup" \in {"none", "backup", "restore"} /\ "copy" \in Steps
    BY DEF Steps
<1> QED BY <1>1, <1>2, JobIdles DEF Jobs

LEMMA RestoreStarts ==
    ASSUME BeginRestore, ~Gone(asked[1]), asked[1] \in File
    PROVE  /\ job' \in Jobs /\ job'.kind = "restore" /\ job'.pc = "copy" /\ ~job'.met
           /\ job'.copy = asked[1]
<1>1. job' = [Idle EXCEPT !.kind = "restore", !.pc = "copy", !.copy = asked[1]]
    BY DEF BeginRestore
<1>2. "restore" \in {"none", "backup", "restore"} /\ "copy" \in Steps
    BY DEF Steps
<1> QED BY <1>1, <1>2, JobIdles DEF Jobs

-----------------------------------------------------------------------------
(* Files.                                                                  *)

LEMMA FileFields ==
    ASSUME NEW f \in File
    PROVE  /\ f.has \subseteq Writes /\ f.layout \in Layouts /\ f.guards \in BOOLEAN
           /\ \A x \in SUBSET Writes : /\ [f EXCEPT !.has = x] \in File
                                      /\ [f EXCEPT !.has = x].has = x
                                      /\ [f EXCEPT !.has = x].layout = f.layout
           /\ \A x \in Layouts : /\ [f EXCEPT !.layout = x] \in File
                                 /\ [f EXCEPT !.layout = x].has = f.has
                                 /\ [f EXCEPT !.layout = x].layout = x
           /\ \A x \in BOOLEAN : /\ [f EXCEPT !.guards = x] \in File
                                 /\ [f EXCEPT !.guards = x].has = f.has
                                 /\ [f EXCEPT !.guards = x].layout = f.layout
BY DEF File

LEMMA Contents ==
    ASSUME DiskOK
    PROVE  /\ Content \in SUBSET Writes
           /\ Current \in File /\ Current.has = Content /\ Current.layout = main.layout
           /\ Merged(main) \in File /\ Merged(main).has = Content
           /\ Merged(main).layout = main.layout
<1>1. main \in File /\ log \subseteq Writes
    BY DEF DiskOK
<1>2. Content \in SUBSET Writes
    BY <1>1, FileFields DEF Content
<1>3. Merged(main) = [main EXCEPT !.has = Content]
    BY DEF Merged, Content
<1> QED BY <1>1, <1>2, <1>3, FileFields DEF Current

LEMMA ListedFiles ==
    ASSUME ShelfOK
    PROVE  /\ Listed \subseteq File
           /\ \A f \in Folders : \A i \in 1 .. Len(shelf[f]) : shelf[f][i] \in Listed
<1>1. ASSUME NEW f \in Folders PROVE shelf[f] \in Seq(File) /\ ToSet(shelf[f]) \subseteq File
    BY DEF ShelfOK, ToSet
<1>2. ASSUME NEW f \in Folders, NEW i \in 1 .. Len(shelf[f]) PROVE shelf[f][i] \in ToSet(shelf[f])
    BY <1>1 DEF ToSet
<1> QED BY <1>1, <1>2 DEF Listed

LEMMA NotGone ==
    ASSUME ShelfOK, NEW f, ~Gone(f)
    PROVE  f \in File
<1>1. [has |-> {}, layout |-> "old", guards |-> FALSE] \in File
    BY DEF File, Layouts
<1>2. f \in Listed \/ f = [has |-> {}, layout |-> "old", guards |-> FALSE]
    BY DEF Gone, Uploads
<1> QED BY <1>1, <1>2, ListedFiles

-----------------------------------------------------------------------------
(* The lock.                                                               *)

LEMMA JobStep ==
    ASSUME Sound, Next
    PROVE  JobOK'
<1> USE DEF Sound, JobOK, PhaseOK, At, Serving
<1>1. job \in Jobs /\ Steps = {"none", "copy", "offsite", "prune", "dispose", "unlink", "replace",
                               "tidy", "reload"}
    BY DEF Steps
<1>2. ASSUME job' = Idle PROVE JobOK'
    BY <1>2, JobIdles DEF Copied
<1>3. ASSUME NEW p \in Steps, GoTo(p), UNCHANGED <<asked, phase>>, job.kind = "restore" \/ p = "prune",
             p # "none", p # "copy", job.kind # "none", job.pc \in Copied
      PROVE  JobOK'
    BY <1>3, JobGoes DEF Copied
<1>4. ASSUME UNCHANGED <<job, asked, phase>> PROVE JobOK'
    BY <1>4
<1>5. ASSUME Met, UNCHANGED <<asked, phase>> PROVE JobOK'
    BY <1>5, JobMeets
<1>6. ASSUME NEW r \in Requests, Connect(r) \/ Commit(r) PROVE JobOK'
    BY <1>4, <1>5, <1>6 DEF Connect, Commit, rest
<1>7. CASE Checkpoint
    BY <1>4, <1>7 DEF Checkpoint, rest
<1>8. CASE StartBackup
    BY <1>8, BackupStarts DEF StartBackup, rest, Copied
<1>9. CASE Copy
    <2>1. job' = [job EXCEPT !.pc = "offsite", !.keep = settings.keep]
        BY <1>9 DEF Copy
    <2>2. settings.keep \in 1 .. MaxKeep
        BY DEF PeopleOK
    <2>3. settings.keep \in 0 .. MaxKeep /\ settings.keep >= 1 /\ "offsite" \in Steps
        BY <2>2, KeepAssumption DEF Steps
    <2>4. /\ job' \in Jobs /\ job'.pc = "offsite" /\ job'.keep = settings.keep
          /\ job'.kind = job.kind /\ job'.copy = job.copy
        BY <2>1, <2>3 DEF Jobs
    <2> QED BY <1>9, <2>3, <2>4 DEF Copy, rest
<1>10. CASE CopyOffsite
    BY <1>3, <1>10 DEF CopyOffsite, rest, Steps, Copied
<1>11. CASE Prune
    <2>1. CASE job.kind = "backup"
        BY <1>2, <1>11, <2>1 DEF Prune
    <2>2. CASE job.kind # "backup"
        <3>1. job.kind = "restore"
            BY <1>1, <1>11, <2>2 DEF Prune, Jobs
        <3> QED BY <1>3, <1>11, <2>2, <3>1 DEF Prune, rest, Steps, Copied
    <2> QED BY <2>1, <2>2
<1>12. CASE AskRestore
    BY <1>12 DEF AskRestore, rest
<1>13. CASE BeginRestore
    <2>1. CASE Gone(asked[1])
        BY <1>2, <1>13, <2>1 DEF BeginRestore, EndRestore
    <2>2. CASE ~Gone(asked[1])
        <3>1. asked = <<asked[1]>>
            BY <1>13 DEF BeginRestore
        <3>2. asked[1] \in File
            BY <2>2, NotGone
        <3> QED BY <1>13, <2>2, <3>1, <3>2, RestoreStarts DEF BeginRestore, Copied
    <2> QED BY <2>1, <2>2
<1>14. CASE Dispose \/ Unlink
    <2>1. job.kind = "restore"
        BY <1>1, <1>14 DEF Dispose, Unlink, Jobs
    <2> QED BY <1>3, <1>14, <2>1 DEF Dispose, Unlink, rest, Steps, Copied
<1>15. CASE Replace
    <2>1. job' = [job EXCEPT !.pc = "tidy", !.past = Content]
        BY <1>15 DEF Replace
    <2>2. Content \in SUBSET Writes /\ "tidy" \in Steps
        BY DEF DiskOK, File, Content, Steps
    <2>3. /\ job' \in Jobs /\ job'.pc = "tidy" /\ job'.keep = job.keep
          /\ job'.kind = job.kind /\ job'.copy = job.copy
        BY <2>1, <2>2 DEF Jobs
    <2> QED BY <1>15, <2>3 DEF Replace, rest, Copied
<1>16. CASE FileInUse \/ EndReload \/ Crash
    BY <1>2, <1>16 DEF FileInUse, EndReload, EndRestore, Crash
<1>17. CASE Tidy
    <2>1. job.kind = "restore"
        BY <1>1, <1>17 DEF Tidy, Jobs
    <2> QED BY <1>3, <1>17, <2>1 DEF Tidy, Steps, Copied
<1>18. CASE Start
    BY <1>4, <1>18 DEF Start, Boot, Migrate, Booted
<1>19. CASE SaveSettings \/ Reset
    BY <1>4, <1>19 DEF SaveSettings, Reset, DropGuards, DeleteAll, ResetLost, rest
<1>20. CASE AskReset
    BY <1>5, <1>20 DEF AskReset, rest
<1>21. CASE JobFails
    BY <1>2, <1>21 DEF JobFails, EndRestore
<1> QED BY <1>6, <1>7, <1>8, <1>9, <1>10, <1>11, <1>12, <1>13, <1>14, <1>15, <1>16, <1>17, <1>18,
           <1>19, <1>20, <1>21 DEF Next, Worker, Restore
-----------------------------------------------------------------------------
(* The phase, the disk, the settings and the folders.                      *)

LEMMA Working ==
    ASSUME Sound
    PROVE  /\ job.kind # "none" \/ asked # <<>> \/ reset # "none" => Serving
           /\ ~At("none") => Serving
           /\ settings.enabled \in BOOLEAN /\ settings.keep \in 1 .. MaxKeep
BY DEF Sound, JobOK, PhaseOK, PeopleOK

LEMMA PhaseStep ==
    ASSUME Sound, Next
    PROVE  PhaseOK'
<1> USE DEF PhaseOK, Serving
<1>1. /\ PhaseOK /\ (job.kind = "none" <=> At("none")) /\ job \in Jobs
      /\ job.kind # "none" \/ asked # <<>> \/ reset # "none" => Serving
    BY Working DEF Sound, JobOK
<1>2. ASSUME UNCHANGED <<phase, asked, reset, answer, loop>>,
             job'.kind = job.kind \/ (Serving /\ job'.kind # "none") \/ job'.kind = "none"
      PROVE  PhaseOK'
    BY <1>1, <1>2
<1>3. ASSUME Serving, UNCHANGED phase, UNCHANGED asked \/ asked' = <<>>,
             reset' \in {"none", "dropping", "deleting", "orphan"}
      PROVE  PhaseOK'
    BY <1>1, <1>3
<1>4. ASSUME NEW r \in Requests, Connect(r) PROVE PhaseOK'
    BY <1>1, <1>3, <1>4 DEF Connect, rest
<1>5. ASSUME NEW r \in Requests, Commit(r) PROVE PhaseOK'
    BY <1>1, <1>2, <1>5 DEF Commit, rest
<1>6. CASE Checkpoint
    BY <1>1, <1>2, <1>6 DEF Checkpoint, rest
<1>7. CASE StartBackup
    BY <1>1, <1>3, <1>7 DEF StartBackup, rest
<1>8. CASE Copy \/ CopyOffsite \/ Prune \/ Dispose
    <2>1. Serving
        BY <1>1, <1>8 DEF Copy, CopyOffsite, Prune, Dispose, At
    <2> QED BY <1>1, <1>3, <1>8, <2>1 DEF Copy, CopyOffsite, Prune, Dispose, rest
<1>9. CASE Unlink \/ Replace \/ Tidy
    <2>1. Serving
        BY <1>1, <1>9 DEF Unlink, Replace, Tidy, At
    <2>2. reset' \in {"none", "orphan"}
        BY <1>9 DEF Unlink, Replace, Tidy, CutOff
    <2> QED BY <1>1, <1>3, <1>9, <2>1, <2>2 DEF Unlink, Replace, Tidy, rest
<1>10. CASE AskRestore
    <2>1. Serving /\ UNCHANGED <<phase, reset>>
        BY <1>10 DEF AskRestore, rest
    <2>2. PICK f \in Listed \cup Uploads : asked' = <<f>>
        BY <1>10 DEF AskRestore
    <2>3. f \in File \cup {None}
        BY NotGone DEF Gone, Sound
    <2> QED BY <1>1, <2>1, <2>2, <2>3
<1>11. CASE BeginRestore \/ FileInUse \/ EndReload
    <2>1. Serving
        BY <1>1, <1>11 DEF BeginRestore, FileInUse, EndReload, At
    <2> QED BY <1>1, <1>3, <1>11, <2>1 DEF BeginRestore, FileInUse, EndReload, EndRestore
<1>12. CASE Boot \/ Booted \/ Migrate
    BY <1>1, <1>12 DEF Boot, Booted, Migrate, rest
<1>13. CASE SaveSettings \/ AskReset
    BY <1>1, <1>3, <1>13 DEF SaveSettings, AskReset, rest
<1>14. CASE Reset
    <2>1. Serving
        BY <1>1, <1>14 DEF Reset, DropGuards, DeleteAll, ResetLost
    <2> QED BY <1>1, <1>3, <1>14, <2>1 DEF Reset, DropGuards, DeleteAll, ResetLost, rest
<1>15. CASE JobFails
    <2>1. Serving
        BY <1>1, <1>15 DEF JobFails, At
    <2> QED BY <1>1, <1>3, <1>15, <2>1 DEF JobFails, EndRestore
<1>16. CASE Crash
    BY <1>1, <1>16, JobIdles DEF Crash
<1> QED BY <1>4, <1>5, <1>6, <1>7, <1>8, <1>9, <1>10, <1>11, <1>12, <1>13, <1>14, <1>15, <1>16
        DEF Next, Worker, Restore, Start

LEMMA DiskStep ==
    ASSUME Sound, Next
    PROVE  DiskOK'
<1> USE DEF DiskOK
<1>1. /\ main \in File /\ log \subseteq Writes /\ Content \in SUBSET Writes
      /\ Merged(main) \in File /\ job \in Jobs
      /\ \A x \in Layouts : [main EXCEPT !.layout = x] \in File
      /\ \A x \in BOOLEAN : [main EXCEPT !.guards = x] \in File
    BY Contents, FileFields DEF Sound, JobOK
<1>2. ASSUME UNCHANGED <<disk, ghosts, faults>> PROVE DiskOK'
    BY <1>2 DEF Sound, disk, ghosts
<1>3. ASSUME UNCHANGED <<ghosts, faults>>, main' \in File, log' \subseteq Writes PROVE DiskOK'
    BY <1>3 DEF Sound, ghosts
<1>4. ASSUME UNCHANGED <<main, log, needed, cleared>>, Fault, Tears, halfway' \in BOOLEAN
      PROVE  DiskOK'
    BY <1>4 DEF Sound, Fault, Tears
<1>5. ASSUME NEW r \in Requests, Connect(r) PROVE DiskOK'
    BY <1>2, <1>5 DEF Connect, rest
<1>6. ASSUME NEW r \in Requests, Commit(r) PROVE DiskOK'
    <2>1. PICK w \in Unused : log' = (IF conn[r] = "open" THEN log \cup {w} ELSE log)
        BY <1>6 DEF Commit
    <2> QED BY <1>1, <1>3, <1>6, <2>1 DEF Commit, Unused, rest
<1>7. CASE Checkpoint \/ Dispose
    BY <1>1, <1>3, <1>7 DEF Checkpoint, Dispose, rest, disk
<1>8. CASE StartBackup
    BY <1>8 DEF Sound, StartBackup, disk, rest
<1>9. CASE Copy \/ CopyOffsite \/ Prune \/ AskRestore
    BY <1>2, <1>9 DEF Copy, CopyOffsite, Prune, AskRestore, rest
<1>10. CASE BeginRestore
    BY <1>1, <1>10 DEF Sound, BeginRestore, disk
<1>11. CASE Unlink \/ Tidy
    BY <1>1, <1>3, <1>11 DEF Unlink, Tidy, LogGoes, rest
<1>12. CASE Replace
    <2>1. job.kind = "restore"
        BY <1>1, <1>12 DEF Replace, At, Sound, JobOK, Jobs
    <2>2. job.copy \in File
        BY <2>1 DEF Sound, JobOK
    <2> QED BY <1>1, <1>3, <1>12, <2>2 DEF Replace, rest
<1>13. CASE FileInUse \/ EndReload \/ Boot \/ Booted
    BY <1>13 DEF Sound, FileInUse, EndReload, Boot, Booted, disk, ghosts
<1>14. CASE Migrate
    <2>1. Altered \in Layouts /\ Rebuilt \in Layouts
        BY <1>1, FileFields DEF Altered, Rebuilt, Layouts
    <2>2. main' \in File
        BY <1>1, <1>14, <2>1 DEF Migrate
    <2> QED BY <1>1, <1>3, <1>14, <2>2 DEF Migrate, rest
<1>15. CASE SaveSettings \/ AskReset \/ ResetLost
    BY <1>2, <1>15 DEF SaveSettings, AskReset, ResetLost, rest
<1>16. CASE DropGuards
    BY <1>1, <1>3, <1>16 DEF DropGuards, rest
<1>17. CASE DeleteAll
    <2>1. CASE Content \cap Prints = {}
        <3>1. [main EXCEPT !.has = {}] \in File
            BY <1>1, FileFields
        <3>2. main' = [[main EXCEPT !.has = {}] EXCEPT !.guards = TRUE]
            BY <1>17, <2>1 DEF DeleteAll
        <3>3. main' \in File
            BY <3>1, <3>2, FileFields
        <3> QED BY <1>1, <1>17, <2>1, <3>3 DEF DeleteAll, Sound
    <2>2. CASE Content \cap Prints # {}
        BY <1>17, <2>2 DEF DeleteAll, Sound, disk
    <2> QED BY <2>1, <2>2
<1>18. CASE JobFails \/ Crash
    BY <1>4, <1>18 DEF Sound, JobFails, Crash, disk
<1> QED BY <1>5, <1>6, <1>7, <1>8, <1>9, <1>10, <1>11, <1>12, <1>13, <1>14, <1>15, <1>16, <1>17, <1>18
        DEF Next, Worker, Restore, Reset, Start
LEMMA PeopleStep ==
    ASSUME Sound, Next
    PROVE  PeopleOK'
<1> USE DEF PeopleOK
<1>1. PeopleOK /\ settings.enabled \in BOOLEAN
    BY Working DEF Sound
<1>2. ASSUME UNCHANGED <<conn, settings, loop>> PROVE PeopleOK'
    BY <1>1, <1>2
<1>3. ASSUME UNCHANGED <<conn, settings>>, loop' \in BOOLEAN PROVE PeopleOK'
    BY <1>1, <1>3
<1>4. ASSUME CutOff, UNCHANGED <<settings, loop>> PROVE PeopleOK'
    BY <1>1, <1>4 DEF CutOff
<1>5. ASSUME NEW r \in Requests, Connect(r) \/ Commit(r) PROVE PeopleOK'
    BY <1>1, <1>5 DEF Connect, Commit, people
<1>6. CASE Checkpoint \/ Worker \/ Dispose
    BY <1>2, <1>6 DEF Checkpoint, Worker, StartBackup, Copy, CopyOffsite, Prune, Dispose, people
<1>7. CASE AskRestore \/ BeginRestore \/ FileInUse \/ EndReload
    BY <1>1, <1>3, <1>7 DEF AskRestore, BeginRestore, FileInUse, EndReload, EndRestore,
       StartWorkers, people
<1>8. CASE Unlink \/ Replace \/ Tidy
    BY <1>4, <1>8 DEF Unlink, Replace, Tidy, people
<1>9. CASE Start
    BY <1>1, <1>2, <1>3, <1>9 DEF Start, Boot, Migrate, Booted, StartWorkers, people
<1>10. CASE SaveSettings
    <2>1. settings' \in [enabled : BOOLEAN, keep : 1 .. MaxKeep] /\ loop' = settings'.enabled
        BY <1>10 DEF SaveSettings
    <2> QED BY <1>1, <1>10, <2>1 DEF SaveSettings
<1>11. CASE AskReset \/ Reset
    BY <1>1, <1>2, <1>3, <1>11 DEF AskReset, Reset, DropGuards, DeleteAll, ResetLost, StartWorkers,
       people
<1>12. CASE JobFails
    BY <1>1, <1>2, <1>3, <1>12 DEF JobFails, EndRestore, StartWorkers, people
<1>13. CASE Crash
    BY <1>1, <1>13 DEF Crash, people
<1> QED BY <1>5, <1>6, <1>7, <1>8, <1>9, <1>10, <1>11, <1>12, <1>13 DEF Next, Restore

(* What pruning leaves, and what a copy puts in front.                     *)
LEMMA PrunedFiles ==
    ASSUME NEW s \in Seq(File), NEW k \in Nat \ {0}
    PROVE  /\ Pruned(s, k) \in Seq(File)
           /\ Len(Pruned(s, k)) <= Len(s) /\ Len(Pruned(s, k)) <= k
           /\ s # <<>> => Pruned(s, k) # <<>> /\ Pruned(s, k)[1] = s[1]
           /\ ToSet(Pruned(s, k)) \subseteq ToSet(s)
<1> DEFINE n == IF Len(s) > k THEN k ELSE Len(s)
<1>1. n \in Nat /\ n <= Len(s) /\ n <= k /\ Len(s) \in Nat /\ (s # <<>> => n >= 1)
    BY LenProperties, EmptySeq
<1>2. Pruned(s, k) = SubSeq(s, 1, n)
    BY DEF Pruned
<1> HIDE DEF n
<1>3. Pruned(s, k) = [i \in 1 .. n |-> s[i]] /\ Len(Pruned(s, k)) = n
    BY <1>1, <1>2, SubSeqProperties
<1>4. \A i \in 1 .. n : s[i] \in File /\ i \in 1 .. Len(s)
    BY <1>1, ElementOfSeq
<1>5. Pruned(s, k) \in Seq(File)
    BY <1>1, <1>3, <1>4
<1>6. ToSet(Pruned(s, k)) \subseteq ToSet(s)
    BY <1>1, <1>3, <1>4, LenProperties DEF ToSet
<1> QED BY <1>1, <1>3, <1>5, <1>6, EmptySeq

LEMMA PutInFront ==
    ASSUME NEW s \in Seq(File), NEW f \in File
    PROVE  /\ <<f>> \o s \in Seq(File) /\ Len(<<f>> \o s) = Len(s) + 1
           /\ <<f>> \o s # <<>> /\ (<<f>> \o s)[1] = f
           /\ ToSet(<<f>> \o s) = ToSet(s) \cup {f}
<1>1. <<f>> \o s \in Seq(File) /\ Len(<<f>> \o s) = Len(s) + 1
    BY ConcatProperties
<1>2. \A i \in 1 .. Len(s) + 1 : (<<f>> \o s)[i] = IF i = 1 THEN f ELSE s[i - 1]
    BY ConcatProperties, LenProperties
<1>3. \A i \in 1 .. Len(s) : (<<f>> \o s)[i + 1] = s[i]
    BY <1>2, LenProperties
<1>4. ToSet(<<f>> \o s) = {(<<f>> \o s)[i] : i \in 1 .. Len(s) + 1}
    BY <1>1, LenProperties DEF ToSet
<1>5. ToSet(s) = {s[i] : i \in 1 .. Len(s)}
    BY LenProperties DEF ToSet
<1>6. Len(s) \in Nat
    BY LenProperties
<1>7. \A i \in 1 .. Len(s) + 1 : (<<f>> \o s)[i] \in ToSet(s) \cup {f}
    BY <1>2, <1>5, <1>6
<1>8. ASSUME NEW i \in 1 .. Len(s) PROVE s[i] \in ToSet(<<f>> \o s)
    <2>1. i + 1 \in 1 .. Len(s) + 1 /\ s[i] = (<<f>> \o s)[i + 1]
        BY <1>3, <1>6
    <2> QED BY <1>4, <2>1
<1>9. f \in ToSet(<<f>> \o s)
    BY <1>2, <1>4, <1>6
<1>10. ToSet(<<f>> \o s) \subseteq ToSet(s) \cup {f}
    BY <1>4, <1>7
<1>11. ToSet(s) \cup {f} \subseteq ToSet(<<f>> \o s)
    BY <1>5, <1>8, <1>9
<1> QED BY <1>1, <1>2, <1>6, <1>10, <1>11, EmptySeq
LEMMA ShelfStep ==
    ASSUME Sound, Next
    PROVE  ShelfOK'
<1> USE DEF At
<1>1. /\ ShelfOK /\ job \in Jobs /\ faults \in Nat /\ MaxKeep \in Nat /\ "local" \in Folders
      /\ \A f \in Folders : shelf[f] \in Seq(File) /\ Len(shelf[f]) \in Nat
                            /\ Len(shelf[f]) <= MaxKeep + faults + Extra(f)
    BY KeepAssumption, FoldersAssumption, LenProperties DEF Sound, JobOK, DiskOK, ShelfOK
<1>2. ASSUME UNCHANGED <<shelf, faults>>, job'.pc = job.pc \/ job.pc \notin {"offsite", "prune"},
             job'.pc \in Copied => job.pc \in Copied
      PROVE  ShelfOK'
    <2>1. ASSUME NEW f \in Folders PROVE Extra(f) <= Extra(f)'
        BY <1>2 DEF Extra
    <2>2. \A f \in Folders : Extra(f) \in Nat /\ Extra(f)' \in Nat
        BY DEF Extra
    <2> QED BY <1>1, <1>2, <2>1, <2>2 DEF ShelfOK
<1>3. ASSUME UNCHANGED shelf, Fault, job'.pc \notin Copied PROVE ShelfOK'
    <2>1. \A f \in Folders : Extra(f) \in 0 .. 1 /\ Extra(f)' \in 0 .. 1
        BY DEF Extra
    <2>2. faults' = faults + 1
        BY <1>3 DEF Fault
    <2> QED BY <1>1, <1>3, <2>1, <2>2 DEF ShelfOK
<1>4. ASSUME NEW r \in Requests, Connect(r) PROVE ShelfOK'
    BY <1>1, <1>2, <1>4, JobMeets DEF Connect, rest
<1>5. ASSUME NEW r \in Requests, Commit(r) PROVE ShelfOK'
    BY <1>2, <1>5 DEF Commit, rest
<1>6. CASE Checkpoint \/ AskRestore \/ Start \/ SaveSettings \/ Reset
    BY <1>2, <1>6 DEF Checkpoint, AskRestore, Start, Boot, Migrate, Booted, SaveSettings, Reset,
       DropGuards, DeleteAll, ResetLost, rest
<1>7. CASE Dispose \/ Unlink \/ Replace \/ Tidy
    BY <1>2, <1>7 DEF Dispose, Unlink, Replace, Tidy, rest, Copied
<1>8. CASE AskReset
    BY <1>1, <1>2, <1>8, JobMeets DEF AskReset, rest
<1>9. CASE Copy
    <2>1. /\ shelf' = [shelf EXCEPT !["local"] = <<Current>> \o @] /\ faults' = faults
          /\ job' = [job EXCEPT !.pc = "offsite", !.keep = settings.keep] /\ job.pc = "copy"
        BY <1>9 DEF Copy, rest
    <2>2. job'.pc = "offsite"
        BY <1>1, <2>1 DEF Jobs
    <2>3. /\ <<Current>> \o shelf["local"] \in Seq(File)
          /\ Len(<<Current>> \o shelf["local"]) = Len(shelf["local"]) + 1
        BY <1>1, Contents, PutInFront DEF Sound
    <2>4. /\ shelf' \in [Folders -> Seq(File)]
          /\ \A f \in Folders : shelf'[f] = IF f = "local" THEN <<Current>> \o shelf[f] ELSE shelf[f]
        BY <1>1, <2>1, <2>3 DEF ShelfOK
    <2>5. \A f \in Folders : Extra(f) = 0 /\ Extra(f)' = IF f = "local" THEN 1 ELSE 0
        BY <2>1, <2>2 DEF Extra
    <2>6. ASSUME NEW f \in Folders PROVE Len(shelf'[f]) <= MaxKeep + faults' + Extra(f)'
        BY <1>1, <2>1, <2>3, <2>4, <2>5
    <2>7. shelf'["local"] # <<>>
        BY <1>1, <2>4, Contents, PutInFront DEF Sound
    <2> QED BY <2>4, <2>6, <2>7 DEF ShelfOK
<1>10. CASE CopyOffsite
    <2>1. /\ faults' = faults /\ job.pc = "offsite" /\ job'.pc = "prune"
          /\ shelf' = [f \in Folders |-> IF f = "offsite" THEN <<Head(shelf["local"])>> \o shelf[f]
                                         ELSE shelf[f]]
        BY <1>1, <1>10, JobGoes DEF CopyOffsite, rest, Steps
    <2>2. shelf["local"] # <<>>
        BY <1>1, <2>1 DEF ShelfOK, Copied
    <2>3. Head(shelf["local"]) \in File
        BY <1>1, <2>2, HeadTailProperties
    <2>4. ASSUME NEW f \in Folders
          PROVE  /\ <<Head(shelf["local"])>> \o shelf[f] \in Seq(File)
                 /\ Len(<<Head(shelf["local"])>> \o shelf[f]) = Len(shelf[f]) + 1
        BY <1>1, <2>3, PutInFront
    <2>5. /\ shelf' \in [Folders -> Seq(File)]
          /\ \A f \in Folders : shelf'[f] = IF f = "offsite" THEN <<Head(shelf["local"])>> \o shelf[f]
                                             ELSE shelf[f]
        BY <1>1, <2>1, <2>4 DEF ShelfOK
    <2>6. \A f \in Folders : Extra(f) = (IF f = "local" THEN 1 ELSE 0) /\ Extra(f)' = 1
        BY <2>1 DEF Extra
    <2>7. ASSUME NEW f \in Folders PROVE Len(shelf'[f]) <= MaxKeep + faults' + Extra(f)'
        BY <1>1, <2>1, <2>4, <2>5, <2>6
    <2>8. shelf'["local"] = shelf["local"]
        BY <1>1, <2>5
    <2> QED BY <2>2, <2>5, <2>7, <2>8 DEF ShelfOK
<1>11. CASE Prune
    <2>1. /\ faults' = faults /\ job.pc = "prune" /\ job'.pc \in {"none", "dispose"}
          /\ shelf' = [f \in Folders |-> Pruned(shelf[f], job.keep)]
        BY <1>1, <1>11, JobGoes, JobIdles DEF Prune, rest, Steps
    <2>2. job.keep \in Nat \ {0} /\ job.keep <= MaxKeep
        BY <1>1, <2>1 DEF Sound, JobOK, Jobs, Copied
    <2>3. ASSUME NEW f \in Folders
          PROVE  /\ shelf'[f] \in Seq(File) /\ Len(shelf'[f]) <= job.keep
                 /\ shelf[f] # <<>> => shelf'[f] # <<>>
        BY <1>1, <2>1, <2>2, PrunedFiles
    <2>4. shelf' \in [Folders -> Seq(File)]
        BY <2>1, <2>3
    <2>5. ASSUME NEW f \in Folders PROVE Len(shelf'[f]) <= MaxKeep + faults' + Extra(f)'
        <3>1. Extra(f)' = 0
            BY <2>1 DEF Extra
        <3>2. Len(shelf'[f]) \in Nat
            BY <2>3, LenProperties
        <3> QED BY <1>1, <2>1, <2>2, <2>3, <3>1, <3>2
    <2>6. shelf'["local"] # <<>>
        BY <1>1, <2>1, <2>3 DEF ShelfOK, Copied
    <2> QED BY <2>4, <2>5, <2>6 DEF ShelfOK
<1>12. CASE JobFails \/ Crash
    <2>1. job' = Idle /\ UNCHANGED shelf /\ Fault
        BY <1>12 DEF JobFails, Crash, EndRestore
    <2> QED BY <1>3, <2>1, JobIdles DEF Copied
<1>13. CASE StartBackup \/ BeginRestore
    <2>1. job.pc = "none" /\ UNCHANGED <<shelf, faults>>
        BY <1>13 DEF StartBackup, BeginRestore, rest
    <2>2. job'.pc \notin Copied
        <3>1. CASE StartBackup
            BY <3>1, BackupStarts DEF Copied
        <3>2. CASE BeginRestore /\ Gone(asked[1])
            BY <3>2, JobIdles DEF BeginRestore, EndRestore, Copied
        <3>3. CASE BeginRestore /\ ~Gone(asked[1])
            BY <1>1, <3>3, NotGone, RestoreStarts DEF Copied
        <3> QED BY <1>13, <3>1, <3>2, <3>3
    <2> QED BY <1>2, <2>1, <2>2
<1>14. CASE FileInUse \/ EndReload
    BY <1>2, <1>14, JobIdles DEF FileInUse, EndReload, EndRestore, Copied
<1> QED BY <1>4, <1>5, <1>6, <1>7, <1>8, <1>9, <1>10, <1>11, <1>12, <1>13, <1>14
        DEF Next, Worker, Restore
LEMMA SoundStep == Sound /\ Next => Sound'
BY JobStep, PhaseStep, DiskStep, PeopleStep, ShelfStep DEF Sound

-----------------------------------------------------------------------------
(* A restore can be undone.                                                *)

(* What the log merges into the file, or loses to nobody, is still there.  *)
LEMMA ContentKept ==
    ASSUME Sound,
           \/ UNCHANGED disk
           \/ main' = Merged(main) /\ log' = {}
           \/ UNCHANGED main /\ log \subseteq log'
           \/ main'.has = main.has /\ UNCHANGED log
    PROVE  Content \subseteq Content'
<1>1. CASE UNCHANGED disk
    BY <1>1 DEF disk, Content
<1>2. CASE main' = Merged(main) /\ log' = {}
    BY <1>2, Contents DEF Sound, Content
<1>3. CASE UNCHANGED main /\ log \subseteq log'
    BY <1>3 DEF Content
<1>4. CASE main'.has = main.has /\ UNCHANGED log
    BY <1>4 DEF Content
<1> QED BY <1>1, <1>2, <1>3, <1>4

LEMMA UndoStep ==
    ASSUME Sound, Sound', Undoable, Next
    PROVE  Undoable'
<1> USE DEF At
<1>1. job \in Jobs /\ MaxKeep \in Nat
    BY KeepAssumption DEF Sound, JobOK
<1>2. ASSUME UNCHANGED <<needed, shelf>>, Content \subseteq Content',
             job'.pc = job.pc \/ job'.pc = "none" \/ (job.pc \in Copied /\ job'.pc # "copy")
      PROVE  Undoable'
    <2>1. Covered => Covered'
        BY <1>2 DEF Covered
    <2>2. RestoreIsUndoable'
        BY <1>2, <2>1 DEF Undoable, RestoreIsUndoable, Covered
    <2>3. job'.pc = "copy" => needed' \subseteq Content'
        BY <1>2 DEF Undoable
    <2>4. job'.pc \in Copied => Covered'
        BY <1>2, <2>1 DEF Undoable, Copied
    <2> QED BY <2>2, <2>3, <2>4 DEF Undoable
<1>3. ASSUME needed' = {} PROVE Undoable'
    <2>1. job'.pc \in Copied => Covered'
        BY <1>3 DEF Sound, ShelfOK, Covered
    <2> QED BY <1>3, <2>1 DEF Undoable, RestoreIsUndoable
<1>4. ASSUME Covered', job'.pc # "copy" PROVE Undoable'
    BY <1>4 DEF Undoable, RestoreIsUndoable, Covered
<1>5. ASSUME NEW r \in Requests, Connect(r) PROVE Undoable'
    BY <1>1, <1>2, <1>5, JobMeets, ContentKept DEF Connect, ghosts
<1>6. ASSUME NEW r \in Requests, Commit(r) PROVE Undoable'
    <2>1. UNCHANGED <<main, needed, shelf, job>> /\ log \subseteq log'
        BY <1>6 DEF Commit, ghosts
    <2> QED BY <1>2, <2>1, ContentKept
<1>7. CASE Checkpoint
    BY <1>2, <1>7, ContentKept DEF Checkpoint, ghosts
<1>8. CASE StartBackup
    BY <1>3, <1>8 DEF StartBackup
<1>9. CASE Copy
    <2>1. /\ shelf' = [shelf EXCEPT !["local"] = <<Current>> \o @] /\ needed' = needed
          /\ job' = [job EXCEPT !.pc = "offsite", !.keep = settings.keep] /\ job.pc = "copy"
        BY <1>9 DEF Copy, ghosts
    <2>2. job'.pc = "offsite"
        BY <1>1, <2>1 DEF Jobs
    <2>3. shelf'["local"] = <<Current>> \o shelf["local"] /\ shelf["local"] \in Seq(File)
        BY <2>1, FoldersAssumption DEF Sound, ShelfOK
    <2>4. shelf'["local"] # <<>> /\ shelf'["local"][1] = Current /\ Current.has = Content
        BY <2>3, Contents, PutInFront DEF Sound
    <2>5. Covered'
        BY <2>1, <2>4 DEF Undoable, Covered
    <2> QED BY <1>4, <2>2, <2>5
<1>10. CASE CopyOffsite
    <2>1. job.pc = "offsite" /\ job'.pc = "prune" /\ needed' = needed
        BY <1>1, <1>10, JobGoes DEF CopyOffsite, ghosts, Steps
    <2>2. shelf'["local"] = shelf["local"]
        BY <1>10, FoldersAssumption DEF CopyOffsite
    <2>3. Covered'
        BY <2>1, <2>2 DEF Undoable, Covered, Copied
    <2> QED BY <1>4, <2>1, <2>3
<1>11. CASE Prune
    <2>1. /\ job.pc = "prune" /\ job'.pc \in {"none", "dispose"} /\ needed' = needed
          /\ shelf'["local"] = Pruned(shelf["local"], job.keep)
        BY <1>1, <1>11, FoldersAssumption, JobGoes, JobIdles DEF Prune, ghosts, Steps
    <2>2. job.keep \in Nat \ {0} /\ shelf["local"] \in Seq(File)
        BY <1>1, <2>1, FoldersAssumption DEF Sound, JobOK, ShelfOK, Jobs, Copied
    <2>3. Covered
        BY <2>1 DEF Undoable, Copied
    <2>4. Covered'
        BY <2>1, <2>2, <2>3, PrunedFiles DEF Covered
    <2> QED BY <1>4, <2>1, <2>4
<1>12. CASE AskRestore \/ SaveSettings \/ ResetLost \/ Boot \/ Booted
    BY <1>2, <1>12, ContentKept DEF AskRestore, SaveSettings, ResetLost, Boot, Booted, ghosts
<1>13. CASE BeginRestore
    <2>1. UNCHANGED <<disk, shelf>>
        BY <1>13 DEF BeginRestore
    <2>2. Content' = Content
        BY <2>1 DEF disk, Content
    <2>3. CASE Gone(asked[1])
        BY <1>2, <1>13, <2>1, <2>2, <2>3, JobIdles DEF BeginRestore, EndRestore
    <2>4. CASE ~Gone(asked[1])
        <3>1. needed' = Content /\ job'.pc = "copy"
            BY <1>13, <2>4, NotGone, RestoreStarts DEF BeginRestore, Sound
        <3> QED BY <2>2, <3>1 DEF Undoable, RestoreIsUndoable, Copied
    <2> QED BY <2>3, <2>4
<1>14. CASE Dispose
    BY <1>1, <1>2, <1>14, JobGoes, ContentKept DEF Dispose, ghosts, Steps, Copied
<1>15. CASE Unlink \/ Replace \/ Tidy
    <2>1. UNCHANGED <<shelf, needed>> /\ job.pc \in Copied
        BY <1>15 DEF Unlink, Replace, Tidy, ghosts, Copied
    <2>2. job'.pc # "copy"
        <3>1. CASE Replace
            <4>1. job' = [job EXCEPT !.pc = "tidy", !.past = Content]
                BY <3>1 DEF Replace
            <4> QED BY <1>1, <4>1 DEF Jobs
        <3>2. CASE Unlink \/ Tidy
            BY <1>1, <3>2, JobGoes DEF Unlink, Tidy, Steps
        <3> QED BY <1>15, <3>1, <3>2
    <2>3. Covered'
        BY <2>1 DEF Undoable, Covered
    <2> QED BY <1>4, <2>2, <2>3
<1>16. CASE FileInUse \/ EndReload \/ JobFails \/ Crash
    <2>1. job'.pc = "none" /\ UNCHANGED <<shelf, needed, disk>>
        BY <1>16, JobIdles DEF FileInUse, EndReload, JobFails, Crash, EndRestore, ghosts
    <2> QED BY <1>2, <2>1, ContentKept
<1>17. CASE Migrate
    <2>1. main'.has = main.has
        BY <1>17, FileFields DEF Migrate, Sound, DiskOK, Altered, Rebuilt, Layouts
    <2> QED BY <1>2, <1>17, <2>1, ContentKept DEF Migrate, ghosts
<1>18. CASE AskReset
    BY <1>1, <1>2, <1>18, JobMeets, ContentKept DEF AskReset, ghosts
<1>19. CASE DropGuards
    <2>1. main'.has = main.has
        BY <1>19, FileFields DEF DropGuards, Sound, DiskOK
    <2> QED BY <1>2, <1>19, <2>1, ContentKept DEF DropGuards, ghosts
<1>20. CASE DeleteAll
    BY <1>2, <1>3, <1>20, ContentKept DEF DeleteAll
<1> QED BY <1>5, <1>6, <1>7, <1>8, <1>9, <1>10, <1>11, <1>12, <1>13, <1>14, <1>15, <1>16, <1>17, <1>18,
           <1>19, <1>20 DEF Next, Worker, Restore, Reset, Start
-----------------------------------------------------------------------------
(* A restore leaves what was chosen.                                       *)

LEMMA ChosenStep ==
    ASSUME Sound, Sound', Chosen, Next
    PROVE  Chosen'
<1> USE DEF At
<1>1. /\ job \in Jobs /\ main \in File /\ log \subseteq Writes
      /\ conn \in [Requests -> {"none", "open", "orphan"}]
    BY DEF Sound, JobOK, DiskOK, PeopleOK
<1>2. ASSUME job'.pc \notin {"tidy", "reload"} PROVE Chosen'
    BY <1>2 DEF Chosen, RestoredIsChosen
<1>3. ASSUME UNCHANGED <<conn, cleared>>, reset' = reset \/ reset' = "none",
             UNCHANGED log, main'.has = main.has,
             job'.pc = job.pc, job'.copy = job.copy, job'.past = job.past, job'.met = job.met
      PROVE  Chosen'
    BY <1>3 DEF Chosen, RestoredIsChosen, Content
<1>4. ASSUME UNCHANGED <<disk, cleared>>, Met PROVE Chosen'
    <2>1. /\ job'.pc = job.pc /\ job'.copy = job.copy /\ job'.past = job.past
          /\ job'.met = (job.met \/ job.pc = "tidy") /\ job.met \in BOOLEAN
        BY <1>1, <1>4, JobMeets DEF Jobs
    <2> QED BY <1>4, <2>1 DEF Chosen, RestoredIsChosen, Content, disk
<1>5. ASSUME NEW r \in Requests, Connect(r) PROVE Chosen'
    BY <1>4, <1>5 DEF Connect, ghosts
<1>6. ASSUME NEW r \in Requests, Commit(r) PROVE Chosen'
    <2>1. UNCHANGED <<main, job, reset, cleared>> /\ conn' = [conn EXCEPT ![r] = "none"]
        BY <1>6 DEF Commit, ghosts
    <2>2. \A q \in Requests : conn'[q] # "open" \/ conn[q] = "open"
        BY <1>1, <2>1
    <2>3. PICK w \in Unused : log' = log \cup {w} \/ log' = log
        BY <1>6 DEF Commit
    <2>4. w \notin job.past
        BY DEF Unused
    <2>5. Content \subseteq Content' /\ Content' \subseteq Content \cup {w}
        BY <2>1, <2>3 DEF Content
    <2>6. RestoredIsChosen'
        BY <2>1, <2>4, <2>5 DEF Chosen, RestoredIsChosen
    <2> QED BY <2>1, <2>2, <2>6 DEF Chosen
<1>7. CASE Checkpoint
    <2>1. UNCHANGED <<job, cleared>> /\ main' = Merged(main) /\ log' = {} /\ Held
        BY <1>7 DEF Checkpoint, ghosts
    <2>2. Content' = Content
        BY <2>1, Contents DEF Sound, Content
    <2>3. ~(job'.pc = "tidy" /\ ~job'.met)
        BY <2>1 DEF Chosen, Held
    <2> QED BY <2>1, <2>2, <2>3 DEF Chosen, RestoredIsChosen
<1>8. CASE StartBackup
    BY <1>2, <1>8, BackupStarts
<1>9. CASE Copy
    BY <1>1, <1>2, <1>9 DEF Copy, Jobs
<1>10. CASE CopyOffsite \/ Dispose \/ Unlink
    BY <1>1, <1>2, <1>10, JobGoes DEF CopyOffsite, Dispose, Unlink, Steps
<1>11. CASE Prune
    BY <1>1, <1>2, <1>11, JobGoes, JobIdles DEF Prune, Steps
<1>12. CASE BeginRestore
    BY <1>2, <1>12, NotGone, RestoreStarts, JobIdles DEF BeginRestore, EndRestore, Sound
<1>13. CASE FileInUse \/ EndReload \/ JobFails \/ Crash
    BY <1>2, <1>13, JobIdles DEF FileInUse, EndReload, EndRestore, JobFails, Crash
<1>14. CASE AskRestore \/ SaveSettings \/ Boot \/ Booted \/ ResetLost
    <2>1. /\ UNCHANGED <<main, log, conn, cleared, job>>
          /\ reset' = reset \/ reset' = "none"
        BY <1>14 DEF AskRestore, SaveSettings, Boot, Booted, ResetLost, ghosts, disk
    <2>2. /\ main'.has = main.has /\ job'.pc = job.pc /\ job'.copy = job.copy
          /\ job'.past = job.past /\ job'.met = job.met
        BY <2>1
    <2> QED BY <1>3, <2>1, <2>2
<1>15. CASE Migrate
    <2>1. main'.has = main.has
        BY <1>15, FileFields DEF Migrate, Sound, DiskOK, Altered, Rebuilt, Layouts
    <2> QED BY <1>3, <1>15, <2>1 DEF Migrate, ghosts
<1>16. CASE AskReset
    BY <1>4, <1>16 DEF AskReset, ghosts
<1>17. CASE DropGuards
    <2>1. /\ main'.has = main.has /\ UNCHANGED <<log, conn, cleared, job>> /\ reset = "dropping"
        BY <1>1, <1>17, FileFields DEF DropGuards, ghosts
    <2>2. ~(job'.pc = "tidy" /\ ~job'.met)
        BY <2>1 DEF Chosen
    <2> QED BY <2>1, <2>2 DEF Chosen, RestoredIsChosen, Content
<1>18. CASE DeleteAll
    <2>1. UNCHANGED job /\ reset = "deleting"
        BY <1>18 DEF DeleteAll
    <2>2. ~(job'.pc = "tidy" /\ ~job'.met)
        BY <2>1 DEF Chosen
    <2>3. CASE UNCHANGED <<disk, cleared>>
        BY <2>1, <2>2, <2>3 DEF Chosen, RestoredIsChosen, Content, disk
    <2>4. CASE /\ main' = [main EXCEPT !.has = {}, !.guards = TRUE] /\ log' = {}
               /\ cleared' = cleared \cup Content
        <3>1. Content' = {}
            BY <1>1, <2>4 DEF Content, File
        <3> QED BY <2>1, <2>2, <2>4, <3>1 DEF Chosen, RestoredIsChosen
    <2> QED BY <1>18, <2>3, <2>4 DEF DeleteAll
<1>19. CASE Replace
    <2>1. /\ job'.pc = "tidy" /\ job'.copy = job.copy
        BY <1>1, <1>19 DEF Replace, Jobs
    <2>2. main' = job.copy /\ CutOff
        BY <1>19 DEF Replace
    <2>3. \A r \in Requests : conn'[r] # "open"
        BY <2>2 DEF CutOff
    <2>4. reset' \in {"none", "orphan"}
        BY <2>2 DEF CutOff
    <2> QED BY <2>1, <2>2, <2>3, <2>4 DEF Chosen, RestoredIsChosen
<1>20. CASE Tidy
    <2>1. /\ job.pc = "tidy" /\ log' = {} /\ main' = main
        BY <1>20 DEF Tidy, LogGoes
    <2>2. /\ job'.pc = "reload" /\ job'.copy = job.copy /\ job'.met = job.met
        BY <1>1, <1>20, JobGoes DEF Tidy, Steps
    <2>3. Content' = main.has
        BY <2>1 DEF Content
    <2> QED BY <2>1, <2>2, <2>3 DEF Chosen, RestoredIsChosen
<1> QED BY <1>5, <1>6, <1>7, <1>8, <1>9, <1>10, <1>11, <1>12, <1>13, <1>14, <1>15, <1>16, <1>17, <1>18,
           <1>19, <1>20 DEF Next, Worker, Restore, Reset, Start
-----------------------------------------------------------------------------
(* What is served has the layout the program is written for.               *)

LEMMA LayoutsStep ==
    ASSUME Sound, Sound', LayoutsOK, Next
    PROVE  LayoutsOK'
<1> USE DEF At, Serving
<1>1. /\ job \in Jobs /\ main \in File /\ ShelfOK /\ ShelfOK' /\ torn \in BOOLEAN
      /\ job.kind = "restore" => asked = <<job.copy>> /\ job.copy \in File
      /\ job.kind = "none" <=> job.pc = "none"
      /\ job.kind = "backup" => job.pc \in {"copy", "offsite", "prune"}
      /\ phase # "serving" => job.kind = "none" /\ asked = <<>> /\ answer = "none"
    BY DEF Sound, JobOK, DiskOK, PhaseOK
<1>2. ASSUME torn' = TRUE PROVE LayoutsOK'
    BY <1>2 DEF LayoutsOK
(* A step that leaves the shelf, the layout and the migration alone.       *)
<1>3. ASSUME main'.layout = main.layout, UNCHANGED <<torn, phase, plan, shelf, asked, answer>>,
             job'.pc = job.pc, job'.kind = job.kind, job'.copy = job.copy
      PROVE  LayoutsOK'
    BY <1>3 DEF LayoutsOK, Listed, Migrating
<1>4. ASSUME NEW r \in Requests, Connect(r) PROVE LayoutsOK'
    BY <1>1, <1>3, <1>4, JobMeets DEF Connect, disk, rest, ghosts
<1>5. ASSUME NEW r \in Requests, Commit(r) PROVE LayoutsOK'
    BY <1>3, <1>5 DEF Commit, rest, ghosts
<1>6. CASE Checkpoint
    BY <1>3, <1>6, Contents DEF Checkpoint, rest, ghosts, Sound
<1>7. CASE StartBackup
    <2>1. /\ UNCHANGED <<main, torn, phase, plan, shelf, asked, answer>>
          /\ job.pc = "none" /\ job'.pc = "copy" /\ job'.kind = "backup"
        BY <1>7, BackupStarts DEF StartBackup, disk, rest
    <2> QED BY <1>1, <2>1 DEF LayoutsOK, Listed, Migrating
<1>8. CASE Copy
    <2>1. /\ shelf' = [shelf EXCEPT !["local"] = <<Current>> \o @] /\ job.pc = "copy"
          /\ job' = [job EXCEPT !.pc = "offsite", !.keep = settings.keep]
          /\ UNCHANGED <<main, torn, phase, plan, asked, answer>>
        BY <1>8 DEF Copy, disk, rest, ghosts
    <2>2. job'.pc = "offsite" /\ job'.kind = job.kind /\ job'.copy = job.copy
        BY <1>1, <2>1 DEF Jobs
    <2>3. /\ \A f \in Folders : shelf[f] \in Seq(File)
          /\ \A f \in Folders : shelf'[f] = IF f = "local" THEN <<Current>> \o shelf[f] ELSE shelf[f]
        BY <1>1, <2>1 DEF ShelfOK
    <2>4. \A f \in Folders : ToSet(shelf'[f]) \subseteq ToSet(shelf[f]) \cup {Current}
        BY <2>3, Contents, PutInFront DEF Sound
    <2>5. Listed' \subseteq Listed \cup {Current}
        BY <2>4 DEF Listed
    <2>6. phase = "serving"
        BY <1>1, <2>1
    <2>7. ~torn => Current.layout \in Whole
        BY <2>1, <2>6, Contents DEF Sound, LayoutsOK, Migrating
    <2>8. ~Migrating' /\ ~Migrating
        BY <2>1, <2>2, <2>6 DEF Migrating
    <2> QED BY <2>1, <2>2, <2>5, <2>7, <2>8 DEF LayoutsOK
<1>9. CASE CopyOffsite
    <2>1. /\ job.pc = "offsite" /\ job'.pc = "prune" /\ job'.kind = job.kind /\ job'.copy = job.copy
          /\ UNCHANGED <<main, torn, phase, plan, asked, answer>>
        BY <1>1, <1>9, JobGoes DEF CopyOffsite, disk, rest, ghosts, Steps
    <2>2. shelf["local"] # <<>> /\ "local" \in Folders /\ shelf["local"] \in Seq(File)
        BY <1>1, <2>1, FoldersAssumption DEF ShelfOK, Copied
    <2>3. Head(shelf["local"]) \in File /\ Head(shelf["local"]) = shelf["local"][1]
          /\ 1 \in 1 .. Len(shelf["local"])
        BY <2>2, HeadTailProperties, LenProperties, EmptySeq
    <2>4. Head(shelf["local"]) \in Listed
        BY <1>1, <2>2, <2>3, ListedFiles
    <2>5. /\ \A f \in Folders : shelf[f] \in Seq(File)
          /\ \A f \in Folders : shelf'[f] = IF f = "offsite" THEN <<Head(shelf["local"])>> \o shelf[f]
                                            ELSE shelf[f]
        BY <1>1, <1>9 DEF ShelfOK, CopyOffsite
    <2>6. \A f \in Folders : ToSet(shelf'[f]) \subseteq ToSet(shelf[f]) \cup {Head(shelf["local"])}
        BY <2>3, <2>5, PutInFront
    <2>7. Listed' \subseteq Listed
        BY <2>4, <2>6 DEF Listed
    <2> QED BY <2>1, <2>7 DEF LayoutsOK, Migrating
<1>10. CASE Prune
    <2>1. /\ job.pc = "prune" /\ UNCHANGED <<main, torn, phase, plan, asked, answer>>
          /\ \A f \in Folders : shelf'[f] = Pruned(shelf[f], job.keep)
        BY <1>10 DEF Prune, disk, rest, ghosts
    <2>2. \/ job.kind = "backup" /\ job'.pc = "none" /\ job'.kind = "none"
          \/ /\ job.kind = "restore" /\ job'.pc = "dispose"
             /\ job'.kind = "restore" /\ job'.copy = job.copy
        <3>1. CASE job.kind = "backup"
            BY <1>10, <3>1, JobIdles DEF Prune
        <3>2. CASE job.kind # "backup"
            <4>1. job.kind = "restore"
                BY <1>1, <2>1, <3>2 DEF Jobs
            <4> QED BY <1>1, <1>10, <4>1, JobGoes DEF Prune, Steps
        <3> QED BY <3>1, <3>2
    <2>3. job.keep \in Nat \ {0} /\ \A f \in Folders : shelf[f] \in Seq(File)
        BY <1>1, <2>1, KeepAssumption DEF Sound, JobOK, ShelfOK, Jobs, Copied
    <2>4. Listed' \subseteq Listed
        BY <2>1, <2>3, PrunedFiles DEF Listed
    <2>5. ~Migrating' /\ ~Migrating
        BY <1>1, <2>1, <2>2 DEF Migrating
    <2> QED BY <2>1, <2>2, <2>4, <2>5 DEF LayoutsOK
<1>11. CASE AskRestore
    <2>1. UNCHANGED <<main, torn, phase, plan, shelf, answer, job>>
        BY <1>11 DEF AskRestore, disk, rest, ghosts
    <2> QED BY <2>1 DEF LayoutsOK, Listed, Migrating
<1>12. CASE BeginRestore
    <2>1. UNCHANGED <<main, torn, phase, plan, shelf>> /\ job.pc = "none" /\ asked # <<>>
        BY <1>12 DEF BeginRestore, disk
    <2>2. CASE Gone(asked[1])
        <3>1. job'.kind = "none" /\ job'.pc = "none" /\ answer' = "restore_failed"
            BY <1>12, <2>2, JobIdles DEF BeginRestore, EndRestore
        <3> QED BY <1>1, <2>1, <3>1 DEF LayoutsOK, Listed, Migrating
    <2>3. CASE ~Gone(asked[1])
        <3>1. job'.kind = "restore" /\ job'.pc = "copy" /\ job'.copy = asked[1]
            BY <1>1, <1>12, <2>3, NotGone, RestoreStarts
        <3>2. asked[1] \in Listed \/ asked[1] = [has |-> {}, layout |-> "old", guards |-> FALSE]
            BY <2>3 DEF Gone, Uploads
        <3>3. asked[1] \in Listed \/ asked[1].layout = "old"
            BY <3>2
        <3> QED BY <1>1, <2>1, <3>1, <3>3 DEF LayoutsOK, Listed, Migrating, Whole
    <2> QED BY <2>2, <2>3
<1>13. CASE Dispose \/ Unlink
    <2>1. /\ UNCHANGED <<torn, phase, plan, shelf, asked, answer>>
          /\ job.pc \in {"dispose", "unlink"} /\ job'.pc \in {"unlink", "replace"}
          /\ job'.kind = job.kind /\ job'.copy = job.copy
        BY <1>1, <1>13, JobGoes DEF Dispose, Unlink, rest, ghosts, Steps
    <2>2. main'.layout = main.layout
        BY <1>13, Contents DEF Dispose, Unlink, disk, Sound
    <2> QED BY <2>1, <2>2 DEF LayoutsOK, Listed, Migrating
<1>14. CASE Replace
    <2>1. /\ UNCHANGED <<torn, phase, plan, shelf, asked, answer>> /\ job.pc = "replace"
          /\ main' = job.copy
        BY <1>14 DEF Replace, rest, ghosts
    <2>2. job'.pc = "tidy" /\ job'.kind = job.kind /\ job'.copy = job.copy
        BY <1>1, <1>14 DEF Replace, Jobs
    <2>3. job.kind = "restore" /\ phase = "serving"
        BY <1>1, <2>1 DEF Jobs
    <2> QED BY <2>1, <2>2, <2>3 DEF LayoutsOK, Listed, Migrating
<1>15. CASE Tidy
    <2>1. /\ UNCHANGED <<main, torn, phase, shelf, asked, answer>> /\ plan' = main.layout
          /\ job.pc = "tidy" /\ job'.pc = "reload" /\ job'.kind = job.kind /\ job'.copy = job.copy
        BY <1>1, <1>15, JobGoes DEF Tidy, ghosts, Steps
    <2>2. phase = "serving" /\ ~Migrating
        BY <1>1, <2>1 DEF Migrating
    <2>3. job'.kind = "restore"
        BY <1>1, <2>1 DEF Jobs
    <2> QED BY <2>1, <2>2, <2>3 DEF LayoutsOK, Listed
<1>16. CASE FileInUse \/ JobFails
    <2>1. /\ UNCHANGED <<main, phase, plan, shelf>> /\ job' = Idle
          /\ phase = "serving" /\ job.pc # "none"
        BY <1>1, <1>16 DEF FileInUse, JobFails, EndRestore, disk
    <2>2. job'.kind = "none" /\ job'.pc = "none" /\ job'.copy = None
        BY <2>1, JobIdles
    <2>4. \/ torn' = torn /\ job.pc # "reload"
          \/ torn' = (torn \/ (Migrating /\ main.layout = "column"))
        BY <1>16 DEF FileInUse, JobFails, Tears
    <2>5. ~Migrating'
        BY <2>1, <2>2 DEF Migrating
    <2>6. Migrating <=> job.pc = "reload"
        BY <2>1 DEF Migrating
    <2> QED BY <1>1, <1>2, <2>1, <2>2, <2>4, <2>5, <2>6 DEF LayoutsOK, Listed
<1>17. CASE EndReload
    <2>1. /\ UNCHANGED <<main, torn, phase, plan, shelf>> /\ job' = Idle
          /\ phase = "serving" /\ job.pc = "reload" /\ main.layout \in {"full", "bare"}
        BY <1>1, <1>17 DEF EndReload, EndRestore, Reloaded, Migrated, disk, ghosts
    <2>2. job'.kind = "none" /\ job'.pc = "none"
        BY <2>1, JobIdles
    <2> QED BY <2>1, <2>2 DEF LayoutsOK, Listed, Migrating, Whole
<1>18. CASE Boot \/ Booted
    <2>1. UNCHANGED <<main, torn, shelf, asked, answer, job>> /\ phase # "serving"
        BY <1>18 DEF Boot, Booted, disk, ghosts
    <2>2. answer = "none" /\ job.kind = "none" /\ job.pc = "none"
        BY <1>1, <2>1
    <2>3. CASE Boot
        <3>1. phase = "down" /\ phase' = "booting" /\ plan' = main.layout
            BY <2>3 DEF Boot
        <3> QED BY <2>1, <2>2, <3>1 DEF LayoutsOK, Listed, Migrating
    <2>4. CASE Booted
        <3>1. phase' = "serving" /\ plan' = plan /\ main.layout \in {"full", "bare"}
            BY <2>4 DEF Booted, Migrated
        <3> QED BY <2>1, <2>2, <3>1 DEF LayoutsOK, Listed, Migrating, Whole
    <2> QED BY <1>18, <2>3, <2>4
<1>19. CASE Migrate
    <2>1. UNCHANGED <<torn, phase, plan, shelf, asked, answer, job>> /\ Migrating /\ Migrating'
        BY <1>19 DEF Migrate, rest, ghosts, Migrating
    <2>2. \/ main'.layout = main.layout
          \/ main'.layout = Altered /\ Altered # main.layout
          \/ main'.layout = Rebuilt /\ Altered = main.layout
        <3>1. Altered \in Layouts /\ Rebuilt \in Layouts
            BY <1>1, FileFields DEF Altered, Rebuilt, Layouts
        <3> QED BY <1>1, <1>19, <3>1, FileFields DEF Migrate
    <2>3. CASE main'.layout = main.layout
        BY <1>3, <2>1, <2>3
    <2>4. CASE main'.layout # main.layout
        <3>1. \/ main.layout = "old" /\ main'.layout = "column"
              \/ main.layout = "column" /\ plan = "old" /\ main'.layout = "indexed"
              \/ main.layout = "column" /\ plan # "old" /\ main'.layout = "bare"
              \/ main.layout = "indexed" /\ main'.layout = "full"
            BY <2>2, <2>4 DEF Altered, Rebuilt
        <3> QED BY <2>1, <3>1 DEF LayoutsOK, Listed, Whole
    <2> QED BY <2>3, <2>4
<1>20. CASE SaveSettings
    BY <1>3, <1>20 DEF SaveSettings, disk, rest, ghosts
<1>21. CASE AskReset
    BY <1>1, <1>3, <1>21, JobMeets DEF AskReset, disk, rest, ghosts
<1>22. CASE DropGuards
    BY <1>1, <1>3, <1>22, FileFields DEF DropGuards, rest, ghosts
<1>23. CASE DeleteAll \/ ResetLost
    <2>1. /\ UNCHANGED <<torn, phase, plan, shelf, asked, job>>
          /\ answer' \in {"database_reset", "reset_failed"}
        BY <1>23 DEF DeleteAll, ResetLost, ghosts
    <2>2. main'.layout = main.layout
        BY <1>1, <1>23 DEF DeleteAll, ResetLost, disk, File
    <2> QED BY <2>1, <2>2 DEF LayoutsOK, Listed, Migrating
<1>24. CASE Crash
    <2>1. /\ UNCHANGED <<main, shelf>> /\ job' = Idle /\ phase' = "down" /\ answer' = "none"
          /\ torn' = (torn \/ (Migrating /\ main.layout = "column"))
        BY <1>24 DEF Crash, Tears, disk
    <2>2. job'.kind = "none" /\ job'.pc = "none"
        BY <2>1, JobIdles
    <2> QED BY <1>1, <2>1, <2>2 DEF LayoutsOK, Listed, Migrating
<1> QED BY <1>4, <1>5, <1>6, <1>7, <1>8, <1>9, <1>10, <1>11, <1>12, <1>13, <1>14, <1>15, <1>16, <1>17,
           <1>18, <1>19, <1>20, <1>21, <1>22, <1>23, <1>24 DEF Next, Worker, Restore, Reset, Start

LEMMA ServedStep ==
    ASSUME Sound, ServedOK, Next
    PROVE  ServedOK'
<1> USE DEF At, Serving
<1>1. /\ job \in Jobs /\ main \in File
      /\ job.kind = "none" <=> job.pc = "none"
      /\ job.kind = "backup" => job.pc \in {"copy", "offsite", "prune"}
      /\ phase # "serving" => job.kind = "none"
    BY DEF Sound, JobOK, DiskOK, PhaseOK
(* A step that leaves the layout alone and does not end a restore.         *)
<1>2. ASSUME main'.layout = main.layout, UNCHANGED <<phase, halfway>>,
             job.pc \notin {"tidy", "reload"} \/ job'.pc \in {"tidy", "reload"}
      PROVE  ServedOK'
    BY <1>2 DEF ServedOK
<1>3. ASSUME NEW r \in Requests, Connect(r) PROVE ServedOK'
    BY <1>1, <1>2, <1>3, JobMeets DEF Connect, disk, rest, ghosts
<1>4. ASSUME NEW r \in Requests, Commit(r) PROVE ServedOK'
    BY <1>2, <1>4 DEF Commit, rest, ghosts
<1>5. CASE Checkpoint
    BY <1>2, <1>5, Contents DEF Checkpoint, rest, ghosts, Sound
<1>6. CASE Worker \/ BeginRestore
    <2>1. job.pc \in {"none", "copy", "offsite", "prune"}
        BY <1>6 DEF Worker, StartBackup, Copy, CopyOffsite, Prune, BeginRestore
    <2>2. UNCHANGED <<main, phase, halfway>>
        BY <1>6 DEF Worker, StartBackup, Copy, CopyOffsite, Prune, BeginRestore, disk, rest, ghosts
    <2> QED BY <1>2, <2>1, <2>2
<1>7. CASE AskRestore \/ SaveSettings
    BY <1>2, <1>7 DEF AskRestore, SaveSettings, disk, rest, ghosts
<1>8. CASE Dispose \/ Unlink
    <2>1. job.pc \in {"dispose", "unlink"} /\ UNCHANGED <<phase, halfway>>
        BY <1>8 DEF Dispose, Unlink, rest, ghosts
    <2>2. main'.layout = main.layout
        BY <1>8, Contents DEF Dispose, Unlink, disk, Sound
    <2> QED BY <1>2, <2>1, <2>2
<1>9. CASE Replace
    <2>1. job'.pc = "tidy"
        BY <1>1, <1>9 DEF Replace, Jobs
    <2> QED BY <2>1 DEF ServedOK
<1>10. CASE Tidy
    <2>1. job'.pc = "reload"
        BY <1>1, <1>10, JobGoes DEF Tidy, Steps
    <2> QED BY <2>1 DEF ServedOK
<1>11. CASE FileInUse
    <2>1. UNCHANGED <<main, phase>> /\ job.pc \notin {"none", "reload"}
        BY <1>11 DEF FileInUse, disk
    <2>2. CASE job.pc = "tidy"
        BY <1>11, <2>2 DEF FileInUse, ServedOK
    <2>3. CASE job.pc # "tidy"
        BY <1>11, <2>1, <2>3 DEF FileInUse, ServedOK
    <2> QED BY <2>2, <2>3
<1>18. CASE JobFails
    <2>1. UNCHANGED <<main, phase>>
        BY <1>18 DEF JobFails, disk
    <2>2. CASE job.pc = "reload"
        BY <1>18, <2>2 DEF JobFails, ServedOK
    <2>3. CASE job.pc # "reload"
        BY <1>18, <2>1, <2>3 DEF JobFails, ServedOK
    <2> QED BY <2>2, <2>3
<1>12. CASE EndReload \/ Booted
    <2>1. UNCHANGED main /\ main.layout \in {"full", "bare"}
        BY <1>12 DEF EndReload, Booted, Reloaded, Migrated, disk
    <2> QED BY <2>1 DEF ServedOK
<1>13. CASE Boot \/ Crash
    BY <1>13 DEF Boot, Crash, ServedOK
<1>14. CASE Migrate
    <2>1. UNCHANGED <<phase, job>> /\ (phase = "booting" \/ job.pc = "reload")
        BY <1>14 DEF Migrate, Migrating, rest
    <2> QED BY <2>1 DEF ServedOK
<1>15. CASE AskReset
    BY <1>1, <1>2, <1>15, JobMeets DEF AskReset, disk, rest, ghosts
<1>16. CASE DropGuards
    BY <1>1, <1>2, <1>16, FileFields DEF DropGuards, rest, ghosts
<1>17. CASE DeleteAll \/ ResetLost
    <2>1. UNCHANGED <<phase, job, halfway>>
        BY <1>17 DEF DeleteAll, ResetLost, ghosts
    <2>2. main'.layout = main.layout
        BY <1>1, <1>17 DEF DeleteAll, ResetLost, disk, File
    <2> QED BY <1>2, <2>1, <2>2
<1> QED BY <1>3, <1>4, <1>5, <1>6, <1>7, <1>8, <1>9, <1>10, <1>11, <1>12, <1>13, <1>14, <1>15, <1>16,
           <1>17, <1>18 DEF Next, Restore, Reset, Start

-----------------------------------------------------------------------------
(* The invariant, and what follows from it.                                *)

LEMMA InvStep ==
    ASSUME Inv, [Next]_vars
    PROVE  Inv'
<1>1. CASE Next
    BY <1>1, SoundStep, UndoStep, ChosenStep, LayoutsStep, ServedStep DEF Inv
<1>2. CASE UNCHANGED vars
    <2>1. UNCHANGED <<main, log, conn, shelf, settings, clicks, loop, asked, job, reset,
                      phase, plan, answer, faults, needed, cleared, torn, halfway>>
        BY <1>2 DEF vars, disk, people, rest, ghosts
    <2>2. Sound'
        BY <2>1 DEF Inv, Sound, JobOK, PhaseOK, DiskOK, PeopleOK, ShelfOK, Extra, At, Serving
    <2>3. Undoable' /\ Chosen'
        BY <2>1 DEF Inv, Undoable, Covered, RestoreIsUndoable, Chosen, RestoredIsChosen, Content, At
    <2>4. LayoutsOK' /\ ServedOK'
        BY <2>1 DEF Inv, LayoutsOK, Listed, Migrating, At, ServedOK, Serving
    <2> QED BY <2>2, <2>3, <2>4 DEF Inv
<1> QED BY <1>1, <1>2

LEMMA InitInv == Init => Inv
<1> SUFFICES ASSUME Init PROVE Inv
    OBVIOUS
<1>1. Fresh \in File /\ Fresh.layout = "full" /\ Fresh.has = {}
    BY DEF Fresh, File, Layouts
<1>2. MaxKeep \in Nat /\ MaxKeep >= 1 /\ MaxKeep \in 1 .. MaxKeep
    BY KeepAssumption
<1>3. job.kind = "none" /\ job.pc = "none" /\ job \in Jobs /\ asked = <<>> /\ job.keep = 0
    BY JobIdles DEF Init
<1>4. JobOK /\ PhaseOK
    BY <1>3 DEF Init, JobOK, PhaseOK, At, Serving, Copied
<1>5. DiskOK /\ PeopleOK
    BY <1>1, <1>2 DEF Init, DiskOK, PeopleOK
<1>6. \A f \in Folders : shelf[f] = <<>>
    BY DEF Init
<1>7. ShelfOK
    <2>1. shelf \in [Folders -> Seq(File)]
        BY EmptySeq DEF Init
    <2>2. \A f \in Folders : Len(shelf[f]) = 0 /\ Extra(f) = 0
        BY <1>3, <1>6, EmptySeq DEF Extra, At
    <2> QED BY <1>2, <1>3, <2>1, <2>2 DEF ShelfOK, Copied, Init
<1>8. Undoable /\ Chosen
    BY <1>3 DEF Init, Undoable, RestoreIsUndoable, Chosen, RestoredIsChosen, At, Copied
<1>9. Listed = {}
    BY <1>6, EmptySeq DEF Listed, ToSet
<1>10. LayoutsOK /\ ServedOK
    BY <1>1, <1>3, <1>9 DEF Init, LayoutsOK, Whole, Migrating, At, ServedOK, Serving
<1> QED BY <1>4, <1>5, <1>7, <1>8, <1>10 DEF Inv, Sound

LEMMA InvCorrect == Spec => []Inv
<1>1. Spec => Init /\ [][Next]_vars
    BY DEF Spec
<1> QED BY <1>1, InitInv, InvStep, PTL

(* The state has its types, and no folder ever holds more than its         *)
(* retention allows (prune_backups) and the copies of the runs that did    *)
(* not come to their pruning, however many ran, failed or died.            *)
THEOREM TypeCorrect == Spec => []TypeOK
<1>1. Inv => TypeOK
    <2> SUFFICES ASSUME Inv PROVE TypeOK
        OBVIOUS
    <2>1. \A f \in Folders : Len(shelf[f]) <= MaxKeep + 1 + faults
        <3>1. ASSUME NEW f \in Folders PROVE Len(shelf[f]) <= MaxKeep + faults + Extra(f)
            BY DEF Inv, Sound, ShelfOK
        <3>2. \A f \in Folders : Extra(f) \in 0 .. 1 /\ Len(shelf[f]) \in Nat
            BY LenProperties DEF Extra, Inv, Sound, ShelfOK
        <3>3. MaxKeep \in Nat /\ faults \in Nat
            BY KeepAssumption DEF Inv, Sound, DiskOK
        <3> QED BY <3>1, <3>2, <3>3
    <2> QED BY <2>1 DEF TypeOK, Inv, Sound, JobOK, PhaseOK, DiskOK, PeopleOK, ShelfOK
<1> QED BY <1>1, InvCorrect, PTL

(* However far a restore (restore_sqlite_backup_file) came, wherever the   *)
(* program died and whatever retention pruned, what the database held when *)
(* it began is in the database or in the newest backup.                    *)
THEOREM RestoreIsUndoableCorrect == Spec => []RestoreIsUndoable
<1>1. Inv => RestoreIsUndoable
    BY DEF Inv, Undoable
<1> QED BY <1>1, InvCorrect, PTL

(* What a restore leaves is the backup that was chosen, without a          *)
(* transaction of the database it replaced, unless a request connected     *)
(* between the replacement of the file and the removal of the old log.     *)
THEOREM RestoredIsChosenCorrect == Spec => []RestoredIsChosen
<1>1. Inv => RestoredIsChosen
    BY DEF Inv, Chosen
<1> QED BY <1>1, InvCorrect, PTL

(* Whenever the program serves and no restore is under way, requests find  *)
(* the layout the program is written for (ensure_runtime_schema): whatever *)
(* backup was restored, wherever the program died and was started again.   *)
(* Left out is what a restore leaves that failed with its file in place;   *)
(* and a change that was cut between a column and its index costs the      *)
(* index.                                                                  *)
THEOREM ServedIsCurrentCorrect == Spec => []ServedIsCurrent
<1>1. Inv => ServedIsCurrent
    <2> SUFFICES ASSUME Inv, Serving, job.kind # "restore", ~halfway
                 PROVE  main.layout = "full" \/ (torn /\ main.layout = "bare")
        BY DEF ServedIsCurrent
    <2>1. job.pc \notin {"tidy", "reload"}
        BY DEF Inv, Sound, JobOK, Jobs, At
    <2>2. main.layout \in {"full", "bare"}
        BY <2>1 DEF Inv, ServedOK
    <2> QED BY <2>2 DEF Inv, LayoutsOK, Whole
<1> QED BY <1>1, InvCorrect, PTL
=============================================================================
