------------------------------ MODULE LocalSetup ------------------------------
(***************************************************************************)
(* The local set-up wizard writes several secret files and .env as one     *)
(* transaction on the file system (tools/local_setup_wizard.py):           *)
(*   stage    a run directory with a marker, the new files, hard links to  *)
(*            the old ones, and a manifest                                 *)
(*   commit   every file is renamed into place, then COMMITTED is written  *)
(*   clean    the run directory is emptied in a fixed order and removed    *)
(*   recover  the next start or save finishes or undoes what it finds      *)
(*                                                                         *)
(* Any system call may fail, the process may die and the power may fail at *)
(* any step.  A hard link keeps an inode alive, so files are told apart    *)
(* here by the save that wrote them, as the code does by (st_dev, st_ino). *)
(* The file system's journal is assumed to keep the order of operations.   *)
(***************************************************************************)
EXTENDS Naturals, FiniteSets

CONSTANTS
  NFiles,     \* files in the order they are committed; the last one is .env
  MaxSaves,   \* bound: saves asked for
  MaxFaults,  \* bound: failing calls, dying processes, power failures, and
              \* changes by hand beside what a run left behind
  Gone,       \* no file
  Foreign     \* a file somebody put there by hand

ASSUME FilesAssumption == NFiles \in Nat \ {0}
ASSUME BoundsAssumption == {MaxSaves, MaxFaults} \subseteq Nat
ASSUME ContentsAssumption == Gone /= Foreign /\ {Gone, Foreign} \cap Nat = {}

Files == 1..NFiles
Env == NFiles
Contents == 0..MaxSaves \cup {Gone, Foreign}

VARIABLES
  fs,         \* the file system as processes see it
  survivors,  \* the file systems a power failure may leave
  at,         \* the next call of the wizard; "off" when it does not run
  job,        \* the files of the save, {} while only starting
  recovering, \* the run directory at hand was found, not made
  left,       \* files that commit or roll back has not reached
  failed,     \* a step of the roll-back failed
  answered,   \* the last save that was answered ok with its marker on disk
  saves, faults,
  edited      \* a file was changed by hand

setupVars == <<fs, survivors, at, job, recovering, left, failed, answered,
               saves, faults, edited>>
control == <<job, recovering, left, failed, answered>>
counters == <<saves, faults, edited>>

----------------------------------------------------------------------------
\* Entries of the run directory: markers and, for each file, the new content
\* ("tmp") and a hard link to the old one ("rollback").
Mark(name) == <<name, 0>>
Markers == {"PREPARING.tmp", "PREPARING", "manifest.tmp", "manifest",
            "COMMITTED.tmp", "COMMITTED"}
Tmp(f) == <<"tmp", f>>
Rollback(f) == <<"rollback", f>>
Entries == {Mark(name) : name \in Markers} \cup {Tmp(f) : f \in Files}
             \cup {Rollback(f) : f \in Files}

\* A run as its manifest records it: its save, its files, what they were.
Run == [no : 0..MaxSaves, files : SUBSET Files, was : [Files -> Contents]]
FileSystem == [live : [Files -> Contents], present : BOOLEAN,
               entries : SUBSET Entries, run : Run]

StageSteps  == {"mkdir", "preparing.tmp", "preparing", "preparing.sync", "file",
                "manifest", "manifest.sync"}
MarkSteps   == {"committed.tmp", "committed.sync", "committed"}
CommitSteps == {"commit"} \cup MarkSteps
CleanSteps  == {"clean", "purge", "rmdir.sync"}
Steps == {"off", "idle", "recover", "undo", "committed.synced"}
           \cup StageSteps \cup CommitSteps \cup CleanSteps

\* The file system, what may be left of it, and the wizard keep their types.
SetupTypeOK ==
  /\ fs         \in FileSystem
  /\ survivors  \subseteq FileSystem
  /\ fs         \in survivors
  /\ at         \in Steps
  /\ job        \subseteq Files
  /\ recovering \in BOOLEAN
  /\ left       \subseteq Files
  /\ failed     \in BOOLEAN
  /\ answered   \in [no : 0..MaxSaves, files : SUBSET Files]
  /\ saves \in 0..MaxSaves /\ faults \in 0..MaxFaults /\ edited \in BOOLEAN

SetupInit ==
  /\ \E live \in [Files -> {Gone, 0}] :
       fs = [live |-> live, present |-> FALSE, entries |-> {},
             run |-> [no |-> 0, files |-> {}, was |-> live]]
  /\ survivors = {fs}
  /\ at = "off" /\ job = {} /\ recovering = FALSE /\ left = {} /\ failed = FALSE
  /\ answered = [no |-> 0, files |-> {}]
  /\ saves = 0 /\ faults = 0 /\ edited = FALSE

----------------------------------------------------------------------------
\* Judgements on a file system.
Has(s, name) == Mark(name) \in s.entries
\* Mutant of New: whatever is not the old file is the new one.
NewUnlessOld(s, f) == s.live[f] /= s.run.was[f]
New(s, f) == s.live[f] = s.run.no
Existed(s, f) == s.run.was[f] /= Gone

\* _transaction_items_are_valid: every file is the new one, the old one, or
\* still missing.
ItemsValid(s) == \A f \in s.run.files : New(s, f) \/ s.live[f] = s.run.was[f]

\* _run_directory_entries_are_known.
KnownCommitted(s) ==
  /\ Has(s, "PREPARING") /\ Has(s, "COMMITTED") /\ Has(s, "manifest")
  /\ \A f \in s.run.files : New(s, f)
KnownUncommitted(s) == /\ Has(s, "PREPARING") /\ ~Has(s, "COMMITTED")
                       /\ ItemsValid(s)

FileEntries(s) == {e \in s.entries : e[2] /= 0}
\* Mutant of Purgeable: an empty directory is refused.
PurgeableWhenMarked(s) ==
  Has(s, "PREPARING") /\ (Has(s, "COMMITTED") => FileEntries(s) = {})
\* _recover_run_without_manifest.
Purgeable(s) ==
  s.entries /= {} => Has(s, "PREPARING") /\ (Has(s, "COMMITTED") => FileEntries(s) = {})

\* The order in which _cleanup_staging removes entries.
CleanRank == [name \in Markers |->
  CASE name = "manifest.tmp"  -> 1 [] name = "COMMITTED.tmp" -> 2
    [] name = "manifest"      -> 3 [] name = "COMMITTED"     -> 4
    [] name = "PREPARING.tmp" -> 5 [] name = "PREPARING"     -> 6]
Before(e, d) ==
  \/ e[2] /= 0 /\ (d[2] = 0 \/ e[2] < d[2] \/ (e[2] = d[2] /\ e[1] = "tmp"))
  \/ e[2] = 0 /\ d[2] = 0 /\ CleanRank[e[1]] < CleanRank[d[1]]
FirstToGo(s) == CHOOSE e \in s.entries : \A d \in s.entries \ {e} : Before(e, d)

Least(S) == CHOOSE f \in S : \A g \in S : f <= g
Greatest(S) == CHOOSE f \in S : \A g \in S : g <= f

\* What is done to it.
Add(s, e) == [s EXCEPT !.entries = @ \cup {e}]
Remove(s, e) == [s EXCEPT !.entries = @ \ {e}]
Rename(s, from, to) == Add(Remove(s, Mark(from)), Mark(to))

----------------------------------------------------------------------------
\* Steps of the wizard.
Call(next, step) == /\ fs' = next
                    /\ survivors' = survivors \cup {next}
                    /\ at' = step
Sync(step) == survivors' = {fs} /\ at' = step /\ UNCHANGED fs
Goto(step) == at' = step /\ UNCHANGED <<fs, survivors>>

\* The constructor ends the process when it raises, a save does not.
GiveUp == Goto(IF job = {} THEN "off" ELSE "idle")

\* main, run_local_setup: start, wait for a save, close after a while.
StartWizard ==
  /\ at = "off"
  /\ Goto("recover")
  /\ job' = {} /\ recovering' = TRUE
  /\ UNCHANGED <<left, failed, answered, counters>>

\* save: the groups' secrets and .env.
Submit ==
  /\ at = "idle"
  /\ saves < MaxSaves
  /\ \E S \in SUBSET Files : S \ {Env} /= {} /\ Env \in S /\ job' = S
  /\ saves' = saves + 1
  /\ recovering' = TRUE
  /\ Goto("recover")
  /\ UNCHANGED <<left, failed, answered, faults, edited>>

CloseWizard == at = "idle" /\ Goto("off") /\ UNCHANGED <<control, counters>>

\* _recover_staging: what it does with a run directory.
Decide ==
  /\ at = "recover" /\ fs.present
  /\ failed' = FALSE
  /\ left' = fs.run.files
  /\ CASE ~Has(fs, "manifest") ->
            IF Purgeable(fs) THEN Goto("purge") ELSE GiveUp
       [] Has(fs, "manifest") /\ Has(fs, "COMMITTED") ->
            IF KnownCommitted(fs) THEN Goto("clean") ELSE GiveUp
       [] OTHER -> IF KnownUncommitted(fs) THEN Goto("undo") ELSE GiveUp
  /\ UNCHANGED <<job, recovering, answered, counters>>

\* Nothing is left to recover.
Recovered ==
  /\ at = "recover" /\ ~fs.present
  /\ \/ job = {} /\ Goto("idle")
     \/ job /= {} /\ Goto("mkdir")
     \* EXISTING_SECRET, or a .env that cannot be used.
     \/ job /= {} /\ Goto("idle")
  /\ recovering' = FALSE
  /\ UNCHANGED <<job, left, failed, answered, counters>>

\* _stage_all.
Unstaged == {f \in job : Tmp(f) \notin fs.entries}
StagedNext == LET f == Least(Unstaged)
              IN  IF fs.live[f] /= Gone /\ Rollback(f) \notin fs.entries
                  THEN Rollback(f) ELSE Tmp(f)
Stage ==
  /\ \/ /\ at = "mkdir"
        /\ Call([fs EXCEPT !.present = TRUE, !.entries = {},
                           !.run = [no |-> saves, files |-> job, was |-> fs.live]],
                "preparing.tmp")
     \/ at = "preparing.tmp" /\ Call(Add(fs, Mark("PREPARING.tmp")), "preparing")
     \/ at = "preparing" /\ Call(Rename(fs, "PREPARING.tmp", "PREPARING"), "preparing.sync")
     \/ at = "preparing.sync" /\ Sync("file")
     \/ at = "file" /\ Unstaged /= {} /\ Call(Add(fs, StagedNext), "file")
     \/ at = "file" /\ Unstaged = {} /\ Call(Add(fs, Mark("manifest.tmp")), "manifest")
     \/ at = "manifest" /\ Call(Rename(fs, "manifest.tmp", "manifest"), "manifest.sync")
     \/ at = "manifest.sync" /\ Sync("commit")
  /\ left' = job
  /\ UNCHANGED <<job, recovering, failed, answered, counters>>

\* _commit: rename over the old file, or link and unlink.
Committed(s, f) ==
  CASE Existed(s, f)                      -> Remove([s EXCEPT !.live[f] = s.run.no], Tmp(f))
    [] ~Existed(s, f) /\ s.live[f] = Gone -> [s EXCEPT !.live[f] = s.run.no]
    [] OTHER                              -> Remove(s, Tmp(f))

\* Mutant of Commit: COMMITTED is written before the last file.
CommitMarkingEarly ==
  /\ \/ /\ at = "commit" /\ left /= {}
        /\ LET f == Least(left) IN
             /\ Call(Committed(fs, f), "commit")
             /\ left' = IF Tmp(f) \in Committed(fs, f).entries THEN left ELSE left \ {f}
     \/ at = "commit" /\ Cardinality(left) <= 1 /\ Sync("committed.tmp") /\ UNCHANGED left
  /\ UNCHANGED <<job, recovering, failed, answered, counters>>
Commit ==
  /\ \/ /\ at = "commit" /\ left /= {}
        /\ LET f == Least(left) IN
             /\ Call(Committed(fs, f), "commit")
             /\ left' = IF Tmp(f) \in Committed(fs, f).entries THEN left ELSE left \ {f}
     \/ at = "commit" /\ left = {} /\ Sync("committed.tmp") /\ UNCHANGED left
  /\ UNCHANGED <<job, recovering, failed, answered, counters>>

\* _mark_committed: with the rename the save is in force.
MarkCommitted ==
  /\ \/ at = "committed.tmp" /\ Call(Add(fs, Mark("COMMITTED.tmp")), "committed.sync")
     \/ at = "committed.sync" /\ Sync("committed")
     \/ at = "committed" /\ Call(Rename(fs, "COMMITTED.tmp", "COMMITTED"), "committed.synced")
  /\ UNCHANGED <<control, counters>>

\* Mutant of SyncCommitted: the directory is not synchronised.
AcknowledgeCommitted ==
  /\ at = "committed.synced"
  /\ Goto("clean")
  /\ answered' = [no |-> fs.run.no, files |-> fs.run.files]
  /\ UNCHANGED <<job, recovering, left, failed, counters>>

\* The save will be answered ok, and its marker is on disk.
SyncCommitted ==
  /\ at = "committed.synced"
  /\ Sync("clean")
  /\ answered' = [no |-> fs.run.no, files |-> fs.run.files]
  /\ UNCHANGED <<job, recovering, left, failed, counters>>

\* _rollback: in reverse order; a file that is not new is left alone.
Undone(s, f) ==
  CASE New(s, f) /\ Existed(s, f)  -> Remove([s EXCEPT !.live[f] = s.run.was[f]], Rollback(f))
    [] New(s, f) /\ ~Existed(s, f) -> [s EXCEPT !.live[f] = Gone]
    [] OTHER                       -> s
Undoable(s, f) == New(s, f) /\ Existed(s, f) => Rollback(f) \in s.entries

Undo ==
  /\ at = "undo"
  /\ left /= {}
  /\ LET f == Greatest(left) IN
       /\ IF Undoable(fs, f) THEN Call(Undone(fs, f), "undo") ELSE Goto("undo")
       /\ failed' = (failed \/ ~Undoable(fs, f))
       /\ left' = left \ {f}
  /\ UNCHANGED <<job, recovering, answered, counters>>

\* A roll-back that failed keeps its run directory for the next start.
SyncUndone ==
  /\ at = "undo" /\ left = {}
  /\ UNCHANGED fs
  /\ survivors' = {fs}
  /\ at' = IF ~failed /\ KnownUncommitted(fs) THEN "clean"
           ELSE IF job = {} THEN "off" ELSE "idle"
  /\ UNCHANGED <<control, counters>>

\* _cleanup_staging, and the end of the save or of the recovery.
Clean ==
  /\ \/ at = "clean" /\ fs.entries /= {} /\ Call(Remove(fs, FirstToGo(fs)), "clean")
     \/ at \in {"clean", "purge"} /\ fs.entries = {} /\ Call([fs EXCEPT !.present = FALSE], "rmdir.sync")
     \/ at = "rmdir.sync" /\ Sync(IF recovering THEN "recover" ELSE "idle")
  /\ UNCHANGED <<control, counters>>

\* _recover_run_without_manifest: in the order the directory is listed.
Purge ==
  /\ at = "purge"
  /\ \E e \in fs.entries : Call(Remove(fs, e), "purge")
  /\ UNCHANGED <<control, counters>>

Wizard == \/ StartWizard \/ CloseWizard \/ Decide \/ Recovered \/ Stage \/ Commit
          \/ MarkCommitted \/ SyncCommitted \/ Undo \/ SyncUndone \/ Clean \/ Purge

----------------------------------------------------------------------------
\* Failing calls, and what each phase does about them.

\* _stage_all drops what it has staged, unless its marker is not there yet.
DropStaged(s) == Call(s, IF KnownUncommitted(s) THEN "clean" ELSE "idle")
\* _rollback_and_raise.
RollBack(s, attempted) == /\ Call(s, IF ItemsValid(s) THEN "undo" ELSE "idle")
                          /\ left' = attempted
                          /\ failed' = FALSE

StageFails ==
  /\ \/ at = "mkdir" /\ Goto("idle")
     \/ at \in {"preparing.tmp", "preparing.sync", "manifest.sync"}
        /\ DropStaged(fs)
     \/ at = "preparing" /\ DropStaged(Remove(fs, Mark("PREPARING.tmp")))
     \/ at = "manifest" /\ DropStaged(Remove(fs, Mark("manifest.tmp")))
     \* _stage_file drops what it has made of the file itself.
     \/ /\ at = "file"
        /\ DropStaged(IF Unstaged = {} THEN fs ELSE Remove(fs, Rollback(Least(Unstaged))))
  /\ UNCHANGED <<left, failed>>

\* The call itself, or the chmod after it.
CommitFails ==
  \/ /\ at = "commit" /\ left /= {}
     /\ LET f == Least(left) IN
          \E s \in {fs, Committed(fs, f)} : RollBack(s, {g \in job : g <= f})
  \/ at = "commit" /\ left = {} /\ RollBack(fs, job)
  \/ at \in MarkSteps /\ RollBack(Remove(fs, Mark("COMMITTED.tmp")), job)

\* Once COMMITTED is visible no failure rolls back.
SyncCommittedFails == at = "committed.synced" /\ Goto("clean") /\ UNCHANGED <<left, failed>>

UndoFails ==
  /\ failed' = TRUE
  /\ \/ at = "undo" /\ left /= {} /\ left' = left \ {Greatest(left)} /\ Goto("undo")
     \/ at = "undo" /\ left = {} /\ GiveUp /\ UNCHANGED left

CleanFails == at \in CleanSteps /\ GiveUp /\ UNCHANGED <<left, failed>>

CallFails ==
  /\ faults < MaxFaults
  /\ StageFails \/ CommitFails \/ SyncCommittedFails \/ UndoFails \/ CleanFails
  /\ faults' = faults + 1
  /\ UNCHANGED <<job, recovering, answered, saves, edited>>

Stop == /\ at' = "off" /\ job' = {} /\ recovering' = FALSE
        /\ left' = {} /\ failed' = FALSE
        /\ faults' = faults + 1
        /\ UNCHANGED <<answered, saves, edited>>

WizardDies == faults < MaxFaults /\ at /= "off" /\ Stop /\ UNCHANGED <<fs, survivors>>

PowerFails == /\ faults < MaxFaults
              /\ \E s \in survivors : fs' = s /\ survivors' = {s}
              /\ Stop

\* While a run directory is left behind the owner replaces or removes a file.
EditByHand ==
  /\ at = "off" /\ fs.present /\ faults < MaxFaults
  /\ \E f \in Files : \E c \in {Gone, Foreign} \ {fs.live[f]} :
       Call([fs EXCEPT !.live[f] = c], "off")
  /\ faults' = faults + 1 /\ edited' = TRUE
  /\ UNCHANGED <<control, saves>>

SetupNext == Wizard \/ Submit \/ CallFails \/ WizardDies \/ PowerFails \/ EditByHand
SetupSpec == SetupInit /\ [][SetupNext]_setupVars

\* The wizard is started again after it stopped, and a running one goes on.
SetupFairness == WF_setupVars(Wizard)

----------------------------------------------------------------------------
\* The configuration in force: what recovery makes of the files.
Pending(s) == s.present /\ Has(s, "manifest") /\ ~Has(s, "COMMITTED")
InForce(s) == [f \in Files |-> IF Pending(s) /\ f \in s.run.files /\ New(s, f)
                              THEN s.run.was[f] ELSE s.live[f]]

\* The files of the save that is being made: from the moment it is asked for
\* until COMMITTED is written, or it is given up.
SaveIsMade == IF recovering THEN at \notin {"off", "idle"}
                            ELSE at \in StageSteps \cup CommitSteps
Asked == IF SaveIsMade THEN job ELSE {}

SetupPromise == INSTANCE SetupStore
                WITH stored <- InForce(fs), onDisk <- {InForce(s) : s \in survivors},
                     asked <- Asked, count <- saves

\* A save takes effect on all of its files at once, or not at all, and never
\* twice; no failure, crash, roll-back or recovery changes the configuration in
\* between (save, _recover_staging).
ImplementsStore == SetupPromise!Spec

\* A save that was answered, its marker on disk, is never rolled back, whatever
\* fails later (_mark_committed: "no later failure may send the transaction
\* down the rollback path").
AnsweredIsKept ==
  \A s \in survivors, f \in answered.files :
    InForce(s)[f] \in Nat => InForce(s)[f] >= answered.no

\* Recovery and roll-back never remove or replace a file they do not know.
OthersAreKept ==
  [][\A f \in Files : fs.live[f] = Foreign /\ at \notin {"off", "commit"} /\ at' /= "off"
       => fs'.live[f] = Foreign]_setupVars

\* A run directory that lost its marker is never touched again.
Orphaned(s) == s.entries /= {} /\ ~Has(s, "PREPARING")

\* What a run left behind is finished or undone by a later start, unless its
\* marker is missing or its files were changed by hand (ROLLBACK_FAILED: "run
\* the wizard again to recover").
LeftoversAreRecovered == fs.present ~> (~fs.present \/ Orphaned(fs) \/ edited)
===============================================================================
