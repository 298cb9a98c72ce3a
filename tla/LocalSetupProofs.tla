--------------------------- MODULE LocalSetupProofs ---------------------------
(***************************************************************************)
(* What LocalSetup promises for any number of files, saves and faults: the *)
(* configuration in force is that of SetupStore, which only a save, the    *)
(* owner or a power failure changes, and an answered save stays in force.  *)
(*                                                                         *)
(* Both rest on what is true of the run directory before each call of the  *)
(* wizard (CallsInv), and on a save being told from all earlier ones: what *)
(* a file was before a save is never what the save writes (WellFormed).    *)
(* The last part shows that recovery accepts what any failure leaves.      *)
(***************************************************************************)
EXTENDS LocalSetup, WellFoundedInduction, TLAPS

----------------------------------------------------------------------------
\* Judgements on a file system.

\* What a file may hold so far.
Held == 0..saves \cup {Gone, Foreign}

\* No file of a run was before what the run writes.
WellFormed(s) ==
  /\ s.live \in [Files -> Held] /\ s.run.was \in [Files -> Held]
  /\ s.run.no \in 0..saves
  /\ \A f \in s.run.files : s.run.was[f] /= s.run.no

\* Nothing is of the save that is being asked for.
Fresh(s) == \A f \in Files : s.live[f] /= saves /\ s.run.was[f] /= saves

\* Every file of the run is what it was; none is new; all are.
AsBefore(s) == \A f \in s.run.files : s.live[f] = s.run.was[f]
NoneNew(s) == \A f \in s.run.files : ~New(s, f)
AllNew(s) == \A f \in s.run.files : New(s, f)

\* Commit has reached the files that are not left, and at most the first of left.
Reached(s) ==
  /\ \A f \in job \ left : New(s, f) /\ \A g \in left : f < g
  /\ \A f, g \in left : f < g => ~New(s, g)

\* Calls before the manifest, and all calls on the run of a save.
Staging == {"preparing.tmp", "preparing", "preparing.sync", "file", "manifest"}
Saving == Staging \cup {"manifest.sync", "committed.synced"} \cup CommitSteps

----------------------------------------------------------------------------
\* The invariant.

DiskInv ==
  /\ fs \in survivors
  /\ \A s \in survivors : s \in FileSystem /\ WellFormed(s)

WizardInv ==
  /\ at \in Steps
  /\ job \subseteq Files /\ left \subseteq Files
  /\ recovering \in BOOLEAN /\ failed \in BOOLEAN
  /\ answered \in [no : 0..saves, files : SUBSET Files]
  /\ saves \in 0..MaxSaves /\ faults \in 0..MaxFaults /\ edited \in BOOLEAN

\* A save that still has to recover has written nothing.
FreshInv == recovering /\ job /= {} => Fresh(fs)

\* What is true of the run directory before each call.
CallsInv ==
  /\ at = "recover" => recovering
  /\ at = "mkdir" => ~recovering /\ ~fs.present /\ Fresh(fs)
  /\ at \in Saving => /\ ~recovering /\ fs.present
                      /\ fs.run.files = job /\ fs.run.no = saves
  /\ at \in Staging => ~Has(fs, "manifest") /\ ~Has(fs, "COMMITTED") /\ AsBefore(fs)
  /\ at = "manifest.sync" => Pending(fs) /\ AsBefore(fs)
  /\ at = "commit" => Pending(fs) /\ ItemsValid(fs) /\ left \subseteq job /\ Reached(fs)
  /\ at \in MarkSteps => Pending(fs) /\ AllNew(fs)
  /\ at = "committed.synced" => Has(fs, "COMMITTED") /\ AllNew(fs)
  /\ at = "undo" => /\ Pending(fs) /\ left \subseteq fs.run.files
                    /\ ~failed => \A f \in fs.run.files \ left : ~New(fs, f)
  /\ at = "clean" => (Pending(fs) => NoneNew(fs))
  /\ at = "purge" => ~Has(fs, "manifest")

StateInv == DiskInv /\ WizardInv /\ FreshInv /\ CallsInv
IInv == StateInv /\ AnsweredIsKept

----------------------------------------------------------------------------
\* Firsts and lasts.

LessThan == {pair \in Nat \X Nat : pair[1] < pair[2]}

LEMMA LeastNat ==
  ASSUME NEW S \in SUBSET Nat, S /= {}
  PROVE  \E m \in S : \A n \in S : m <= n
<1>1. IsWellFoundedOn(LessThan, Nat) BY NatLessThanWellFounded DEF OpToRel, LessThan
<1>2. PICK m \in S : \A n \in S : ~(<<n, m>> \in LessThan)
  BY <1>1, WFMin
<1>3. ASSUME NEW n \in S PROVE m <= n
  <2>1. <<n, m>> \notin LessThan BY <1>2
  <2>2. ~(n < m) BY <2>1 DEF LessThan
  <2> QED BY <2>2
<1> QED BY <1>3

LEMMA LeastIsLeast ==
  ASSUME NEW S \in SUBSET Files, S /= {}
  PROVE  Least(S) \in S /\ \A g \in S : Least(S) <= g
<1>1. S \in SUBSET Nat BY FilesAssumption DEF Files
<1>2. \E f \in S : \A g \in S : f <= g BY <1>1, LeastNat
<1> QED BY <1>2 DEF Least

\* The greatest file is the one with the fewest after it.
LEMMA GreatestIsGreatest ==
  ASSUME NEW S \in SUBSET Files, S /= {}
  PROVE  Greatest(S) \in S /\ \A g \in S : g <= Greatest(S)
<1> DEFINE after == {NFiles - f : f \in S}
<1>1. \A f \in S : NFiles - f \in Nat BY FilesAssumption DEF Files
<1>2. after \in SUBSET Nat /\ after /= {} BY <1>1
<1>3. PICK m \in after : \A n \in after : m <= n
  <2> HIDE DEF after
  <2> QED BY <1>2, LeastNat
<1>4. PICK f \in S : m = NFiles - f OBVIOUS
<1>5. ASSUME NEW g \in S PROVE g <= f
  <2>1. NFiles - f <= NFiles - g BY <1>3, <1>4
  <2> QED BY <2>1, FilesAssumption DEF Files
<1> QED BY <1>5 DEF Greatest

\* The place of an entry in the order of clean-up.
Place(e) == IF e[2] = 0 THEN 2 * NFiles + 2 + CleanRank[e[1]]
            ELSE IF e[1] = "tmp" THEN 2 * e[2] ELSE 2 * e[2] + 1

LEMMA EntryKinds ==
  ASSUME NEW e \in Entries
  PROVE  \/ e[1] \in Markers /\ e[2] = 0 /\ CleanRank[e[1]] \in 1..6 /\ e = <<e[1], 0>>
         \/ e[1] \in {"tmp", "rollback"} /\ e[2] \in Files /\ e = <<e[1], e[2]>>
<1>1. CASE \E name \in Markers : e = Mark(name)
  <2>1. PICK name \in Markers : e = Mark(name) BY <1>1
  <2>2. CleanRank[name] \in 1..6 BY DEF CleanRank, Markers
  <2>3. e[1] = name /\ e[2] = 0 BY <2>1 DEF Mark
  <2> QED BY <2>1, <2>2, <2>3 DEF Mark
<1>2. CASE \E f \in Files : e = Tmp(f) \/ e = Rollback(f)
  BY <1>2 DEF Tmp, Rollback
<1> QED BY <1>1, <1>2 DEF Entries

LEMMA PlaceIsUnique ==
  ASSUME NEW e \in Entries
  PROVE  /\ Place(e) \in Nat
         /\ \A d \in Entries \ {e} : Place(d) /= Place(e)
         /\ \A d \in Entries \ {e} : Place(e) < Place(d) => Before(e, d)
<1>1. \A f \in Files : f \in Nat /\ 1 <= f /\ f <= NFiles BY FilesAssumption DEF Files
<1>2. \A n, m \in Markers : CleanRank[n] = CleanRank[m] => n = m BY DEF CleanRank, Markers
<1>3. Place(e) \in Nat BY EntryKinds, <1>1, FilesAssumption DEF Place
<1>4. ASSUME NEW d \in Entries, d /= e
      PROVE  Place(d) /= Place(e) /\ (Place(e) < Place(d) => Before(e, d))
  <2>1. CASE e[2] = 0 /\ d[2] = 0
    <3>1. /\ e[1] \in Markers /\ d[1] \in Markers /\ e[1] /= d[1]
          /\ CleanRank[e[1]] \in 1..6 /\ CleanRank[d[1]] \in 1..6
      BY <2>1, <1>4, EntryKinds, <1>1
    <3>2. CleanRank[e[1]] /= CleanRank[d[1]] BY <3>1, <1>2
    <3>3. /\ Place(e) = 2 * NFiles + 2 + CleanRank[e[1]]
          /\ Place(d) = 2 * NFiles + 2 + CleanRank[d[1]]
      BY <2>1 DEF Place
    <3> QED BY <2>1, <3>1, <3>2, <3>3, FilesAssumption DEF Before
  <2>2. CASE e[2] = 0 /\ d[2] /= 0
    <3>1. CleanRank[e[1]] \in 1..6 /\ d[2] \in Files BY <2>2, EntryKinds, <1>1
    <3> QED BY <2>2, <3>1, <1>1, FilesAssumption DEF Place
  <2>3. CASE e[2] /= 0 /\ d[2] = 0
    <3>1. CleanRank[d[1]] \in 1..6 /\ e[2] \in Files BY <2>3, EntryKinds, <1>1
    <3> QED BY <2>3, <3>1, <1>1, FilesAssumption DEF Place, Before
  <2>4. CASE e[2] /= 0 /\ d[2] /= 0
    <3>1. /\ e[1] \in {"tmp", "rollback"} /\ e[2] \in Files /\ e = <<e[1], e[2]>>
          /\ d[1] \in {"tmp", "rollback"} /\ d[2] \in Files /\ d = <<d[1], d[2]>>
      BY <2>4, EntryKinds
    <3>2. e[1] /= d[1] \/ e[2] /= d[2] BY <3>1, <1>4
    <3> HIDE DEF Files
    <3>3. CASE e[2] = d[2] BY <2>4, <3>1, <3>2, <3>3, <1>1 DEF Place, Before
    <3>4. CASE e[2] /= d[2] BY <2>4, <3>1, <3>4, <1>1 DEF Place, Before
    <3> QED BY <3>3, <3>4
  <2> QED BY <2>1, <2>2, <2>3, <2>4
<1> QED BY <1>3, <1>4

\* Clean-up always has a next entry, and never takes COMMITTED before manifest.
LEMMA FirstToGoIsFirst ==
  ASSUME NEW s, s.entries \in SUBSET Entries, s.entries /= {}
  PROVE  /\ FirstToGo(s) \in s.entries
         /\ \A d \in s.entries \ {FirstToGo(s)} : Before(FirstToGo(s), d)
         /\ Has(s, "manifest") => FirstToGo(s) /= Mark("COMMITTED")
<1> DEFINE places == {Place(e) : e \in s.entries}
<1>1. places \in SUBSET Nat /\ places /= {} BY PlaceIsUnique
<1>2. PICK m \in places : \A n \in places : m <= n
  <2> HIDE DEF places
  <2> QED BY <1>1, LeastNat
<1>3. PICK e \in s.entries : m = Place(e) OBVIOUS
<1>4. ASSUME NEW d \in s.entries \ {e} PROVE Before(e, d)
  <2>1. Place(e) <= Place(d) BY <1>2, <1>3
  <2>2. Place(e) \in Nat /\ Place(d) \in Nat /\ Place(d) /= Place(e) BY PlaceIsUnique
  <2>3. Place(e) < Place(d) BY <2>1, <2>2
  <2> QED BY <2>3, PlaceIsUnique
<1>5. /\ FirstToGo(s) \in s.entries
      /\ \A d \in s.entries \ {FirstToGo(s)} : Before(FirstToGo(s), d)
  BY <1>4 DEF FirstToGo
<1>6. ASSUME Has(s, "manifest"), FirstToGo(s) = Mark("COMMITTED") PROVE FALSE
  <2>1. Before(Mark("COMMITTED"), Mark("manifest")) BY <1>5, <1>6 DEF Has, Mark
  <2>2. CleanRank["COMMITTED"] = 4 /\ CleanRank["manifest"] = 3 BY DEF CleanRank, Markers
  <2> QED BY <2>1, <2>2 DEF Before, Mark
<1> QED BY <1>5, <1>6

----------------------------------------------------------------------------
\* Changes of a file system.

LEMMA Added ==
  ASSUME NEW s \in FileSystem, NEW e \in Entries
  PROVE  /\ Add(s, e) \in FileSystem
         /\ Add(s, e).live = s.live /\ Add(s, e).run = s.run
         /\ Add(s, e).present = s.present /\ Add(s, e).entries = s.entries \cup {e}
BY DEF Add, FileSystem

LEMMA Removed ==
  ASSUME NEW s \in FileSystem, NEW e
  PROVE  /\ Remove(s, e) \in FileSystem
         /\ Remove(s, e).live = s.live /\ Remove(s, e).run = s.run
         /\ Remove(s, e).present = s.present /\ Remove(s, e).entries = s.entries \ {e}
BY DEF Remove, FileSystem

LEMMA Renamed ==
  ASSUME NEW s \in FileSystem, NEW from, NEW to \in Markers
  PROVE  /\ Rename(s, from, to) \in FileSystem
         /\ Rename(s, from, to).live = s.live /\ Rename(s, from, to).run = s.run
         /\ Rename(s, from, to).present = s.present
         /\ Rename(s, from, to).entries = (s.entries \ {Mark(from)}) \cup {Mark(to)}
<1>1. Remove(s, Mark(from)) \in FileSystem BY Removed
<1>2. Mark(to) \in Entries BY DEF Entries
<1> QED BY <1>1, <1>2, Removed, Added DEF Rename

LEMMA Replaced ==
  ASSUME NEW s \in FileSystem, NEW f \in Files, NEW c \in Contents
  PROVE  LET t == [s EXCEPT !.live[f] = c]
         IN  /\ t \in FileSystem
             /\ t.live = [s.live EXCEPT ![f] = c] /\ t.live[f] = c
             /\ \A g \in Files \ {f} : t.live[g] = s.live[g]
             /\ t.run = s.run /\ t.present = s.present /\ t.entries = s.entries
BY DEF FileSystem

LEMMA Made ==
  ASSUME NEW s \in FileSystem, NEW r \in Run
  PROVE  LET t == [s EXCEPT !.present = TRUE, !.entries = {}, !.run = r]
         IN  /\ t \in FileSystem
             /\ t.live = s.live /\ t.run = r /\ t.present /\ t.entries = {}
<1> DEFINE t1 == [s EXCEPT !.present = TRUE]
           t2 == [t1 EXCEPT !.entries = {}]
           t3 == [t2 EXCEPT !.run = r]
<1>1. t1 \in FileSystem /\ t1.live = s.live /\ t1.present BY DEF FileSystem
<1>2. /\ t2 \in FileSystem /\ t2.live = s.live /\ t2.present /\ t2.entries = {}
  <2> HIDE DEF t1
  <2> QED BY <1>1 DEF FileSystem
<1>3. /\ t3 \in FileSystem /\ t3.live = s.live /\ t3.present /\ t3.entries = {}
      /\ t3.run = r
  <2> HIDE DEF t2
  <2> QED BY <1>2 DEF FileSystem
<1>4. t3 = [s EXCEPT !.present = TRUE, !.entries = {}, !.run = r]
  BY DEF FileSystem
<1> HIDE DEF t3
<1> QED BY <1>3, <1>4

\* A file is not a marker, and a marker is only itself.
LEMMA MarksDiffer ==
  /\ \A name \in Markers : Mark(name) \in Entries
  /\ \A f \in Files : Tmp(f) \in Entries /\ Rollback(f) \in Entries
  /\ \A f : Tmp(f) /= Mark("manifest") /\ Rollback(f) /= Mark("manifest")
  /\ \A f : Tmp(f) /= Mark("COMMITTED") /\ Rollback(f) /= Mark("COMMITTED")
  /\ \A m, n : Mark(m) = Mark(n) <=> m = n
BY DEF Mark, Markers, Tmp, Rollback, Entries

----------------------------------------------------------------------------
\* The configuration in force.

\* A marker only matters where a file is new.
LEMMA SameForce ==
  ASSUME NEW s, NEW t, t.live = s.live, t.run = s.run,
         Pending(t) = Pending(s) \/ NoneNew(s)
  PROVE  InForce(t) = InForce(s)
BY DEF InForce, NoneNew, New

\* Before the marker COMMITTED, replacing a file does not count ...
LEMMA ReplacingDoesNotCount ==
  ASSUME NEW s \in FileSystem, NEW t \in FileSystem, NEW f \in s.run.files,
         Pending(s), Pending(t), t.run = s.run,
         \A g \in Files \ {f} : t.live[g] = s.live[g],
         New(s, f) \/ s.live[f] = s.run.was[f],
         New(t, f) \/ t.live[f] = s.run.was[f]
  PROVE  InForce(t) = InForce(s)
<1>1. ASSUME NEW g \in Files PROVE InForce(t)[g] = InForce(s)[g]
  <2>1. CASE g = f BY <2>1, <1>1 DEF InForce, New
  <2>2. CASE g /= f
    <3>1. t.live[g] = s.live[g] BY <2>2
    <3> QED BY <3>1 DEF InForce, New
  <2> QED BY <2>1, <2>2
<1> QED BY <1>1 DEF InForce

\* ... and with it all files of the run count at once.
LEMMA MarkCounts ==
  ASSUME NEW s, NEW t, t.live = s.live, t.run = s.run,
         AllNew(s), ~Pending(t)
  PROVE  InForce(t) = [f \in Files |-> IF f \in s.run.files THEN s.run.no
                                       ELSE InForce(s)[f]]
BY DEF InForce, AllNew, New

----------------------------------------------------------------------------
\* What a step may do to the file system, as SetupStore has it, and what no
\* step does.

Quiet == InForce(fs') = InForce(fs) /\ survivors' = survivors \cup {fs'}
Takes ==
  /\ at = "committed" /\ at' = "committed.synced" /\ UNCHANGED <<job, recovering>>
  /\ InForce(fs') = [f \in Files |-> IF f \in fs.run.files THEN saves ELSE InForce(fs)[f]]
  /\ survivors' = survivors \cup {fs'}
Edits ==
  /\ at = "off" /\ at' = "off"
  /\ \E f \in Files, c \in {Gone, Foreign} :
       InForce(fs') = [InForce(fs) EXCEPT ![f] = c]
  /\ survivors' = survivors \cup {fs'}
Settles == fs' = fs /\ survivors' = {fs}
Rewinds == fs' \in survivors /\ survivors' = {fs'} /\ at' = "off"

Answers == /\ answered' = [no |-> fs.run.no, files |-> fs.run.files]
           /\ Settles /\ at = "committed.synced"

OthersStay == \A f \in Files :
  fs.live[f] = Foreign /\ at \notin {"off", "commit"} /\ at' /= "off"
    => fs'.live[f] = Foreign

Moves == /\ Quiet \/ Takes \/ Edits \/ Settles \/ Rewinds
         /\ answered' = answered \/ Answers
         /\ saves' \in {saves, saves + 1}
         /\ OthersStay

\* A call that leaves the files and the record of the run as they are.
SameFiles ==
  /\ fs' \in FileSystem /\ fs'.live = fs.live /\ fs'.run = fs.run
  /\ survivors' = survivors \cup {fs'} \/ survivors' = {fs'}
  /\ saves' = saves

LEMMA SameFilesKept ==
  ASSUME StateInv, SameFiles
  PROVE  /\ DiskInv' /\ OthersStay
         /\ Fresh(fs)' = Fresh(fs) /\ AsBefore(fs)' = AsBefore(fs)
         /\ NoneNew(fs)' = NoneNew(fs) /\ AllNew(fs)' = AllNew(fs)
<1>1. fs \in FileSystem /\ WellFormed(fs) BY DEF StateInv, DiskInv
<1>2. WellFormed(fs)' BY <1>1 DEF SameFiles, WellFormed, Held
<1>3. \A s \in survivors : WellFormed(s)'
  BY DEF StateInv, DiskInv, SameFiles, WellFormed, Held
<1>4. DiskInv' BY <1>2, <1>3 DEF StateInv, DiskInv, SameFiles
<1>5. OthersStay BY DEF OthersStay, SameFiles
<1>6. /\ Fresh(fs)' = Fresh(fs) /\ AsBefore(fs)' = AsBefore(fs)
      /\ NoneNew(fs)' = NoneNew(fs) /\ AllNew(fs)' = AllNew(fs)
  BY DEF SameFiles, Fresh, AsBefore, NoneNew, AllNew, New
<1> QED BY <1>4, <1>5, <1>6

\* Where no file is new, or the markers that count stay, nothing is noticed.
LEMMA SameFilesAreQuiet ==
  ASSUME StateInv, SameFiles, survivors' = survivors \cup {fs'},
         Pending(fs)' = Pending(fs) \/ NoneNew(fs) \/ AsBefore(fs)
  PROVE  Quiet
<1>1. WellFormed(fs) BY DEF StateInv, DiskInv
<1>2. AsBefore(fs) => NoneNew(fs) BY <1>1 DEF AsBefore, NoneNew, New, WellFormed
<1>3. Pending(fs)' = Pending(fs') BY DEF Pending, Has
<1> QED BY <1>2, <1>3, SameForce DEF SameFiles, Quiet

\* A step that leaves the disk alone.
LEMMA StillDisk ==
  ASSUME StateInv, UNCHANGED <<fs, survivors, saves>>
  PROVE  SameFiles /\ Quiet /\ DiskInv' /\ OthersStay
<1>1. fs \in FileSystem /\ fs \in survivors BY DEF StateInv, DiskInv
<1>2. SameFiles BY <1>1 DEF SameFiles
<1>3. Quiet BY <1>1 DEF Quiet
<1> QED BY <1>2, <1>3, SameFilesKept

\* Synchronising a directory.
LEMMA Synced ==
  ASSUME StateInv, survivors' = {fs}, UNCHANGED <<fs, saves>>
  PROVE  SameFiles /\ Settles /\ DiskInv' /\ OthersStay
<1>1. fs \in FileSystem BY DEF StateInv, DiskInv
<1>2. SameFiles BY <1>1 DEF SameFiles
<1>3. Settles BY DEF Settles
<1> QED BY <1>2, <1>3, SameFilesKept

----------------------------------------------------------------------------
\* One lemma per action.

\* The entries that staging makes.
LEMMA StagedNextIsEntry ==
  ASSUME WizardInv, Unstaged /= {}
  PROVE  StagedNext \in {Tmp(f) : f \in Files} \cup {Rollback(f) : f \in Files}
<1>1. Unstaged \in SUBSET Files BY DEF WizardInv, Unstaged
<1>2. Least(Unstaged) \in Files BY <1>1, LeastIsLeast
<1> QED BY <1>2 DEF StagedNext

LEMMA MkdirStep ==
  ASSUME StateInv, at = "mkdir", left' = job,
         UNCHANGED <<job, recovering, failed, answered, counters>>,
         Call([fs EXCEPT !.present = TRUE, !.entries = {},
                         !.run = [no |-> saves, files |-> job, was |-> fs.live]],
              "preparing.tmp")
  PROVE  StateInv' /\ Moves
<1> DEFINE r == [no |-> saves, files |-> job, was |-> fs.live]
<1>1. /\ fs \in FileSystem /\ WellFormed(fs) /\ Fresh(fs) /\ ~fs.present /\ ~recovering
      /\ WizardInv
  BY DEF StateInv, DiskInv, CallsInv
<1>2. r \in Run /\ r.no = saves /\ r.files = job /\ r.was = fs.live
  BY <1>1 DEF Run, WizardInv, FileSystem
<1>3. /\ fs' \in FileSystem /\ fs'.live = fs.live /\ fs'.run = r /\ fs'.present
      /\ fs'.entries = {}
  <2> HIDE DEF r
  <2>1. fs' = [fs EXCEPT !.present = TRUE, !.entries = {}, !.run = r] BY DEF Call, r
  <2> QED BY <1>1, <1>2, <2>1, Made
<1>4. survivors' = survivors \cup {fs'} /\ at' = "preparing.tmp" BY DEF Call
<1> HIDE DEF r
<1>5. WellFormed(fs)'
  <2>1. saves \in 0..saves BY <1>1, BoundsAssumption DEF WizardInv
  <2> QED BY <1>1, <1>2, <1>3, <2>1 DEF WellFormed, Held, counters, Fresh, WizardInv
<1>6. \A s \in survivors : WellFormed(s)'
  BY DEF StateInv, DiskInv, WellFormed, Held, counters
<1>7. DiskInv' BY <1>3, <1>4, <1>5, <1>6 DEF StateInv, DiskInv
<1>8. WizardInv' BY <1>1, <1>4 DEF WizardInv, Steps, StageSteps, counters
<1>9. FreshInv' BY <1>1 DEF FreshInv
<1>10. CallsInv'
  <2>1. ~Has(fs, "manifest")' /\ ~Has(fs, "COMMITTED")' BY <1>3 DEF Has
  <2>2. AsBefore(fs)' BY <1>2, <1>3 DEF AsBefore
  <2> QED BY <1>1, <1>2, <1>3, <1>4, <2>1, <2>2
      DEF CallsInv, Saving, Staging, MarkSteps, counters
<1>11. Quiet
  <2>1. ~Pending(fs) /\ ~Pending(fs') BY <1>1, <1>3 DEF Pending, Has
  <2> QED BY <1>3, <1>4, <2>1 DEF Quiet, InForce
<1>12. OthersStay BY <1>3 DEF OthersStay
<1> QED BY <1>7, <1>8, <1>9, <1>10, <1>11, <1>12 DEF StateInv, Moves, counters

LEMMA StageStep ==
  ASSUME StateInv, Stage
  PROVE  StateInv' /\ Moves
<1> DEFINE rest == left' = job /\ UNCHANGED <<job, recovering, failed, answered, counters>>
<1>0. /\ rest /\ saves' = saves /\ answered' = answered
      /\ fs \in FileSystem /\ fs \in survivors /\ WizardInv /\ CallsInv
  BY DEF Stage, StateInv, DiskInv, counters
\* From mkdir on, every step of staging is of this kind.
<1>1. ASSUME SameFiles, Quiet \/ Settles, at \in Saving,
             fs'.present = fs.present, AsBefore(fs),
             \/ at' \in Staging /\ ~Has(fs, "manifest")' /\ ~Has(fs, "COMMITTED")'
             \/ at' = "manifest.sync" /\ Pending(fs)'
             \/ at' = "commit" /\ Pending(fs)'
      PROVE  StateInv' /\ Moves
  <2>1. DiskInv' /\ OthersStay /\ AsBefore(fs)' BY <1>1, SameFilesKept
  <2>2. WizardInv'
    BY <1>0, <1>1 DEF WizardInv, Staging, Steps, StageSteps, CommitSteps, counters
  <2>3. ~recovering BY <1>0, <1>1 DEF CallsInv
  <2>4. FreshInv' BY <1>0, <2>3 DEF FreshInv
  <2>5. at' = "commit" => ItemsValid(fs)' /\ Reached(fs)'
    <3>1. WellFormed(fs)' BY <2>1 DEF DiskInv
    <3>2. \A f \in fs'.run.files : fs'.live[f] = fs'.run.was[f] /\ fs'.live[f] /= fs'.run.no
      BY <2>1, <3>1 DEF AsBefore, WellFormed
    <3>3. fs'.run.files = job /\ left' = job /\ job' = job
      BY <1>0, <1>1 DEF CallsInv, SameFiles
    <3> QED BY <3>2, <3>3 DEF ItemsValid, Reached, New
  <2>6. /\ ~recovering' /\ fs'.present /\ fs'.run.files = job' /\ fs'.run.no = saves'
        /\ left' = job'
    BY <1>0, <1>1, <2>3 DEF CallsInv, SameFiles
  <2>7. CallsInv'
    BY <1>1, <2>1, <2>5, <2>6 DEF CallsInv, Staging, MarkSteps
  <2> QED BY <1>0, <1>1, <2>1, <2>2, <2>4, <2>7 DEF StateInv, Moves
<1>2. CASE at = "mkdir"
  BY <1>0, <1>2, MkdirStep DEF Stage
\* Adding, or renaming to, an entry that is not a marker that counts.
<1>3. ASSUME at \in Staging, at' \in Staging, survivors' = survivors \cup {fs'},
             NEW e \in Entries \ {Mark("manifest"), Mark("COMMITTED")}, NEW old,
             fs' \in FileSystem, fs'.live = fs.live, fs'.run = fs.run,
             fs'.present = fs.present, fs'.entries = (fs.entries \ old) \cup {e}
      PROVE  StateInv' /\ Moves
  <2>1. SameFiles BY <1>0, <1>3 DEF SameFiles
  <2>2. /\ ~Has(fs, "manifest") /\ ~Has(fs, "COMMITTED") /\ AsBefore(fs)
    BY <1>0, <1>3 DEF CallsInv
  <2>3. ~Has(fs, "manifest")' /\ ~Has(fs, "COMMITTED")' BY <1>3, <2>2 DEF Has
  <2>4. Quiet BY <1>3, <2>1, <2>2, SameFilesAreQuiet
  <2> QED BY <1>1, <1>3, <2>1, <2>2, <2>3, <2>4 DEF Saving
<1>4. CASE at = "preparing.tmp"
  <2>1. /\ fs' = Add(fs, Mark("PREPARING.tmp")) /\ at' = "preparing"
        /\ survivors' = survivors \cup {fs'}
    BY <1>4 DEF Stage, Call
  <2>2. Mark("PREPARING.tmp") \in Entries \ {Mark("manifest"), Mark("COMMITTED")}
    BY MarksDiffer DEF Markers
  <2>3. /\ fs' \in FileSystem /\ fs'.live = fs.live /\ fs'.run = fs.run
        /\ fs'.present = fs.present
        /\ fs'.entries = (fs.entries \ {}) \cup {Mark("PREPARING.tmp")}
    BY <1>0, <2>1, <2>2, Added
  <2> QED BY <1>3, <1>4, <2>1, <2>2, <2>3 DEF Staging
<1>5. CASE at = "preparing"
  <2>1. /\ fs' = Rename(fs, "PREPARING.tmp", "PREPARING") /\ at' = "preparing.sync"
        /\ survivors' = survivors \cup {fs'}
    BY <1>5 DEF Stage, Call
  <2>2. Mark("PREPARING") \in Entries \ {Mark("manifest"), Mark("COMMITTED")}
    BY MarksDiffer DEF Markers
  <2>3. /\ fs' \in FileSystem /\ fs'.live = fs.live /\ fs'.run = fs.run
        /\ fs'.present = fs.present
        /\ fs'.entries = (fs.entries \ {Mark("PREPARING.tmp")}) \cup {Mark("PREPARING")}
    BY <1>0, <2>1, Renamed DEF Markers
  <2> QED BY <1>3, <1>5, <2>1, <2>2, <2>3 DEF Staging
<1>6. CASE at = "preparing.sync"
  <2>1. survivors' = {fs} /\ at' = "file" /\ UNCHANGED <<fs, saves>>
    BY <1>0, <1>6 DEF Stage, Sync
  <2>2. SameFiles /\ Settles BY <2>1, Synced
  <2>3. /\ AsBefore(fs) /\ ~Has(fs, "manifest")' /\ ~Has(fs, "COMMITTED")'
    BY <1>0, <1>6, <2>1 DEF CallsInv, Staging, Has
  <2> QED BY <1>1, <1>6, <2>1, <2>2, <2>3 DEF Staging, Saving
<1>7. CASE at = "file" /\ Unstaged /= {}
  <2>1. fs' = Add(fs, StagedNext) /\ at' = "file" /\ survivors' = survivors \cup {fs'}
    BY <1>7 DEF Stage, Call
  <2>2. StagedNext \in Entries \ {Mark("manifest"), Mark("COMMITTED")}
    BY <1>0, <1>7, StagedNextIsEntry, MarksDiffer
  <2>3. /\ fs' \in FileSystem /\ fs'.live = fs.live /\ fs'.run = fs.run
        /\ fs'.present = fs.present
        /\ fs'.entries = (fs.entries \ {}) \cup {StagedNext}
    BY <1>0, <2>1, <2>2, Added
  <2> QED BY <1>3, <1>7, <2>1, <2>2, <2>3 DEF Staging
<1>8. CASE at = "file" /\ Unstaged = {}
  <2>1. /\ fs' = Add(fs, Mark("manifest.tmp")) /\ at' = "manifest"
        /\ survivors' = survivors \cup {fs'}
    BY <1>8 DEF Stage, Call
  <2>2. Mark("manifest.tmp") \in Entries \ {Mark("manifest"), Mark("COMMITTED")}
    BY MarksDiffer DEF Markers
  <2>3. /\ fs' \in FileSystem /\ fs'.live = fs.live /\ fs'.run = fs.run
        /\ fs'.present = fs.present
        /\ fs'.entries = (fs.entries \ {}) \cup {Mark("manifest.tmp")}
    BY <1>0, <2>1, <2>2, Added
  <2> QED BY <1>3, <1>8, <2>1, <2>2, <2>3 DEF Staging
<1>9. CASE at = "manifest"
  <2>1. /\ fs' = Rename(fs, "manifest.tmp", "manifest") /\ at' = "manifest.sync"
        /\ survivors' = survivors \cup {fs'}
    BY <1>9 DEF Stage, Call
  <2>2. /\ fs' \in FileSystem /\ fs'.live = fs.live /\ fs'.run = fs.run
        /\ fs'.present = fs.present
        /\ fs'.entries = (fs.entries \ {Mark("manifest.tmp")}) \cup {Mark("manifest")}
    BY <1>0, <2>1, Renamed DEF Markers
  <2>3. SameFiles BY <1>0, <2>1, <2>2 DEF SameFiles
  <2>4. AsBefore(fs) /\ fs.present /\ ~Has(fs, "COMMITTED")
    BY <1>0, <1>9 DEF CallsInv, Staging, Saving
  <2>5. Pending(fs)'
    <3>1. Mark("manifest") /= Mark("COMMITTED") BY MarksDiffer
    <3> QED BY <2>2, <2>4, <3>1 DEF Pending, Has
  <2>6. Quiet BY <2>1, <2>3, <2>4, SameFilesAreQuiet
  <2> QED BY <1>1, <1>9, <2>1, <2>2, <2>3, <2>4, <2>5, <2>6 DEF Staging, Saving
<1>10. CASE at = "manifest.sync"
  <2>1. survivors' = {fs} /\ at' = "commit" /\ UNCHANGED <<fs, saves>>
    BY <1>0, <1>10 DEF Stage, Sync
  <2>2. SameFiles /\ Settles BY <2>1, Synced
  <2>3. AsBefore(fs) /\ Pending(fs)'
    BY <1>0, <1>10, <2>1 DEF CallsInv, Pending, Has
  <2> QED BY <1>1, <1>10, <2>1, <2>2, <2>3 DEF Saving
<1> QED BY <1>2, <1>4, <1>5, <1>6, <1>7, <1>8, <1>9, <1>10 DEF Stage

\* One file committed: it is new, and nobody notices yet.
LEMMA CommittedIsNew ==
  ASSUME NEW f \in fs.run.files, fs \in FileSystem, WellFormed(fs), Pending(fs),
         ItemsValid(fs), WizardInv
  PROVE  LET t == Committed(fs, f)
         IN  /\ t \in FileSystem /\ WellFormed(t)
             /\ t.run = fs.run /\ t.present = fs.present
             /\ New(t, f) /\ \A g \in Files \ {f} : t.live[g] = fs.live[g]
             /\ Pending(t) /\ ItemsValid(t) /\ InForce(t) = InForce(fs)
<1> DEFINE t == Committed(fs, f)
           u == [fs EXCEPT !.live[f] = fs.run.no]
<1>1. f \in Files /\ fs.run.no \in Contents /\ fs.run.no \in Held /\ fs.run.files \subseteq Files
  BY DEF FileSystem, Run, Contents, WellFormed, Held
<1>2. /\ u \in FileSystem /\ u.live[f] = fs.run.no
      /\ u.live = [fs.live EXCEPT ![f] = fs.run.no]
      /\ \A g \in Files \ {f} : u.live[g] = fs.live[g]
      /\ u.run = fs.run /\ u.present = fs.present /\ u.entries = fs.entries
  BY <1>1, Replaced
<1> HIDE DEF u
<1>3. \/ Existed(fs, f) /\ t = Remove(u, Tmp(f))
      \/ ~Existed(fs, f) /\ fs.live[f] = Gone /\ t = u
      \/ ~Existed(fs, f) /\ fs.live[f] /= Gone /\ t = Remove(fs, Tmp(f))
  <2>1. CASE Existed(fs, f) BY <2>1 DEF Committed, u
  <2>2. CASE ~Existed(fs, f) /\ fs.live[f] = Gone BY <2>2 DEF Committed, u
  <2>3. CASE ~Existed(fs, f) /\ fs.live[f] /= Gone BY <2>3 DEF Committed, u
  <2> QED BY <2>1, <2>2, <2>3
<1> HIDE DEF t
<1>4. /\ t \in FileSystem /\ t.run = fs.run /\ t.present = fs.present
      /\ t.live[f] = fs.run.no /\ \A g \in Files \ {f} : t.live[g] = fs.live[g]
      /\ t.live = fs.live \/ t.live = u.live
      /\ t.entries = fs.entries \/ t.entries = fs.entries \ {Tmp(f)}
  <2>1. CASE Existed(fs, f) /\ t = Remove(u, Tmp(f))
    <3>1. /\ t \in FileSystem /\ t.live = u.live /\ t.run = u.run
          /\ t.present = u.present /\ t.entries = u.entries \ {Tmp(f)}
      BY <2>1, <1>2, Removed
    <3> QED BY <3>1, <1>2
  <2>2. CASE t = u BY <2>2, <1>2
  <2>3. CASE ~Existed(fs, f) /\ fs.live[f] /= Gone /\ t = Remove(fs, Tmp(f))
    <3>1. fs.live[f] = fs.run.no BY <2>3 DEF ItemsValid, New, Existed
    <3> QED BY <2>3, <3>1, Removed
  <2> QED BY <1>3, <2>1, <2>2, <2>3
<1>5. WellFormed(t)
  <2>1. fs.live \in [Files -> Held] BY DEF WellFormed
  <2>2. u.live \in [Files -> Held] BY <1>1, <1>2, <2>1
  <2> QED BY <1>4, <2>1, <2>2 DEF WellFormed
<1>6. New(t, f) BY <1>4 DEF New
<1>7. Pending(t)
  <2>1. Tmp(f) /= Mark("manifest") BY MarksDiffer
  <2> QED BY <1>4, <2>1 DEF Pending, Has
<1>8. ItemsValid(t)
  <2>1. ASSUME NEW g \in fs.run.files PROVE New(t, g) \/ t.live[g] = t.run.was[g]
    <3>1. CASE g = f BY <3>1, <1>6
    <3>2. CASE g /= f BY <3>2, <2>1, <1>1, <1>4 DEF ItemsValid, New
    <3> QED BY <3>1, <3>2
  <2> QED BY <2>1, <1>4 DEF ItemsValid
<1>9. InForce(t) = InForce(fs)
  <2>1. New(fs, f) \/ fs.live[f] = fs.run.was[f] BY DEF ItemsValid
  <2> QED BY <2>1, <1>4, <1>6, <1>7, ReplacingDoesNotCount
<1> QED BY <1>4, <1>5, <1>6, <1>7, <1>8, <1>9 DEF t

\* A call that shows the disk t.
LEMMA CalledDisk ==
  ASSUME StateInv, fs' \in FileSystem, WellFormed(fs'), saves' = saves,
         survivors' = survivors \cup {fs'}
  PROVE  DiskInv'
<1>1. \A s \in survivors : WellFormed(s)'
  BY DEF StateInv, DiskInv, WellFormed, Held
<1>2. WellFormed(fs)' BY DEF WellFormed, Held
<1> QED BY <1>1, <1>2 DEF StateInv, DiskInv

LEMMA CommitStep ==
  ASSUME StateInv, Commit
  PROVE  StateInv' /\ Moves
<1>1. /\ fs \in FileSystem /\ fs \in survivors /\ WellFormed(fs) /\ WizardInv
      /\ at = "commit" /\ Pending(fs) /\ ItemsValid(fs) /\ left \subseteq job /\ Reached(fs)
      /\ ~recovering /\ fs.present /\ fs.run.files = job /\ fs.run.no = saves
      /\ UNCHANGED <<job, recovering, failed, answered, saves, faults, edited>>
  BY DEF Commit, StateInv, DiskInv, CallsInv, Saving, CommitSteps, counters
<1>2. FreshInv' BY <1>1 DEF FreshInv
<1>3. CASE left /= {}
  <2> DEFINE f == Least(left)
  <2>1. f \in left /\ \A g \in left : f <= g BY <1>1, <1>3, LeastIsLeast DEF WizardInv
  <2>2. /\ fs' = Committed(fs, f) /\ at' = "commit" /\ survivors' = survivors \cup {fs'}
        /\ left' = left \/ left' = left \ {f}
    BY <1>1, <1>3 DEF Commit, Call
  <2> HIDE DEF f
  <2>3. /\ fs' \in FileSystem /\ WellFormed(fs')
        /\ fs'.run = fs.run /\ fs'.present = fs.present
        /\ New(fs', f) /\ \A g \in Files \ {f} : fs'.live[g] = fs.live[g]
        /\ Pending(fs') /\ ItemsValid(fs') /\ InForce(fs') = InForce(fs)
    BY <1>1, <2>1, <2>2, CommittedIsNew
  <2>4. DiskInv' BY <1>1, <2>2, <2>3, CalledDisk
  <2>5. WizardInv' BY <1>1, <2>2 DEF WizardInv
  <2>6. \A g \in Files \ {f} : New(fs', g) = New(fs, g) BY <2>3 DEF New
  <2>7. job \subseteq Files /\ left \subseteq Files /\ \A g \in Files : g \in Nat
    BY <1>1, FilesAssumption DEF WizardInv, Files
  <2>8. \A g \in job \ left' : New(fs', g) /\ \A h \in left' : g < h
    <3> SUFFICES ASSUME NEW g \in job \ left' PROVE New(fs', g) /\ \A h \in left' : g < h
      OBVIOUS
    <3>1. CASE g = f
      <4>1. \A h \in left' : f <= h /\ h /= f BY <3>1, <2>1, <2>2
      <4> QED BY <3>1, <4>1, <2>3, <2>2, <2>1, <2>7
    <3>2. CASE g /= f
      <4>1. g \in job \ left BY <3>2, <2>2
      <4> QED BY <3>2, <4>1, <2>2, <2>6, <2>7, <1>1 DEF Reached
    <3> QED BY <3>1, <3>2
  <2>9. \A g, h \in left' : g < h => ~New(fs', h)
    <3> SUFFICES ASSUME NEW g \in left', NEW h \in left', g < h PROVE ~New(fs', h)
      OBVIOUS
    <3>1. g \in left /\ h \in left /\ h /= f BY <2>1, <2>2, <2>7
    <3> QED BY <3>1, <2>6, <2>7, <1>1 DEF Reached
  <2>10. CallsInv'
    <3>1. Pending(fs)' /\ ItemsValid(fs)' BY <2>3 DEF Pending, Has, ItemsValid, New
    <3>2. Reached(fs)' BY <1>1, <2>8, <2>9 DEF Reached, New
    <3> QED BY <1>1, <2>2, <2>3, <3>1, <3>2
        DEF CallsInv, Saving, Staging, CommitSteps, MarkSteps
  <2>11. Quiet /\ OthersStay BY <1>1, <2>2, <2>3 DEF Quiet, OthersStay
  <2> QED BY <1>1, <1>2, <2>4, <2>5, <2>10, <2>11 DEF StateInv, Moves
<1>4. CASE left = {}
  <2>1. survivors' = {fs} /\ at' = "committed.tmp" /\ UNCHANGED <<fs, left>>
    BY <1>1, <1>4 DEF Commit, Sync
  <2>2. Settles /\ DiskInv' /\ OthersStay BY <1>1, <2>1, Synced
  <2>3. WizardInv' BY <1>1, <2>1 DEF WizardInv, Steps, CommitSteps, MarkSteps
  <2>4. AllNew(fs) BY <1>1, <1>4 DEF Reached, AllNew
  <2>5. CallsInv'
    <3>1. Pending(fs)' /\ AllNew(fs)' BY <1>1, <2>1, <2>4 DEF Pending, Has, AllNew, New
    <3> QED BY <1>1, <2>1, <3>1 DEF CallsInv, Saving, Staging, CommitSteps, MarkSteps
  <2> QED BY <1>1, <1>2, <2>2, <2>3, <2>5 DEF StateInv, Moves
<1> QED BY <1>3, <1>4

LEMMA MarkCommittedStep ==
  ASSUME StateInv, MarkCommitted
  PROVE  StateInv' /\ Moves
<1>1. /\ fs \in FileSystem /\ fs \in survivors /\ WellFormed(fs) /\ WizardInv
      /\ at \in MarkSteps /\ Pending(fs) /\ AllNew(fs)
      /\ ~recovering /\ fs.present /\ fs.run.files = job /\ fs.run.no = saves
      /\ UNCHANGED <<job, recovering, left, failed, answered, saves, faults, edited>>
  BY DEF MarkCommitted, StateInv, DiskInv, CallsInv, Saving, CommitSteps, MarkSteps,
         control, counters
<1>2. FreshInv' BY <1>1 DEF FreshInv
<1>3. at' \in Steps => WizardInv' BY <1>1 DEF WizardInv
<1>4. CASE at = "committed.tmp"
  <2>1. /\ fs' = Add(fs, Mark("COMMITTED.tmp")) /\ at' = "committed.sync"
        /\ survivors' = survivors \cup {fs'}
    BY <1>4 DEF MarkCommitted, Call
  <2>2. Mark("COMMITTED.tmp") \in Entries /\ Mark("COMMITTED.tmp") /= Mark("COMMITTED")
    BY MarksDiffer DEF Markers
  <2>3. /\ fs' \in FileSystem /\ fs'.live = fs.live /\ fs'.run = fs.run
        /\ fs'.present = fs.present /\ fs'.entries = fs.entries \cup {Mark("COMMITTED.tmp")}
    BY <1>1, <2>1, <2>2, Added
  <2>4. SameFiles BY <1>1, <2>1, <2>3 DEF SameFiles
  <2>5. Pending(fs)' BY <1>1, <2>2, <2>3 DEF Pending, Has
  <2>6. Quiet BY <1>1, <2>1, <2>4, <2>5, SameFilesAreQuiet
  <2>7. DiskInv' /\ OthersStay /\ AllNew(fs)' BY <1>1, <2>4, SameFilesKept
  <2>8. CallsInv'
    BY <1>1, <2>1, <2>3, <2>5, <2>7 DEF CallsInv, Saving, Staging, CommitSteps, MarkSteps
  <2>9. at' \in Steps BY <2>1 DEF Steps, CommitSteps, MarkSteps
  <2> QED BY <1>1, <1>2, <1>3, <2>6, <2>7, <2>8, <2>9 DEF StateInv, Moves
<1>5. CASE at = "committed.sync"
  <2>1. survivors' = {fs} /\ at' = "committed" /\ fs' = fs
    BY <1>5 DEF MarkCommitted, Sync
  <2>2. Settles /\ DiskInv' /\ OthersStay BY <1>1, <2>1, Synced
  <2>3. Pending(fs)' /\ AllNew(fs)' BY <1>1, <2>1 DEF Pending, Has, AllNew, New
  <2>4. CallsInv'
    BY <1>1, <2>1, <2>3 DEF CallsInv, Saving, Staging, CommitSteps, MarkSteps
  <2>5. at' \in Steps BY <2>1 DEF Steps, CommitSteps, MarkSteps
  <2> QED BY <1>1, <1>2, <1>3, <2>2, <2>4, <2>5 DEF StateInv, Moves
<1>6. CASE at = "committed"
  <2>1. /\ fs' = Rename(fs, "COMMITTED.tmp", "COMMITTED") /\ at' = "committed.synced"
        /\ survivors' = survivors \cup {fs'}
    BY <1>6 DEF MarkCommitted, Call
  <2>2. /\ fs' \in FileSystem /\ fs'.live = fs.live /\ fs'.run = fs.run
        /\ fs'.present = fs.present
        /\ fs'.entries = (fs.entries \ {Mark("COMMITTED.tmp")}) \cup {Mark("COMMITTED")}
    BY <1>1, <2>1, Renamed DEF Markers
  <2>3. SameFiles BY <1>1, <2>1, <2>2 DEF SameFiles
  <2>4. Has(fs, "COMMITTED")' /\ ~Pending(fs') BY <2>2 DEF Pending, Has
  <2>5. DiskInv' /\ OthersStay /\ AllNew(fs)' BY <1>1, <2>3, SameFilesKept
  <2>6. Takes BY <1>1, <1>6, <2>1, <2>2, <2>4, MarkCounts DEF Takes
  <2>7. CallsInv'
    BY <1>1, <2>1, <2>2, <2>4, <2>5 DEF CallsInv, Saving, Staging, CommitSteps, MarkSteps
  <2>8. at' \in Steps BY <2>1 DEF Steps
  <2> QED BY <1>1, <1>2, <1>3, <2>5, <2>6, <2>7, <2>8 DEF StateInv, Moves
<1> QED BY <1>4, <1>5, <1>6 DEF MarkCommitted

LEMMA SyncCommittedStep ==
  ASSUME StateInv, SyncCommitted
  PROVE  StateInv' /\ Moves
<1>1. /\ fs \in FileSystem /\ WizardInv /\ ~recovering /\ at = "committed.synced"
      /\ Has(fs, "COMMITTED") /\ WellFormed(fs)
      /\ survivors' = {fs} /\ fs' = fs /\ at' = "clean"
      /\ answered' = [no |-> fs.run.no, files |-> fs.run.files]
      /\ UNCHANGED <<job, recovering, left, failed, saves, faults, edited>>
  BY DEF SyncCommitted, Sync, StateInv, DiskInv, CallsInv, Saving, counters
<1>2. Settles /\ DiskInv' /\ OthersStay BY <1>1, Synced
<1>3. answered' \in [no : 0..saves, files : SUBSET Files]
  BY <1>1 DEF FileSystem, Run, WellFormed
<1>4. WizardInv' BY <1>1, <1>3 DEF WizardInv, Steps, CleanSteps
<1>5. FreshInv' BY <1>1 DEF FreshInv
<1>6. CallsInv'
  BY <1>1 DEF CallsInv, Saving, Staging, CommitSteps, MarkSteps, Pending, Has
<1> QED BY <1>1, <1>2, <1>4, <1>5, <1>6 DEF StateInv, Moves, Answers

\* One file undone: it is not new, and nobody notices.
LEMMA UndoneIsNotNew ==
  ASSUME NEW f \in fs.run.files, fs \in FileSystem, WellFormed(fs), Pending(fs)
  PROVE  LET t == Undone(fs, f)
         IN  /\ t \in FileSystem /\ WellFormed(t)
             /\ t.run = fs.run /\ t.present = fs.present
             /\ ~New(t, f) /\ \A g \in Files \ {f} : t.live[g] = fs.live[g]
             /\ t.live[f] = fs.live[f] \/ New(fs, f)
             /\ t.live[f] = fs.live[f] \/ t.live[f] = fs.run.was[f]
             /\ Pending(t) /\ InForce(t) = InForce(fs)
<1> DEFINE t == Undone(fs, f)
           u == [fs EXCEPT !.live[f] = fs.run.was[f]]
<1>1. /\ f \in Files /\ fs.run.was[f] \in Contents /\ fs.run.was[f] \in Held
      /\ fs.run.was[f] /= fs.run.no
  BY DEF FileSystem, Run, WellFormed
<1>2. /\ u \in FileSystem /\ u.live[f] = fs.run.was[f]
      /\ u.live = [fs.live EXCEPT ![f] = fs.run.was[f]]
      /\ \A g \in Files \ {f} : u.live[g] = fs.live[g]
      /\ u.run = fs.run /\ u.present = fs.present /\ u.entries = fs.entries
  BY <1>1, Replaced
<1> HIDE DEF u
<1>3. \/ New(fs, f) /\ t = Remove(u, Rollback(f))
      \/ New(fs, f) /\ t = u
      \/ ~New(fs, f) /\ t = fs
  <2>1. CASE New(fs, f) /\ Existed(fs, f) BY <2>1 DEF Undone, u
  <2>2. CASE New(fs, f) /\ ~Existed(fs, f)
    <3>1. fs.run.was[f] = Gone BY <2>2 DEF Existed
    <3> QED BY <2>2, <3>1 DEF Undone, u
  <2>3. CASE ~New(fs, f) BY <2>3 DEF Undone
  <2> QED BY <2>1, <2>2, <2>3
<1> HIDE DEF t
<1>4. CASE ~New(fs, f) /\ t = fs BY <1>4 DEF t
<1>5. CASE New(fs, f) /\ t /= fs
  <2>1. /\ t \in FileSystem /\ t.live = u.live /\ t.run = u.run
        /\ t.present = u.present
        /\ t.entries = u.entries \/ t.entries = u.entries \ {Rollback(f)}
    <3>1. CASE t = Remove(u, Rollback(f)) BY <3>1, <1>2, Removed
    <3>2. CASE t = u BY <3>2, <1>2
    <3> QED BY <1>3, <1>5, <3>1, <3>2
  <2>2. WellFormed(t)
    <3>1. fs.live \in [Files -> Held] BY DEF WellFormed
    <3>2. u.live \in [Files -> Held] BY <1>1, <1>2, <3>1
    <3> QED BY <1>2, <2>1, <3>2 DEF WellFormed
  <2>3. ~New(t, f) BY <1>1, <1>2, <2>1 DEF New
  <2>4. Pending(t)
    <3>1. Rollback(f) /= Mark("manifest") BY MarksDiffer
    <3> QED BY <1>2, <2>1, <3>1 DEF Pending, Has
  <2>5. InForce(t) = InForce(fs)
    <3>1. t.live[f] = fs.run.was[f] /\ \A g \in Files \ {f} : t.live[g] = fs.live[g]
      BY <1>2, <2>1
    <3> QED BY <1>2, <1>5, <2>1, <2>4, <3>1, ReplacingDoesNotCount
  <2> QED BY <1>2, <1>5, <2>1, <2>2, <2>3, <2>4, <2>5 DEF t
<1>6. CASE New(fs, f) /\ t = fs
  <2>1. t.live[f] = fs.run.was[f]
    <3>1. CASE t = Remove(u, Rollback(f)) BY <3>1, <1>2, Removed
    <3>2. CASE t = u BY <3>2, <1>2
    <3> QED BY <1>3, <1>6, <3>1, <3>2
  <2> QED BY <1>1, <1>6, <2>1 DEF New
<1> QED BY <1>3, <1>4, <1>5, <1>6

\* A step of the roll-back takes one file f off the list, and has undone it or
\* remembers that it failed.
LEMMA UndoneStep ==
  ASSUME StateInv, at = "undo", at' = "undo", NEW f \in left, left' = left \ {f},
         failed' \in BOOLEAN,
         UNCHANGED <<job, recovering, answered, saves, edited>>, faults' \in 0..MaxFaults,
         \/ fs' = Undone(fs, f) /\ survivors' = survivors \cup {fs'} /\ (~failed' => ~failed)
         \/ UNCHANGED <<fs, survivors>> /\ failed'
  PROVE  StateInv' /\ Moves
<1>1. /\ fs \in FileSystem /\ fs \in survivors /\ WellFormed(fs) /\ WizardInv
      /\ Pending(fs) /\ left \subseteq fs.run.files
      /\ ~failed => \A g \in fs.run.files \ left : ~New(fs, g)
      /\ f \in fs.run.files /\ f \in Files /\ fs.run.files \subseteq Files
  BY DEF StateInv, DiskInv, CallsInv, FileSystem, Run
<1>2. WizardInv' BY <1>1 DEF WizardInv
<1>3. CASE fs' = Undone(fs, f) /\ survivors' = survivors \cup {fs'} /\ (~failed' => ~failed)
  <2>1. /\ fs' \in FileSystem /\ WellFormed(fs')
        /\ fs'.run = fs.run /\ fs'.present = fs.present
        /\ ~New(fs', f) /\ \A g \in Files \ {f} : fs'.live[g] = fs.live[g]
        /\ fs'.live[f] = fs.live[f] \/ New(fs, f)
        /\ fs'.live[f] = fs.live[f] \/ fs'.live[f] = fs.run.was[f]
        /\ Pending(fs') /\ InForce(fs') = InForce(fs)
    BY <1>1, <1>3, UndoneIsNotNew
  <2>2. DiskInv' BY <1>3, <2>1, CalledDisk
  <2>3. FreshInv'
    <3>1. Fresh(fs) => Fresh(fs)' BY <1>1, <2>1 DEF Fresh
    <3> QED BY <3>1 DEF FreshInv, StateInv
  <2>4. \A g \in Files \ {f} : New(fs', g) = New(fs, g) BY <2>1 DEF New
  <2>5. ~failed' => \A g \in fs'.run.files \ left' : ~New(fs', g)
    BY <1>1, <1>3, <2>1, <2>4
  <2>6. Pending(fs)' BY <2>1 DEF Pending, Has
  <2>7. ~failed' => \A g \in fs'.run.files \ left' : ~New(fs, g)' BY <2>5 DEF New
  <2>8. CallsInv'
    BY <1>1, <2>1, <2>6, <2>7 DEF CallsInv, Saving, Staging, CommitSteps, MarkSteps
  <2>9. OthersStay
    <3>1. fs.run.no /= Foreign
      <4>1. fs.run.no \in Nat BY <1>1 DEF WellFormed
      <4> QED BY <4>1, ContentsAssumption
    <3> QED BY <1>1, <2>1, <3>1 DEF OthersStay, New
  <2> QED BY <1>2, <1>3, <2>1, <2>2, <2>3, <2>8, <2>9 DEF StateInv, Moves, Quiet
<1>4. CASE UNCHANGED <<fs, survivors>> /\ failed'
  <2>1. Quiet /\ DiskInv' /\ OthersStay BY <1>4, StillDisk
  <2>2. FreshInv' BY <1>4 DEF FreshInv, StateInv, Fresh
  <2>3. CallsInv'
    BY <1>1, <1>4 DEF CallsInv, Saving, Staging, CommitSteps, MarkSteps, Pending, Has
  <2> QED BY <1>2, <2>1, <2>2, <2>3 DEF StateInv, Moves
<1> QED BY <1>3, <1>4

LEMMA UndoStep ==
  ASSUME StateInv, Undo
  PROVE  StateInv' /\ Moves
<1> DEFINE f == Greatest(left)
<1>1. WizardInv /\ at = "undo" /\ left /= {} BY DEF StateInv, Undo
<1>2. f \in left BY <1>1, GreatestIsGreatest DEF WizardInv
<1>3. /\ left' = left \ {f} /\ at' = "undo" /\ failed' = (failed \/ ~Undoable(fs, f))
      /\ UNCHANGED <<job, recovering, answered, saves, faults, edited>>
      /\ \/ Undoable(fs, f) /\ fs' = Undone(fs, f) /\ survivors' = survivors \cup {fs'}
         \/ ~Undoable(fs, f) /\ UNCHANGED <<fs, survivors>>
  BY DEF Undo, Call, Goto, counters
<1> HIDE DEF f
<1>4. failed' \in BOOLEAN /\ faults' \in 0..MaxFaults /\ failed \in BOOLEAN
  BY <1>1, <1>3 DEF WizardInv
<1> QED BY <1>1, <1>2, <1>3, <1>4, UndoneStep

\* A step that keeps the disk and ends, or goes on to what needs nothing of it.
LEMMA StillStep ==
  ASSUME StateInv, UNCHANGED <<answered, saves, edited>>,
         UNCHANGED <<fs, survivors>> \/ (survivors' = {fs} /\ UNCHANGED fs),
         at' \in Steps, job' \subseteq Files, left' \subseteq Files,
         recovering' \in BOOLEAN, failed' \in BOOLEAN, faults' \in 0..MaxFaults,
         recovering' /\ job' /= {} => recovering /\ job /= {},
         at' \notin Saving \cup {"mkdir"},
         at' = "recover" => recovering',
         at' = "undo" => /\ Pending(fs) /\ left' \subseteq fs.run.files
                         /\ failed' \/ left' = fs.run.files,
         at' = "clean" => (Pending(fs) => NoneNew(fs)),
         at' = "purge" => ~Has(fs, "manifest")
  PROVE  StateInv' /\ Moves
<1>1. (Quiet \/ Settles) /\ DiskInv' /\ OthersStay BY StillDisk, Synced
<1>2. WizardInv' BY DEF StateInv, WizardInv
<1>3. fs' = fs OBVIOUS
<1>4. FreshInv' BY <1>3 DEF FreshInv, StateInv, Fresh
<1>5. CallsInv'
  BY <1>3 DEF CallsInv, Saving, Staging, CommitSteps, MarkSteps, Pending, Has, NoneNew, New
<1> QED BY <1>1, <1>2, <1>4, <1>5 DEF StateInv, Moves

LEMMA SyncUndoneStep ==
  ASSUME StateInv, SyncUndone
  PROVE  StateInv' /\ Moves
<1>1. /\ WizardInv /\ at = "undo" /\ left = {} /\ survivors' = {fs} /\ fs' = fs
      /\ (at' = "clean" /\ ~failed) \/ at' \in {"off", "idle"}
      /\ UNCHANGED <<job, recovering, left, failed, answered, saves, faults, edited>>
      /\ ~failed => \A f \in fs.run.files \ left : ~New(fs, f)
  BY DEF SyncUndone, StateInv, CallsInv, control, counters
<1>2. ~failed => NoneNew(fs) BY <1>1 DEF NoneNew
<1>3. at' \in Steps /\ at' \notin Saving \cup {"mkdir"}
  BY <1>1 DEF Steps, CleanSteps, Saving, Staging, CommitSteps, MarkSteps
<1> QED BY <1>1, <1>2, <1>3, StillStep DEF WizardInv

LEMMA StartStep ==
  ASSUME StateInv, StartWizard \/ CloseWizard \/ Decide
  PROVE  StateInv' /\ Moves
<1>1. WizardInv /\ fs \in FileSystem BY DEF StateInv, DiskInv
<1>2. CASE StartWizard
  <2>1. /\ UNCHANGED <<fs, survivors, answered, saves, edited, left, failed, faults>>
        /\ at' = "recover" /\ job' = {} /\ recovering' = TRUE
    BY <1>2 DEF StartWizard, Goto, counters
  <2>2. at' \in Steps /\ at' \notin Saving \cup {"mkdir"}
    BY <2>1 DEF Steps, Saving, Staging, CommitSteps, MarkSteps
  <2> QED BY <1>1, <2>1, <2>2, StillStep DEF WizardInv
<1>3. CASE CloseWizard
  <2>1. /\ UNCHANGED <<fs, survivors, answered, saves, edited, left, failed, faults>>
        /\ at' = "off" /\ job' = job /\ recovering' = recovering
    BY <1>3 DEF CloseWizard, Goto, counters, control
  <2>2. at' \in Steps /\ at' \notin Saving \cup {"mkdir"}
    BY <2>1 DEF Steps, Saving, Staging, CommitSteps, MarkSteps
  <2> QED BY <1>1, <2>1, <2>2, StillStep DEF WizardInv
<1>4. CASE Decide
  <2>1. /\ at = "recover" /\ fs.present /\ failed' = FALSE /\ left' = fs.run.files
        /\ UNCHANGED <<job, recovering, answered, saves, faults, edited>>
    BY <1>4 DEF Decide, counters
  <2>2. /\ UNCHANGED <<fs, survivors>>
        /\ \/ at' \in {"off", "idle"}
           \/ at' = "purge" /\ ~Has(fs, "manifest")
           \/ at' = "clean" /\ Has(fs, "COMMITTED")
           \/ at' = "undo" /\ Has(fs, "manifest") /\ ~Has(fs, "COMMITTED")
    <3>1. CASE ~Has(fs, "manifest")
      <4>1. IF Purgeable(fs) THEN Goto("purge") ELSE GiveUp BY <1>4, <3>1 DEF Decide
      <4> QED BY <3>1, <4>1 DEF Goto, GiveUp
    <3>2. CASE Has(fs, "manifest") /\ Has(fs, "COMMITTED")
      <4>1. IF KnownCommitted(fs) THEN Goto("clean") ELSE GiveUp BY <1>4, <3>2 DEF Decide
      <4> QED BY <3>2, <4>1 DEF Goto, GiveUp
    <3>3. CASE Has(fs, "manifest") /\ ~Has(fs, "COMMITTED")
      <4>1. IF KnownUncommitted(fs) THEN Goto("undo") ELSE GiveUp BY <1>4, <3>3 DEF Decide
      <4> QED BY <3>3, <4>1 DEF Goto, GiveUp
    <3> QED BY <3>1, <3>2, <3>3
  <2>3. at' \in Steps /\ at' \notin Saving \cup {"mkdir"} /\ at' /= "recover"
    BY <2>2 DEF Steps, CleanSteps, Saving, Staging, CommitSteps, MarkSteps
  <2>4. at' = "undo" => Pending(fs) BY <2>1, <2>2 DEF Pending
  <2>5. at' = "clean" => ~Pending(fs) BY <2>2 DEF Pending
  <2>6. left' \subseteq Files BY <1>1, <2>1 DEF FileSystem, Run
  <2>7. at' = "purge" => ~Has(fs, "manifest") BY <2>2
  <2> QED BY <1>1, <2>1, <2>2, <2>3, <2>4, <2>5, <2>6, <2>7, StillStep DEF WizardInv
<1> QED BY <1>2, <1>3, <1>4

LEMMA RecoveredStep ==
  ASSUME StateInv, Recovered
  PROVE  StateInv' /\ Moves
<1>1. /\ WizardInv /\ at = "recover" /\ recovering /\ ~fs.present
      /\ recovering' = FALSE /\ UNCHANGED <<fs, survivors>>
      /\ UNCHANGED <<job, left, failed, answered, saves, faults, edited>>
      /\ at' = "idle" \/ (at' = "mkdir" /\ job /= {})
  BY DEF Recovered, Goto, StateInv, CallsInv, counters
<1>2. Quiet /\ DiskInv' /\ OthersStay BY <1>1, StillDisk
<1>3. WizardInv' BY <1>1 DEF WizardInv, Steps, StageSteps
<1>4. FreshInv' BY <1>1 DEF FreshInv
<1>5. at' = "mkdir" => Fresh(fs)' BY <1>1 DEF FreshInv, StateInv, Fresh
<1>6. CallsInv'
  BY <1>1, <1>5 DEF CallsInv, Saving, Staging, CommitSteps, MarkSteps
<1> QED BY <1>1, <1>2, <1>3, <1>4, <1>6 DEF StateInv, Moves

\* A new save differs from everything written before.
LEMMA SubmitStep ==
  ASSUME StateInv, Submit
  PROVE  StateInv' /\ Moves
<1>1. /\ WizardInv /\ fs \in FileSystem /\ WellFormed(fs) /\ fs \in survivors
      /\ saves < MaxSaves /\ saves' = saves + 1 /\ job' \subseteq Files
      /\ recovering' = TRUE /\ UNCHANGED <<fs, survivors>> /\ at' = "recover"
      /\ UNCHANGED <<left, failed, answered, faults, edited>>
  BY DEF Submit, Goto, StateInv, DiskInv
<1>2. saves \in Nat /\ saves' \in 0..MaxSaves /\ 0..saves \subseteq 0..saves'
  BY <1>1, BoundsAssumption DEF WizardInv
<1>3. Held \subseteq Held' BY <1>2 DEF Held
<1>4. ASSUME NEW s \in survivors PROVE WellFormed(s)'
  <2>1. WellFormed(s) BY DEF StateInv, DiskInv
  <2>2. s.run.no \in 0..saves' BY <1>2, <2>1 DEF WellFormed
  <2> QED BY <1>3, <2>1, <2>2 DEF WellFormed
<1>5. DiskInv' BY <1>1, <1>4 DEF StateInv, DiskInv
<1>6. WizardInv'
  <2>1. answered' \in [no : 0..saves', files : SUBSET Files]
    BY <1>1, <1>2 DEF WizardInv
  <2> QED BY <1>1, <1>2, <2>1 DEF WizardInv, Steps
<1>7. Fresh(fs)'
  <2>1. saves' \notin Held
    <3>1. saves' \in Nat /\ saves' \notin 0..saves BY <1>1, <1>2
    <3> QED BY <3>1, ContentsAssumption DEF Held
  <2>2. \A f \in Files : fs.live[f] \in Held /\ fs.run.was[f] \in Held
    BY <1>1 DEF WellFormed
  <2> QED BY <1>1, <2>1, <2>2 DEF Fresh
<1>8. CallsInv' BY <1>1 DEF CallsInv, Saving, Staging, CommitSteps, MarkSteps
<1>9. Quiet /\ OthersStay BY <1>1 DEF Quiet, OthersStay
<1> QED BY <1>1, <1>5, <1>6, <1>7, <1>8, <1>9 DEF StateInv, FreshInv, Moves

\* The same for a call that only changes entries of the run directory.
LEMMA CalledStep ==
  ASSUME StateInv, SameFiles, survivors' = survivors \cup {fs'},
         UNCHANGED <<answered, saves, edited>>,
         at' \in Steps, job' \subseteq Files, left' \subseteq Files,
         recovering' \in BOOLEAN, failed' \in BOOLEAN, faults' \in 0..MaxFaults,
         recovering' /\ job' /= {} => recovering /\ job /= {},
         at' \notin Saving \cup {"mkdir", "recover"},
         Pending(fs)' = Pending(fs) \/ NoneNew(fs) \/ AsBefore(fs),
         at' = "undo" => /\ Pending(fs)' /\ left' \subseteq fs.run.files
                         /\ ~failed' => \A f \in fs.run.files \ left' : ~New(fs, f),
         at' = "clean" => (Pending(fs)' => NoneNew(fs)),
         at' = "purge" => ~Has(fs, "manifest")'
  PROVE  StateInv' /\ Moves
<1>1. Quiet BY SameFilesAreQuiet
<1>2. DiskInv' /\ OthersStay /\ Fresh(fs)' = Fresh(fs) /\ NoneNew(fs)' = NoneNew(fs)
  BY SameFilesKept
<1>3. WizardInv' BY DEF StateInv, WizardInv
<1>4. FreshInv' BY <1>2 DEF FreshInv, StateInv
<1>5. CallsInv'
  BY <1>2 DEF CallsInv, Saving, Staging, CommitSteps, MarkSteps, SameFiles, New
<1> QED BY <1>1, <1>2, <1>3, <1>4, <1>5 DEF StateInv, Moves

\* The run directory goes: nothing of it counts any more.
LEMMA CleanStep ==
  ASSUME StateInv, Clean
  PROVE  StateInv' /\ Moves
<1>1. /\ WizardInv /\ fs \in FileSystem /\ CallsInv
      /\ UNCHANGED <<job, recovering, left, failed, answered, saves, faults, edited>>
  BY DEF Clean, StateInv, DiskInv, control, counters
<1>2. CASE at = "clean" /\ fs.entries /= {} /\ Call(Remove(fs, FirstToGo(fs)), "clean")
  <2> DEFINE e == FirstToGo(fs)
  <2>1. fs' = Remove(fs, e) /\ at' = "clean" /\ survivors' = survivors \cup {fs'}
    BY <1>2 DEF Call
  <2>2. fs.entries \in SUBSET Entries BY <1>1 DEF FileSystem
  <2>3. e \in fs.entries /\ (Has(fs, "manifest") => e /= Mark("COMMITTED"))
    BY <1>2, <2>2, FirstToGoIsFirst
  <2> HIDE DEF e
  <2>4. /\ fs' \in FileSystem /\ fs'.live = fs.live /\ fs'.run = fs.run
        /\ fs'.present = fs.present /\ fs'.entries = fs.entries \ {e}
    BY <1>1, <2>1, Removed
  <2>5. SameFiles BY <1>1, <2>1, <2>4 DEF SameFiles
  <2>6. Pending(fs) => NoneNew(fs) BY <1>1, <1>2 DEF CallsInv
  <2>7. Pending(fs)' => Pending(fs) BY <2>3, <2>4 DEF Pending, Has
  <2>8. at' \in Steps /\ at' \notin Saving \cup {"mkdir", "recover"}
    BY <2>1 DEF Steps, CleanSteps, Saving, Staging, CommitSteps, MarkSteps
  <2>9. Pending(fs)' = Pending(fs) \/ NoneNew(fs)
    <3>1. Pending(fs) \in BOOLEAN /\ Pending(fs)' \in BOOLEAN
      BY <1>1, <2>4 DEF Pending, Has, FileSystem
    <3> QED BY <2>6, <2>7, <3>1
  <2> QED BY <1>1, <2>1, <2>5, <2>6, <2>7, <2>8, <2>9, CalledStep DEF WizardInv
<1>3. CASE /\ at \in {"clean", "purge"} /\ fs.entries = {}
           /\ Call([fs EXCEPT !.present = FALSE], "rmdir.sync")
  <2>1. /\ fs' = [fs EXCEPT !.present = FALSE] /\ at' = "rmdir.sync"
        /\ survivors' = survivors \cup {fs'}
    BY <1>3 DEF Call
  <2>2. /\ fs' \in FileSystem /\ fs'.live = fs.live /\ fs'.run = fs.run /\ ~fs'.present
    BY <1>1, <2>1 DEF FileSystem
  <2>3. SameFiles BY <1>1, <2>1, <2>2 DEF SameFiles
  <2>4. Pending(fs) = FALSE /\ Pending(fs)' = FALSE BY <1>3, <2>2 DEF Pending, Has
  <2>5. at' \in Steps /\ at' \notin Saving \cup {"mkdir", "recover"}
    BY <2>1 DEF Steps, CleanSteps, Saving, Staging, CommitSteps, MarkSteps
  <2> QED BY <1>1, <2>1, <2>3, <2>4, <2>5, CalledStep DEF WizardInv
<1>4. CASE at = "rmdir.sync" /\ Sync(IF recovering THEN "recover" ELSE "idle")
  <2>1. /\ survivors' = {fs} /\ fs' = fs
        /\ (at' = "recover" /\ recovering) \/ at' = "idle"
    BY <1>4 DEF Sync
  <2>2. at' \in Steps /\ at' \notin Saving \cup {"mkdir"}
    BY <2>1 DEF Steps, Saving, Staging, CommitSteps, MarkSteps
  <2> QED BY <1>1, <2>1, <2>2, StillStep DEF WizardInv
<1> QED BY <1>2, <1>3, <1>4 DEF Clean

LEMMA PurgeStep ==
  ASSUME StateInv, Purge
  PROVE  StateInv' /\ Moves
<1>1. /\ WizardInv /\ fs \in FileSystem /\ ~Has(fs, "manifest")
      /\ UNCHANGED <<job, recovering, left, failed, answered, saves, faults, edited>>
  BY DEF Purge, StateInv, DiskInv, CallsInv, control, counters
<1>2. PICK e \in fs.entries : Call(Remove(fs, e), "purge") BY DEF Purge
<1>3. fs' = Remove(fs, e) /\ at' = "purge" /\ survivors' = survivors \cup {fs'}
  BY <1>2 DEF Call
<1>4. /\ fs' \in FileSystem /\ fs'.live = fs.live /\ fs'.run = fs.run
      /\ fs'.entries = fs.entries \ {e}
  BY <1>1, <1>3, Removed
<1>5. SameFiles BY <1>1, <1>3, <1>4 DEF SameFiles
<1>6. ~Has(fs, "manifest")' /\ Pending(fs)' = Pending(fs) BY <1>1, <1>4 DEF Pending, Has
<1>7. at' \in Steps /\ at' \notin Saving \cup {"mkdir", "recover"}
  BY <1>3 DEF Steps, CleanSteps, Saving, Staging, CommitSteps, MarkSteps
<1> QED BY <1>1, <1>3, <1>5, <1>6, <1>7, CalledStep DEF WizardInv

----------------------------------------------------------------------------
\* Failures.

\* A staging that failed is dropped: it has changed no file.
LEMMA DroppedStep ==
  ASSUME StateInv, at \in Saving, AsBefore(fs), NEW t \in FileSystem,
         t.live = fs.live, t.run = fs.run,
         DropStaged(t), UNCHANGED <<left, failed>>,
         faults' \in 0..MaxFaults, UNCHANGED <<job, recovering, answered, saves, edited>>
  PROVE  StateInv' /\ Moves
<1>1. fs' = t /\ at' \in {"clean", "idle"} /\ survivors' = survivors \cup {fs'}
  BY DEF DropStaged, Call
<1>2. SameFiles BY <1>1 DEF SameFiles
<1>3. WellFormed(fs) /\ WizardInv BY DEF StateInv, DiskInv
<1>4. NoneNew(fs) BY <1>3 DEF AsBefore, NoneNew, New, WellFormed
<1>5. at' \in Steps /\ at' \notin Saving \cup {"mkdir", "recover"}
  BY <1>1 DEF Steps, CleanSteps, Saving, Staging, CommitSteps, MarkSteps
<1> QED BY <1>1, <1>2, <1>3, <1>4, <1>5, CalledStep DEF WizardInv

LEMMA StageFailsStep ==
  ASSUME StateInv, StageFails, faults' \in 0..MaxFaults,
         UNCHANGED <<job, recovering, answered, saves, edited>>
  PROVE  StateInv' /\ Moves
<1>1. WizardInv /\ fs \in FileSystem /\ UNCHANGED <<left, failed>>
  BY DEF StateInv, DiskInv, StageFails
<1>2. CASE at = "mkdir"
  <2>1. at' = "idle" /\ UNCHANGED <<fs, survivors>> BY <1>2 DEF StageFails, Goto
  <2>2. at' \in Steps /\ at' \notin Saving \cup {"mkdir"}
    BY <2>1 DEF Steps, Saving, Staging, CommitSteps, MarkSteps
  <2> QED BY <1>1, <2>1, <2>2, StillStep DEF WizardInv
<1>3. CASE at \in Staging \cup {"manifest.sync"}
  <2>1. AsBefore(fs) BY <1>3 DEF StateInv, CallsInv
  <2>2. \E t \in FileSystem : DropStaged(t) /\ t.live = fs.live /\ t.run = fs.run
    <3>1. CASE DropStaged(fs) BY <3>1, <1>1
    <3>2. CASE \E e : DropStaged(Remove(fs, e)) BY <3>2, <1>1, Removed
    <3> QED BY <1>3, <3>1, <3>2 DEF StageFails, Staging
  <2> QED BY <1>1, <1>3, <2>1, <2>2, DroppedStep DEF Saving
<1> QED BY <1>2, <1>3 DEF StageFails, Staging

\* A commit that failed is rolled back, from the files it may have reached.
LEMMA RollBackStep ==
  ASSUME StateInv, NEW t, NEW attempted \in SUBSET fs.run.files,
         at \in {"commit"} \cup MarkSteps, RollBack(t, attempted),
         t \in FileSystem, WellFormed(t), t.run = fs.run, Pending(t),
         InForce(t) = InForce(fs),
         \A f \in fs.run.files \ attempted : ~New(t, f),
         t.live = fs.live \/ at = "commit",
         faults' \in 0..MaxFaults, UNCHANGED <<job, recovering, answered, saves, edited>>
  PROVE  StateInv' /\ Moves
<1>1. /\ fs' = t /\ at' \in {"undo", "idle"} /\ survivors' = survivors \cup {fs'}
      /\ left' = attempted /\ failed' = FALSE
  BY DEF RollBack, Call
<1>2. /\ fs \in FileSystem /\ WizardInv /\ ~recovering
  BY DEF StateInv, DiskInv, CallsInv, Saving, CommitSteps
<1>3. DiskInv' BY <1>1, CalledDisk
<1>4. left' \subseteq Files BY <1>1, <1>2 DEF FileSystem, Run
<1>5. WizardInv' BY <1>1, <1>2, <1>4 DEF WizardInv, Steps
<1>6. FreshInv' BY <1>2 DEF FreshInv
<1>7. Pending(fs)' /\ left' \subseteq fs'.run.files
      /\ \A f \in fs'.run.files \ left' : ~New(fs, f)'
  BY <1>1 DEF Pending, Has, New
<1>8. CallsInv'
  BY <1>1, <1>7 DEF CallsInv, Saving, Staging, CommitSteps, MarkSteps
<1>9. Quiet BY <1>1 DEF Quiet
<1>10. OthersStay BY <1>1 DEF OthersStay
<1> QED BY <1>3, <1>5, <1>6, <1>8, <1>9, <1>10 DEF StateInv, Moves

LEMMA CommitFailsStep ==
  ASSUME StateInv, CommitFails, faults' \in 0..MaxFaults,
         UNCHANGED <<job, recovering, answered, saves, edited>>
  PROVE  StateInv' /\ Moves
<1>1. /\ WizardInv /\ fs \in FileSystem /\ WellFormed(fs)
      /\ at \in {"commit"} \cup MarkSteps /\ Pending(fs) /\ fs.run.files = job
  BY DEF StateInv, DiskInv, CallsInv, CommitFails, Saving, CommitSteps
<1>2. CASE at = "commit" /\ left /= {}
  <2> DEFINE f == Least(left)
             attempted == {g \in job : g <= f}
  <2>1. /\ ItemsValid(fs) /\ left \subseteq job /\ Reached(fs)
    BY <1>2 DEF StateInv, CallsInv
  <2>2. f \in left /\ \A g \in left : f <= g BY <1>1, <1>2, LeastIsLeast DEF WizardInv
  <2>3. PICK t \in {fs, Committed(fs, f)} : RollBack(t, attempted)
    BY <1>2 DEF CommitFails, MarkSteps
  <2> HIDE DEF f
  <2>4. /\ t \in FileSystem /\ WellFormed(t) /\ t.run = fs.run /\ Pending(t)
        /\ InForce(t) = InForce(fs) /\ \A g \in Files \ {f} : t.live[g] = fs.live[g]
    <3>1. CASE t = fs BY <3>1, <1>1
    <3>2. CASE t = Committed(fs, f) BY <3>2, <1>1, <2>1, <2>2, CommittedIsNew
    <3> QED BY <2>3, <3>1, <3>2
  <2>5. job \subseteq Files /\ \A g \in Files : g \in Nat
    BY <1>1, FilesAssumption DEF WizardInv, Files
  <2>6. ASSUME NEW g \in job \ attempted PROVE ~New(t, g)
    <3>1. ~(g <= f) /\ g \in Nat /\ f \in Nat BY <2>1, <2>2, <2>5, <2>6
    <3>2. f < g /\ g /= f BY <3>1
    <3>3. g \in left
      <4>1. CASE g \in job \ left
        <5>1. g < f BY <2>1, <2>2, <4>1 DEF Reached
        <5> QED BY <3>1, <3>2, <5>1
      <4> QED BY <2>6, <4>1
    <3>4. ~New(fs, g) BY <2>1, <2>2, <3>2, <3>3 DEF Reached
    <3> QED BY <2>4, <2>5, <2>6, <3>2, <3>4 DEF New
  <2>7. attempted \in SUBSET job OBVIOUS
  <2> HIDE DEF attempted
  <2> QED BY <1>1, <1>2, <2>3, <2>4, <2>6, <2>7, RollBackStep
<1>3. CASE at = "commit" /\ left = {}
  <2>1. RollBack(fs, job) BY <1>3 DEF CommitFails, MarkSteps
  <2> QED BY <1>1, <1>3, <2>1, RollBackStep
<1>4. CASE at \in MarkSteps
  <2> DEFINE t == Remove(fs, Mark("COMMITTED.tmp"))
  <2>1. RollBack(t, job) BY <1>4 DEF CommitFails, MarkSteps
  <2>2. /\ t \in FileSystem /\ t.live = fs.live /\ t.run = fs.run /\ t.present = fs.present
        /\ t.entries = fs.entries \ {Mark("COMMITTED.tmp")}
    BY <1>1, Removed
  <2> HIDE DEF t
  <2>3. Pending(t) = Pending(fs)
    <3>1. Mark("COMMITTED.tmp") /= Mark("manifest") /\ Mark("COMMITTED.tmp") /= Mark("COMMITTED")
      BY MarksDiffer
    <3> QED BY <2>2, <3>1 DEF Pending, Has
  <2>4. InForce(t) = InForce(fs) BY <2>2, <2>3, SameForce
  <2>5. WellFormed(t) BY <1>1, <2>2 DEF WellFormed
  <2> QED BY <1>1, <1>4, <2>1, <2>2, <2>3, <2>4, <2>5, RollBackStep
<1> QED BY <1>1, <1>2, <1>3, <1>4

LEMMA OtherCallsFailStep ==
  ASSUME StateInv, SyncCommittedFails \/ UndoFails \/ CleanFails,
         faults' \in 0..MaxFaults, UNCHANGED <<job, recovering, answered, saves, edited>>
  PROVE  StateInv' /\ Moves
<1>1. WizardInv BY DEF StateInv
<1>2. CASE SyncCommittedFails
  <2>1. /\ at' = "clean" /\ UNCHANGED <<fs, survivors, left, failed>> /\ Has(fs, "COMMITTED")
    BY <1>2 DEF SyncCommittedFails, Goto, StateInv, CallsInv
  <2>2. ~Pending(fs) BY <2>1 DEF Pending
  <2>3. at' \in Steps /\ at' \notin Saving \cup {"mkdir"}
    BY <2>1 DEF Steps, CleanSteps, Saving, Staging, CommitSteps, MarkSteps
  <2> QED BY <1>1, <2>1, <2>2, <2>3, StillStep DEF WizardInv
<1>3. CASE UndoFails /\ left /= {}
  <2> DEFINE f == Greatest(left)
  <2>1. f \in left BY <1>1, <1>3, GreatestIsGreatest DEF WizardInv
  <2>2. /\ at = "undo" /\ at' = "undo" /\ left' = left \ {f} /\ failed' = TRUE
        /\ UNCHANGED <<fs, survivors>>
    BY <1>3 DEF UndoFails, Goto
  <2> HIDE DEF f
  <2> QED BY <1>1, <2>1, <2>2, UndoneStep
<1>4. CASE UndoFails /\ left = {}
  <2>1. at' \in {"off", "idle"} /\ UNCHANGED <<fs, survivors, left>> /\ failed' = TRUE
    BY <1>4 DEF UndoFails, GiveUp, Goto
  <2>2. at' \in Steps /\ at' \notin Saving \cup {"mkdir"}
    BY <2>1 DEF Steps, Saving, Staging, CommitSteps, MarkSteps
  <2> QED BY <1>1, <2>1, <2>2, StillStep DEF WizardInv
<1>5. CASE CleanFails
  <2>1. at' \in {"off", "idle"} /\ UNCHANGED <<fs, survivors, left, failed>>
    BY <1>5 DEF CleanFails, GiveUp, Goto
  <2>2. at' \in Steps /\ at' \notin Saving \cup {"mkdir"}
    BY <2>1 DEF Steps, Saving, Staging, CommitSteps, MarkSteps
  <2> QED BY <1>1, <2>1, <2>2, StillStep DEF WizardInv
<1> QED BY <1>2, <1>3, <1>4, <1>5

LEMMA CallFailsStep ==
  ASSUME StateInv, CallFails
  PROVE  StateInv' /\ Moves
<1>1. /\ UNCHANGED <<job, recovering, answered, saves, edited>>
      /\ faults' = faults + 1 /\ faults < MaxFaults
  BY DEF CallFails
<1>2. faults' \in 0..MaxFaults BY <1>1, BoundsAssumption DEF StateInv, WizardInv
<1> QED BY <1>1, <1>2, StageFailsStep, CommitFailsStep, OtherCallsFailStep DEF CallFails

LEMMA WizardDiesStep ==
  ASSUME StateInv, WizardDies
  PROVE  StateInv' /\ Moves
<1>1. /\ WizardInv /\ at' = "off" /\ job' = {} /\ recovering' = FALSE
      /\ left' = {} /\ failed' = FALSE /\ faults' = faults + 1 /\ faults < MaxFaults
      /\ UNCHANGED <<answered, saves, edited, fs, survivors>>
  BY DEF WizardDies, Stop, StateInv
<1>2. faults' \in 0..MaxFaults BY <1>1, BoundsAssumption DEF WizardInv
<1>3. at' \in Steps /\ at' \notin Saving \cup {"mkdir"}
  BY <1>1 DEF Steps, Saving, Staging, CommitSteps, MarkSteps
<1> QED BY <1>1, <1>2, <1>3, StillStep DEF WizardInv

\* The machine comes back with any disk that survived.
LEMMA PowerFailsStep ==
  ASSUME StateInv, PowerFails
  PROVE  StateInv' /\ Moves
<1>1. /\ WizardInv /\ at' = "off" /\ job' = {} /\ recovering' = FALSE
      /\ left' = {} /\ failed' = FALSE /\ faults' = faults + 1 /\ faults < MaxFaults
      /\ UNCHANGED <<answered, saves, edited>>
      /\ fs' \in survivors /\ survivors' = {fs'}
  BY DEF PowerFails, Stop, StateInv
<1>2. faults' \in 0..MaxFaults BY <1>1, BoundsAssumption DEF WizardInv
<1>3. DiskInv'
  <2>1. \A s \in survivors : s \in FileSystem /\ WellFormed(s)'
    BY <1>1 DEF StateInv, DiskInv, WellFormed, Held
  <2> QED BY <1>1, <2>1 DEF DiskInv
<1>4. WizardInv' BY <1>1, <1>2 DEF WizardInv, Steps
<1>5. FreshInv' BY <1>1 DEF FreshInv
<1>6. CallsInv' BY <1>1 DEF CallsInv, Saving, Staging, CommitSteps, MarkSteps
<1>7. Rewinds /\ OthersStay BY <1>1 DEF Rewinds, OthersStay
<1> QED BY <1>1, <1>3, <1>4, <1>5, <1>6, <1>7 DEF StateInv, Moves

LEMMA EditByHandStep ==
  ASSUME StateInv, EditByHand
  PROVE  StateInv' /\ Moves
<1>1. /\ WizardInv /\ fs \in FileSystem /\ WellFormed(fs) /\ at = "off"
      /\ faults < MaxFaults /\ faults' = faults + 1 /\ edited' = TRUE
      /\ UNCHANGED <<job, recovering, left, failed, answered, saves>>
  BY DEF EditByHand, StateInv, DiskInv, control
<1>2. PICK f \in Files : \E c \in {Gone, Foreign} \ {fs.live[f]} :
        Call([fs EXCEPT !.live[f] = c], "off")
  BY DEF EditByHand
<1>3. PICK c \in {Gone, Foreign} : /\ fs' = [fs EXCEPT !.live[f] = c] /\ at' = "off"
                                   /\ survivors' = survivors \cup {fs'}
  BY <1>2 DEF Call
<1>4. c \in Contents /\ c \in Held /\ c \notin Nat BY ContentsAssumption DEF Contents, Held
<1>5. /\ fs' \in FileSystem /\ fs'.live = [fs.live EXCEPT ![f] = c] /\ fs'.live[f] = c
      /\ \A g \in Files \ {f} : fs'.live[g] = fs.live[g]
      /\ fs'.run = fs.run /\ fs'.present = fs.present /\ fs'.entries = fs.entries
  BY <1>1, <1>3, <1>4, Replaced
<1>6. saves \in Nat /\ fs.run.no \in Nat BY <1>1 DEF WellFormed, WizardInv
<1>7. WellFormed(fs')
  <2>1. fs.live \in [Files -> Held] BY <1>1 DEF WellFormed
  <2>2. fs'.live \in [Files -> Held] BY <1>4, <1>5, <2>1
  <2> QED BY <1>1, <1>5, <2>2 DEF WellFormed
<1>8. DiskInv' BY <1>1, <1>3, <1>5, <1>7, CalledDisk
<1>9. WizardInv'
  <2>1. faults' \in 0..MaxFaults BY <1>1, BoundsAssumption DEF WizardInv
  <2> QED BY <1>1, <1>3, <2>1 DEF WizardInv, Steps
<1>10. FreshInv'
  <2>1. Fresh(fs) => Fresh(fs)' BY <1>1, <1>4, <1>5, <1>6 DEF Fresh
  <2> QED BY <1>1, <2>1 DEF FreshInv, StateInv
<1>11. CallsInv' BY <1>3 DEF CallsInv, Saving, Staging, CommitSteps, MarkSteps
<1>12. Edits
  <2>1. Pending(fs') = Pending(fs) BY <1>5 DEF Pending, Has
  <2>2. ~New(fs', f) BY <1>4, <1>5, <1>6 DEF New
  <2>3. ASSUME NEW g \in Files PROVE InForce(fs')[g] = [InForce(fs) EXCEPT ![f] = c][g]
    <3>1. CASE g = f BY <2>2, <2>3, <3>1, <1>5 DEF InForce
    <3>2. CASE g /= f BY <2>1, <2>3, <3>2, <1>5 DEF InForce, New
    <3> QED BY <3>1, <3>2
  <2>4. InForce(fs') = [InForce(fs) EXCEPT ![f] = c] BY <2>3 DEF InForce
  <2> QED BY <1>1, <1>3, <2>4 DEF Edits
<1>13. OthersStay BY <1>1 DEF OthersStay
<1> QED BY <1>1, <1>8, <1>9, <1>10, <1>11, <1>12, <1>13 DEF StateInv, Moves

----------------------------------------------------------------------------
\* All steps.

LEMMA StateStep ==
  ASSUME StateInv, [SetupNext]_setupVars
  PROVE  StateInv' /\ Moves
<1>1. CASE Wizard
  BY <1>1, StartStep, RecoveredStep, StageStep, CommitStep, MarkCommittedStep,
     SyncCommittedStep, UndoStep, SyncUndoneStep, CleanStep, PurgeStep DEF Wizard
<1>2. CASE UNCHANGED setupVars
  <2>1. UNCHANGED <<fs, survivors, at, job, recovering, left, failed, answered,
                    saves, faults, edited>>
    BY <1>2 DEF setupVars
  <2>2. Quiet /\ DiskInv' /\ OthersStay BY <2>1, StillDisk
  <2>3. WizardInv' BY <2>1 DEF StateInv, WizardInv
  <2>4. FreshInv' BY <2>1 DEF StateInv, FreshInv, Fresh
  <2>5. CallsInv'
    BY <2>1 DEF StateInv, CallsInv, Pending, Has, Fresh, AsBefore, NoneNew, AllNew,
                New, ItemsValid, Reached
  <2> QED BY <2>1, <2>2, <2>3, <2>4, <2>5 DEF StateInv, Moves
<1> QED BY <1>1, <1>2, SubmitStep, CallFailsStep, WizardDiesStep, PowerFailsStep,
           EditByHandStep DEF SetupNext

\* An answered save is the last one that took effect, on every disk that may be
\* left: only a later save or the owner changes its files.
LEMMA AnsweredStep ==
  ASSUME StateInv, AnsweredIsKept, Moves, StateInv'
  PROVE  AnsweredIsKept'
<1>1. /\ fs \in survivors /\ answered.no \in 0..saves /\ answered.files \subseteq Files
      /\ saves \in Nat
  BY DEF StateInv, DiskInv, WizardInv
<1>2. CASE answered' = answered
  <2> SUFFICES ASSUME NEW s \in survivors', NEW f \in answered.files, InForce(s)[f] \in Nat
               PROVE  InForce(s)[f] >= answered.no
    BY <1>2 DEF AnsweredIsKept, InForce, Pending, Has, New
  <2>1. CASE s \in survivors BY <2>1 DEF AnsweredIsKept
  <2>2. CASE s = fs' /\ s \notin survivors
    <3>1. Quiet \/ Takes \/ Edits BY <1>1, <2>2 DEF Moves, Settles, Rewinds
    <3>2. f \in Files BY <1>1
    <3>3. CASE Quiet BY <1>1, <2>2, <3>3 DEF Quiet, AnsweredIsKept
    <3>4. CASE Takes
      <4>1. InForce(s)[f] = IF f \in fs.run.files THEN saves ELSE InForce(fs)[f]
        BY <2>2, <3>2, <3>4 DEF Takes
      <4>2. InForce(s)[f] = saves \/ InForce(s)[f] = InForce(fs)[f] BY <4>1
      <4> QED BY <1>1, <4>2 DEF AnsweredIsKept
    <3>5. CASE Edits
      <4>1. PICK g \in Files, c \in {Gone, Foreign} : InForce(s) = [InForce(fs) EXCEPT ![g] = c]
        BY <2>2, <3>5 DEF Edits
      <4>2. c \notin Nat BY ContentsAssumption
      <4>3. InForce(fs) \in [Files -> {InForce(fs)[h] : h \in Files}] BY DEF InForce
      <4>4. InForce(s)[f] = c \/ InForce(s)[f] = InForce(fs)[f] BY <3>2, <4>1, <4>3
      <4> QED BY <1>1, <4>2, <4>4 DEF AnsweredIsKept
    <3> QED BY <3>1, <3>3, <3>4, <3>5
  <2>3. s \in survivors \/ s = fs' BY DEF Moves, Quiet, Takes, Edits, Settles, Rewinds
  <2> QED BY <2>1, <2>2, <2>3
<1>3. CASE Answers
  <2>1. /\ answered' = [no |-> fs.run.no, files |-> fs.run.files] /\ survivors' = {fs}
        /\ Has(fs, "COMMITTED") /\ AllNew(fs) /\ fs.run.no \in Nat /\ fs.run.files \subseteq Files
    BY <1>1, <1>3 DEF Answers, Settles, StateInv, CallsInv, DiskInv, WellFormed,
                      FileSystem, Run
  <2>2. \A f \in fs.run.files : InForce(fs)[f] = fs.run.no
    BY <2>1 DEF InForce, Pending, AllNew, New
  <2>3. \A s \in survivors' : \A f \in answered'.files :
          InForce(s)[f] \in Nat => InForce(s)[f] >= answered'.no
    BY <2>1, <2>2
  <2> QED BY <2>3 DEF AnsweredIsKept, InForce, Pending, Has, New
<1> QED BY <1>2, <1>3 DEF Moves

LEMMA Inductive ==
  ASSUME IInv, [SetupNext]_setupVars
  PROVE  IInv' /\ Moves
BY StateStep, AnsweredStep DEF IInv

LEMMA Initially == SetupInit => IInv
<1> SUFFICES ASSUME SetupInit PROVE IInv OBVIOUS
<1>1. PICK live \in [Files -> {Gone, 0}] :
        fs = [live |-> live, present |-> FALSE, entries |-> {},
              run |-> [no |-> 0, files |-> {}, was |-> live]]
  BY DEF SetupInit
<1>2. /\ survivors = {fs} /\ at = "off" /\ job = {} /\ recovering = FALSE /\ left = {}
      /\ failed = FALSE /\ answered = [no |-> 0, files |-> {}]
      /\ saves = 0 /\ faults = 0 /\ edited = FALSE
  BY DEF SetupInit
<1>3. 0 \in 0..MaxSaves /\ 0 \in 0..MaxFaults /\ 0 \in 0..saves BY <1>2, BoundsAssumption
<1>4. live \in [Files -> Contents] /\ live \in [Files -> Held]
  BY <1>3 DEF Contents, Held
<1>5. fs \in FileSystem BY <1>1, <1>3, <1>4 DEF FileSystem, Run
<1>6. WellFormed(fs) BY <1>1, <1>3, <1>4 DEF WellFormed
<1>7. DiskInv BY <1>2, <1>5, <1>6 DEF DiskInv
<1>8. WizardInv BY <1>2, <1>3 DEF WizardInv, Steps
<1>9. FreshInv /\ CallsInv
  BY <1>2 DEF FreshInv, CallsInv, Saving, Staging, CommitSteps, MarkSteps
<1>10. AnsweredIsKept BY <1>2 DEF AnsweredIsKept
<1> QED BY <1>7, <1>8, <1>9, <1>10 DEF IInv, StateInv

----------------------------------------------------------------------------
\* IInv holds in every state.
THEOREM SetupInvariance == SetupSpec => []IInv
<1>1. IInv /\ [SetupNext]_setupVars => IInv' BY Inductive
<1> QED BY <1>1, Initially, PTL DEF SetupSpec

\* The disk, what may be left of it, and the wizard keep their types.
THEOREM SetupTypeCorrect == SetupSpec => []SetupTypeOK
<1>1. IInv => SetupTypeOK
  <2> SUFFICES ASSUME IInv PROVE SetupTypeOK OBVIOUS
  <2>1. saves \in 0..MaxSaves /\ 0..saves \subseteq 0..MaxSaves
    BY BoundsAssumption DEF IInv, StateInv, WizardInv
  <2>2. answered \in [no : 0..MaxSaves, files : SUBSET Files]
    BY <2>1 DEF IInv, StateInv, WizardInv
  <2> QED BY <2>2 DEF IInv, StateInv, DiskInv, WizardInv, SetupTypeOK
<1> QED BY <1>1, SetupInvariance, PTL

\* A save that was answered, its marker on disk, is never rolled back
\* (_mark_committed: "no later failure may send the transaction down the
\* rollback path").
THEOREM AnsweredStays == SetupSpec => []AnsweredIsKept
<1>1. IInv => AnsweredIsKept BY DEF IInv
<1> QED BY <1>1, SetupInvariance, PTL

\* Recovery and roll-back leave files they do not know alone (_rollback,
\* _transaction_items_are_valid).
THEOREM OthersStayAsTheyAre == SetupSpec => OthersAreKept
<1>1. IInv /\ [SetupNext]_setupVars => [OthersStay]_setupVars
  BY Inductive DEF Moves
<1>2. OthersAreKept <=> [][OthersStay]_setupVars BY DEF OthersAreKept, OthersStay
<1> QED BY <1>1, <1>2, SetupInvariance, PTL DEF SetupSpec

----------------------------------------------------------------------------
\* LocalSetup implements SetupStore.

LEMMA StoreInit == SetupInit => SetupPromise!Init
<1> SUFFICES ASSUME SetupInit PROVE SetupPromise!Init OBVIOUS
<1>1. PICK live \in [Files -> {Gone, 0}] :
        fs = [live |-> live, present |-> FALSE, entries |-> {},
              run |-> [no |-> 0, files |-> {}, was |-> live]]
  BY DEF SetupInit
<1>2. survivors = {fs} /\ job = {} /\ saves = 0 BY DEF SetupInit
<1>3. fs.live = live /\ ~fs.present BY <1>1
<1>4. InForce(fs) = [f \in Files |-> live[f]] BY <1>3 DEF InForce, Pending
<1>5. InForce(fs) \in [Files -> {Gone, 0}] BY <1>1, <1>4
<1> QED BY <1>2, <1>5 DEF SetupPromise!Init, Asked

\* Only Submit asks for a save, when none is made; any other step leaves the
\* request as it is or ends it.
LEMMA AskedStep ==
  ASSUME StateInv, [SetupNext]_setupVars
  PROVE  \/ Submit
         \/ saves' = saves /\ (Asked' = Asked \/ Asked' = {})
<1> USE DEF Asked, SaveIsMade
<1>1. CASE Wizard
  <2>1. CASE StartWizard
    BY <2>1 DEF StartWizard, counters
  <2>2. CASE CloseWizard \/ Undo \/ MarkCommitted \/ SyncUndone \/ Clean \/ Purge
    <3>1. UNCHANGED <<job, recovering, saves>>
      BY <2>2 DEF CloseWizard, Undo, MarkCommitted, SyncUndone, Clean, Purge, control, counters
    <3>2. at = "off" \/ at = "idle" => at' = "off"
      BY <2>2 DEF CloseWizard, Undo, MarkCommitted, SyncUndone, Clean, Purge, Goto,
        MarkSteps
    <3>3. at' \in StageSteps \cup CommitSteps => at \in StageSteps \cup CommitSteps
      BY <2>2 DEF CloseWizard, Undo, MarkCommitted, SyncUndone, Clean, Purge, Goto, Call,
        Sync, StageSteps, CommitSteps, MarkSteps
    <3> QED BY <3>1, <3>2, <3>3
  <2>3. CASE Decide \/ Recovered
    <3>1. /\ UNCHANGED <<job, saves>> /\ at = "recover" /\ recovering
      BY <2>3 DEF Decide, Recovered, counters, StateInv, CallsInv
    <3> QED BY <3>1
  <2>4. CASE Stage \/ Commit \/ SyncCommitted
    <3>1. /\ UNCHANGED <<job, recovering, saves>> /\ at \in Saving \cup {"mkdir"}
      BY <2>4 DEF Stage, Commit, SyncCommitted, counters, Saving, Staging, CommitSteps
    <3>2. ~recovering BY <3>1 DEF StateInv, CallsInv
    <3>3. at = "committed.synced" => at' = "clean"
      BY <2>4 DEF Stage, Commit, SyncCommitted, Sync
    <3>4. Saving \cup {"mkdir"} = StageSteps \cup CommitSteps \cup {"committed.synced"}
      BY DEF Saving, Staging, StageSteps, CommitSteps
    <3> QED BY <3>1, <3>2, <3>3, <3>4 DEF StageSteps, CommitSteps, MarkSteps
  <2> QED BY <1>1, <2>1, <2>2, <2>3, <2>4 DEF Wizard
<1>2. CASE CallFails
  <2>1. UNCHANGED <<job, recovering, saves>> BY <1>2 DEF CallFails
  <2>2. /\ at \notin {"off", "idle"}
        /\ at' \notin StageSteps \cup CommitSteps
    BY <1>2 DEF CallFails, StageFails, CommitFails, SyncCommittedFails, UndoFails,
      CleanFails, DropStaged, RollBack, GiveUp, Goto, Call, StageSteps, CommitSteps,
      MarkSteps, CleanSteps
  <2> QED BY <2>1, <2>2
<1>3. CASE WizardDies \/ PowerFails
  BY <1>3 DEF WizardDies, PowerFails, Stop
<1>4. CASE EditByHand
  BY <1>4 DEF EditByHand, Call, control
<1>5. CASE UNCHANGED setupVars
  BY <1>5 DEF setupVars
<1> QED BY <1>1, <1>2, <1>3, <1>4, <1>5 DEF SetupNext

LEMMA StoreStep ==
  ASSUME IInv, [SetupNext]_setupVars
  PROVE  [SetupPromise!Next]_<<InForce(fs), {InForce(s) : s \in survivors}, Asked, saves>>
<1> DEFINE stored == InForce(fs)
           stored2 == InForce(fs')
           onDisk == {InForce(s) : s \in survivors}
           onDisk2 == {InForce(s) : s \in survivors'}
<1>1. StateInv /\ Moves /\ fs \in survivors BY Inductive DEF IInv, StateInv, DiskInv
<1>2. stored \in onDisk BY <1>1
<1>3. survivors' = survivors \cup {fs'} => onDisk2 = onDisk \cup {stored2} OBVIOUS
<1>4. survivors' = {fs'} => onDisk2 = {stored2} OBVIOUS
<1>5. stored' = stored2 /\ onDisk' = onDisk2 BY DEF InForce, Pending, Has, New
<1> HIDE DEF stored, stored2, onDisk, onDisk2
<1>6. CASE Submit
  <2>1. /\ at = "idle" /\ at' = "recover" /\ recovering' = TRUE /\ saves' = saves + 1
        /\ job' \in SUBSET Files /\ job' /= {} /\ UNCHANGED <<fs, survivors>>
    BY <1>6 DEF Submit, Goto
  <2>2. Asked = {} /\ Asked' = job'
    BY <2>1 DEF Asked, SaveIsMade, StageSteps, CommitSteps, MarkSteps
  <2>3. stored' = stored /\ onDisk' = onDisk BY <2>1 DEF stored, onDisk, InForce, Pending, Has, New
  <2>4. SetupPromise!Ask BY <2>1, <2>2, <2>3 DEF SetupPromise!Ask, stored, onDisk
  <2> QED BY <2>4 DEF SetupPromise!Next
<1>7. ASSUME saves' = saves, Asked' = Asked \/ Asked' = {}
      PROVE  [SetupPromise!Next]_<<InForce(fs), {InForce(s) : s \in survivors}, Asked, saves>>
  <2>1. CASE Quiet
    <3>1. stored2 = stored BY <2>1 DEF Quiet, stored, stored2
    <3>2. onDisk2 = onDisk BY <1>2, <1>3, <2>1, <3>1 DEF Quiet
    <3>3. CASE Asked' = Asked BY <1>5, <1>7, <3>1, <3>2, <3>3 DEF stored, onDisk
    <3>4. CASE Asked' = {}
      <4>1. SetupPromise!Refuse
        BY <1>5, <1>7, <3>1, <3>2, <3>4 DEF SetupPromise!Refuse, stored, onDisk
      <4> QED BY <4>1 DEF SetupPromise!Next
    <3> QED BY <1>7, <3>3, <3>4
  <2>2. CASE Takes
    <3>1. /\ ~recovering /\ fs.run.files = job
      BY <1>1, <2>2 DEF Takes, StateInv, CallsInv, Saving, CommitSteps, MarkSteps
    <3>2. Asked = fs.run.files /\ Asked' = {}
      BY <2>2, <3>1 DEF Takes, Asked, SaveIsMade, StageSteps, CommitSteps, MarkSteps
    <3>3. stored2 = [f \in Files |-> IF f \in Asked THEN saves ELSE stored[f]]
      BY <2>2, <3>2 DEF Takes, stored, stored2
    <3>4. onDisk2 = onDisk \cup {stored2} BY <1>3, <2>2 DEF Takes
    <3>5. CASE Asked /= {}
      <4>1. SetupPromise!Save
        BY <1>5, <1>7, <3>2, <3>3, <3>4, <3>5 DEF SetupPromise!Save, stored, onDisk
      <4> QED BY <4>1 DEF SetupPromise!Next
    <3>6. CASE Asked = {}
      <4>1. stored2 = stored BY <3>3, <3>6 DEF stored, InForce
      <4>2. onDisk2 = onDisk BY <1>2, <3>4, <4>1
      <4> QED BY <1>5, <1>7, <3>2, <3>6, <4>1, <4>2 DEF stored, onDisk
    <3> QED BY <3>5, <3>6
  <2>3. CASE Edits
    <3>1. PICK f \in Files, c \in {Gone, Foreign} : stored2 = [stored EXCEPT ![f] = c]
      BY <2>3 DEF Edits, stored, stored2
    <3>2. onDisk2 = onDisk \cup {stored2} BY <1>3, <2>3 DEF Edits
    <3>3. Asked = {} /\ Asked' = {}
      BY <2>3, <1>7 DEF Edits, Asked, SaveIsMade, StageSteps, CommitSteps, MarkSteps
    <3>4. SetupPromise!Edit
      BY <1>5, <1>7, <3>1, <3>2, <3>3 DEF SetupPromise!Edit, stored, onDisk
    <3> QED BY <3>4 DEF SetupPromise!Next
  <2>4. CASE Settles
    <3>1. stored2 = stored /\ onDisk2 = {stored}
      BY <1>4, <2>4 DEF Settles, stored, stored2
    <3>2. CASE Asked' = Asked
      <4>1. SetupPromise!Settle
        BY <1>5, <1>7, <3>1, <3>2 DEF SetupPromise!Settle, stored, onDisk
      <4> QED BY <4>1 DEF SetupPromise!Next
    <3>3. CASE Asked' = {}
      <4>1. SetupPromise!Refuse
        BY <1>5, <1>7, <3>1, <3>3 DEF SetupPromise!Refuse, stored, onDisk
      <4> QED BY <4>1 DEF SetupPromise!Next
    <3> QED BY <1>7, <3>2, <3>3
  <2>5. CASE Rewinds
    <3>1. stored2 \in onDisk BY <2>5 DEF Rewinds, stored2, onDisk
    <3>2. onDisk2 = {stored2} BY <1>4, <2>5 DEF Rewinds
    <3>3. Asked' = {}
      BY <2>5, <1>7 DEF Rewinds, Asked, SaveIsMade, StageSteps, CommitSteps, MarkSteps
    <3>4. SetupPromise!PowerFails
      BY <1>5, <1>7, <3>1, <3>2, <3>3 DEF SetupPromise!PowerFails, stored, onDisk
    <3> QED BY <3>4 DEF SetupPromise!Next
  <2> QED BY <1>1, <2>1, <2>2, <2>3, <2>4, <2>5 DEF Moves
<1> QED BY <1>1, <1>6, <1>7, AskedStep

\* The wizard implements SetupStore: a save takes effect on all of its files
\* with one call, COMMITTED's rename, and at most once; the other calls of
\* staging, commit, roll-back, clean-up and recovery, and their failures, change
\* nothing (save, _recover_staging).
THEOREM StoreIsImplemented == SetupSpec => ImplementsStore
<1>1. IInv /\ [SetupNext]_setupVars
        => [SetupPromise!Next]_<<InForce(fs), {InForce(s) : s \in survivors}, Asked, saves>>
  BY StoreStep
<1> QED BY <1>1, StoreInit, SetupInvariance, PTL
        DEF SetupSpec, ImplementsStore, SetupPromise!Spec, SetupPromise!storeVars

----------------------------------------------------------------------------
\* What recovery finds.

\* Recovery finishes or undoes it: no ROLLBACK_FAILED.
Accepted(s) ==
  /\ ~Has(s, "manifest") => Purgeable(s)
  /\ Has(s, "manifest") /\ Has(s, "COMMITTED") => KnownCommitted(s)
  /\ Pending(s) => KnownUncommitted(s) /\ \A f \in s.run.files : Undoable(s, f)

\* Whatever call, process or power failed, and on whichever disk is left:
\* recovery accepts what it finds, unless the marker PREPARING is missing or a
\* file was changed by hand (_recover_staging, _run_directory_entries_are_known).
LeftoversAreAccepted ==
  ~edited => \A s \in survivors : s.present /\ ~Orphaned(s) => Accepted(s)

\* A run directory that is never touched again is litter: the files are the
\* configuration in force (_recover_run_without_manifest).
OrphansAreLitter == \A s \in survivors : Orphaned(s) => InForce(s) = s.live

\* Recovery and roll-back give up only on an orphan, on files changed by hand,
\* or because a call failed (_recover_staging, _rollback).
GivesUpOnlyIfItMust ==
  [][(at \in {"recover", "undo"} /\ at' \in {"off", "idle"} /\ faults' = faults)
     => ~fs.present \/ Orphaned(fs) \/ edited \/ (at = "undo" /\ failed)]_setupVars

\* Entries that go together, and files that go with them.
EntriesOK(s) ==
  /\ Has(s, "manifest") => Has(s, "PREPARING")
  /\ Has(s, "COMMITTED") /\ ~Has(s, "manifest") => FileEntries(s) = {}
  /\ Pending(s) => \A f \in s.run.files : Undoable(s, f)
FilesOK(s) ==
  /\ Has(s, "manifest") /\ Has(s, "COMMITTED") => AllNew(s)
  /\ Pending(s) => ItemsValid(s)

\* The hard link to an old file is made before the file is staged.
Linked(S) == \A f \in S : Existed(fs, f) => Rollback(f) \in fs.entries
LinksInv ==
  /\ at \in {"preparing.sync", "file", "manifest"} => Has(fs, "PREPARING")
  /\ at \in Staging \ {"manifest"} => Linked({f \in job : Tmp(f) \in fs.entries})
  /\ at \in {"manifest", "manifest.sync"} => Linked(job)
  /\ at = "commit" => Linked(left)

FoundInv ==
  /\ \A s \in survivors : EntriesOK(s) /\ (~edited => FilesOK(s))
  /\ LinksInv

----------------------------------------------------------------------------
\* Without markers there is nothing to go together.
LEMMA UnmarkedOK ==
  ASSUME NEW s, ~Has(s, "manifest"), ~Has(s, "COMMITTED")
  PROVE  EntriesOK(s) /\ FilesOK(s)
BY DEF EntriesOK, FilesOK, Pending

\* Entries are removed.
LEMMA FewerEntriesOK ==
  ASSUME NEW s, NEW t, t.live = s.live, t.run = s.run, t.present => s.present,
         t.entries \subseteq s.entries, EntriesOK(s),
         Has(t, "manifest") => /\ Has(t, "PREPARING")
                               /\ Has(s, "COMMITTED") => Has(t, "COMMITTED"),
         Has(t, "COMMITTED") /\ ~Has(t, "manifest") => FileEntries(t) = {},
         Pending(t) => \/ NoneNew(s)
                       \/ \A f : Rollback(f) \in s.entries => Rollback(f) \in t.entries
  PROVE  EntriesOK(t) /\ (FilesOK(s) => FilesOK(t))
<1>1. /\ Has(t, "manifest") => Has(s, "manifest")
      /\ Has(t, "COMMITTED") => Has(s, "COMMITTED")
      /\ Pending(t) => Pending(s)
  BY DEF Has, Pending
<1>2. ASSUME Pending(t), NEW f \in t.run.files PROVE Undoable(t, f)
  <2>1. Undoable(s, f) BY <1>1, <1>2 DEF EntriesOK
  <2>2. (New(t, f) <=> New(s, f)) /\ (Existed(t, f) <=> Existed(s, f)) BY DEF New, Existed
  <2>3. CASE NoneNew(s) BY <1>2, <2>2, <2>3 DEF NoneNew, Undoable
  <2>4. CASE \A g : Rollback(g) \in s.entries => Rollback(g) \in t.entries
    BY <2>1, <2>2, <2>4 DEF Undoable
  <2> QED BY <1>2, <2>3, <2>4
<1>3. EntriesOK(t) BY <1>2 DEF EntriesOK
<1>4. FilesOK(s) => FilesOK(t)
  BY <1>1 DEF FilesOK, AllNew, ItemsValid, New
<1> QED BY <1>3, <1>4

\* A call that shows the disk fs', or none.
LEMMA FoundStep ==
  ASSUME FoundInv, survivors' \subseteq survivors \cup {fs'}, edited' = edited,
         fs' \in survivors \/ (EntriesOK(fs)' /\ (~edited => FilesOK(fs)')),
         LinksInv'
  PROVE  FoundInv'
<1>1. ASSUME NEW s \in survivors' PROVE EntriesOK(s)' /\ (~edited' => FilesOK(s)')
  <2>1. CASE s \in survivors
    BY <2>1 DEF FoundInv, EntriesOK, FilesOK, Has, FileEntries, Pending, Undoable, New,
                Existed, AllNew, ItemsValid
  <2>2. CASE s = fs' /\ s \notin survivors
    BY <2>2 DEF EntriesOK, FilesOK, Has, FileEntries, Pending, Undoable, New,
                Existed, AllNew, ItemsValid
  <2> QED BY <2>1, <2>2
<1> QED BY <1>1 DEF FoundInv

\* A step that leaves the disk alone.
LEMMA StillFound ==
  ASSUME FoundInv, survivors' \subseteq survivors, edited' = edited, LinksInv'
  PROVE  FoundInv'
<1>1. ASSUME NEW s \in survivors' PROVE EntriesOK(s)' /\ (~edited' => FilesOK(s)')
  BY <1>1 DEF FoundInv, EntriesOK, FilesOK, Has, FileEntries, Pending, Undoable, New,
              Existed, AllNew, ItemsValid
<1> QED BY <1>1 DEF FoundInv

\* Only staging and committing count on hard links.
LEMMA LinksDoNotMatter ==
  ASSUME at' \notin Staging \cup {"manifest.sync", "commit"}
  PROVE  LinksInv'
BY DEF LinksInv, Staging

LEMMA StageFound ==
  ASSUME StateInv, FoundInv, Stage
  PROVE  FoundInv'
<1>1. /\ fs \in FileSystem /\ fs \in survivors /\ WizardInv /\ CallsInv /\ LinksInv
      /\ left' = job /\ job' = job /\ edited' = edited
  BY DEF Stage, StateInv, DiskInv, FoundInv, counters
\* Before the manifest there is nothing to go together.
<1>2. ASSUME survivors' \subseteq survivors \cup {fs'}, LinksInv',
             ~Has(fs', "manifest"), ~Has(fs', "COMMITTED")
      PROVE  FoundInv'
  <2>1. ~Has(fs, "manifest")' /\ ~Has(fs, "COMMITTED")' BY <1>2 DEF Has
  <2>2. EntriesOK(fs)' /\ FilesOK(fs)' BY <2>1 DEF EntriesOK, FilesOK, Pending
  <2> QED BY <1>1, <1>2, <2>2, FoundStep
\* Adding an entry, or renaming to one, before the manifest.
<1>3. ASSUME at \in Staging, at' \in Staging, survivors' = survivors \cup {fs'},
             NEW e \in Entries \ {Mark("manifest"), Mark("COMMITTED")}, NEW old,
             fs'.entries = (fs.entries \ old) \cup {e}, LinksInv'
      PROVE  FoundInv'
  <2>1. ~Has(fs', "manifest") /\ ~Has(fs', "COMMITTED")
    BY <1>1, <1>3 DEF CallsInv, Has
  <2> QED BY <1>2, <1>3, <2>1
<1>4. CASE at = "mkdir"
  <2>1. /\ fs' = [fs EXCEPT !.present = TRUE, !.entries = {},
                            !.run = [no |-> saves, files |-> job, was |-> fs.live]]
        /\ at' = "preparing.tmp" /\ survivors' = survivors \cup {fs'}
    BY <1>4 DEF Stage, Call
  <2>2. fs'.entries = {} BY <1>1, <2>1 DEF FileSystem
  <2>3. LinksInv' BY <2>1, <2>2 DEF LinksInv, Linked, Staging
  <2> QED BY <1>2, <2>1, <2>2, <2>3 DEF Has
<1>5. CASE at = "preparing.tmp"
  <2>1. /\ fs' = Add(fs, Mark("PREPARING.tmp")) /\ at' = "preparing"
        /\ survivors' = survivors \cup {fs'}
    BY <1>5 DEF Stage, Call
  <2>2. /\ Mark("PREPARING.tmp") \in Entries \ {Mark("manifest"), Mark("COMMITTED")}
        /\ \A f \in Files : Tmp(f) /= Mark("PREPARING.tmp")
    BY MarksDiffer DEF Markers, Tmp, Mark
  <2>3. /\ fs'.run = fs.run
        /\ fs'.entries = (fs.entries \ {}) \cup {Mark("PREPARING.tmp")}
    BY <1>1, <2>1, <2>2, Added
  <2>4. Linked({f \in job : Tmp(f) \in fs.entries})'
    <3>1. Linked({f \in job : Tmp(f) \in fs.entries}) BY <1>1, <1>5 DEF LinksInv, Staging
    <3> QED BY <1>1, <2>2, <2>3, <3>1 DEF Linked, Existed, WizardInv
  <2>5. LinksInv' BY <2>1, <2>4 DEF LinksInv
  <2> QED BY <1>3, <1>5, <2>1, <2>2, <2>3, <2>5 DEF Staging
<1>6. CASE at = "preparing"
  <2>1. /\ fs' = Rename(fs, "PREPARING.tmp", "PREPARING") /\ at' = "preparing.sync"
        /\ survivors' = survivors \cup {fs'}
    BY <1>6 DEF Stage, Call
  <2>2. /\ Mark("PREPARING") \in Entries \ {Mark("manifest"), Mark("COMMITTED")}
        /\ \A f \in Files : Tmp(f) /= Mark("PREPARING") /\ Rollback(f) /= Mark("PREPARING.tmp")
    BY MarksDiffer DEF Markers, Tmp, Rollback, Mark
  <2>3. /\ fs'.run = fs.run
        /\ fs'.entries = (fs.entries \ {Mark("PREPARING.tmp")}) \cup {Mark("PREPARING")}
    BY <1>1, <2>1, Renamed DEF Markers
  <2>4. Linked({f \in job : Tmp(f) \in fs.entries})'
    <3>1. Linked({f \in job : Tmp(f) \in fs.entries}) BY <1>1, <1>6 DEF LinksInv, Staging
    <3> QED BY <1>1, <2>2, <2>3, <3>1 DEF Linked, Existed, WizardInv
  <2>5. Has(fs, "PREPARING")' BY <2>3 DEF Has
  <2>6. LinksInv' BY <2>1, <2>4, <2>5 DEF LinksInv
  <2> QED BY <1>3, <1>6, <2>1, <2>2, <2>3, <2>6 DEF Staging
<1>7. CASE at = "preparing.sync"
  <2>1. survivors' = {fs} /\ at' = "file" /\ fs' = fs BY <1>7 DEF Stage, Sync
  <2>2. LinksInv' BY <1>1, <1>7, <2>1 DEF LinksInv, Linked, Staging, Existed, Has
  <2> QED BY <1>1, <2>1, <2>2, StillFound
<1>8. CASE at = "file" /\ Unstaged /= {}
  <2> DEFINE f == Least(Unstaged)
             e == StagedNext
  <2>1. /\ fs' = Add(fs, e) /\ at' = "file" /\ survivors' = survivors \cup {fs'}
    BY <1>8 DEF Stage, Call
  <2>2. e \in Entries \ {Mark("manifest"), Mark("COMMITTED")}
    BY <1>1, <1>8, StagedNextIsEntry, MarksDiffer
  <2>3. f \in job /\ f \in Files
    <3>1. Unstaged \in SUBSET Files BY <1>1 DEF WizardInv, Unstaged
    <3> QED BY <1>8, <3>1, LeastIsLeast DEF Unstaged
  <2>4. /\ e = Rollback(f) \/ e = Tmp(f)
        /\ e = Tmp(f) => fs.live[f] = Gone \/ Rollback(f) \in fs.entries
    BY DEF StagedNext, Tmp, Rollback
  <2> HIDE DEF e, f
  <2>5. fs'.run = fs.run /\ fs'.entries = (fs.entries \ {}) \cup {e}
    BY <1>1, <2>1, <2>2, Added
  <2>6. Linked({g \in job : Tmp(g) \in fs.entries})'
    <3>1. Linked({g \in job : Tmp(g) \in fs.entries}) BY <1>1, <1>8 DEF LinksInv, Staging
    <3>2. fs.live[f] = fs.run.was[f]
      BY <1>1, <1>8, <2>3 DEF CallsInv, Staging, Saving, AsBefore
    <3>3. ASSUME NEW g \in job, Tmp(g) \in fs'.entries, Existed(fs', g)
          PROVE  Rollback(g) \in fs'.entries
      <4>1. CASE Tmp(g) \in fs.entries BY <2>5, <3>1, <3>3, <4>1 DEF Linked, Existed
      <4>2. CASE Tmp(g) = e
        <5>1. g = f BY <2>4, <4>2 DEF Tmp, Rollback
        <5>2. fs.live[f] /= Gone BY <2>5, <3>2, <3>3, <5>1 DEF Existed
        <5>3. e = Tmp(f) BY <4>2, <5>1
        <5> QED BY <2>4, <2>5, <5>1, <5>2, <5>3
      <4> QED BY <2>5, <3>3, <4>1, <4>2
    <3> QED BY <1>1, <3>3 DEF Linked, Existed
  <2>7. Has(fs, "PREPARING")' BY <1>1, <1>8, <2>5 DEF Has, LinksInv
  <2>8. LinksInv' BY <2>1, <2>6, <2>7 DEF LinksInv
  <2> QED BY <1>3, <1>8, <2>1, <2>2, <2>5, <2>8 DEF Staging
<1>9. CASE at = "file" /\ Unstaged = {}
  <2>1. /\ fs' = Add(fs, Mark("manifest.tmp")) /\ at' = "manifest"
        /\ survivors' = survivors \cup {fs'}
    BY <1>9 DEF Stage, Call
  <2>2. Mark("manifest.tmp") \in Entries \ {Mark("manifest"), Mark("COMMITTED")}
    BY MarksDiffer DEF Markers
  <2>3. /\ fs'.run = fs.run /\ fs'.entries = (fs.entries \ {}) \cup {Mark("manifest.tmp")}
    BY <1>1, <2>1, <2>2, Added
  <2>4. Linked(job)'
    <3>1. Linked({f \in job : Tmp(f) \in fs.entries}) BY <1>1, <1>9 DEF LinksInv, Staging
    <3>2. \A f \in job : Tmp(f) \in fs.entries BY <1>9 DEF Unstaged
    <3> QED BY <1>1, <2>3, <3>1, <3>2 DEF Linked, Existed
  <2>5. Has(fs, "PREPARING")' BY <1>1, <1>9, <2>3 DEF Has, LinksInv
  <2>6. LinksInv' BY <2>1, <2>4, <2>5 DEF LinksInv
  <2> QED BY <1>3, <1>9, <2>1, <2>2, <2>3, <2>6 DEF Staging
<1>10. CASE at = "manifest"
  <2>1. /\ fs' = Rename(fs, "manifest.tmp", "manifest") /\ at' = "manifest.sync"
        /\ survivors' = survivors \cup {fs'}
    BY <1>10 DEF Stage, Call
  <2>2. /\ fs'.live = fs.live /\ fs'.run = fs.run
        /\ fs'.entries = (fs.entries \ {Mark("manifest.tmp")}) \cup {Mark("manifest")}
    BY <1>1, <2>1, Renamed DEF Markers
  <2>3. /\ fs.run.files = job /\ AsBefore(fs) /\ ~Has(fs, "COMMITTED")
        /\ Has(fs, "PREPARING") /\ Linked(job)
    BY <1>1, <1>10 DEF CallsInv, LinksInv, Staging, Saving
  <2>4. /\ Mark("manifest") /= Mark("COMMITTED") /\ Mark("manifest.tmp") /= Mark("PREPARING")
        /\ \A f : Rollback(f) /= Mark("manifest.tmp")
    BY MarksDiffer DEF Rollback, Mark
  <2>5. Linked(job)' BY <1>1, <2>2, <2>3, <2>4 DEF Linked, Existed
  <2>6. LinksInv' BY <2>1, <2>5 DEF LinksInv, Staging
  <2>7. ~Has(fs, "COMMITTED")' /\ Has(fs, "PREPARING")' /\ Has(fs, "manifest")'
    BY <2>2, <2>3, <2>4 DEF Has
  <2>8. EntriesOK(fs)'
    BY <1>1, <2>2, <2>3, <2>5, <2>7 DEF EntriesOK, Undoable, Linked, Existed, New
  <2>9. FilesOK(fs)' BY <2>2, <2>3, <2>7 DEF FilesOK, ItemsValid, AsBefore, New
  <2> QED BY <1>1, <2>1, <2>6, <2>8, <2>9, FoundStep
<1>11. CASE at = "manifest.sync"
  <2>1. survivors' = {fs} /\ at' = "commit" /\ fs' = fs BY <1>11 DEF Stage, Sync
  <2>2. LinksInv' BY <1>1, <1>11, <2>1 DEF LinksInv, Linked, Staging, Existed
  <2> QED BY <1>1, <2>1, <2>2, StillFound
<1> QED BY <1>4, <1>5, <1>6, <1>7, <1>8, <1>9, <1>10, <1>11 DEF Stage

\* A committed file keeps its hard link until it is undone.
LEMMA CommittedFound ==
  ASSUME StateInv, FoundInv, at = "commit", NEW f \in left
  PROVE  LET t == Committed(fs, f)
         IN  /\ EntriesOK(t) /\ FilesOK(t)
             /\ \A g \in Files : Rollback(g) \in fs.entries => Rollback(g) \in t.entries
             /\ t.run = fs.run
<1> DEFINE t == Committed(fs, f)
<1>1. /\ fs \in FileSystem /\ WellFormed(fs) /\ WizardInv /\ Pending(fs) /\ ItemsValid(fs)
      /\ left \subseteq job /\ fs.run.files = job /\ f \in Files /\ job \subseteq Files
      /\ EntriesOK(fs) /\ Linked(left)
  BY DEF StateInv, DiskInv, WizardInv, CallsInv, Saving, CommitSteps, FoundInv, LinksInv
<1>2. /\ t.run = fs.run /\ Pending(t) /\ ItemsValid(t)
      /\ \A g \in Files \ {f} : t.live[g] = fs.live[g]
  BY <1>1, CommittedIsNew
<1>3. t.entries = fs.entries \/ t.entries = fs.entries \ {Tmp(f)}
  <2> DEFINE u == [fs EXCEPT !.live[f] = fs.run.no]
  <2>1. u \in FileSystem /\ u.entries = fs.entries
    BY <1>1, Replaced DEF FileSystem, Run, Contents
  <2> HIDE DEF u
  <2>2. t = u \/ t = Remove(u, Tmp(f)) \/ t = Remove(fs, Tmp(f))
    <3>1. CASE Existed(fs, f) BY <3>1 DEF Committed, u
    <3>2. CASE ~Existed(fs, f) /\ fs.live[f] = Gone BY <3>2 DEF Committed, u
    <3>3. CASE ~Existed(fs, f) /\ fs.live[f] /= Gone BY <3>3 DEF Committed, u
    <3> QED BY <3>1, <3>2, <3>3
  <2>3. CASE t = u BY <2>1, <2>3
  <2>4. CASE t = Remove(u, Tmp(f)) BY <2>1, <2>4, Removed
  <2>5. CASE t = Remove(fs, Tmp(f)) BY <1>1, <2>5, Removed
  <2> QED BY <2>2, <2>3, <2>4, <2>5
<1> HIDE DEF t
<1>4. \A g : Rollback(g) /= Tmp(f) /\ Mark("PREPARING") /= Tmp(f)
  BY DEF Rollback, Tmp, Mark
<1>5. \A g \in Files : Rollback(g) \in fs.entries => Rollback(g) \in t.entries
  BY <1>3, <1>4
<1>6. ASSUME NEW g \in job PROVE Undoable(t, g)
  <2>1. CASE g = f BY <1>1, <1>2, <1>5, <2>1 DEF Undoable, Linked, Existed
  <2>2. CASE g /= f
    <3>1. Undoable(fs, g) BY <1>1, <1>6 DEF EntriesOK
    <3> QED BY <1>1, <1>2, <1>5, <1>6, <2>2, <3>1 DEF Undoable, New, Existed
  <2> QED BY <2>1, <2>2
<1>7. Has(t, "manifest") /\ ~Has(t, "COMMITTED") BY <1>2 DEF Pending
<1>8. Has(t, "PREPARING") BY <1>1, <1>3, <1>4 DEF EntriesOK, Pending, Has
<1>9. EntriesOK(t) BY <1>1, <1>2, <1>6, <1>7, <1>8 DEF EntriesOK
<1>10. FilesOK(t) BY <1>2, <1>7 DEF FilesOK
<1> QED BY <1>2, <1>5, <1>9, <1>10 DEF t

LEMMA CommitFound ==
  ASSUME StateInv, FoundInv, Commit
  PROVE  FoundInv'
<1>1. /\ at = "commit" /\ edited' = edited /\ WizardInv /\ Linked(left)
      /\ fs \in survivors
  BY DEF Commit, counters, StateInv, DiskInv, FoundInv, LinksInv
<1>2. CASE left /= {}
  <2> DEFINE f == Least(left)
  <2>1. f \in left BY <1>1, <1>2, LeastIsLeast DEF WizardInv
  <2>2. /\ fs' = Committed(fs, f) /\ at' = "commit" /\ survivors' = survivors \cup {fs'}
        /\ left' \subseteq left
    BY <1>1, <1>2 DEF Commit, Call
  <2> HIDE DEF f
  <2>3. /\ EntriesOK(fs') /\ FilesOK(fs') /\ fs'.run = fs.run
        /\ \A g \in Files : Rollback(g) \in fs.entries => Rollback(g) \in fs'.entries
    BY <1>1, <2>1, <2>2, CommittedFound
  <2>4. LinksInv' BY <1>1, <2>2, <2>3 DEF LinksInv, Linked, Existed, WizardInv, Staging
  <2>5. EntriesOK(fs)' /\ FilesOK(fs)'
    BY <2>3 DEF EntriesOK, FilesOK, Has, FileEntries, Pending, Undoable, New, Existed,
                AllNew, ItemsValid
  <2> QED BY <1>1, <2>2, <2>4, <2>5, FoundStep
<1>3. CASE left = {}
  <2>1. survivors' = {fs} /\ at' = "committed.tmp"
    BY <1>1, <1>3 DEF Commit, Sync
  <2>2. LinksInv' BY <2>1, LinksDoNotMatter DEF Staging
  <2> QED BY <1>1, <2>1, <2>2, StillFound
<1> QED BY <1>2, <1>3

LEMMA MarkFound ==
  ASSUME StateInv, FoundInv, MarkCommitted
  PROVE  FoundInv'
<1>1. /\ fs \in FileSystem /\ fs \in survivors /\ Pending(fs) /\ AllNew(fs)
      /\ EntriesOK(fs) /\ edited' = edited /\ at \in MarkSteps
  BY DEF MarkCommitted, StateInv, DiskInv, CallsInv, FoundInv, MarkSteps, counters
<1>2. LinksInv'
  <2>1. at' \in {"committed.sync", "committed", "committed.synced"}
    BY DEF MarkCommitted, Call, Sync
  <2> QED BY <2>1, LinksDoNotMatter DEF Staging
<1>3. Has(fs, "manifest") /\ Has(fs, "PREPARING") BY <1>1 DEF EntriesOK, Pending
<1>4. CASE at = "committed.tmp"
  <2>1. fs' = Add(fs, Mark("COMMITTED.tmp")) /\ survivors' = survivors \cup {fs'}
    BY <1>4 DEF MarkCommitted, Call
  <2>2. Mark("COMMITTED.tmp") \in Entries /\ Mark("COMMITTED.tmp") /= Mark("COMMITTED")
    BY MarksDiffer DEF Markers
  <2>3. /\ fs'.live = fs.live /\ fs'.run = fs.run
        /\ fs'.entries = fs.entries \cup {Mark("COMMITTED.tmp")}
    BY <1>1, <2>1, <2>2, Added
  <2>4. Has(fs, "PREPARING")' /\ Has(fs, "manifest")' /\ ~Has(fs, "COMMITTED")'
    BY <1>1, <1>3, <2>2, <2>3 DEF Has, Pending
  <2>5. EntriesOK(fs)'
    BY <1>1, <2>3, <2>4 DEF EntriesOK, Undoable, New, Existed
  <2>6. FilesOK(fs)' BY <1>1, <2>3, <2>4 DEF FilesOK, ItemsValid, AllNew, New
  <2> QED BY <1>1, <1>2, <2>1, <2>5, <2>6, FoundStep
<1>5. CASE at = "committed.sync"
  <2>1. survivors' = {fs} BY <1>5 DEF MarkCommitted, Sync
  <2> QED BY <1>1, <1>2, <2>1, StillFound
<1>6. CASE at = "committed"
  <2>1. /\ fs' = Rename(fs, "COMMITTED.tmp", "COMMITTED")
        /\ survivors' = survivors \cup {fs'}
    BY <1>6 DEF MarkCommitted, Call
  <2>2. /\ fs'.live = fs.live /\ fs'.run = fs.run
        /\ fs'.entries = (fs.entries \ {Mark("COMMITTED.tmp")}) \cup {Mark("COMMITTED")}
    BY <1>1, <2>1, Renamed DEF Markers
  <2>3. Mark("COMMITTED.tmp") /= Mark("manifest") /\ Mark("COMMITTED.tmp") /= Mark("PREPARING")
    BY MarksDiffer
  <2>4. Has(fs, "PREPARING")' /\ Has(fs, "manifest")' /\ Has(fs, "COMMITTED")'
    BY <1>3, <2>2, <2>3 DEF Has
  <2>5. EntriesOK(fs)' BY <2>4 DEF EntriesOK, Pending
  <2>6. FilesOK(fs)' BY <1>1, <2>2, <2>4 DEF FilesOK, AllNew, New, Pending
  <2> QED BY <1>1, <1>2, <2>1, <2>5, <2>6, FoundStep
<1> QED BY <1>1, <1>4, <1>5, <1>6 DEF MarkSteps

\* What is undone is no longer new, and needs no hard link.
LEMMA UndoFound ==
  ASSUME StateInv, FoundInv, Undo
  PROVE  FoundInv'
<1> DEFINE f == Greatest(left)
<1>1. /\ fs \in FileSystem /\ fs \in survivors /\ WellFormed(fs) /\ WizardInv /\ Pending(fs)
      /\ left \subseteq fs.run.files /\ fs.run.files \subseteq Files
      /\ EntriesOK(fs) /\ (~edited => FilesOK(fs))
      /\ left /= {} /\ edited' = edited /\ at' = "undo"
  BY DEF Undo, StateInv, DiskInv, CallsInv, FoundInv, FileSystem, Run, counters, Call, Goto
<1>2. f \in left BY <1>1, GreatestIsGreatest DEF WizardInv
<1>3. LinksInv' BY <1>1, LinksDoNotMatter DEF Staging
<1>4. \/ fs' = Undone(fs, f) /\ survivors' = survivors \cup {fs'}
      \/ survivors' = survivors
  BY DEF Undo, Call, Goto
<1> HIDE DEF f
<1>5. CASE survivors' = survivors BY <1>1, <1>3, <1>5, StillFound
<1>6. CASE fs' = Undone(fs, f) /\ survivors' = survivors \cup {fs'}
  <2>1. /\ fs'.run = fs.run /\ Pending(fs') /\ ~New(fs', f)
        /\ \A g \in Files \ {f} : fs'.live[g] = fs.live[g]
        /\ fs'.live[f] = fs.live[f] \/ fs'.live[f] = fs.run.was[f]
    BY <1>1, <1>2, <1>6, UndoneIsNotNew
  <2>2. fs'.entries = fs.entries \/ fs'.entries = fs.entries \ {Rollback(f)}
    <3> DEFINE u == [fs EXCEPT !.live[f] = fs.run.was[f]]
               w == [fs EXCEPT !.live[f] = Gone]
    <3>1. u \in FileSystem /\ u.entries = fs.entries
      BY <1>1, <1>2, Replaced DEF FileSystem, Run
    <3>2. w.entries = fs.entries BY <1>1 DEF FileSystem
    <3> HIDE DEF u, w
    <3>3. fs' = Remove(u, Rollback(f)) \/ fs' = w \/ fs' = fs
      <4>1. CASE New(fs, f) /\ Existed(fs, f) BY <1>6, <4>1 DEF Undone, u
      <4>2. CASE New(fs, f) /\ ~Existed(fs, f) BY <1>6, <4>2 DEF Undone, w
      <4>3. CASE ~New(fs, f) BY <1>6, <4>3 DEF Undone
      <4> QED BY <4>1, <4>2, <4>3
    <3>4. CASE fs' = Remove(u, Rollback(f)) BY <3>1, <3>4, Removed
    <3> QED BY <3>2, <3>3, <3>4
  <2>3. \A g : g /= f => Rollback(g) /= Rollback(f) BY DEF Rollback
  <2>4. Mark("PREPARING") /= Rollback(f) BY DEF Mark, Rollback
  <2>5. Has(fs', "PREPARING") BY <1>1, <2>2, <2>4 DEF EntriesOK, Pending, Has
  <2>6. ASSUME NEW g \in fs.run.files PROVE Undoable(fs', g)
    <3>1. CASE g = f BY <2>1, <3>1 DEF Undoable
    <3>2. CASE g /= f
      <4>1. Undoable(fs, g) BY <1>1, <2>6 DEF EntriesOK
      <4> QED BY <1>1, <2>1, <2>2, <2>3, <2>6, <3>2, <4>1 DEF Undoable, New, Existed
    <3> QED BY <3>1, <3>2
  <2>7. EntriesOK(fs') BY <2>1, <2>5, <2>6 DEF EntriesOK, Pending
  <2>8. ~edited => FilesOK(fs')
    <3> SUFFICES ASSUME ~edited PROVE FilesOK(fs') OBVIOUS
    <3>1. ItemsValid(fs) BY <1>1 DEF FilesOK
    <3>2. ASSUME NEW g \in fs.run.files PROVE New(fs', g) \/ fs'.live[g] = fs'.run.was[g]
      <4>1. New(fs, g) \/ fs.live[g] = fs.run.was[g] BY <3>1, <3>2 DEF ItemsValid
      <4>2. CASE g = f BY <1>1, <2>1, <4>1, <4>2 DEF New
      <4>3. CASE g /= f BY <1>1, <2>1, <3>2, <4>1, <4>3 DEF New
      <4> QED BY <4>2, <4>3
    <3>3. ItemsValid(fs') BY <2>1, <3>2 DEF ItemsValid
    <3> QED BY <2>1, <3>3 DEF FilesOK, Pending
  <2>9. EntriesOK(fs)' /\ (~edited => FilesOK(fs)')
    BY <2>7, <2>8 DEF EntriesOK, FilesOK, Has, FileEntries, Pending, Undoable, New, Existed,
                AllNew, ItemsValid
  <2> QED BY <1>1, <1>3, <1>6, <2>9, FoundStep
<1> QED BY <1>4, <1>5, <1>6

\* Clean-up removes new files and hard links, then manifest, COMMITTED and
\* PREPARING; purging keeps to no order, but there is no manifest.
LEMMA CleanFound ==
  ASSUME StateInv, FoundInv, Clean \/ Purge
  PROVE  FoundInv'
<1>1. /\ fs \in FileSystem /\ fs \in survivors /\ CallsInv
      /\ EntriesOK(fs) /\ (~edited => FilesOK(fs)) /\ edited' = edited
  BY DEF Clean, Purge, StateInv, DiskInv, FoundInv, counters
<1>2. LinksInv'
  <2>1. at' \in CleanSteps \cup {"recover", "idle"} BY DEF Clean, Purge, Call, Sync, CleanSteps
  <2> QED BY <2>1, LinksDoNotMatter DEF Staging, CleanSteps
<1>3. ASSUME EntriesOK(fs'), ~edited => FilesOK(fs'), survivors' = survivors \cup {fs'}
      PROVE  FoundInv'
  <2>1. EntriesOK(fs)' /\ (~edited => FilesOK(fs)')
    BY <1>3 DEF EntriesOK, FilesOK, Has, FileEntries, Pending, Undoable, New, Existed,
                AllNew, ItemsValid
  <2> QED BY <1>1, <1>2, <1>3, <2>1, FoundStep
<1>4. CASE at = "clean" /\ fs.entries /= {} /\ Call(Remove(fs, FirstToGo(fs)), "clean")
  <2> DEFINE e == FirstToGo(fs)
  <2>1. fs' = Remove(fs, e) /\ survivors' = survivors \cup {fs'} BY <1>4 DEF Call
  <2>2. fs.entries \in SUBSET Entries BY <1>1 DEF FileSystem
  <2>3. /\ \A d \in fs.entries \ {e} : Before(e, d)
        /\ Has(fs, "manifest") => e /= Mark("COMMITTED")
    BY <1>4, <2>2, FirstToGoIsFirst
  <2> HIDE DEF e
  <2>4. /\ fs'.live = fs.live /\ fs'.run = fs.run /\ fs'.present = fs.present
        /\ fs'.entries = fs.entries \ {e}
    BY <1>1, <2>1, Removed
  <2>5. Has(fs', "manifest") => Has(fs', "PREPARING")
    <3> SUFFICES ASSUME Has(fs', "manifest"), e = Mark("PREPARING") PROVE FALSE
      BY <1>1, <2>4 DEF EntriesOK, Has
    <3>1. Before(Mark("PREPARING"), Mark("manifest")) BY <2>3, <2>4 DEF Has
    <3>2. CleanRank["PREPARING"] = 6 /\ CleanRank["manifest"] = 3 BY DEF CleanRank, Markers
    <3> QED BY <3>1, <3>2 DEF Before, Mark
  <2>6. Has(fs', "manifest") /\ Has(fs, "COMMITTED") => Has(fs', "COMMITTED")
    BY <2>3, <2>4 DEF Has
  <2>7. Has(fs', "COMMITTED") /\ ~Has(fs', "manifest") => FileEntries(fs') = {}
    <3> SUFFICES ASSUME Has(fs', "COMMITTED"), ~Has(fs', "manifest") PROVE FileEntries(fs') = {}
      OBVIOUS
    <3>1. CASE Has(fs, "manifest")
      <4>1. e = Mark("manifest") BY <2>4, <3>1 DEF Has
      <4>2. ASSUME NEW d \in FileEntries(fs') PROVE FALSE
        <5>1. d \in fs.entries \ {e} /\ d[2] /= 0 BY <2>4, <4>2 DEF FileEntries
        <5>2. Before(Mark("manifest"), d) BY <2>3, <4>1, <5>1
        <5> QED BY <5>1, <5>2 DEF Before, Mark
      <4> QED BY <4>2
    <3>2. CASE ~Has(fs, "manifest")
      <4>1. FileEntries(fs) = {} BY <1>1, <2>4, <3>2 DEF EntriesOK, Has
      <4> QED BY <2>4, <4>1 DEF FileEntries
    <3> QED BY <3>1, <3>2
  <2>8. Pending(fs') => NoneNew(fs)
    <3>1. Pending(fs') => Pending(fs) BY <2>4, <2>6 DEF Pending, Has
    <3> QED BY <1>1, <1>4, <3>1 DEF CallsInv
  <2>9. EntriesOK(fs') /\ (FilesOK(fs) => FilesOK(fs'))
    BY <1>1, <2>4, <2>5, <2>6, <2>7, <2>8, FewerEntriesOK
  <2> QED BY <1>1, <1>3, <2>1, <2>9
<1>5. CASE /\ at \in {"clean", "purge"} /\ fs.entries = {}
           /\ Call([fs EXCEPT !.present = FALSE], "rmdir.sync")
  <2>1. fs'.entries = {} /\ survivors' = survivors \cup {fs'}
    BY <1>1, <1>5 DEF Call, FileSystem
  <2>2. EntriesOK(fs') /\ FilesOK(fs') BY <2>1, UnmarkedOK DEF Has
  <2> QED BY <1>3, <2>1, <2>2
<1>6. CASE at = "rmdir.sync" /\ Sync(IF recovering THEN "recover" ELSE "idle")
  BY <1>1, <1>2, <1>6, StillFound DEF Sync
<1>7. CASE Purge
  <2>1. ~Has(fs, "manifest") BY <1>1, <1>7 DEF CallsInv, Purge
  <2>2. PICK e \in fs.entries : fs' = Remove(fs, e) /\ survivors' = survivors \cup {fs'}
    BY <1>7 DEF Purge, Call
  <2>3. fs'.entries = fs.entries \ {e} BY <1>1, <2>2, Removed
  <2>4. ~Has(fs', "manifest") BY <2>1, <2>3 DEF Has
  <2>5. Has(fs', "COMMITTED") => FileEntries(fs') = {}
    BY <1>1, <2>1, <2>3 DEF EntriesOK, Has, FileEntries
  <2>6. EntriesOK(fs') /\ FilesOK(fs') BY <2>4, <2>5 DEF EntriesOK, FilesOK, Pending
  <2> QED BY <1>3, <2>2, <2>6
<1> QED BY <1>4, <1>5, <1>6, <1>7 DEF Clean

----------------------------------------------------------------------------
\* Failures.
LEMMA StageFailsFound ==
  ASSUME StateInv, FoundInv, StageFails, edited' = edited
  PROVE  FoundInv'
<1>1. fs \in FileSystem /\ fs \in survivors /\ CallsInv BY DEF StateInv, DiskInv
<1>2. LinksInv'
  <2>1. at' \in {"idle", "clean"} BY DEF StageFails, Goto, DropStaged, Call
  <2> QED BY <2>1, LinksDoNotMatter DEF Staging
<1>3. CASE at = "mkdir" BY <1>1, <1>2, <1>3, StillFound DEF StageFails, Goto
<1>4. CASE at = "manifest.sync"
  <2>1. fs' = fs /\ survivors' = survivors \cup {fs'} BY <1>4 DEF StageFails, DropStaged, Call
  <2> QED BY <1>1, <1>2, <2>1, StillFound
<1>5. CASE at \in Staging
  <2>1. /\ survivors' = survivors \cup {fs'}
        /\ fs' = fs \/ \E e : fs' = Remove(fs, e)
    BY <1>5 DEF StageFails, DropStaged, Call, Staging
  <2>2. ~Has(fs, "manifest") /\ ~Has(fs, "COMMITTED") BY <1>1, <1>5 DEF CallsInv
  <2>3. ~Has(fs', "manifest") /\ ~Has(fs', "COMMITTED")
    <3>1. CASE fs' = fs BY <2>2, <3>1
    <3>2. CASE \E e : fs' = Remove(fs, e) BY <1>1, <2>2, <3>2, Removed DEF Has
    <3> QED BY <2>1, <3>1, <3>2
  <2>4. ~Has(fs, "manifest")' /\ ~Has(fs, "COMMITTED")' BY <2>3 DEF Has
  <2>5. EntriesOK(fs)' /\ FilesOK(fs)' BY <2>4 DEF EntriesOK, FilesOK, Pending
  <2> QED BY <1>2, <2>1, <2>5, FoundStep
<1> QED BY <1>3, <1>4, <1>5 DEF StageFails, Staging

LEMMA CommitFailsFound ==
  ASSUME StateInv, FoundInv, CommitFails, edited' = edited
  PROVE  FoundInv'
<1>1. /\ fs \in FileSystem /\ fs \in survivors /\ WizardInv
      /\ EntriesOK(fs) /\ (~edited => FilesOK(fs))
  BY DEF StateInv, DiskInv, FoundInv
<1>2. PICK t : /\ fs' = t /\ survivors' = survivors \cup {fs'}
               /\ \/ t = fs
                  \/ at = "commit" /\ left /= {} /\ t = Committed(fs, Least(left))
                  \/ at \in MarkSteps /\ t = Remove(fs, Mark("COMMITTED.tmp"))
  BY DEF CommitFails, RollBack, Call
<1>3. LinksInv'
  <2>1. at' \in {"undo", "idle"} BY DEF CommitFails, RollBack, Call
  <2> QED BY <2>1, LinksDoNotMatter DEF Staging
<1>4. EntriesOK(t) /\ (~edited => FilesOK(t))
  <2>1. CASE t = fs BY <1>1, <2>1
  <2>2. CASE at = "commit" /\ left /= {} /\ t = Committed(fs, Least(left))
    <3>1. Least(left) \in left BY <1>1, <2>2, LeastIsLeast DEF WizardInv
    <3> QED BY <2>2, <3>1, CommittedFound
  <2>3. CASE at \in MarkSteps /\ t = Remove(fs, Mark("COMMITTED.tmp"))
    <3>1. /\ t.live = fs.live /\ t.run = fs.run /\ t.present = fs.present
          /\ t.entries = fs.entries \ {Mark("COMMITTED.tmp")}
      BY <1>1, <2>3, Removed
    <3>2. /\ \A name \in {"PREPARING", "manifest", "COMMITTED"} :
               Mark(name) /= Mark("COMMITTED.tmp")
          /\ \A f : Rollback(f) /= Mark("COMMITTED.tmp")
      BY MarksDiffer DEF Rollback, Mark
    <3>3. \A name \in {"PREPARING", "manifest", "COMMITTED"} : Has(t, name) <=> Has(fs, name)
      BY <3>1, <3>2 DEF Has
    <3>4. Pending(fs) BY <2>3 DEF StateInv, CallsInv
    <3>5. Has(t, "manifest") /\ Has(t, "PREPARING") /\ ~Has(t, "COMMITTED")
      BY <1>1, <3>3, <3>4 DEF Pending, EntriesOK
    <3>6. \A f : Rollback(f) \in fs.entries => Rollback(f) \in t.entries BY <3>1, <3>2
    <3>7. ~Has(fs, "COMMITTED") BY <3>3, <3>5
    <3>8. EntriesOK(t) /\ (FilesOK(fs) => FilesOK(t))
      BY <1>1, <3>1, <3>5, <3>6, <3>7, FewerEntriesOK
    <3> QED BY <1>1, <3>8
  <2> QED BY <1>2, <2>1, <2>2, <2>3
<1>5. EntriesOK(fs)' /\ (~edited => FilesOK(fs)')
  BY <1>2, <1>4 DEF EntriesOK, FilesOK, Has, FileEntries, Pending, Undoable, New, Existed,
              AllNew, ItemsValid
<1> QED BY <1>2, <1>3, <1>5, FoundStep

LEMMA EditByHandFound ==
  ASSUME StateInv, FoundInv, EditByHand
  PROVE  FoundInv'
<1>1. /\ fs \in FileSystem /\ fs \in survivors /\ WellFormed(fs) /\ edited' = TRUE
      /\ EntriesOK(fs)
  BY DEF EditByHand, StateInv, DiskInv, FoundInv
<1>2. PICK f \in Files, c \in {Gone, Foreign} :
        /\ fs' = [fs EXCEPT !.live[f] = c] /\ at' = "off"
        /\ survivors' = survivors \cup {fs'}
  BY DEF EditByHand, Call
<1>3. c \in Contents /\ c \notin Nat /\ fs.run.no \in Nat
  BY <1>1, ContentsAssumption DEF Contents, WellFormed
<1>4. /\ fs'.live[f] = c /\ \A g \in Files \ {f} : fs'.live[g] = fs.live[g]
      /\ fs'.run = fs.run /\ fs'.present = fs.present /\ fs'.entries = fs.entries
  BY <1>1, <1>2, <1>3, Replaced
<1>5. \A g \in Files : New(fs', g) => New(fs, g) BY <1>3, <1>4 DEF New
<1>6. EntriesOK(fs')
  <2>1. fs.run.files \subseteq Files BY <1>1 DEF FileSystem, Run
  <2>2. Pending(fs') = Pending(fs) BY <1>4 DEF Pending, Has
  <2>3. ASSUME Pending(fs'), NEW g \in fs'.run.files PROVE Undoable(fs', g)
    <3>1. Undoable(fs, g) BY <1>1, <1>4, <2>2, <2>3 DEF EntriesOK
    <3> QED BY <1>4, <1>5, <2>1, <2>3, <3>1 DEF Undoable, Existed
  <2> QED BY <1>1, <1>4, <2>3 DEF EntriesOK, Has, FileEntries
<1>7. LinksInv' BY <1>2, LinksDoNotMatter DEF Staging
<1>8. ASSUME NEW s \in survivors' PROVE EntriesOK(s)' /\ (~edited' => FilesOK(s)')
  <2>1. EntriesOK(s) BY <1>2, <1>6, <1>8 DEF FoundInv
  <2> QED BY <1>1, <2>1 DEF EntriesOK, Has, FileEntries, Pending, Undoable, New, Existed
<1> QED BY <1>7, <1>8 DEF FoundInv

----------------------------------------------------------------------------
\* All steps, and what follows.
LEMMA FoundNext ==
  ASSUME StateInv, FoundInv, [SetupNext]_setupVars
  PROVE  FoundInv'
<1>1. fs \in survivors BY DEF StateInv, DiskInv
\* Steps that leave the disk alone and are not part of a save.
<1>2. ASSUME survivors' \subseteq survivors, edited' = edited,
             at' \in {"off", "idle", "recover", "mkdir", "purge", "clean", "undo"}
      PROVE  FoundInv'
  <2>1. LinksInv' BY <1>2, LinksDoNotMatter DEF Staging
  <2> QED BY <1>2, <2>1, StillFound
<1>3. CASE StartWizard \/ CloseWizard \/ Submit \/ Recovered
  BY <1>2, <1>3 DEF StartWizard, CloseWizard, Submit, Recovered, Goto, counters, control
<1>4. CASE Decide
  <2>1. survivors' = survivors /\ edited' = edited
        /\ at' \in {"purge", "clean", "undo", "off", "idle"}
    <3>1. CASE ~Has(fs, "manifest")
      <4>1. IF Purgeable(fs) THEN Goto("purge") ELSE GiveUp BY <1>4, <3>1 DEF Decide
      <4> QED BY <1>4, <4>1 DEF Goto, GiveUp, Decide, counters
    <3>2. CASE Has(fs, "manifest") /\ Has(fs, "COMMITTED")
      <4>1. IF KnownCommitted(fs) THEN Goto("clean") ELSE GiveUp BY <1>4, <3>2 DEF Decide
      <4> QED BY <1>4, <4>1 DEF Goto, GiveUp, Decide, counters
    <3>3. CASE Has(fs, "manifest") /\ ~Has(fs, "COMMITTED")
      <4>1. IF KnownUncommitted(fs) THEN Goto("undo") ELSE GiveUp BY <1>4, <3>3 DEF Decide
      <4> QED BY <1>4, <4>1 DEF Goto, GiveUp, Decide, counters
    <3> QED BY <3>1, <3>2, <3>3
  <2> QED BY <1>2, <2>1
<1>5. CASE SyncCommitted \/ SyncUndone
  BY <1>1, <1>2, <1>5 DEF SyncCommitted, SyncUndone, Sync, counters, control
<1>6. CASE CallFails
  <2>1. edited' = edited BY <1>6 DEF CallFails
  <2>2. CASE SyncCommittedFails \/ UndoFails \/ CleanFails
    BY <1>2, <2>1, <2>2 DEF SyncCommittedFails, UndoFails, CleanFails, GiveUp, Goto
  <2> QED BY <1>6, <2>1, <2>2, StageFailsFound, CommitFailsFound DEF CallFails
<1>7. CASE WizardDies \/ PowerFails
  BY <1>2, <1>7 DEF WizardDies, PowerFails, Stop
<1>8. CASE UNCHANGED setupVars
  <2>1. LinksInv'
    BY <1>8 DEF setupVars, FoundInv, LinksInv, Linked, Existed, Has
  <2> QED BY <1>8, <2>1, StillFound DEF setupVars
<1> QED BY <1>3, <1>4, <1>5, <1>6, <1>7, <1>8, StageFound, CommitFound, MarkFound, UndoFound,
           CleanFound, EditByHandFound DEF SetupNext, Wizard

\* What recovery finds, on every disk that may be left.
THEOREM FoundInvariance == SetupSpec => []FoundInv
<1>1. SetupInit => FoundInv
  <2> SUFFICES ASSUME SetupInit PROVE FoundInv OBVIOUS
  <2>1. survivors = {fs} /\ fs.entries = {} /\ at = "off" BY DEF SetupInit
  <2>2. EntriesOK(fs) /\ FilesOK(fs) BY <2>1, UnmarkedOK DEF Has
  <2>3. LinksInv BY <2>1 DEF LinksInv, Staging
  <2> QED BY <2>1, <2>2, <2>3 DEF FoundInv
<1>2. IInv /\ FoundInv /\ [SetupNext]_setupVars => FoundInv' BY FoundNext DEF IInv
<1> QED BY <1>1, <1>2, SetupInvariance, PTL DEF SetupSpec

LEMMA FoundIsAccepted ==
  ASSUME FoundInv, ~edited, NEW s \in survivors, s.present, ~Orphaned(s)
  PROVE  Accepted(s)
<1>1. EntriesOK(s) /\ FilesOK(s) BY DEF FoundInv
<1>2. s.entries = {} \/ Has(s, "PREPARING") BY DEF Orphaned
<1>3. ~Has(s, "manifest") => Purgeable(s) BY <1>1, <1>2 DEF EntriesOK, Purgeable
<1>4. Has(s, "manifest") /\ Has(s, "COMMITTED") => KnownCommitted(s)
  BY <1>1 DEF EntriesOK, FilesOK, KnownCommitted, AllNew
<1>5. Pending(s) => KnownUncommitted(s) /\ \A f \in s.run.files : Undoable(s, f)
  BY <1>1 DEF EntriesOK, FilesOK, KnownUncommitted, Pending
<1> QED BY <1>3, <1>4, <1>5 DEF Accepted

\* Recovery accepts what it finds, whatever failed before (_recover_staging).
THEOREM AllIsAccepted == SetupSpec => []LeftoversAreAccepted
<1>1. FoundInv => LeftoversAreAccepted BY FoundIsAccepted DEF LeftoversAreAccepted
<1> QED BY <1>1, FoundInvariance, PTL

\* An orphaned run directory holds back no configuration
\* (_recover_run_without_manifest).
THEOREM OrphansHoldNothing == SetupSpec => []OrphansAreLitter
<1>1. IInv /\ FoundInv => OrphansAreLitter
  <2> SUFFICES ASSUME IInv, FoundInv, NEW s \in survivors, Orphaned(s)
               PROVE  InForce(s) = s.live
    BY DEF OrphansAreLitter
  <2>1. ~Pending(s) BY DEF FoundInv, EntriesOK, Orphaned, Pending
  <2>2. s.live \in [Files -> Contents] BY DEF IInv, StateInv, DiskInv, FileSystem
  <2> QED BY <2>1, <2>2 DEF InForce
<1> QED BY <1>1, SetupInvariance, FoundInvariance, PTL

\* ROLLBACK_FAILED has a reason: an orphan, an edit or a failing call
\* (_recover_staging, _rollback).
THEOREM GivingUpHasAReason == SetupSpec => GivesUpOnlyIfItMust
<1> DEFINE Reason ==
      (at \in {"recover", "undo"} /\ at' \in {"off", "idle"} /\ faults' = faults)
        => ~fs.present \/ Orphaned(fs) \/ edited \/ (at = "undo" /\ failed)
<1>1. ASSUME StateInv, FoundInv, [SetupNext]_setupVars,
             at \in {"recover", "undo"}, at' \in {"off", "idle"}, faults' = faults,
             fs.present, ~Orphaned(fs), ~edited, ~(at = "undo" /\ failed)
      PROVE  FALSE
  <2>1. fs \in survivors /\ faults \in Nat /\ WizardInv
    BY <1>1 DEF StateInv, DiskInv, WizardInv
  <2>2. Accepted(fs) BY <1>1, <2>1, FoundIsAccepted
  <2>3. Decide \/ SyncUndone
    <3>1. ~CallFails /\ ~WizardDies /\ ~PowerFails /\ ~EditByHand
      BY <1>1, <2>1 DEF CallFails, WizardDies, PowerFails, EditByHand, Stop
    <3>2. ~UNCHANGED setupVars BY <1>1 DEF setupVars
    <3>3. /\ ~StartWizard /\ ~CloseWizard /\ ~Recovered /\ ~Submit
          /\ ~Commit /\ ~SyncCommitted /\ ~Clean /\ ~Purge
      BY <1>1 DEF StartWizard, CloseWizard, Recovered, Submit, Commit, SyncCommitted,
                  Clean, Purge
    <3>4. ~Stage /\ ~MarkCommitted BY <1>1 DEF Stage, MarkCommitted
    <3>5. ~Undo BY <1>1 DEF Undo, Call, Goto
    <3> QED BY <1>1, <3>1, <3>2, <3>3, <3>4, <3>5 DEF SetupNext, Wizard
  <2>4. CASE Decide
    <3>1. CASE ~Has(fs, "manifest")
      <4>1. IF Purgeable(fs) THEN Goto("purge") ELSE GiveUp BY <2>4, <3>1 DEF Decide
      <4> QED BY <1>1, <2>2, <3>1, <4>1 DEF Goto, Accepted
    <3>2. CASE Has(fs, "manifest") /\ Has(fs, "COMMITTED")
      <4>1. IF KnownCommitted(fs) THEN Goto("clean") ELSE GiveUp BY <2>4, <3>2 DEF Decide
      <4> QED BY <1>1, <2>2, <3>2, <4>1 DEF Goto, Accepted
    <3>3. CASE Has(fs, "manifest") /\ ~Has(fs, "COMMITTED")
      <4>1. IF KnownUncommitted(fs) THEN Goto("undo") ELSE GiveUp BY <2>4, <3>3 DEF Decide
      <4>2. Pending(fs) BY <1>1, <3>3 DEF Pending
      <4> QED BY <1>1, <2>2, <4>1, <4>2 DEF Goto, Accepted
    <3> QED BY <3>1, <3>2, <3>3
  <2>5. CASE SyncUndone
    <3>1. Pending(fs) BY <1>1, <2>5 DEF SyncUndone, StateInv, CallsInv
    <3>2. KnownUncommitted(fs) BY <2>2, <3>1 DEF Accepted
    <3> QED BY <1>1, <2>5, <3>2 DEF SyncUndone
  <2> QED BY <2>3, <2>4, <2>5
<1>2. IInv /\ FoundInv /\ [SetupNext]_setupVars => [Reason]_setupVars
  BY <1>1 DEF IInv
<1> QED BY <1>2, SetupInvariance, FoundInvariance, PTL DEF SetupSpec, GivesUpOnlyIfItMust
===============================================================================
