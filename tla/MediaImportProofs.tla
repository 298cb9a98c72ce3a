-------------------------- MODULE MediaImportProofs --------------------------
(***************************************************************************)
(* What MediaImport promises for any number of downloads, any page size,   *)
(* whatever qBittorrent shows, and any plans, settings and titles.         *)
(*                                                                         *)
(* The plans only look at rows of the monitor, so the first half is about  *)
(* the monitor: it writes no row that is not there, which needs that a     *)
(* page holds nothing but rows (PageIsOfRows), and a row that was complete *)
(* once has a completion time.                                             *)
(***************************************************************************)
EXTENDS MediaImport, FiniteSetTheorems, SequenceTheorems, TLAPS

\* What the monitor keeps: types; a page of rows that are there; and a
\* completion time for what is complete.
MonitorInv ==
  /\ MonitorTypeOK
  /\ todo \in Seq(Rows)
  /\ \A j \in Rows : jobs[j].full => jobs[j].done

PlansTypeOK ==
  /\ requests \in [Requests -> ImportRequest \cup {NoImport}]
  /\ config \in Configs
  /\ title \in [Jobs -> MediaTitles]

PlansInv == /\ PlansTypeOK /\ ReviewIsBacked /\ InspectedAsPlanned
            /\ OneActivePlan /\ PlannedDownloadIsComplete

IInv == MonitorInv /\ PlansInv

----------------------------------------------------------------------------
\* Pages.

LEMMA JobsAreFinite ==
  ASSUME NEW S \in SUBSET Jobs
  PROVE  IsFiniteSet(S) /\ Cardinality(S) \in Nat
<1>1. IsFiniteSet(Jobs) BY JobsAssumption, FS_Interval DEF Jobs
<1>2. IsFiniteSet(S) BY <1>1, FS_Subset
<1> QED BY <1>2, FS_CardinalityType

Below(S, j) == {k \in S : k < j}

\* The number of rows below grows with the row.
LEMMA BelowGrows ==
  ASSUME NEW S \in SUBSET Jobs, NEW j \in S
  PROVE  /\ Cardinality(Below(S, j)) \in 0..Cardinality(S)-1
         /\ \A k \in S : k < j => Cardinality(Below(S, k)) < Cardinality(Below(S, j))
<1>1. \A k \in S : Below(S, k) \in SUBSET Jobs BY DEF Below
<1>2. \A k \in S : /\ IsFiniteSet(Below(S, k)) /\ Cardinality(Below(S, k)) \in Nat
  BY <1>1, JobsAreFinite
<1>3. IsFiniteSet(S) /\ Cardinality(S) \in Nat BY JobsAreFinite
<1>4. Cardinality(Below(S, j)) < Cardinality(S)
  <2>1. Below(S, j) \in SUBSET S BY DEF Below
  <2>2. Below(S, j) # S
    <3>1. j \notin Below(S, j) BY DEF Below, Jobs
    <3> QED BY <3>1
  <2>3. /\ Cardinality(Below(S, j)) <= Cardinality(S)
        /\ Cardinality(S) # Cardinality(Below(S, j))
    BY <1>3, <2>1, <2>2, FS_Subset
  <2> QED BY <1>2, <1>3, <2>3
<1>5. ASSUME NEW k \in S, k < j
      PROVE  Cardinality(Below(S, k)) < Cardinality(Below(S, j))
  <2>1. Below(S, k) \in SUBSET Below(S, j)
    <3>1. \A x \in S : x < k => x < j BY <1>5, JobsAssumption DEF Jobs
    <3> QED BY <3>1 DEF Below
  <2>2. Below(S, k) # Below(S, j)
    <3>1. k \in Below(S, j) /\ k \notin Below(S, k) BY <1>5 DEF Below, Jobs
    <3> QED BY <3>1
  <2>3. /\ Cardinality(Below(S, k)) <= Cardinality(Below(S, j))
        /\ Cardinality(Below(S, j)) # Cardinality(Below(S, k))
    BY <1>2, <2>1, <2>2, FS_Subset
  <2> QED BY <1>2, <2>3
<1> QED BY <1>2, <1>3, <1>4, <1>5

\* Among n rows, each i < n is the number of those below one of them: the map to
\* the number below is an injection into 0..n-1, and so onto it.
LEMMA RankExists ==
  ASSUME NEW S \in SUBSET Jobs, NEW i \in 1..Cardinality(S)
  PROVE  \E j \in S : Cardinality({k \in S : k < j}) = i - 1
<1> DEFINE ranks == 0..Cardinality(S)-1
           rank == [j \in S |-> Cardinality(Below(S, j))]
<1>1. Cardinality(S) \in Nat BY JobsAreFinite
<1>2. rank \in [S -> ranks] BY BelowGrows
<1>3. \A j, k \in S : rank[j] = rank[k] => j = k
  <2> SUFFICES ASSUME NEW j \in S, NEW k \in S, j # k PROVE rank[j] # rank[k]
    OBVIOUS
  <2>1. /\ Cardinality(Below(S, j)) \in Nat /\ Cardinality(Below(S, k)) \in Nat
        /\ j < k => Cardinality(Below(S, j)) < Cardinality(Below(S, k))
        /\ k < j => Cardinality(Below(S, k)) < Cardinality(Below(S, j))
    BY BelowGrows, <1>1
  <2>2. j < k \/ k < j BY JobsAssumption DEF Jobs
  <2> QED BY <2>1, <2>2
<1>4. IsFiniteSet(ranks) /\ Cardinality(ranks) = Cardinality(S)
  <2>1. \A n \in Nat : IsFiniteSet(0..n-1) /\ Cardinality(0..n-1) = n
    <3> TAKE n \in Nat
    <3>1. 0 \in Int /\ n-1 \in Int OBVIOUS
    <3>2. /\ IsFiniteSet(0..n-1)
          /\ Cardinality(0..n-1) = IF 0 > n-1 THEN 0 ELSE n-1-0+1
      BY <3>1, FS_Interval
    <3> QED BY <3>2
  <2> QED BY <1>1, <2>1
<1>5. Cardinality(S) = Cardinality(ranks) BY <1>4
<1>6. i - 1 \in ranks BY <1>1
<1> HIDE DEF rank, ranks
<1>7. rank \in Injection(S, ranks)
  <2>1. DOMAIN rank = S BY <1>2
  <2> QED BY <1>2, <1>3, <2>1 DEF Injection, IsInjective
<1>8. rank \in Surjection(S, ranks) BY <1>4, <1>5, <1>7, FS_Injection
<1>9. PICK j \in S : rank[j] = i - 1 BY <1>6, <1>8 DEF Surjection
<1> QED BY <1>9 DEF rank, Below

\* _next_jobs returns rows that are there.
LEMMA PageIsOfRows ==
  ASSUME NEW S \in SUBSET Jobs
  PROVE  Page(S) \in Seq(S)
<1> DEFINE first == {j \in S : Cardinality({k \in S : k < j}) < BatchSize}
           pick(i) == CHOOSE j \in first : Cardinality({k \in first : k < j}) = i - 1
           n == Cardinality(first)
<1>1. first \in SUBSET Jobs OBVIOUS
<1>2. n \in Nat
  <2> HIDE DEF first
  <2> QED BY <1>1, JobsAreFinite
<1>3. \A i \in 1..n : pick(i) \in S
  <2> TAKE i \in 1..n
  <2> HIDE DEF first
  <2>1. \E j \in first : Cardinality({k \in first : k < j}) = i - 1
    BY <1>1, RankExists DEF n
  <2>2. pick(i) \in first BY <2>1
  <2> QED BY <2>2 DEF first
<1>4. [i \in 1..n |-> pick(i)] \in Seq(S)
  <2> HIDE DEF n, pick
  <2> QED BY <1>2, <1>3, IsASeq
<1> QED BY <1>4 DEF Page

----------------------------------------------------------------------------
\* Rows of the monitor.

\* A new status and error leave the rest of a row alone.
LEMMA Marked ==
  ASSUME NEW status \in JobStatuses, NEW error \in Errors, NEW row \in Job
  PROVE  /\ [row EXCEPT !.status = status, !.error = error] \in Job
         /\ [row EXCEPT !.status = status, !.error = error].full = row.full
         /\ [row EXCEPT !.status = status, !.error = error].done = row.done
<1> DEFINE one == [row EXCEPT !.status = status]
           two == [one EXCEPT !.error = error]
<1>1. one \in Job /\ one.full = row.full /\ one.done = row.done BY DEF Job
<1> HIDE DEF one
<1>2. two \in Job BY <1>1 DEF Job
<1>3. two.full = row.full /\ two.done = row.done BY <1>1 DEF Job
<1>4. two = [row EXCEPT !.status = status, !.error = error] BY DEF one
<1> HIDE DEF two
<1> QED BY <1>2, <1>3, <1>4

\* What an observation writes is a row, complete only with a completion time
\* (update_download_job_observation, record_download_job_monitor_error).
LEMMA ObservedIsARow ==
  ASSUME NEW job \in Job, NEW answer \in QbAnswers, job.full => job.done
  PROVE  /\ Observed(job, answer) \in Job
         /\ Observed(job, answer).full => Observed(job, answer).done
<1>1. CASE answer = Absent
  <2>1. Observed(job, answer) = Missing(job)
    BY <1>1, MarkersAssumption DEF Observed
  <2>2. "MISSING" \in JobStatuses /\ "QB_TORRENT_MISSING" \in Errors
    BY DEF JobStatuses, Errors
  <2>3. Missing(job) \in Job /\ Missing(job).full = job.full /\ Missing(job).done = job.done
    BY <2>2, Marked DEF Missing
  <2> QED BY <2>1, <2>3
<1>2. CASE answer = Twice
  <2>1. Observed(job, answer) = Ambiguous(job)
    BY <1>2, MarkersAssumption DEF Observed
  <2>2. "ERROR" \in JobStatuses /\ "QB_INFO_HASH_AMBIGUOUS" \in Errors
    BY DEF JobStatuses, Errors
  <2>3. /\ Ambiguous(job) \in Job
        /\ Ambiguous(job).full = job.full /\ Ambiguous(job).done = job.done
    BY <2>2, Marked DEF Ambiguous
  <2> QED BY <2>1, <2>3
<1>3. CASE answer # Absent /\ answer # Twice
  <2>1. answer \in View BY <1>3, ViewsAssumption DEF QbAnswers
  <2> DEFINE half == [job EXCEPT !.full = answer.full]
             moved == [half EXCEPT !.done = half.done \/ Completes(answer)]
  <2>2. half \in Job /\ half.full = answer.full BY <2>1 DEF Job, View
  <2>3. Completes(answer) \in BOOLEAN /\ (answer.full => Completes(answer))
    BY <2>1 DEF Completes, View
  <2>4. moved \in Job /\ (moved.full => moved.done)
    <3> HIDE DEF half
    <3> QED BY <2>2, <2>3 DEF Job
  <2>5. Transfer(job, answer) = moved
    <3>1. half.done = job.done BY DEF Job
    <3> QED BY <3>1 DEF Transfer
  <2>6. StatusOf(answer) \in JobStatuses BY DEF StatusOf, JobStatuses
  <2> HIDE DEF moved, half
  <2>7. /\ Drifted(job, answer) \in Job /\ Followed(job, answer) \in Job
        /\ Drifted(job, answer).full => Drifted(job, answer).done
        /\ Followed(job, answer).full => Followed(job, answer).done
    <3>1. "ERROR" \in JobStatuses /\ "QB_TORRENT_BINDING_DRIFT" \in Errors
            /\ "QB_TORRENT_STATE_ERROR" \in Errors /\ "NONE" \in Errors
      BY DEF JobStatuses, Errors
    <3> DEFINE row == Transfer(job, answer)
    <3>2. row \in Job /\ (row.full => row.done) BY <2>4, <2>5
    <3> HIDE DEF row
    <3>3. \A status \in JobStatuses, error \in Errors :
            LET new == [row EXCEPT !.status = status, !.error = error]
            IN  new \in Job /\ (new.full => new.done)
      BY <3>2, Marked
    <3>4. Drifted(job, answer) = [row EXCEPT !.status = "ERROR",
                                             !.error = "QB_TORRENT_BINDING_DRIFT"]
      BY DEF Drifted, row
    <3>5. PICK error \in Errors :
            Followed(job, answer) = [row EXCEPT !.status = StatusOf(answer), !.error = error]
      <4>1. Followed(job, answer) =
              [row EXCEPT !.status = StatusOf(answer),
                 !.error = IF StatusOf(answer) = "ERROR" THEN "QB_TORRENT_STATE_ERROR" ELSE "NONE"]
        BY DEF Followed, row
      <4> QED BY <3>1, <4>1
    <3> QED BY <2>6, <3>1, <3>3, <3>4, <3>5
  <2> QED BY <1>3, <2>7 DEF Observed
<1> QED BY <1>1, <1>2, <1>3

\* So is what the executor adds (finalize_download_submission).
LEMMA NewJobIsARow ==
  ASSUME NEW v \in Views
  PROVE  NewJob(v) \in Job /\ (NewJob(v).full => NewJob(v).done)
<1>1. v \in View BY ViewsAssumption
<1>2. StatusOf(v) \in JobStatuses BY DEF StatusOf, JobStatuses
<1>3. Completes(v) \in BOOLEAN /\ (v.full => Completes(v)) BY <1>1 DEF Completes, View
<1>4. v.full \in BOOLEAN BY <1>1 DEF View
<1> QED BY <1>2, <1>3, <1>4 DEF NewJob, Job, Errors

----------------------------------------------------------------------------
\* Steps of the monitor.

LEMMA MonitorInitially == MonitorInit => MonitorInv
<1> SUFFICES ASSUME MonitorInit PROVE MonitorInv
  OBVIOUS
<1>1. Rows = {} BY DEF MonitorInit, Rows
<1>2. todo \in Seq(Jobs) /\ todo \in Seq(Rows) BY EmptySeq DEF MonitorInit
<1>3. 0 \in 0..NJobs /\ 0 \in 0..MaxRestarts BY JobsAssumption, RestartsAssumption
<1>4. MonitorTypeOK BY <1>2, <1>3 DEF MonitorInit, MonitorTypeOK, QbAnswers
<1> QED BY <1>1, <1>2, <1>4 DEF MonitorInv

\* A row is added or written; none disappears.
LEMMA RowWritten ==
  ASSUME MonitorInv, NEW j \in Jobs, NEW row \in Job, row.full => row.done,
         jobs' = [jobs EXCEPT ![j] = row]
  PROVE  /\ jobs' \in [Jobs -> Job \cup {NoJob}]
         /\ Rows \in SUBSET (Rows') /\ j \in Rows'
         /\ \A k \in Rows' : jobs'[k].full => jobs'[k].done
<1>1. row # NoJob BY NoJobAssumption
<1>2. jobs \in [Jobs -> Job \cup {NoJob}] BY DEF MonitorInv, MonitorTypeOK
<1>3. \A k \in Jobs : jobs'[k] = IF k = j THEN row ELSE jobs[k] BY <1>2
<1> QED BY <1>1, <1>2, <1>3 DEF MonitorInv, Rows

LEMMA NoRowWritten ==
  ASSUME MonitorInv, UNCHANGED jobs
  PROVE  /\ Rows' = Rows /\ \A k \in Rows' : jobs'[k].full => jobs'[k].done
BY DEF MonitorInv, Rows

LEMMA AddJobStep ==
  ASSUME MonitorInv, NEW j \in Jobs, AddJob(j)
  PROVE  MonitorInv'
<1>1. qb[j] \in Views BY DEF AddJob
<1>2. /\ jobs' \in [Jobs -> Job \cup {NoJob}] /\ Rows \in SUBSET (Rows')
      /\ \A k \in Rows' : jobs'[k].full => jobs'[k].done
  BY <1>1, NewJobIsARow, RowWritten DEF AddJob
<1>3. todo' \in Seq(Rows') BY <1>2, SeqMonotonic DEF MonitorInv, AddJob, monitorVars
<1> QED BY <1>2, <1>3 DEF MonitorInv, MonitorTypeOK, AddJob, monitorVars

LEMMA WriteJobStep ==
  ASSUME MonitorInv, WriteJob
  PROVE  MonitorInv'
<1> DEFINE j == Head(todo)
           row == Observed(jobs[j], snapshot[j])
<1>1. /\ j \in Rows /\ Tail(todo) \in Seq(Rows) /\ Tail(todo) \in Seq(Jobs)
  BY HeadTailProperties DEF MonitorInv, MonitorTypeOK, WriteJob
<1>2. jobs[j] \in Job /\ snapshot[j] \in QbAnswers /\ (jobs[j].full => jobs[j].done) /\ j \in Jobs
  BY <1>1 DEF MonitorInv, MonitorTypeOK, Rows
<1>3. row \in Job /\ (row.full => row.done) BY <1>2, ObservedIsARow
<1>4. jobs' = [jobs EXCEPT ![j] = row] BY DEF WriteJob
<1>5. /\ jobs' \in [Jobs -> Job \cup {NoJob}] /\ Rows \in SUBSET (Rows')
      /\ \A k \in Rows' : jobs'[k].full => jobs'[k].done
  <2> HIDE DEF row, j
  <2> QED BY <1>2, <1>3, <1>4, RowWritten
<1>6. todo' \in Seq(Rows') /\ todo' \in Seq(Jobs)
  <2>1. todo' = Tail(todo) BY DEF WriteJob
  <2> QED BY <1>1, <1>5, <2>1, SeqMonotonic
<1>7. cursor' \in 0..NJobs
  BY <1>2, JobsAssumption DEF WriteJob, Advance, Jobs, MonitorInv, MonitorTypeOK
<1>8. asked' \in BOOLEAN /\ snapshot' \in [Jobs -> QbAnswers]
  BY DEF WriteJob, MonitorInv, MonitorTypeOK, QbAnswers
<1>9. UNCHANGED <<qb, restarts>> BY DEF WriteJob
<1> QED BY <1>5, <1>6, <1>7, <1>8, <1>9 DEF MonitorInv, MonitorTypeOK

LEMMA ReadPageStep ==
  ASSUME MonitorInv, ReadPage
  PROVE  MonitorInv'
<1> DEFINE page == Page(After(NextCursor))
<1>1. After(NextCursor) \in SUBSET Rows /\ Rows \in SUBSET Jobs BY DEF After, Rows
<1>2. page \in Seq(After(NextCursor)) BY <1>1, PageIsOfRows
<1>3. page \in Seq(Rows) /\ page \in Seq(Jobs) BY <1>1, <1>2, SeqMonotonic
<1>4. /\ todo' = page /\ cursor' = NextCursor
      /\ UNCHANGED <<jobs, qb, asked, snapshot, restarts>>
  BY DEF ReadPage
<1>5. cursor' \in 0..NJobs
  BY <1>4, JobsAssumption DEF NextCursor, MonitorInv, MonitorTypeOK
<1>6. Rows' = Rows /\ \A k \in Rows' : jobs'[k].full => jobs'[k].done
  BY <1>4, NoRowWritten
<1> HIDE DEF page
<1> QED BY <1>3, <1>4, <1>5, <1>6 DEF MonitorInv, MonitorTypeOK

LEMMA MonitorStep ==
  ASSUME MonitorInv, MonitorNext
  PROVE  MonitorInv'
<1>1. ASSUME NEW j \in Jobs, AddJob(j) PROVE MonitorInv' BY <1>1, AddJobStep
<1>2. CASE WriteJob BY <1>2, WriteJobStep
<1>3. CASE ReadPage BY <1>3, ReadPageStep
<1>4. ASSUME NEW j \in Jobs, TorrentChanges(j) PROVE MonitorInv'
  <2>1. UNCHANGED <<jobs, monitorVars>> /\ qb' \in [Jobs -> QbAnswers]
    BY <1>4 DEF TorrentChanges, MonitorInv, MonitorTypeOK
  <2> QED BY <2>1, NoRowWritten DEF MonitorInv, MonitorTypeOK, monitorVars
<1>5. CASE AskQb
  <2>1. /\ UNCHANGED <<jobs, qb, cursor, todo, restarts>> /\ asked' = TRUE
        /\ snapshot' \in [Jobs -> QbAnswers]
    BY <1>5 DEF AskQb, MonitorInv, MonitorTypeOK, QbAnswers
  <2> QED BY <2>1, NoRowWritten DEF MonitorInv, MonitorTypeOK
<1>6. CASE CycleFails \/ RestartMonitor
  <2>1. /\ UNCHANGED <<jobs, qb>> /\ asked' = FALSE /\ todo' = <<>>
        /\ snapshot' \in [Jobs -> QbAnswers]
    BY <1>6 DEF CycleFails, RestartMonitor, QbAnswers
  <2>2. todo' \in Seq(Jobs) /\ todo' \in Seq(Rows') BY <2>1, EmptySeq
  <2>3. cursor' \in 0..NJobs /\ restarts' \in 0..MaxRestarts
    BY <1>6, JobsAssumption, RestartsAssumption
    DEF CycleFails, RestartMonitor, MonitorInv, MonitorTypeOK
  <2> QED BY <2>1, <2>2, <2>3, NoRowWritten DEF MonitorInv, MonitorTypeOK
<1> QED BY <1>1, <1>2, <1>3, <1>4, <1>5, <1>6 DEF MonitorNext

LEMMA MonitorStill ==
  ASSUME MonitorInv, UNCHANGED monitoringVars
  PROVE  MonitorInv'
BY DEF MonitorInv, MonitorTypeOK, monitoringVars, monitorVars, Rows

----------------------------------------------------------------------------
\* Plans.

\* What the invariants say of one request.
RowOK(row) ==
  /\ row.status \in OpenStatuses =>
       (row.status = "REVIEW_REQUIRED" <=>
          row.preflight # NoPreflight /\ row.preflight.verdict \in Passable)
  /\ row.status \in {"REVIEW_REQUIRED", "APPROVED_PLAN_ONLY", "REVOKED"} =>
       row.preflight.asPlanned /\ ReadyState(row.summary)
  /\ row.summary.full /\ row.summary.done

LEMMA PlannedRow ==
  ASSUME PlansInv, NEW r \in Planned
  PROVE  r \in Requests /\ requests[r] \in ImportRequest /\ RowOK(requests[r])
<1>1. r \in Requests /\ requests[r] \in ImportRequest
  BY DEF PlansInv, PlansTypeOK, Planned
<1> QED BY <1>1 DEF PlansInv, ReviewIsBacked, InspectedAsPlanned, PlannedDownloadIsComplete,
      RowOK, Status

\* One request is written: it keeps RowOK and has no active rival.
LEMMA RequestWritten ==
  ASSUME PlansInv, NEW r \in Requests, NEW row \in ImportRequest, RowOK(row),
         requests' = [requests EXCEPT ![r] = row], UNCHANGED <<config, title>>,
         row.status \in ActiveStatuses =>
           \A s \in Planned \ {r} : requests[s].job = row.job => Status(s) \notin ActiveStatuses
  PROVE  PlansInv'
<1>1. requests \in [Requests -> ImportRequest \cup {NoImport}] BY DEF PlansInv, PlansTypeOK
<1>2. \A s \in Requests : requests'[s] = IF s = r THEN row ELSE requests[s] BY <1>1
<1>3. PlansTypeOK' BY <1>1 DEF PlansInv, PlansTypeOK
<1>4. \A s \in Planned' : s # r => s \in Planned BY <1>2 DEF Planned
<1>5. \A s \in Planned' : s \in Requests /\ RowOK(requests'[s])
  BY <1>2, <1>4, PlannedRow DEF Planned
<1>6. (ReviewIsBacked /\ InspectedAsPlanned /\ PlannedDownloadIsComplete)'
  BY <1>5 DEF ReviewIsBacked, InspectedAsPlanned, PlannedDownloadIsComplete, RowOK, Status
<1>7. OneActivePlan'
  <2> SUFFICES ASSUME NEW s \in Planned', NEW t \in Planned', s # t,
                      requests'[s].job = requests'[t].job,
                      requests'[s].status \in ActiveStatuses,
                      requests'[t].status \in ActiveStatuses
               PROVE  FALSE
    BY DEF OneActivePlan, Status
  <2>1. CASE s # r /\ t # r BY <1>2, <1>4, <1>5, <2>1 DEF PlansInv, OneActivePlan, Status
  <2>2. CASE s = r BY <1>2, <1>4, <1>5, <2>2 DEF Status
  <2>3. CASE t = r BY <1>2, <1>4, <1>5, <2>3 DEF Status
  <2> QED BY <2>1, <2>2, <2>3
<1> QED BY <1>3, <1>6, <1>7 DEF PlansInv

\* No request is written.
LEMMA NoRequestWritten ==
  ASSUME PlansInv, UNCHANGED requests, config' \in Configs, title' \in [Jobs -> MediaTitles]
  PROVE  PlansInv'
BY DEF PlansInv, PlansTypeOK, ReviewIsBacked, InspectedAsPlanned, OneActivePlan,
  PlannedDownloadIsComplete, Planned, Status

LEMMA SummaryIsTyped ==
  ASSUME MonitorInv, PlansInv, NEW j \in Jobs, jobs[j] # NoJob
  PROVE  SummaryOf(j) \in Summary
BY DEF MonitorInv, MonitorTypeOK, PlansInv, PlansTypeOK, SummaryOf, Summary, Job

\* Of a row only the status changes.
LEMMA StatusSet ==
  ASSUME NEW row \in ImportRequest, NEW status \in Statuses
  PROVE  LET new == [row EXCEPT !.status = status]
         IN  /\ new \in ImportRequest /\ new.status = status /\ new.job = row.job
             /\ new.preflight = row.preflight /\ new.summary = row.summary
BY DEF ImportRequest

LEMMA PreflightSet ==
  ASSUME NEW row \in ImportRequest, NEW preflight \in ImportPreflight
  PROVE  LET new == [row EXCEPT !.preflight = preflight]
         IN  /\ new \in ImportRequest /\ new.status = row.status /\ new.job = row.job
             /\ new.preflight = preflight /\ new.summary = row.summary
BY DEF ImportRequest

----------------------------------------------------------------------------
\* Steps of the plans.

LEMMA CreatePlanStep ==
  ASSUME IInv, NEW r \in Requests, NEW j \in Jobs, CreatePlan(r, j)
  PROVE  PlansInv'
<1> DEFINE row == [job |-> j, status |-> "PREFLIGHT_REQUIRED", summary |-> SummaryOf(j),
                   config |-> config, preflight |-> NoPreflight]
<1>1. jobs[j] # NoJob /\ ReadyState(SummaryOf(j)) /\ ~Taken(j) /\ r \notin Planned
  BY DEF CreatePlan, Planned
<1>2. SummaryOf(j) \in Summary BY <1>1, SummaryIsTyped DEF IInv
<1>3. "PREFLIGHT_REQUIRED" \in Statuses BY DEF Statuses, ActiveStatuses, OpenStatuses
<1>4. row \in ImportRequest BY <1>2, <1>3 DEF ImportRequest, IInv, PlansInv, PlansTypeOK
<1>5. SummaryOf(j).full /\ SummaryOf(j).done
  BY <1>1 DEF ReadyState, SummaryOf, IInv, MonitorInv, Rows
<1>6. RowOK(row) BY <1>5 DEF RowOK
<1>7. requests' = [requests EXCEPT ![r] = row] /\ UNCHANGED <<config, title>>
  BY DEF CreatePlan, Set
<1>8. \A s \in Planned : requests[s].job = j => Status(s) \notin ActiveStatuses
  BY <1>1 DEF Taken
<1>9. row.job = j OBVIOUS
<1> HIDE DEF row
<1> QED BY <1>4, <1>6, <1>7, <1>8, <1>9, RequestWritten DEF IInv

LEMMA RecordPreflightStep ==
  ASSUME IInv, NEW r \in Requests, RecordPreflight(r)
  PROVE  PlansInv'
<1> DEFINE old == requests[r]
<1>1. r \in Planned /\ Status(r) \in OpenStatuses BY DEF RecordPreflight
<1>2. old \in ImportRequest /\ RowOK(old) BY <1>1, PlannedRow DEF IInv
<1>3. PICK v \in Evaluations(r) :
        requests' = [requests EXCEPT ![r] =
          [old EXCEPT !.preflight = [verdict |-> v, fresh |-> TRUE,
                                     asPlanned |-> SummaryOf(old.job) = old.summary],
                      !.status = IF v \in Passable THEN "REVIEW_REQUIRED"
                                 ELSE "PREFLIGHT_REQUIRED"]]
  BY DEF RecordPreflight, Set
<1> DEFINE preflight == [verdict |-> v, fresh |-> TRUE,
                         asPlanned |-> SummaryOf(old.job) = old.summary]
           status == IF v \in Passable THEN "REVIEW_REQUIRED" ELSE "PREFLIGHT_REQUIRED"
           half == [old EXCEPT !.preflight = preflight]
           row == [half EXCEPT !.status = status]
<1>4. v \in Verdicts BY DEF Evaluations, Verdicts
<1>5. preflight \in ImportPreflight BY <1>4 DEF ImportPreflight
<1>6. preflight # NoPreflight /\ preflight.verdict = v BY <1>5, NoPreflightAssumption
<1>7. v \in Passable => SummaryOf(old.job) = old.summary /\ ReadyState(SummaryOf(old.job))
  BY DEF Evaluations, Passable, Bound
<1>8. /\ status \in Statuses /\ status \in OpenStatuses /\ status # "APPROVED_PLAN_ONLY"
      /\ status = "REVIEW_REQUIRED" <=> v \in Passable
      /\ status # "REVOKED"
  BY DEF Statuses, ActiveStatuses, OpenStatuses
<1>9. v \in Passable => preflight.asPlanned BY <1>7
<1>10. requests' = [requests EXCEPT ![r] = row] BY <1>3
<1> HIDE DEF preflight, status
<1>11. /\ half \in ImportRequest /\ half.job = old.job /\ half.preflight = preflight
       /\ half.summary = old.summary
  BY <1>2, <1>5, PreflightSet
<1> HIDE DEF half
<1>12. /\ row \in ImportRequest /\ row.status = status /\ row.job = old.job
       /\ row.preflight = preflight /\ row.summary = old.summary
  BY <1>8, <1>11, StatusSet
<1> HIDE DEF row
<1>13. RowOK(row)
  BY <1>2, <1>6, <1>7, <1>8, <1>9, <1>12 DEF RowOK
<1>14. \A s \in Planned \ {r} : requests[s].job = row.job => Status(s) \notin ActiveStatuses
  BY <1>1, <1>12 DEF IInv, PlansInv, OneActivePlan, ActiveStatuses
<1> QED BY <1>8, <1>10, <1>12, <1>13, <1>14, RequestWritten DEF IInv, RecordPreflight

\* Approved, rejected or revoked.
LEMMA DecideStep ==
  ASSUME IInv, NEW r \in Requests, Decide(r)
  PROVE  PlansInv'
<1> DEFINE old == requests[r]
<1>1. r \in Planned
  BY DEF Decide, ApprovePlan, RejectPlan, RevokePlan
<1>2. old \in ImportRequest /\ RowOK(old) BY <1>1, PlannedRow DEF IInv
<1>3. UNCHANGED <<config, title>>
  BY DEF Decide, ApprovePlan, RejectPlan, RevokePlan
<1>4. PICK status \in {"APPROVED_PLAN_ONLY", "REJECTED", "REVOKED"} :
        /\ requests' = [requests EXCEPT ![r] = [old EXCEPT !.status = status]]
        /\ status = "APPROVED_PLAN_ONLY" => Approvable(r)
        /\ status = "REVOKED" => Status(r) = "APPROVED_PLAN_ONLY"
  BY DEF Decide, ApprovePlan, RejectPlan, RevokePlan, Set
<1> DEFINE row == [old EXCEPT !.status = status]
<1>5. status \in Statuses BY DEF Statuses, ActiveStatuses
<1>6. /\ row \in ImportRequest /\ row.status = status /\ row.job = old.job
      /\ row.preflight = old.preflight /\ row.summary = old.summary
  BY <1>2, <1>5, StatusSet
<1>7. requests' = [requests EXCEPT ![r] = row] BY <1>4
<1> HIDE DEF row
<1>8. status # "REJECTED" => Status(r) \in {"REVIEW_REQUIRED", "APPROVED_PLAN_ONLY"}
  BY <1>4 DEF Approvable
<1>9. RowOK(row) BY <1>2, <1>6, <1>8 DEF RowOK, Status, OpenStatuses
<1>10. status = "APPROVED_PLAN_ONLY" => Status(r) \in ActiveStatuses
  BY <1>4 DEF Approvable, ActiveStatuses, OpenStatuses
<1>11. row.status \in ActiveStatuses => row.status = "APPROVED_PLAN_ONLY"
  BY <1>6 DEF ActiveStatuses, OpenStatuses
<1>12. row.status \in ActiveStatuses =>
         \A s \in Planned \ {r} : requests[s].job = row.job => Status(s) \notin ActiveStatuses
  BY <1>1, <1>6, <1>10, <1>11 DEF IInv, PlansInv, OneActivePlan
<1> QED BY <1>3, <1>6, <1>7, <1>9, <1>12, RequestWritten DEF IInv

LEMMA InspectionAgesStep ==
  ASSUME IInv, NEW r \in Requests, InspectionAges(r)
  PROVE  PlansInv'
<1> DEFINE old == requests[r]
           aged == [old.preflight EXCEPT !.fresh = FALSE]
           row == [old EXCEPT !.preflight = aged]
<1>1. r \in Planned /\ old.preflight # NoPreflight BY DEF InspectionAges
<1>2. old \in ImportRequest /\ RowOK(old) BY <1>1, PlannedRow DEF IInv
<1>3. old.preflight \in ImportPreflight BY <1>1, <1>2 DEF ImportRequest
<1>4. /\ aged \in ImportPreflight /\ aged.verdict = old.preflight.verdict
      /\ aged.asPlanned = old.preflight.asPlanned
  BY <1>3 DEF ImportPreflight
<1>5. aged # NoPreflight BY <1>4, NoPreflightAssumption
<1>6. requests' = [requests EXCEPT ![r] = row] /\ UNCHANGED <<config, title>>
  BY DEF InspectionAges, Set
<1> HIDE DEF aged
<1>7. /\ row \in ImportRequest /\ row.status = old.status /\ row.job = old.job
      /\ row.preflight = aged /\ row.summary = old.summary
  BY <1>2, <1>4, PreflightSet
<1> HIDE DEF row
<1>8. RowOK(row) BY <1>1, <1>2, <1>4, <1>5, <1>7 DEF RowOK
<1>9. row.status \in ActiveStatuses =>
        \A s \in Planned \ {r} : requests[s].job = row.job => Status(s) \notin ActiveStatuses
  BY <1>1, <1>7 DEF IInv, PlansInv, OneActivePlan, Status
<1> QED BY <1>6, <1>7, <1>8, <1>9, RequestWritten DEF IInv

----------------------------------------------------------------------------
LEMMA Initially == Init => IInv
<1> SUFFICES ASSUME Init PROVE IInv
  OBVIOUS
<1>1. MonitorInv BY MonitorInitially DEF Init
<1>2. Planned = {} BY DEF Init, Planned
<1>3. PlansTypeOK BY DEF Init, PlansTypeOK
<1>4. PlansInv
  BY <1>2, <1>3 DEF PlansInv, ReviewIsBacked, InspectedAsPlanned, OneActivePlan,
    PlannedDownloadIsComplete
<1> QED BY <1>1, <1>4 DEF IInv

LEMMA Inductive == IInv /\ [Next]_vars => IInv'
<1> SUFFICES ASSUME IInv, [Next]_vars PROVE IInv'
  OBVIOUS
<1>1. CASE MonitorNext /\ UNCHANGED planVars
  <2>1. config' \in Configs /\ title' \in [Jobs -> MediaTitles] /\ UNCHANGED requests
    BY <1>1 DEF planVars, IInv, PlansInv, PlansTypeOK
  <2> QED BY <1>1, <2>1, MonitorStep, NoRequestWritten DEF IInv
<1>2. ASSUME NEW r \in Requests,
             \/ \E j \in Jobs : CreatePlan(r, j)
             \/ RecordPreflight(r) \/ Decide(r) \/ InspectionAges(r)
      PROVE  IInv'
  <2>1. UNCHANGED monitoringVars
    BY <1>2 DEF CreatePlan, RecordPreflight, Decide, ApprovePlan, RejectPlan, RevokePlan,
      InspectionAges
  <2>2. MonitorInv' BY <2>1, MonitorStill DEF IInv
  <2>3. PlansInv'
    BY <1>2, CreatePlanStep, RecordPreflightStep, DecideStep, InspectionAgesStep
  <2> QED BY <2>2, <2>3 DEF IInv
<1>3. CASE ChangeConfig \/ \E j \in Jobs : ChangeTitle(j)
  <2>1. /\ UNCHANGED <<monitoringVars, requests>>
        /\ config' \in Configs /\ title' \in [Jobs -> MediaTitles]
    BY <1>3 DEF ChangeConfig, ChangeTitle, IInv, PlansInv, PlansTypeOK
  <2> QED BY <2>1, MonitorStill, NoRequestWritten DEF IInv
<1>4. CASE UNCHANGED vars
  <2>1. UNCHANGED <<monitoringVars, requests>> /\ UNCHANGED <<config, title>>
    BY <1>4 DEF vars, planVars
  <2>2. config' \in Configs /\ title' \in [Jobs -> MediaTitles]
    BY <2>1 DEF IInv, PlansInv, PlansTypeOK
  <2> QED BY <2>1, <2>2, MonitorStill, NoRequestWritten DEF IInv
<1> QED BY <1>1, <1>2, <1>3, <1>4 DEF Next

----------------------------------------------------------------------------
\* IInv holds in every state.
THEOREM Invariance == Spec => []IInv
BY Initially, Inductive, PTL DEF Spec

\* Rows of the monitor, pages and requests keep their types (_next_jobs,
\* update_download_job_observation).
THEOREM TypeCorrect == Spec => []TypeOK
<1>1. IInv => TypeOK BY DEF IInv, MonitorInv, PlansInv, PlansTypeOK, TypeOK
<1> QED BY <1>1, Invariance, PTL

\* A request is in review exactly while its preflight lets it be approved
\* (record_media_import_preflight).
THEOREM ReviewsAreBacked == Spec => []ReviewIsBacked
<1>1. IInv => ReviewIsBacked BY DEF IInv, PlansInv
<1> QED BY <1>1, Invariance, PTL

\* Plan, inspection and approval are about one state of the download
\* (approve_media_import_request).
THEOREM InspectionsFit == Spec => []InspectedAsPlanned
<1>1. IInv => InspectedAsPlanned BY DEF IInv, PlansInv
<1> QED BY <1>1, Invariance, PTL

\* A download has one active plan (create_media_import_request).
THEOREM OnePlan == Spec => []OneActivePlan
<1>1. IInv => OneActivePlan BY DEF IInv, PlansInv
<1> QED BY <1>1, Invariance, PTL

\* What is planned was complete, at a known time (_completion_time).
THEOREM PlannedIsComplete == Spec => []PlannedDownloadIsComplete
<1>1. IInv => PlannedDownloadIsComplete BY DEF IInv, PlansInv
<1> QED BY <1>1, Invariance, PTL
=============================================================================
