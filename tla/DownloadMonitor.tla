---------------------------- MODULE DownloadMonitor ----------------------------
(***************************************************************************)
(* The read-only observer of the torrents that were handed to qBittorrent: *)
(*   workers/download_executor.py      DownloadMonitor                     *)
(*   workers/download_monitor_main.py  its polling loop                    *)
(*   services/executions.py            what an observation does to a row   *)
(*                                                                         *)
(* A cycle reads one page of download_jobs after a cursor it keeps in      *)
(* memory, asks qBittorrent for the page once, and then writes every row   *)
(* in a transaction of its own.  An exception ends the cycle where it is   *)
(* and leaves the cursor alone; the loop starts the next one.              *)
(***************************************************************************)
EXTENDS Naturals, Sequences, FiniteSets

CONSTANTS
  NJobs,        \* download_jobs rows, numbered by (created_at, id)
  BatchSize,    \* settings.download_monitor_batch_size
  Views,        \* what qBittorrent may show of one torrent
  MaxRestarts,  \* bound: restarts of the monitor
  NoJob,        \* a row that is not there yet
  Absent,       \* qBittorrent has no torrent with these hashes
  Twice         \* two torrents share a hash of the row

Jobs == 1..NJobs
QbStates == {"error", "checking", "paused", "queued", "downloading", "uploading",
             "completed", "unlisted"}
\* progress >= 1; a completion_on; save path, category and size as approved.
View == [state : QbStates, full : BOOLEAN, stamped : BOOLEAN, fits : BOOLEAN]

ASSUME JobsAssumption == NJobs \in Nat
ASSUME BatchAssumption == BatchSize \in Nat \ {0}
ASSUME ViewsAssumption == Views \subseteq View
ASSUME RestartsAssumption == MaxRestarts \in Nat
ASSUME MarkersAssumption == Absent /= Twice /\ {Absent, Twice} \cap View = {}

VARIABLES
  jobs,      \* the rows
  qb,        \* what qBittorrent would answer now, for each row
  cursor,    \* the last row of the last complete page, 0 for None
  todo,      \* rows of the page not written yet
  asked,     \* the page has been looked up
  snapshot,  \* the answer
  restarts   \* restarts so far

monitorVars == <<cursor, todo, asked, snapshot, restarts>>
monitoringVars == <<jobs, qb, monitorVars>>

----------------------------------------------------------------------------
JobStatuses == {"QUEUED", "DOWNLOADING", "PAUSED", "CHECKING", "SEEDING", "COMPLETED",
                "MISSING", "ERROR"}
Errors == {"NONE", "QB_TORRENT_MISSING", "QB_TORRENT_BINDING_DRIFT",
           "QB_TORRENT_STATE_ERROR", "QB_INFO_HASH_AMBIGUOUS"}

\* A row: its status and error, progress >= 1, and completed_at set.
Job == [status : JobStatuses, error : Errors, full : BOOLEAN, done : BOOLEAN]
\* The mark of a missing row is no row.
ASSUME NoJobAssumption == NoJob \notin Job

QbAnswers == Views \cup {Absent, Twice}

\* Rows, answers and the monitor keep their types.
MonitorTypeOK ==
  /\ jobs     \in [Jobs -> Job \cup {NoJob}]
  /\ qb       \in [Jobs -> QbAnswers]
  /\ cursor   \in 0..NJobs
  /\ todo     \in Seq(Jobs)
  /\ asked    \in BOOLEAN
  /\ snapshot \in [Jobs -> QbAnswers]
  /\ restarts \in 0..MaxRestarts

MonitorInit ==
  /\ jobs     = [j \in Jobs |-> NoJob]
  /\ qb       \in [Jobs -> QbAnswers]
  /\ cursor   = 0
  /\ todo     = <<>>
  /\ asked    = FALSE
  /\ snapshot = [j \in Jobs |-> Absent]
  /\ restarts = 0

Rows == {j \in Jobs : jobs[j] /= NoJob}

----------------------------------------------------------------------------
\* What a row becomes.

\* _download_job_status: an unlisted state counts as finished if it is complete.
StatusOf(v) ==
  LET listed == [error |-> "ERROR", checking |-> "CHECKING", paused |-> "PAUSED",
                 queued |-> "QUEUED", downloading |-> "DOWNLOADING",
                 uploading |-> "SEEDING", completed |-> "COMPLETED"]
  IN  IF v.state \in DOMAIN listed THEN listed[v.state]
      ELSE IF v.full THEN "COMPLETED" ELSE "ERROR"

\* Mutant of Completes: only the stamp counts.
CompletesByStamp(v) == v.stamped
\* _completion_time: qBittorrent's own stamp, or now if nothing is missing.
Completes(v) == v.stamped \/ v.full

\* update_download_job_observation of a torrent that is not there: only the
\* status and the error change.
Missing(job) == [job EXCEPT !.status = "MISSING", !.error = "QB_TORRENT_MISSING"]

\* record_download_job_monitor_error.
Ambiguous(job) == [job EXCEPT !.status = "ERROR", !.error = "QB_INFO_HASH_AMBIGUOUS"]

Transfer(job, v) == [job EXCEPT !.full = v.full, !.done = @ \/ Completes(v)]
Drifted(job, v) ==
  [Transfer(job, v) EXCEPT !.status = "ERROR", !.error = "QB_TORRENT_BINDING_DRIFT"]
Followed(job, v) ==
  [Transfer(job, v) EXCEPT !.status = StatusOf(v),
     !.error = IF StatusOf(v) = "ERROR" THEN "QB_TORRENT_STATE_ERROR" ELSE "NONE"]

Observed(job, answer) ==
  CASE answer = Absent -> Missing(job)
    [] answer = Twice  -> Ambiguous(job)
    [] OTHER -> IF answer.fits THEN Followed(job, answer) ELSE Drifted(job, answer)

\* ck_download_jobs_completed_at: the database refuses any other row.
Storable(job) == job.status = "COMPLETED" => job.done

\* finalize_download_submission: the executor adds the row of a torrent that is
\* as approved.  It is stamped before it is committed, so rows may appear in
\* another order than the cursor's.
NewJob(v) == [status |-> StatusOf(v), error |-> "NONE", full |-> v.full,
              done |-> Completes(v)]
AddJob(j) ==
  /\ jobs[j] = NoJob
  /\ qb[j] \in Views
  /\ qb[j].fits
  /\ Storable(NewJob(qb[j]))
  /\ jobs' = [jobs EXCEPT ![j] = NewJob(qb[j])]
  /\ UNCHANGED <<qb, monitorVars>>

\* qBittorrent and its users move on: external.
TorrentChanges(j) ==
  /\ \E a \in QbAnswers \ {qb[j]} : qb' = [qb EXCEPT ![j] = a]
  /\ UNCHANGED <<jobs, monitorVars>>

----------------------------------------------------------------------------
\* The monitor.

After(c) == {j \in Rows : j > c}
\* The first rows of S in (created_at, id) order, at most a batch of them.
Page(S) == LET first == {j \in S : Cardinality({k \in S : k < j}) < BatchSize}
           IN  [i \in 1..Cardinality(first) |->
                  CHOOSE j \in first : Cardinality({k \in first : k < j}) = i - 1]
NextCursor == IF After(cursor) = {} THEN 0 ELSE cursor

\* _next_jobs: the page after the cursor, or the first one.
ReadPage ==
  /\ todo = <<>>
  /\ Rows /= {}
  /\ cursor' = NextCursor
  /\ todo'   = Page(After(NextCursor))
  /\ UNCHANGED <<jobs, qb, asked, snapshot, restarts>>

\* find_torrents_by_hashes: one answer for the whole page.
AskQb ==
  /\ todo /= <<>> /\ ~asked
  /\ snapshot' = [j \in Jobs |-> IF \E i \in DOMAIN todo : todo[i] = j
                                 THEN qb[j] ELSE Absent]
  /\ asked' = TRUE
  /\ UNCHANGED <<jobs, qb, cursor, todo, restarts>>

\* Mutant of Advance: the last page starts over with the next one.
AdvanceToSame(j) == cursor
\* The cursor moves when the whole page is written.
Advance(j) == IF Tail(todo) = <<>> THEN j ELSE cursor

WriteJob ==
  /\ asked /\ todo /= <<>>
  /\ LET j == Head(todo)
         row == Observed(jobs[j], snapshot[j])
     IN  /\ Storable(row)
         /\ jobs'   = [jobs EXCEPT ![j] = row]
         /\ cursor' = Advance(j)
  /\ todo'  = Tail(todo)
  /\ asked' = (Tail(todo) /= <<>>)
  /\ snapshot' = IF Tail(todo) = <<>> THEN [j \in Jobs |-> Absent] ELSE snapshot
  /\ UNCHANGED <<qb, restarts>>

\* qBittorrent does not answer, answers what the adapter refuses, or a row
\* cannot be written: the rest of the page is dropped.
CycleFails ==
  /\ todo /= <<>>
  /\ todo' = <<>> /\ asked' = FALSE
  /\ snapshot' = [j \in Jobs |-> Absent]
  /\ UNCHANGED <<jobs, qb, cursor, restarts>>

\* The process is replaced: its cursor was in memory.
RestartMonitor ==
  /\ restarts < MaxRestarts
  /\ restarts' = restarts + 1
  /\ cursor' = 0 /\ todo' = <<>> /\ asked' = FALSE
  /\ snapshot' = [j \in Jobs |-> Absent]
  /\ UNCHANGED <<jobs, qb>>

MonitorNext ==
  \/ \E j \in Jobs : AddJob(j) \/ TorrentChanges(j)
  \/ ReadPage \/ AskQb \/ WriteJob \/ CycleFails \/ RestartMonitor

\* The loop goes on for ever, and neither every question nor every
\* write of one row fails.
MonitorFairness == /\ WF_monitoringVars(ReadPage)
                   /\ SF_monitoringVars(AskQb)
                   /\ \A j \in Jobs : SF_monitoringVars(WriteJob /\ Head(todo) = j)

----------------------------------------------------------------------------
\* Every row is observed again and again, wherever the cursor was when it was
\* committed, whatever fails and is restarted (run_once, _next_jobs).
EveryJobIsWatched ==
  \A j \in Jobs : jobs[j] /= NoJob ~> (asked /\ todo /= <<>> /\ Head(todo) = j)
=============================================================================
