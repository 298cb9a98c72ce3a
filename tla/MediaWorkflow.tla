---------------------------- MODULE MediaWorkflow ----------------------------
(***************************************************************************)
(* A media item on its way from discovery to the review of its torrents:   *)
(*   workers/processor.py        the leased job queue and its workers      *)
(*   services/workflow.py        metadata resolution, identity, PT search  *)
(*   services/discovery.py       discovery runs                            *)
(*   api/routes/workflow.py      the operator's requests                   *)
(*                                                                         *)
(* Each action is one database transaction, or the read that starts one.   *)
(* A session keeps what it has loaded: a locking read of an object that it *)
(* already holds does not refresh it (expire_on_commit=False, and          *)
(* populate_existing is never asked for), and a write of the value last    *)
(* seen is not sent.  This shows in the operators' requests and in the     *)
(* failure path of the workers, which both read before they lock.          *)
(***************************************************************************)
EXTENDS Naturals, FiniteSets

CONSTANTS
  Media,        \* media_items
  Sites,        \* PT sites open for search
  Workers,      \* job worker processes
  Inputs,       \* identity inputs an item may have (a hash of title, year, ids)
  MaxAttempts,  \* settings.job_max_attempts
  MaxRows,      \* bound: rows a job type gets, one after the other, by its kind
  NoInput,      \* the input of an item no discovery has found yet
  NoRow,        \* a worker without a claim
  NoRequest     \* no operator request is being served

Kinds == {"DISCOVER_NEXTFIND", "RESOLVE_METADATA", "TORRENT_SEARCH"}

ASSUME BoundsAssumption == /\ MaxAttempts \in Nat \ {0}
                           /\ MaxRows \in [Kinds -> Nat \ {0}]
ASSUME NullsAssumption == NoInput \notin Inputs

VARIABLES
  jobs,         \* jobs rows, each with its torrent_search_runs row if it has one
  workflow,     \* media_items.workflow_status
  input,        \* the identity input of each item
  matchedInput, \* the input its latest metadata_matches were looked up with
  confirmed,    \* items with a CONFIRMED identity_reviews row
  request,      \* the operator request being served: what it read, unlocked
  pc, row, lease,    \* each worker's step, claimed row and lease token
  queriedInput       \* the input a worker sent to TMDB

mediaVars  == <<workflow, input, matchedInput, confirmed>>
workerVars == <<pc, row, lease, queriedInput>>
vars == <<jobs, mediaVars, request, workerVars>>

----------------------------------------------------------------------------
\* Job types, as job_type spells them, and the rows they get.
Discover     == <<"DISCOVER_NEXTFIND">>
Resolve(m)   == <<"RESOLVE_METADATA", m>>
Search(s, m) == <<"TORRENT_SEARCH", s, m>>
JobTypes == {Discover} \cup {Resolve(m) : m \in Media}
            \cup {Search(s, m) : s \in Sites, m \in Media}

RowsOf(j)     == {j} \X (1..MaxRows[j[1]])
Rows          == UNION {RowsOf(j) : j \in JobTypes}
SearchRows(m) == UNION {RowsOf(Search(s, m)) : s \in Sites}

ActiveStatuses == {"PENDING", "RUNNING", "RETRY_WAIT"}
EndStatuses    == {"SUCCEEDED", "FAILED", "CANCELLED"}
JobStatuses    == {"NONE"} \cup ActiveStatuses \cup EndStatuses

ActiveSearchStatuses == {"PT_SEARCH_PENDING", "PT_SEARCHING"}
\* SEARCH_STATUS_PRECEDENCE
Precedence == <<"TORRENT_REVIEW", "PT_SEARCHING", "PT_SEARCH_PENDING",
                "NO_CANDIDATE", "SEARCH_FAILED">>
RunStatuses == {Precedence[i] : i \in 1..5}
UnconfirmedStatuses == {"DISCOVERED", "METADATA_PENDING", "IDENTITY_REVIEW"}
WorkflowStatuses == UnconfirmedStatuses \cup {"IDENTITY_CONFIRMED"} \cup RunStatuses

\* lease_token is a fresh uuid; the attempt number, which every claim
\* increments, stands for it. "lapsed": locked_at is before now - lease.
NoJob == [status |-> "NONE", attempts |-> 0, lapsed |-> FALSE,
          input |-> NoInput, run |-> "NONE"]

Steps == {"idle", "prepare", "work", "failRetryable", "failFinal"}

\* Rows, items, the request and the workers keep their types; in particular no
\* row is claimed more than max_attempts times.
TypeOK ==
  /\ jobs \in [Rows -> [status : JobStatuses, attempts : 0..MaxAttempts,
                        lapsed : BOOLEAN, input : Inputs \cup {NoInput},
                        run : RunStatuses \cup {"NONE"}]]
  /\ workflow     \in [Media -> WorkflowStatuses]
  /\ input        \in [Media -> Inputs \cup {NoInput}]
  /\ matchedInput \in [Media -> Inputs \cup {NoInput}]
  /\ confirmed    \in SUBSET Media
  /\ request      \in {NoRequest} \cup
                      [media : Media, workflow : WorkflowStatuses, input : Inputs]
  /\ pc           \in [Workers -> Steps]
  /\ row          \in [Workers -> Rows \cup {NoRow}]
  /\ lease        \in [Workers -> 0..MaxAttempts]
  /\ queriedInput \in [Workers -> Inputs \cup {NoInput}]

Init ==
  /\ jobs         = [r \in Rows |-> NoJob]
  /\ workflow     = [m \in Media |-> "DISCOVERED"]
  /\ input        = [m \in Media |-> NoInput]
  /\ matchedInput = [m \in Media |-> NoInput]
  /\ confirmed    = {}
  /\ request      = NoRequest
  /\ pc           = [w \in Workers |-> "idle"]
  /\ row          = [w \in Workers |-> NoRow]
  /\ lease        = [w \in Workers |-> 0]
  /\ queriedInput = [w \in Workers |-> NoInput]

----------------------------------------------------------------------------
\* What transactions read and write, as functions of the job rows.

ActiveRowsIn(js, j) == {r \in RowsOf(j) : js[r].status \in ActiveStatuses}
ActiveRows(j) == ActiveRowsIn(jobs, j)
FreeRows(j)   == {r \in RowsOf(j) : jobs[r].status = "NONE"}
\* Rows are used in the order of their numbers.
NextRow(j)    == CHOOSE r \in FreeRows(j) : \A q \in FreeRows(j) : r[2] <= q[2]

Queued(v, run) == [status |-> "PENDING", attempts |-> 0, lapsed |-> FALSE,
                   input |-> v, run |-> run]

Ended(job, status) == [job EXCEPT !.status = status, !.lapsed = FALSE]

\* Mutant: nothing is cancelled.
SupersedeNone(items) == jobs

\* cancel_active_metadata_resolution_jobs, for a set of items.
Superseded(items) ==
  [r \in Rows |-> IF \E m \in items : r \in ActiveRows(Resolve(m))
                    THEN Ended(jobs[r], "CANCELLED") ELSE jobs[r]]

Runs(js, m) == {js[r].run : r \in SearchRows(m)} \ {"NONE"}

\* refresh_media_search_workflow_status: the first status in the precedence
\* that some search run of the item has.
SearchStatus(js, m, current) ==
  LET found == {i \in 1..5 : Precedence[i] \in Runs(js, m)} IN
  IF found = {} THEN current
                ELSE Precedence[CHOOSE i \in found : \A k \in found : i <= k]

\* identity_finalization_evidence
Finalized(m) == \/ m \in confirmed
                \/ Runs(jobs, m) # {}
                \/ workflow[m] = "IDENTITY_CONFIRMED"

Owns(w) == jobs[row[w]].status = "RUNNING" /\ jobs[row[w]].attempts = lease[w]

JobOf(w)   == row[w][1]
MediaOf(j) == IF j[1] = "RESOLVE_METADATA" THEN j[2] ELSE j[3]

SetWorkflow(m, status) ==
  /\ workflow' = [workflow EXCEPT ![m] = status]
  /\ UNCHANGED <<input, matchedInput, confirmed>>

Goto(w, step) == /\ pc' = [pc EXCEPT ![w] = step]
                 /\ UNCHANGED <<row, lease, queriedInput>>

\* run_once returns, or the process dies.
Drop(w) ==
  /\ pc'    = [pc EXCEPT ![w] = "idle"]
  /\ row'   = [row EXCEPT ![w] = NoRow]
  /\ lease' = [lease EXCEPT ![w] = 0]
  /\ queriedInput' = [queriedInput EXCEPT ![w] = NoInput]

----------------------------------------------------------------------------
\* Requests.

\* create_discovery_run: one active job at a time.
CreateDiscoveryRun ==
  /\ ActiveRows(Discover) = {} /\ FreeRows(Discover) # {}
  /\ jobs' = [jobs EXCEPT ![NextRow(Discover)] = Queued(NoInput, "NONE")]
  /\ UNCHANGED <<mediaVars, request, workerVars>>

\* An operator's handler locks the policy head (require_stage_not_disabled),
\* so that handlers run one at a time, and reads the item without a lock.
LoadMedia(m) ==
  /\ request = NoRequest /\ input[m] # NoInput
  /\ request' = [media |-> m, workflow |-> workflow[m], input |-> input[m]]
  /\ UNCHANGED <<jobs, mediaVars, workerVars>>

\* The request is refused, changes nothing, or fails and is rolled back.
AbandonRequest ==
  /\ request # NoRequest
  /\ request' = NoRequest
  /\ UNCHANGED <<jobs, mediaVars, workerVars>>

\* A session writes a column only if it differs from what it has loaded.
Written(new, loaded, current) == IF new = loaded THEN current ELSE new

\* enqueue_metadata_resolution, for resolve_media.
RequestResolution ==
  /\ request # NoRequest
  /\ LET m == request.media IN
     /\ ~Finalized(m)
     /\ ActiveRows(Resolve(m)) = {} /\ FreeRows(Resolve(m)) # {}
     /\ jobs' = [jobs EXCEPT ![NextRow(Resolve(m))] = Queued(request.input, "NONE")]
     /\ SetWorkflow(m, Written("METADATA_PENDING", request.workflow, workflow[m]))
  /\ request' = NoRequest
  /\ UNCHANGED workerVars

\* The sites for which confirming an identity starts a search: none, or the
\* first one that takes the item (maybe_automate_torrent_search_after_identity).
FirstSearches == {{}} \cup {{s} : s \in Sites}

\* confirm_identity on top of the rows js, with the search it starts.
Confirm(js, m, searches, v) ==
  /\ jobs' = [r \in Rows |-> IF \E s \in searches : r = NextRow(Search(s, m))
                               THEN Queued(v, "PT_SEARCH_PENDING") ELSE js[r]]
  /\ workflow' = [workflow EXCEPT ![m] =
                    IF searches = {} THEN "IDENTITY_CONFIRMED" ELSE "PT_SEARCH_PENDING"]
  /\ confirmed' = confirmed \cup {m}
  /\ UNCHANGED input

\* create_identity_confirmation: an operator picks one of the stored matches.
ConfirmIdentity ==
  /\ request # NoRequest
  /\ LET m == request.media IN
     /\ ~Finalized(m) /\ matchedInput[m] # NoInput
     /\ \E searches \in FirstSearches :
          Confirm(Superseded({m}), m, searches, request.input)
  /\ request' = NoRequest
  /\ UNCHANGED <<matchedInput, workerVars>>

\* enqueue_torrent_search, for create_torrent_search. With an active run and an
\* active job it returns them; with only one of the two a unique index refuses.
RequestSearch(s) ==
  /\ request # NoRequest
  /\ LET m == request.media
         j == Search(s, m) IN
     /\ m \in confirmed
     /\ ActiveRows(j) = {} /\ FreeRows(j) # {}
     /\ \A r \in RowsOf(j) : jobs[r].run \notin ActiveSearchStatuses
     /\ jobs' = [jobs EXCEPT ![NextRow(j)] = Queued(request.input, "PT_SEARCH_PENDING")]
     /\ SetWorkflow(m, Written(SearchStatus(jobs', m, request.workflow),
                               request.workflow, workflow[m]))
  /\ request' = NoRequest
  /\ UNCHANGED workerVars

----------------------------------------------------------------------------
\* The queue: claim_job, renew_lease, and what happens to claims.

\* Mutants: only a job that waits is claimed; max_attempts is not asked.
ClaimableWaiting(r) ==
  jobs[r].status \in {"PENDING", "RETRY_WAIT"} /\ jobs[r].attempts < MaxAttempts

ClaimableForEver(r) == \/ jobs[r].status \in {"PENDING", "RETRY_WAIT"}
                       \/ jobs[r].status = "RUNNING" /\ jobs[r].lapsed

\* The delay of RETRY_WAIT is the time until somebody claims it.
Claimable(r) ==
  /\ \/ jobs[r].status \in {"PENDING", "RETRY_WAIT"}
     \/ jobs[r].status = "RUNNING" /\ jobs[r].lapsed
  /\ jobs[r].attempts < MaxAttempts

\* Rows locked by others are skipped, so any claimable row may be the one.
ClaimJob(w, r) ==
  LET job == [jobs[r] EXCEPT !.status = "RUNNING", !.attempts = @ + 1,
                             !.lapsed = FALSE,
                             !.run = IF @ = "NONE" THEN @ ELSE "PT_SEARCHING"] IN
  /\ pc[w] = "idle" /\ Claimable(r)
  /\ jobs' = [jobs EXCEPT ![r] = job]
  /\ workflow' = [m \in Media |-> IF r \in SearchRows(m)
                                    THEN SearchStatus(jobs', m, workflow[m])
                                    ELSE workflow[m]]
  /\ pc'    = [pc EXCEPT ![w] = IF r[1][1] = "RESOLVE_METADATA" THEN "prepare"
                                                                ELSE "work"]
  /\ row'   = [row EXCEPT ![w] = r]
  /\ lease' = [lease EXCEPT ![w] = job.attempts]
  /\ UNCHANGED <<input, matchedInput, confirmed, queriedInput, request>>

LeaseLapses(r) ==
  /\ jobs[r].status = "RUNNING" /\ ~jobs[r].lapsed
  /\ jobs' = [jobs EXCEPT ![r].lapsed = TRUE]
  /\ UNCHANGED <<mediaVars, request, workerVars>>

RenewLease(w) ==
  /\ pc[w] # "idle" /\ Owns(w)
  /\ jobs' = [jobs EXCEPT ![row[w]].lapsed = FALSE]
  /\ UNCHANGED <<mediaVars, request, workerVars>>

\* A renewal or a transaction finds that the claim is no longer the worker's.
LoseLease(w) ==
  /\ pc[w] \in {"prepare", "work"} /\ ~Owns(w)
  /\ Drop(w)
  /\ UNCHANGED <<jobs, mediaVars, request>>

Crash(w) ==
  /\ pc[w] # "idle"
  /\ Drop(w)
  /\ UNCHANGED <<jobs, mediaVars, request>>

----------------------------------------------------------------------------
\* The work on a claimed row.

\* _prepare_metadata_resolution
PrepareResolution(w) ==
  LET m == JobOf(w)[2] IN
  /\ pc[w] = "prepare" /\ Owns(w)
  /\ IF Finalized(m)
       THEN /\ jobs' = [jobs EXCEPT ![row[w]] = Ended(@, "CANCELLED")]
            /\ Drop(w)
       ELSE /\ pc' = [pc EXCEPT ![w] = "work"]
            /\ queriedInput' = [queriedInput EXCEPT ![w] = input[m]]
            /\ UNCHANGED <<jobs, row, lease>>
  /\ UNCHANGED <<mediaVars, request>>

\* _complete_metadata_resolution: the matches are stored and a strict or
\* eligible one confirms the identity. It locks the policy head, which a
\* request holds; the deadlock with a request that waits for the item ends one
\* of the two (StepFails, AbandonRequest).
CompleteResolution(w) ==
  LET m    == JobOf(w)[2]
      done == [jobs EXCEPT ![row[w]] = Ended(@, "SUCCEEDED")] IN
  /\ pc[w] = "work" /\ JobOf(w)[1] = "RESOLVE_METADATA" /\ Owns(w)
  /\ IF Finalized(m)
       THEN /\ jobs' = [jobs EXCEPT ![row[w]] = Ended(@, "CANCELLED")]
            /\ UNCHANGED mediaVars
       ELSE /\ jobs[row[w]].input = input[m]
            /\ request = NoRequest
            /\ matchedInput' = [matchedInput EXCEPT ![m] = queriedInput[w]]
            /\ \/ /\ jobs' = done
                  /\ workflow' = [workflow EXCEPT ![m] = "IDENTITY_REVIEW"]
                  /\ UNCHANGED <<input, confirmed>>
               \/ \E searches \in FirstSearches : Confirm(done, m, searches, input[m])
  /\ Drop(w)
  /\ UNCHANGED request

\* _complete_torrent_search
CompleteSearch(w) ==
  LET m == JobOf(w)[3] IN
  /\ pc[w] = "work" /\ JobOf(w)[1] = "TORRENT_SEARCH" /\ Owns(w)
  /\ jobs[row[w]].input = input[m] /\ m \in confirmed
  /\ \E found \in {"TORRENT_REVIEW", "NO_CANDIDATE"} :
       jobs' = [jobs EXCEPT ![row[w]] = [Ended(@, "SUCCEEDED") EXCEPT !.run = found]]
  /\ SetWorkflow(m, SearchStatus(jobs', m, workflow[m]))
  /\ Drop(w)
  /\ UNCHANGED request

\* METADATA_INPUT_CHANGED, TORRENT_SEARCH_INPUT_STALE: the result is discarded.
DiscardStaleResult(w) ==
  LET m == MediaOf(JobOf(w)) IN
  /\ pc[w] = "work" /\ JobOf(w) # Discover /\ Owns(w)
  /\ jobs[row[w]].input # input[m]
  /\ Goto(w, "failFinal")
  /\ UNCHANGED <<jobs, mediaVars, request>>

\* _complete_discovery: items are created or updated; where the input is new,
\* the active resolution is replaced, unless the identity is settled. TMDB is
\* taken to be configured, without which nothing is resolved at all, and
\* discovery_status to be MISSING, which nothing in the program changes.
StoreItems(r, found, now) ==
  LET fresh  == {m \in found : input[m] # now[m] /\ ~Finalized(m)}
      js     == Superseded(fresh)
      queued == {m \in fresh : ActiveRowsIn(js, Resolve(m)) = {}} IN
  /\ \A m \in queued : FreeRows(Resolve(m)) # {}
  /\ jobs' = [q \in Rows |->
       IF q = r THEN Ended(jobs[q], "SUCCEEDED")
       ELSE IF \E m \in queued : q = NextRow(Resolve(m))
              THEN Queued(now[MediaOf(q[1])], "NONE")
       ELSE js[q]]
  /\ input' = [m \in Media |-> IF m \in found THEN now[m] ELSE input[m]]
  /\ workflow' = [m \in Media |-> IF m \in queued THEN "METADATA_PENDING"
                                                 ELSE workflow[m]]
  /\ UNCHANGED <<matchedInput, confirmed>>

CompleteDiscovery(w) ==
  /\ pc[w] = "work" /\ JobOf(w) = Discover /\ Owns(w)
  /\ \E found \in SUBSET Media : \E now \in [found -> Inputs] :
       StoreItems(row[w], found, now)
  /\ Drop(w)
  /\ UNCHANGED request

\* An AppError or another exception, a lost deadlock included: _fail reads the
\* row without a lock and, for a resolution, goes on to wait for the item.
StepFails(w) ==
  /\ pc[w] \in {"prepare", "work"} /\ Owns(w)
  /\ \E step \in {"failRetryable", "failFinal"} : Goto(w, step)
  /\ UNCHANGED <<jobs, mediaVars, request>>

\* Mutants: the search run, the item, the review are not asked.
FailedRunKept(run, retry) == run
FailedStatusKept(js, j, retry) == workflow[MediaOf(j)]
SettledIgnored(j) == FALSE

\* What a failure makes of the search run and of the item of its job.
FailedRun(run, retry) == IF run = "NONE" \/ retry THEN run ELSE "SEARCH_FAILED"

FailedStatus(js, j, retry) ==
  LET m == MediaOf(j) IN
  IF j[1] = "TORRENT_SEARCH" THEN SearchStatus(js, m, workflow[m])
  ELSE IF retry THEN workflow[m] ELSE "IDENTITY_REVIEW"

\* A resolution whose item has been settled meanwhile is cancelled instead.
SettledMeanwhile(j) == j[1] = "RESOLVE_METADATA" /\ Finalized(MediaOf(j))

Retries(w) == pc[w] = "failRetryable" /\ lease[w] < MaxAttempts

FailStatus(w) == IF SettledMeanwhile(JobOf(w)) THEN "CANCELLED"
                 ELSE IF Retries(w) THEN "RETRY_WAIT" ELSE "FAILED"

\* uq_jobs_active_type refuses to bring back a row beside another active one.
FailAllowed(w) ==
  FailStatus(w) = "RETRY_WAIT" => ActiveRows(JobOf(w)) \subseteq {row[w]}

\* The write of _fail. Its locking read leaves the row as it was first read, so
\* that _owns_lease says yes and attempts is the claim's, whatever happened in
\* between; only the item is asked afresh.
FailWrites(w) ==
  LET j    == JobOf(w)
      next == FailStatus(w) IN
  /\ pc[w] \in {"failRetryable", "failFinal"} /\ FailAllowed(w)
  /\ jobs' = [jobs EXCEPT ![row[w]] =
                [Ended(@, next) EXCEPT !.run = FailedRun(jobs[row[w]].run, Retries(w))]]
  /\ IF j = Discover \/ next = "CANCELLED" THEN UNCHANGED mediaVars
       ELSE SetWorkflow(MediaOf(j), FailedStatus(jobs', j, Retries(w)))
  /\ Drop(w)
  /\ UNCHANGED request

\* The index refused: the exception ends run_once.
FailIsRefused(w) ==
  /\ pc[w] \in {"failRetryable", "failFinal"} /\ ~FailAllowed(w)
  /\ Drop(w)
  /\ UNCHANGED <<jobs, mediaVars, request>>

----------------------------------------------------------------------------
Operator ==
  \/ \E m \in Media : LoadMedia(m)
  \/ AbandonRequest \/ RequestResolution \/ ConfirmIdentity
  \/ \E s \in Sites : RequestSearch(s)

Work(w) ==
  \/ PrepareResolution(w) \/ CompleteResolution(w) \/ CompleteSearch(w)
  \/ CompleteDiscovery(w) \/ DiscardStaleResult(w) \/ StepFails(w)
  \/ FailWrites(w)        \/ FailIsRefused(w)     \/ LoseLease(w)

Claiming(w) == \E r \in Rows : ClaimJob(w, r)

Next ==
  \/ CreateDiscoveryRun \/ Operator
  \/ \E w \in Workers : Claiming(w) \/ Work(w) \/ RenewLease(w) \/ Crash(w)
  \/ \E r \in Rows : LeaseLapses(r)

Spec == Init /\ [][Next]_vars

\* Workers loop over run_once, every request to a site ends in an answer or a
\* timeout, handlers return, and time passes. Renewals and crashes are free.
Fairness ==
  /\ \A w \in Workers : WF_vars(Claiming(w)) /\ WF_vars(Work(w))
  /\ WF_vars(AbandonRequest)
  /\ \A r \in Rows : WF_vars(LeaseLapses(r))

FairSpec == Spec /\ Fairness

----------------------------------------------------------------------------
\* Properties.

\* Once an identity is confirmed nothing resolves it again: no RESOLVE_METADATA
\* row is active, whatever was under way or failing when it was confirmed
\* (confirm_identity, _fail, enqueue_metadata_resolution).
NoResolutionOnceConfirmed ==
  \A m \in confirmed : ActiveRows(Resolve(m)) = {}

\* The item says METADATA_PENDING or that a search is coming only if there is
\* an active job that will change it.
PendingWorkIsQueued ==
  \A m \in Media :
    /\ workflow[m] = "METADATA_PENDING" => ActiveRows(Resolve(m)) # {}
    /\ workflow[m] \in ActiveSearchStatuses =>
         \E s \in Sites : ActiveRows(Search(s, m)) # {}

\* A search run is active only as long as its job is: claim_job, _fail and
\* _complete_torrent_search move both, and no run is left searching for ever.
ActiveRunHasJob ==
  \A r \in Rows : jobs[r].run \in ActiveSearchStatuses =>
                   jobs[r].status \in ActiveStatuses

\* A confirmed identity is never sent back to resolution or to review.
ConfirmedIsKept ==
  [][\A m \in confirmed : /\ m \in confirmed'
                          /\ workflow'[m] \notin UnconfirmedStatuses]_vars

\* Stored matches were looked up with the input the item has at that moment,
\* though discoveries change it while TMDB is asked (_complete_discovery,
\* _complete_metadata_resolution).
MatchesFitInput ==
  [][\A m \in Media : matchedInput'[m] # matchedInput[m] =>
                        matchedInput'[m] = input[m]]_vars

\* Every queued job ends, unless the worker that has its last attempt is lost:
\* claim_job skips a row with attempts = max_attempts, also one that a stale
\* _fail has put back into RETRY_WAIT.
LostLastAttempt(r) ==
  /\ jobs[r].status \in {"RUNNING", "RETRY_WAIT"} /\ jobs[r].attempts = MaxAttempts
  /\ \A w \in Workers : ~(row[w] = r /\ lease[w] = MaxAttempts)

JobsEndOrAreLost ==
  \A r \in Rows : jobs[r].status = "PENDING" ~>
                   jobs[r].status \in EndStatuses \/ LostLastAttempt(r)

\* test_stale_worker_cannot_commit_after_job_is_reclaimed: while a worker holds
\* a row's lease, no other worker ends its claim.
StaleWorkerCannotCommit ==
  [][\A w \in Workers :
       /\ pc[w] # "idle" /\ Owns(w)
       /\ pc'[w] = pc[w]
       => jobs'[row[w]].status \notin {"SUCCEEDED", "FAILED", "RETRY_WAIT"}]_vars

\* test_media_search_status_is_aggregated_across_site_runs: the item shows the
\* first status in the precedence among its runs.
SearchStatusIsAggregated ==
  \A m \in Media : Runs(jobs, m) # {} =>
                    workflow[m] = SearchStatus(jobs, m, workflow[m])
----------------------------------------------------------------------------
\* The inductive invariant behind the properties above.

\* A row has a search run exactly if it is the row of a search, and only rows
\* that were queued have been claimed.
RowInv ==
  \A r \in Rows :
    /\ jobs[r].run # "NONE" <=>
         jobs[r].status # "NONE" /\ r[1][1] = "TORRENT_SEARCH"
    /\ jobs[r].status = "NONE" => jobs[r].attempts = 0

\* The signs of a settled identity agree: an item's own status says so exactly
\* if it is confirmed, and only confirmed items are searched for.
SettledInv ==
  /\ \A m \in Media : m \in confirmed <=> workflow[m] \notin UnconfirmedStatuses
  /\ \A r \in Rows : jobs[r].run # "NONE" => r[1][3] \in confirmed

\* NoResolutionOnceConfirmed, and uq_jobs_active_type for resolutions.
ResolutionInv ==
  \A r \in Rows :
    /\ r[1][1] = "RESOLVE_METADATA" /\ jobs[r].status \in ActiveStatuses
    => /\ r[1][2] \notin confirmed
       /\ \A q \in Rows : q[1] = r[1] /\ jobs[q].status \in ActiveStatuses => q = r

\* PendingWorkIsQueued, by rows.
PendingInv ==
  \A m \in Media :
    /\ workflow[m] = "METADATA_PENDING" =>
         \E r \in Rows : r[1] = Resolve(m) /\ jobs[r].status \in ActiveStatuses
    /\ workflow[m] \in ActiveSearchStatuses =>
         \E r \in Rows : /\ r[1][1] = "TORRENT_SEARCH" /\ r[1][3] = m
                         /\ jobs[r].status \in ActiveStatuses

\* A claim that a worker works on was made, and at most overtaken.
ClaimInv ==
  \A w \in Workers : pc[w] # "idle" =>
    /\ row[w] \in Rows /\ lease[w] \in 1..jobs[row[w]].attempts
    /\ pc[w] = "prepare" => JobOf(w)[1] = "RESOLVE_METADATA"

\* While a worker owns a resolution that can still count, the input it sent to
\* TMDB is the item's: whatever changes the input cancels the row.
QueryInv ==
  \A w \in Workers :
    /\ pc[w] = "work" /\ JobOf(w)[1] = "RESOLVE_METADATA" /\ Owns(w)
    => \/ JobOf(w)[2] \in confirmed
       \/ queriedInput[w] = input[JobOf(w)[2]]

DataInv == /\ RowInv /\ SettledInv /\ ResolutionInv /\ PendingInv
           /\ ActiveRunHasJob

IInv == TypeOK /\ DataInv /\ ClaimInv /\ QueryInv
=============================================================================
