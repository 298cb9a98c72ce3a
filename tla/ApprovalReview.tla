---------------------------- MODULE ApprovalReview ----------------------------
(***************************************************************************)
(* The review of an approval request, from its creation to its execution:  *)
(*   services/approvals.py       the request, its preflight and its plan   *)
(*   api/routes/approvals.py     the operator's requests                   *)
(*   services/automation.py      what the policy lets the system decide    *)
(*   workers/automation.py       the worker that runs automatic preflights *)
(*   services/automation_policy.py   the chain of policy revisions         *)
(*                                                                         *)
(* Each action is one database transaction.  Approve, confirm-download and *)
(* preflight take two, with the preflight against qBittorrent in between;  *)
(* the second locks the row again in the same session, which still holds   *)
(* the object of the first: the lock does not refresh it, so the handler   *)
(* goes on with its PENDING copy, and sends only the columns it changes.   *)
(* The policy head is not held and is read afresh.                         *)
(*                                                                         *)
(* A transaction looks at the clock once.  The age limit of a preflight    *)
(* (approval_preflight_max_age_seconds) is left out: every grant rests on  *)
(* the result its own request has just stored.                             *)
(***************************************************************************)
EXTENDS Naturals, FiniteSets

CONSTANTS
  Approvals,    \* approval_requests rows
  Candidates,   \* torrent_candidates
  CandidateOf,  \* the candidate of each row
  Handlers,     \* API requests served at the same time
  Workers,      \* automatic preflight workers
  Policies,     \* policies an administrator may publish
  Verdicts,     \* outcomes of a preflight
  MaxRevision,  \* bound: policy revisions
  MaxConfig,    \* bound: versions of the runtime configuration
  MaxRuns,      \* bound: preflight results stored for each row
  MaxJobs,      \* bound: automatic preflight jobs of each row
  MaxAttempts,  \* settings.job_max_attempts
  NoEvidence,   \* no preflight result, no plan
  NoWork        \* an idle worker or handler

Modes == {"DISABLED", "MANUAL", "AUTO_IF_ELIGIBLE"}
Policy == [selection : Modes, approval : Modes, execution : Modes]
Passable == {"PASS", "WARNING"}

ASSUME VerdictAssumption == Verdicts \subseteq {"PASS", "WARNING", "UNKNOWN", "BLOCKED"}
ASSUME PolicyAssumption == Policies \subseteq Policy
ASSUME CandidateAssumption == CandidateOf \in [Approvals -> Candidates]
ASSUME BoundsAssumption ==
  /\ {MaxRevision, MaxConfig, MaxAttempts} \subseteq Nat \ {0}
  /\ {MaxRuns, MaxJobs} \subseteq [Approvals -> Nat]

VARIABLES
  approvals,    \* the rows, each with its plan and its execution, if any
  policies,     \* the policy of each revision
  head,         \* the current revision
  config,       \* the version of the runtime configuration
  runs,         \* preflight results stored so far, for each row
  jobs,         \* the last AUTOMATION_PREFLIGHT job of each row
  queued,       \* the job its QUEUE_PREFLIGHT decision names
  request,      \* the operator requests between their two transactions
  work,         \* what each automatic worker is doing
  workerConfig  \* the configuration it was started with

policyVars == <<policies, head, config>>
jobVars    == <<jobs, queued>>
workerVars == <<work, workerConfig>>
vars == <<approvals, policyVars, runs, jobVars, request, workerVars>>

----------------------------------------------------------------------------
LiveStatuses == {"PENDING", "APPROVED", "EXECUTING"}
Statuses == {"NONE", "REJECTED", "EXPIRED", "REVOKED", "CONSUMED"} \cup LiveStatuses

\* A preflight result: its verdict, the policy fingerprint of the settings it
\* was evaluated with, and which result it is (checked_at).
Evidence == [verdict : Verdicts, config : 1..MaxConfig, run : Nat \ {0}]
Actors   == {"NOBODY", "OPERATOR", "AUTOMATION"}
\* The null is none of the results.
ASSUME NoEvidenceAssumption == NoEvidence \notin [verdict : Verdicts, config : Nat, run : Nat]

JobStatuses   == {"NONE", "PENDING", "RUNNING", "RETRY_WAIT", "SUCCEEDED", "FAILED"}
ActiveJob     == {"PENDING", "RUNNING", "RETRY_WAIT"}
RequestKinds  == {"APPROVE", "CONFIRM", "PREFLIGHT"}
WorkerSteps   == {"claimed", "reading", "failing", "failingRetryable"}

NoApproval == [status |-> "NONE", due |-> FALSE, revision |-> 1,
               preflight |-> NoEvidence, plan |-> NoEvidence,
               grantedBy |-> "NOBODY", execution |-> "NOBODY"]
NoJob == [status |-> "NONE", number |-> 0, attempts |-> 0, lapsed |-> FALSE]

\* Rows, jobs, requests and workers keep their types.
TypeOK ==
  /\ approvals \in [Approvals ->
       [status : Statuses, due : BOOLEAN, revision : 1..MaxRevision,
        preflight : Evidence \cup {NoEvidence}, plan : Evidence \cup {NoEvidence},
        grantedBy : Actors, execution : Actors]]
  /\ policies \in [1..MaxRevision -> Policies]
  /\ head     \in 1..MaxRevision
  /\ config   \in 1..MaxConfig
  /\ runs     \in [Approvals -> Nat]
  /\ jobs     \in [Approvals -> [status : JobStatuses, number : Nat,
                                 attempts : 0..MaxAttempts, lapsed : BOOLEAN]]
  /\ queued   \in [Approvals -> Nat]
  /\ \A a \in Approvals : jobs[a].number <= MaxJobs[a]
  /\ request  \in [Handlers -> {NoWork} \cup
       [kind : RequestKinds, approval : Approvals, config : 1..MaxConfig]]
  /\ work     \in [Workers -> {NoWork} \cup
       [step : WorkerSteps, approval : Approvals, number : Nat,
        attempt : 1..MaxAttempts, seen : Evidence \cup {NoEvidence}]]
  /\ workerConfig \in [Workers -> 1..MaxConfig]

Init ==
  /\ approvals    = [a \in Approvals |-> NoApproval]
  /\ \E p \in Policies : policies = [n \in 1..MaxRevision |-> p]
  /\ head         = 1
  /\ config       = 1
  /\ runs         = [a \in Approvals |-> 0]
  /\ jobs         = [a \in Approvals |-> NoJob]
  /\ queued       = [a \in Approvals |-> 0]
  /\ request      = [h \in Handlers |-> NoWork]
  /\ work         = [w \in Workers |-> NoWork]
  /\ workerConfig = [w \in Workers |-> 1]

----------------------------------------------------------------------------
\* What transactions look at.

Current == policies[head]
Enabled(stage) == Current[stage] /= "DISABLED"
\* Mutant of Automatic: the age of the row is not looked at.
AutomaticAnyAge(a) == Current.approval = "AUTO_IF_ELIGIBLE"

\* _mode_outcome: the stage is automatic, and the row no older than the policy.
Automatic(a) == /\ Current.approval = "AUTO_IF_ELIGIBLE"
                /\ approvals[a].revision = head

Live(a)       == approvals[a].status \in LiveStatuses
Rivals(a)     == {b \in Approvals \ {a} : CandidateOf[b] = CandidateOf[a] /\ Live(b)}
\* _expire_or_require_pending of the row as it is in the database.
Pending(a)    == approvals[a].status = "PENDING" /\ ~approvals[a].due
\* verify_download_plan: the plan was made from the result the row has now.
PlanIntact(a) == /\ approvals[a].plan /= NoEvidence
                 /\ approvals[a].plan = approvals[a].preflight
UsableApproval(a) == /\ approvals[a].status = "APPROVED"
                     /\ ~approvals[a].due
                     /\ PlanIntact(a)

----------------------------------------------------------------------------
\* The row, as the transactions write it.

Write(a, row) == approvals' = [approvals EXCEPT ![a] = row]

Stored(row, e) == [row EXCEPT !.preflight = e]

\* approve_request: the status, the plan made from the evidence, and what
\* maybe_create_automatic_execution or the confirmation adds in the same
\* transaction.
Granted(row, e, actor, execution) ==
  [row EXCEPT !.status = "APPROVED", !.preflight = e, !.plan = e,
              !.grantedBy = actor, !.execution = execution]

\* Mutant of Insertable: the index over the candidate's requests is missing.
InsertableBesideRivals(a) == approvals[a].plan = NoEvidence

\* The insertion of the plan and the update of the status pass the unique
\* indexes: no plan of this approval yet, no rival of its candidate.
Insertable(a) == approvals[a].plan = NoEvidence /\ Rivals(a) = {}

\* maybe_create_automatic_execution; the executor may be ready or not.
AutomaticExecution ==
  {"NOBODY"} \cup IF Current.execution = "AUTO_IF_ELIGIBLE" THEN {"AUTOMATION"} ELSE {}

\* A new result for the row: checked_at tells it from the earlier ones.
Result(a, v, c) == [verdict |-> v, config |-> c, run |-> runs[a] + 1]
CountRun(a) == /\ runs[a] < MaxRuns[a]
               /\ runs' = [runs EXCEPT ![a] = @ + 1]

----------------------------------------------------------------------------
\* Creation of requests and of automatic preflight jobs.

\* create_approval_request: the candidate is locked; a live request that is
\* due, and not executing, expires and makes room.
Creatable(a) ==
  /\ approvals[a].status = "NONE"
  /\ \A b \in Rivals(a) : approvals[b].status /= "EXECUTING" /\ approvals[b].due
Created(a) ==
  [b \in Approvals |->
     CASE b = a           -> [NoApproval EXCEPT !.status = "PENDING", !.revision = head]
       [] b \in Rivals(a) -> [approvals[b] EXCEPT !.status = "EXPIRED"]
       [] OTHER           -> approvals[b]]

\* maybe_enqueue_automatic_preflight: one active job a row; the decision is
\* written once a revision, and names the job of its first time.
Enqueue(a) ==
  /\ jobs[a].status \notin ActiveJob
  /\ jobs[a].number < MaxJobs[a]
  /\ jobs' = [jobs EXCEPT ![a] = [NoJob EXCEPT !.status = "PENDING",
                                               !.number = jobs[a].number + 1]]
  /\ queued' = [queued EXCEPT ![a] = IF @ = 0 THEN jobs[a].number + 1 ELSE @]

\* By an operator, or by the policy once a search has ended; the worker that
\* automatic preflights need may be ready or not.
CreateRequest(a) ==
  /\ Enabled("selection")
  /\ Creatable(a)
  /\ approvals' = Created(a)
  /\ \/ Current.approval = "AUTO_IF_ELIGIBLE" /\ Enqueue(a)
     \/ UNCHANGED jobVars
  /\ UNCHANGED <<policyVars, runs, request, workerVars>>

\* A later search chooses a candidate with a pending request.
RequeuePreflight(a) ==
  /\ Current.selection = "AUTO_IF_ELIGIBLE"
  /\ approvals[a].status = "PENDING" /\ ~approvals[a].due
  /\ Automatic(a)
  /\ Enqueue(a)
  /\ UNCHANGED <<approvals, policyVars, runs, request, workerVars>>

----------------------------------------------------------------------------
\* First transaction of the three requests that run a preflight.

InFlight(a, kind) == [kind |-> kind, approval |-> a, config |-> config]

StartApprove(h, a) ==
  /\ request[h] = NoWork
  /\ Enabled("approval") /\ Pending(a)
  /\ request' = [request EXCEPT ![h] = InFlight(a, "APPROVE")]
  /\ UNCHANGED <<approvals, policyVars, runs, jobVars, workerVars>>

StartPreflight(h, a) ==
  /\ request[h] = NoWork
  /\ Enabled("approval") /\ Pending(a)
  /\ request' = [request EXCEPT ![h] = InFlight(a, "PREFLIGHT")]
  /\ UNCHANGED <<approvals, policyVars, runs, jobVars, workerVars>>

\* get_or_create_pending_approval_request: no automatic preflight is queued.
StartConfirm(h, a) ==
  /\ request[h] = NoWork
  /\ Enabled("selection") /\ Enabled("approval") /\ Enabled("execution")
  /\ \/ Pending(a) /\ UNCHANGED approvals
     \/ Creatable(a) /\ approvals' = Created(a)
  /\ request' = [request EXCEPT ![h] = InFlight(a, "CONFIRM")]
  /\ UNCHANGED <<policyVars, runs, jobVars, workerVars>>

----------------------------------------------------------------------------
\* Second transaction, on the copy that is still PENDING.

Finishing(h, kind) == request[h] /= NoWork /\ request[h].kind = kind
Done(h) == request' = [request EXCEPT ![h] = NoWork]

\* The copy is due: EXPIRED is committed over whatever the status is by now.
CopyExpires(h) ==
  LET a == request[h].approval IN
  /\ approvals[a].due
  /\ Write(a, [approvals[a] EXCEPT !.status = "EXPIRED"])
  /\ UNCHANGED runs

\* save_preflight_result, and nothing more.
CopyStores(h, v) ==
  LET a == request[h].approval IN
  /\ ~approvals[a].due
  /\ CountRun(a)
  /\ Write(a, Stored(approvals[a], Result(a, v, request[h].config)))

\* Mutant of CopyGranted: approve_request does not compare the fingerprints.
CopyGrantedAnyConfig(h, v, actor, execution) ==
  LET a == request[h].approval IN
  /\ ~approvals[a].due
  /\ Insertable(a)
  /\ CountRun(a)
  /\ Write(a, Granted(approvals[a], Result(a, v, request[h].config), actor, execution))

CopyGranted(h, v, actor, execution) ==
  LET a == request[h].approval IN
  /\ ~approvals[a].due
  /\ request[h].config = config
  /\ Insertable(a)
  /\ CountRun(a)
  /\ Write(a, Granted(approvals[a], Result(a, v, config), actor, execution))

FinishApprove(h, v) ==
  /\ Finishing(h, "APPROVE")
  /\ Enabled("approval")
  /\ request[h].config = config
  /\ \/ CopyExpires(h)
     \/ v \notin Passable /\ CopyStores(h, v)
     \/ /\ v \in Passable
        /\ \E e \in AutomaticExecution : CopyGranted(h, v, "OPERATOR", e)
  /\ Done(h)
  /\ UNCHANGED <<policyVars, jobVars, workerVars>>

\* The intent and the execution are created with the grant.
FinishConfirm(h, v) ==
  /\ Finishing(h, "CONFIRM")
  /\ Enabled("approval") /\ Enabled("execution")
  /\ request[h].config = config
  /\ \/ CopyExpires(h)
     \/ v \notin Passable /\ CopyStores(h, v)
     \/ v \in Passable /\ CopyGranted(h, v, "OPERATOR", "OPERATOR")
  /\ Done(h)
  /\ UNCHANGED <<policyVars, jobVars, workerVars>>

\* The mode is not read again.  maybe_finalize_automatic_approval grants an
\* automatic PASS; its APPROVE_REQUEST decision exists if it has done so before.
FinishPreflight(h, v) ==
  LET a == request[h].approval IN
  /\ Finishing(h, "PREFLIGHT")
  /\ \/ CopyExpires(h)
     \/ /\ ~(v = "PASS" /\ Automatic(a)) \/ approvals[a].grantedBy = "AUTOMATION"
        /\ CopyStores(h, v)
     \/ /\ v = "PASS" /\ Automatic(a)
        /\ approvals[a].grantedBy /= "AUTOMATION"
        /\ \E e \in AutomaticExecution : CopyGranted(h, v, "AUTOMATION", e)
  /\ Done(h)
  /\ UNCHANGED <<policyVars, jobVars, workerVars>>

\* qBittorrent does not answer, the policy or the configuration has changed, a
\* unique index refuses the write, or the process ends: nothing is committed.
DropRequest(h) ==
  /\ request[h] /= NoWork
  /\ Done(h)
  /\ UNCHANGED <<approvals, policyVars, runs, jobVars, workerVars>>

----------------------------------------------------------------------------
\* Requests of a single transaction, on the row as it is.

Reject(a) ==
  /\ Pending(a)
  /\ Write(a, [approvals[a] EXCEPT !.status = "REJECTED"])
  /\ UNCHANGED <<policyVars, runs, jobVars, request, workerVars>>

\* Mutant of Revoke: a pending request can be revoked too.
RevokePending(a) ==
  /\ approvals[a].status \in {"PENDING", "APPROVED"} /\ ~approvals[a].due
  /\ Write(a, [approvals[a] EXCEPT !.status = "REVOKED"])
  /\ UNCHANGED <<policyVars, runs, jobVars, request, workerVars>>

Revoke(a) ==
  /\ approvals[a].status = "APPROVED" /\ ~approvals[a].due
  /\ Write(a, [approvals[a] EXCEPT !.status = "REVOKED"])
  /\ UNCHANGED <<policyVars, runs, jobVars, request, workerVars>>

\* _stage_expiration_if_needed, committed by whichever request comes first.
Expire(a) ==
  /\ approvals[a].status \in {"PENDING", "APPROVED"} /\ approvals[a].due
  /\ Write(a, [approvals[a] EXCEPT !.status = "EXPIRED"])
  /\ UNCHANGED <<policyVars, runs, jobVars, request, workerVars>>

\* Intent and execution of an approved plan.
CreateExecution(a) ==
  /\ Enabled("execution")
  /\ UsableApproval(a)
  /\ approvals[a].plan.config = config
  /\ approvals[a].execution = "NOBODY"
  /\ Write(a, [approvals[a] EXCEPT !.execution = "OPERATOR"])
  /\ UNCHANGED <<policyVars, runs, jobVars, request, workerVars>>

\* The download executor reserves the submission and finalizes it (see
\* DownloadExecution).
ExecutorReserves(a) ==
  /\ UsableApproval(a) /\ approvals[a].execution /= "NOBODY"
  /\ Write(a, [approvals[a] EXCEPT !.status = "EXECUTING"])
  /\ UNCHANGED <<policyVars, runs, jobVars, request, workerVars>>

ExecutorConsumes(a) ==
  /\ approvals[a].status = "EXECUTING" /\ PlanIntact(a)
  /\ Write(a, [approvals[a] EXCEPT !.status = "CONSUMED"])
  /\ UNCHANGED <<policyVars, runs, jobVars, request, workerVars>>

\* expires_at passes; nobody looks at it once a row has ended, but for a handler
\* with a copy.
InHand(a) == \E h \in Handlers : request[h] /= NoWork /\ request[h].approval = a
TimePasses(a) ==
  /\ Live(a) \/ InHand(a)
  /\ ~approvals[a].due
  /\ Write(a, [approvals[a] EXCEPT !.due = TRUE])
  /\ UNCHANGED <<policyVars, runs, jobVars, request, workerVars>>

\* publish_policy_revision; a request with another base revision is refused.
PublishPolicy(p) ==
  /\ head < MaxRevision
  /\ head' = head + 1
  /\ policies' = [policies EXCEPT ![head + 1] = p]
  /\ UNCHANGED <<approvals, config, runs, jobVars, request, workerVars>>

\* The runtime configuration is saved; the API reads it at every request.
ChangeConfig ==
  /\ config < MaxConfig
  /\ config' = config + 1
  /\ UNCHANGED <<approvals, policies, head, runs, jobVars, request, workerVars>>

----------------------------------------------------------------------------
\* The automatic preflight worker.

\* Mutant of Claimable: max_attempts is not looked at.
ClaimableAgain(a) == \/ jobs[a].status \in {"PENDING", "RETRY_WAIT"}
                     \/ jobs[a].status = "RUNNING" /\ jobs[a].lapsed

Claimable(a) == /\ \/ jobs[a].status \in {"PENDING", "RETRY_WAIT"}
                   \/ jobs[a].status = "RUNNING" /\ jobs[a].lapsed
                /\ jobs[a].attempts < MaxAttempts

ClaimJob(w, a) ==
  /\ work[w] = NoWork
  /\ Claimable(a)
  /\ jobs' = [jobs EXCEPT ![a].status = "RUNNING", ![a].lapsed = FALSE,
                          ![a].attempts = @ + 1]
  /\ work' = [work EXCEPT ![w] = [step |-> "claimed", approval |-> a,
                                  number |-> jobs[a].number,
                                  attempt |-> jobs[a].attempts + 1,
                                  seen |-> NoEvidence]]
  /\ UNCHANGED <<approvals, policyVars, runs, queued, request, workerConfig>>

OwnsJob(w) ==
  LET job == jobs[work[w].approval] IN
  /\ job.status = "RUNNING" /\ ~job.lapsed
  /\ job.number = work[w].number
  /\ job.attempts = work[w].attempt

\* Mutant of Bound: the decision need not name the job.
BoundToAnyDecision(w, seen) ==
  LET a == work[w].approval IN
  OwnsJob(w) /\ Automatic(a) /\ Pending(a) /\ approvals[a].preflight = seen

\* _validate_binding, with the preflight state the worker has bound to: the
\* policy of the job is the one the row was born under.
Bound(w, seen) ==
  LET a == work[w].approval IN
  /\ OwnsJob(w)
  /\ Automatic(a)
  /\ Pending(a)
  /\ approvals[a].preflight = seen
  /\ queued[a] = work[w].number

Step(w, step) == work' = [work EXCEPT ![w].step = step]

Prepare(w) ==
  LET a == work[w].approval IN
  /\ work[w] /= NoWork /\ work[w].step = "claimed"
  /\ Bound(w, approvals[a].preflight)
  /\ work' = [work EXCEPT ![w].step = "reading", ![w].seen = approvals[a].preflight]
  /\ UNCHANGED <<approvals, policyVars, runs, jobVars, request, workerConfig>>

\* _prepare, a request guard or _finalize finds that the binding is gone; an
\* expiry staged on the way is rolled back with the transaction.
BindingRefused(w) ==
  /\ work[w] /= NoWork
  /\ \/ work[w].step = "claimed" /\ ~Bound(w, approvals[work[w].approval].preflight)
     \/ work[w].step = "reading" /\ ~Bound(w, work[w].seen)
  /\ Step(w, "failing")
  /\ UNCHANGED <<approvals, policyVars, runs, jobVars, request, workerConfig>>

\* A retryable error of qBittorrent, or another one.
ReadFails(w) ==
  /\ work[w] /= NoWork /\ work[w].step = "reading"
  /\ \E step \in {"failing", "failingRetryable"} : Step(w, step)
  /\ UNCHANGED <<approvals, policyVars, runs, jobVars, request, workerConfig>>

\* The result, the grant if it passes, and the end of the job.  The settings are
\* those the worker was started with, for the result and for the grant.
Finalize(w, v) ==
  LET a == work[w].approval
      e == Result(a, v, workerConfig[w])
  IN /\ work[w] /= NoWork /\ work[w].step = "reading"
     /\ Bound(w, work[w].seen)
     /\ CountRun(a)
     /\ \/ v /= "PASS" /\ Write(a, Stored(approvals[a], e))
        \/ /\ v = "PASS" /\ Insertable(a)
           /\ \E x \in AutomaticExecution :
                Write(a, Granted(approvals[a], e, "AUTOMATION", x))
     /\ jobs' = [jobs EXCEPT ![a].status = "SUCCEEDED", ![a].lapsed = FALSE]
     /\ work' = [work EXCEPT ![w] = NoWork]
     /\ UNCHANGED <<policyVars, queued, request, workerConfig>>

\* _fail: only the owner of the lease writes.
Failed(w) ==
  LET job == jobs[work[w].approval] IN
  IF work[w].step = "failingRetryable" /\ job.attempts < MaxAttempts
  THEN [job EXCEPT !.status = "RETRY_WAIT"]
  ELSE [job EXCEPT !.status = "FAILED"]

Fail(w) ==
  /\ work[w] /= NoWork /\ work[w].step \in {"failing", "failingRetryable"}
  /\ jobs' = IF OwnsJob(w) THEN [jobs EXCEPT ![work[w].approval] = Failed(w)] ELSE jobs
  /\ work' = [work EXCEPT ![w] = NoWork]
  /\ UNCHANGED <<approvals, policyVars, runs, queued, request, workerConfig>>

LeaseLapses(a) ==
  /\ jobs[a].status = "RUNNING" /\ ~jobs[a].lapsed
  /\ jobs' = [jobs EXCEPT ![a].lapsed = TRUE]
  /\ UNCHANGED <<approvals, policyVars, runs, queued, request, workerVars>>

\* The process ends, at any step, and starts again with the settings of now.
Restart(w) ==
  /\ work[w] /= NoWork \/ workerConfig[w] /= config
  /\ work' = [work EXCEPT ![w] = NoWork]
  /\ workerConfig' = [workerConfig EXCEPT ![w] = config]
  /\ UNCHANGED <<approvals, policyVars, runs, jobVars, request>>

----------------------------------------------------------------------------
Operator(a) ==
  \/ CreateRequest(a) \/ Reject(a) \/ Revoke(a) \/ CreateExecution(a)
  \/ \E h \in Handlers : StartApprove(h, a) \/ StartConfirm(h, a) \/ StartPreflight(h, a)

Finish(h) ==
  \/ DropRequest(h)
  \/ \E v \in Verdicts : FinishApprove(h, v) \/ FinishConfirm(h, v) \/ FinishPreflight(h, v)

Work(w) ==
  \/ Prepare(w) \/ BindingRefused(w) \/ ReadFails(w) \/ Fail(w)
  \/ \E v \in Verdicts : Finalize(w, v)

Environment ==
  \/ ChangeConfig
  \/ \E p \in Policies : PublishPolicy(p)
  \/ \E w \in Workers : Restart(w)
  \/ \E a \in Approvals : \/ RequeuePreflight(a) \/ Expire(a) \/ TimePasses(a)
                          \/ ExecutorReserves(a) \/ ExecutorConsumes(a) \/ LeaseLapses(a)

Next ==
  \/ \E a \in Approvals : Operator(a)
  \/ \E h \in Handlers : Finish(h)
  \/ \E w \in Workers : Work(w) \/ \E a \in Approvals : ClaimJob(w, a)
  \/ Environment

Spec == Init /\ [][Next]_vars

----------------------------------------------------------------------------
\* Properties.

\* The status of a row and its download plan agree, whichever stale copies have
\* been written: everything past a grant has a plan, and a row with a plan is
\* never open or rejected.
PlanBacksStatus == \A a \in Approvals :
  /\ approvals[a].status \in {"APPROVED", "EXECUTING", "REVOKED", "CONSUMED"}
       => approvals[a].plan /= NoEvidence
  /\ approvals[a].plan /= NoEvidence
       => approvals[a].status \notin {"NONE", "PENDING", "REJECTED"}
  /\ approvals[a].execution /= "NOBODY" => approvals[a].plan /= NoEvidence

\* A candidate has one live request at most, although a rejected one can still
\* be approved by a handler that has read it before.
OneLivePerCandidate == \A a, b \in Approvals :
  Live(a) /\ Live(b) /\ CandidateOf[a] = CandidateOf[b] => a = b

\* The system grants only rows born under a policy that lets it, and only what
\* passes every check.
AutomationIsEntitled == \A a \in Approvals :
  approvals[a].grantedBy = "AUTOMATION" =>
    /\ policies[approvals[a].revision].approval = "AUTO_IF_ELIGIBLE"
    /\ approvals[a].plan.verdict = "PASS"

\* A row queued again under the policy it was born under never gets a second
\* automatic verdict: its decision goes on naming the first job.
OneAutomaticVerdict == \A a \in Approvals :
  jobs[a].status = "SUCCEEDED" => jobs[a].number = queued[a]

\* A row becomes approved at most once, with evidence that passes, that is
\* kept with the row and in its plan, while the request is not due and the
\* approval stage not disabled; and a request never grants on evidence that was
\* taken under other settings than the current ones.
IsGranted(a) == approvals[a].status /= "APPROVED" /\ approvals'[a].status = "APPROVED"
GrantIsJustified == [][\A a \in Approvals : IsGranted(a) =>
  /\ approvals[a].plan = NoEvidence
  /\ approvals'[a].plan /= NoEvidence
  /\ approvals'[a].plan.verdict \in Passable
  /\ approvals'[a].plan = approvals'[a].preflight
  /\ ~approvals[a].due
  /\ Enabled("approval")
  /\ request' /= request => approvals'[a].plan.config = config]_vars

\* routes/approvals.py:424 says of the second transaction: "The approval snapshot
\* and pending state are checked again under a fresh row lock before the result
\* is stored."
ResultStoredOnlyIfPending == [][\A a \in Approvals :
  approvals'[a].preflight /= approvals[a].preflight => approvals[a].status = "PENDING"]_vars

==============================================================================
