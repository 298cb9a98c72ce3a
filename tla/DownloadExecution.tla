-------------------------- MODULE DownloadExecution --------------------------
(***************************************************************************)
(* The life of approved download plans from the moment they may be         *)
(* executed to the creation of a monitored download job:                   *)
(*   services/executions.py        the transactions on download_executions *)
(*   workers/download_executor.py  the lease-fenced executor processes     *)
(*   adapters/downloaders          qBittorrent as the executor uses it     *)
(*                                                                         *)
(* An execution and the approval it executes are one-to-one (approval_id   *)
(* is unique in download_executions), so both are indexed by the same set. *)
(* Each action below is one database transaction or one network effect of  *)
(* the code; workers interleave between them, crash, and lose their lease. *)
(***************************************************************************)
EXTENDS Naturals, FiniteSets

CONSTANTS
  Executions,     \* approvals with a verified plan, and their executions
  Workers,        \* download executor processes (worker_id)
  Torrents,       \* torrent identities, as a set of info hashes decides them
  TorrentOf,      \* the torrent each plan selects
  MaxAttempts,    \* execution.max_attempts (settings.job_max_attempts)
  LeaseTicks,     \* settings.download_execution_lease_seconds, in clock ticks
  MaxRevision,    \* bound: policy revisions published
  NoExecution,    \* a worker between two claims
  NoWorker        \* locked_by of an execution nobody leases

ASSUME TorrentOfAssumption == TorrentOf \in [Executions -> Torrents]
ASSUME BoundsAssumption == /\ MaxAttempts \in Nat \ {0}
                           /\ LeaseTicks  \in Nat \ {0}
                           /\ MaxRevision \in Nat \ {0}
ASSUME NullsAssumption == NoExecution \notin Executions /\ NoWorker \notin Workers

VARIABLES
  \* download_executions
  status, attempts, leaseToken, lockedBy,
  lockedAge,        \* ticks since locked_at, saturating once the lease is stale
  retryDue,         \* next_retry_at has passed
  origin,           \* MANUAL or AUTOMATION
  boundRevision,    \* automation_policy_revision_id
  \* approval_requests and download_jobs
  approvalStatus,
  approvalDue,      \* expires_at has passed
  jobs,             \* executions with a download_jobs row
  \* automation_policy_head and the EXECUTION mode of the current revision
  revision, executionMode,
  \* qBittorrent and the network in front of it
  torrents,         \* torrents qBittorrent has
  inFlight,         \* torrents/add requests sent and not yet received or lost
  accepted,         \* executions whose own request qBittorrent answered "Ok."
  addRequests,      \* history: torrents/add requests each execution has sent
  \* local variables of DownloadExecutor._process_claim, by worker
  pc, claim, claimToken,
  outcome,          \* what the claim will report: "none" until known
  addMayHaveOccurred

executionVars == <<status, attempts, leaseToken, lockedBy, lockedAge, retryDue,
                   origin, boundRevision>>
approvalVars  == <<approvalStatus, approvalDue, jobs>>
policyVars    == <<revision, executionMode>>
qbVars        == <<torrents, inFlight, accepted, addRequests>>
workerVars    == <<pc, claim, claimToken, outcome, addMayHaveOccurred>>
vars == <<executionVars, approvalVars, policyVars, qbVars, workerVars>>

----------------------------------------------------------------------------
ActiveStates      == {"VALIDATING", "SUBMITTING"}
QueuedStates      == {"PENDING", "RETRY_WAIT"}
ReconcileStates   == {"OUTCOME_UNKNOWN", "RECONCILIATION_REQUIRED",
                      "RECONCILIATION_PENDING"}
SuccessStates     == {"SUBMITTED", "ALREADY_PRESENT"}
AbandonedStates   == {"FAILED", "CANCELLED"}
\* "NONE": the row does not exist yet.
ExecutionStatuses == {"NONE"} \cup QueuedStates \cup ActiveStates
                     \cup ReconcileStates \cup SuccessStates \cup AbandonedStates
ApprovalStatuses  == {"APPROVED", "EXECUTING", "EXPIRED", "REVOKED", "CONSUMED"}
AutomationModes   == {"DISABLED", "MANUAL", "AUTO_IF_ELIGIBLE"}

\* Where a worker stands in _process_claim, split at reservation_committed.
UnreservedGuarded == {"resolve", "lookup", "prepare"}
UnreservedSteps   == UnreservedGuarded \cup {"reserve", "failUnreserved"}
ReservedGuarded   == {"recheck", "arm", "observe", "confirm"}
ReservedSteps     == ReservedGuarded \cup {"post", "await", "finalize",
                                           "failReserved"}
GuardedSteps      == UnreservedGuarded \cup ReservedGuarded
Steps             == {"idle"} \cup UnreservedSteps \cup ReservedSteps

ExecutionTypeOK ==
  /\ status         \in [Executions -> ExecutionStatuses]
  /\ attempts       \in [Executions -> 0..MaxAttempts]
  /\ leaseToken     \in [Executions -> 0..MaxAttempts]
  /\ lockedBy       \in [Executions -> Workers \cup {NoWorker}]
  /\ lockedAge      \in [Executions -> 0..LeaseTicks + 1]
  /\ retryDue       \in [Executions -> BOOLEAN]
  /\ origin         \in [Executions -> {"MANUAL", "AUTOMATION"}]
  /\ boundRevision  \in [Executions -> 1..MaxRevision]

ApprovalTypeOK ==
  /\ approvalStatus \in [Executions -> ApprovalStatuses]
  /\ approvalDue    \in [Executions -> BOOLEAN]
  /\ jobs           \in SUBSET Executions

PolicyTypeOK == revision \in 1..MaxRevision /\ executionMode \in AutomationModes

QbTypeOK ==
  /\ torrents       \in SUBSET Torrents
  /\ inFlight       \in SUBSET Executions
  /\ accepted       \in SUBSET Executions
  /\ addRequests    \in [Executions -> Nat]

WorkerTypeOK ==
  /\ pc             \in [Workers -> Steps]
  /\ claim          \in [Workers -> Executions \cup {NoExecution}]
  /\ claimToken     \in [Workers -> 0..MaxAttempts]
  /\ outcome        \in [Workers -> {"none"} \cup SuccessStates]
  /\ addMayHaveOccurred \in [Workers -> BOOLEAN]

\* Every variable of the rows, of qBittorrent and of the workers keeps its type;
\* in particular no row is claimed more than max_attempts times.
TypeOK == /\ ExecutionTypeOK /\ ApprovalTypeOK /\ PolicyTypeOK
          /\ QbTypeOK /\ WorkerTypeOK

Init ==
  /\ status        = [e \in Executions |-> "NONE"]
  /\ attempts      = [e \in Executions |-> 0]
  /\ leaseToken    = [e \in Executions |-> 0]
  /\ lockedBy      = [e \in Executions |-> NoWorker]
  /\ lockedAge     = [e \in Executions |-> 0]
  /\ retryDue      = [e \in Executions |-> FALSE]
  /\ origin        = [e \in Executions |-> "MANUAL"]
  /\ boundRevision = [e \in Executions |-> 1]
  /\ approvalStatus = [e \in Executions |-> "APPROVED"]
  /\ approvalDue    = [e \in Executions |-> FALSE]
  /\ jobs          = {}
  /\ revision      = 1
  /\ executionMode \in AutomationModes
  /\ torrents      \in SUBSET Torrents
  /\ inFlight      = {}
  /\ accepted      = {}
  /\ addRequests   = [e \in Executions |-> 0]
  /\ pc            = [w \in Workers |-> "idle"]
  /\ claim         = [w \in Workers |-> NoExecution]
  /\ claimToken    = [w \in Workers |-> 0]
  /\ outcome       = [w \in Workers |-> "none"]
  /\ addMayHaveOccurred = [w \in Workers |-> FALSE]

----------------------------------------------------------------------------
\* Assignments that several transactions share.

\* Mutant: the lease columns are left as they were.
SettleKeepingLease(e, next) ==
  /\ status' = [status EXCEPT ![e] = next]
  /\ retryDue' = [retryDue EXCEPT ![e] = FALSE]
  /\ UNCHANGED <<attempts, leaseToken, lockedBy, lockedAge, origin, boundRevision>>

\* The row leaves the active states: locked_at, locked_by, lease_token = None.
Settle(e, next) ==
  /\ status'     = [status EXCEPT ![e] = next]
  /\ leaseToken' = [leaseToken EXCEPT ![e] = 0]
  /\ lockedBy'   = [lockedBy EXCEPT ![e] = NoWorker]
  /\ lockedAge'  = [lockedAge EXCEPT ![e] = 0]
  /\ retryDue'   = [retryDue EXCEPT ![e] = FALSE]
  /\ UNCHANGED <<attempts, origin, boundRevision>>

\* locked_at = now, and nothing else of the row.
Renew(e) ==
  /\ lockedAge' = [lockedAge EXCEPT ![e] = 0]
  /\ UNCHANGED <<status, attempts, leaseToken, lockedBy, retryDue, origin,
                 boundRevision>>

SetApproval(e, next) ==
  /\ approvalStatus' = [approvalStatus EXCEPT ![e] = next]
  /\ UNCHANGED <<approvalDue, jobs>>

Goto(w, step) ==
  /\ pc' = [pc EXCEPT ![w] = step]
  /\ UNCHANGED <<claim, claimToken, outcome, addMayHaveOccurred>>

\* _process_claim returns, or the process dies: its local variables are gone.
Drop(w) ==
  /\ pc'         = [pc EXCEPT ![w] = "idle"]
  /\ claim'      = [claim EXCEPT ![w] = NoExecution]
  /\ claimToken' = [claimToken EXCEPT ![w] = 0]
  /\ outcome'    = [outcome EXCEPT ![w] = "none"]
  /\ addMayHaveOccurred' = [addMayHaveOccurred EXCEPT ![w] = FALSE]

\* _owns_lease: the token and the worker of the row are those of the claim.
OwnsLease(w) == /\ leaseToken[claim[w]] = claimToken[w]
                /\ lockedBy[claim[w]] = w

\* locked_at + lease > now; a row is stale only once locked_at < now - lease.
LeaseFresh(e) == lockedAge[e] < LeaseTicks
LeaseStale(e) == lockedAge[e] > LeaseTicks

FreshMatchingLease(w, expected) ==
  OwnsLease(w) /\ status[claim[w]] = expected /\ LeaseFresh(claim[w])

\* _automation_fence_error and _require_final_automation_submission_cas: an
\* automatic execution lives only under the policy revision that created it.
Fenced(e) == /\ origin[e] = "AUTOMATION"
             /\ \/ boundRevision[e] # revision
                \/ executionMode # "AUTO_IF_ELIGIBLE"

ApprovalUsable(e) == approvalStatus[e] = "APPROVED" /\ ~approvalDue[e]

\* An expired approval is marked when it is read; any other status is kept.
MarkIfExpired(e) ==
  IF approvalStatus[e] = "APPROVED" THEN "EXPIRED" ELSE approvalStatus[e]

----------------------------------------------------------------------------
\* The control plane: administrators, automation, and time.

\* create_execution_intent and execute_approved_plan. The one-use intent and
\* the idempotency key between the two calls are left out: what they allow is
\* that an approved, unexpired approval without an execution gets one.
ExecuteApprovedPlan(e, by) ==
  /\ status[e] = "NONE" /\ ApprovalUsable(e)
  /\ IF by = "AUTOMATION" THEN executionMode = "AUTO_IF_ELIGIBLE"
                          ELSE executionMode # "DISABLED"
  /\ status' = [status EXCEPT ![e] = "PENDING"]
  /\ origin' = [origin EXCEPT ![e] = by]
  /\ boundRevision' = [boundRevision EXCEPT ![e] = revision]
  /\ UNCHANGED <<attempts, leaseToken, lockedBy, lockedAge, retryDue>>
  /\ UNCHANGED <<approvalVars, policyVars, qbVars, workerVars>>

\* Mutant: a reserved approval can still be revoked.
RevokeReserved(e) ==
  /\ approvalStatus[e] \in {"APPROVED", "EXECUTING"}
  /\ SetApproval(e, IF approvalDue[e] THEN "EXPIRED" ELSE "REVOKED")
  /\ UNCHANGED <<executionVars, policyVars, qbVars, workerVars>>

\* revoke_request: refused once the approval is EXECUTING; a due approval is
\* marked EXPIRED instead (so do the intent and execute calls that refuse it).
RevokeRequest(e) ==
  /\ approvalStatus[e] = "APPROVED"
  /\ SetApproval(e, IF approvalDue[e] THEN "EXPIRED" ELSE "REVOKED")
  /\ UNCHANGED <<executionVars, policyVars, qbVars, workerVars>>

\* publish_policy: a new immutable revision becomes the head.
PublishPolicy(mode) ==
  /\ revision < MaxRevision
  /\ revision' = revision + 1
  /\ executionMode' = mode
  /\ UNCHANGED <<executionVars, approvalVars, qbVars, workerVars>>

\* request_reconciliation records a human's request; nothing processes it.
RequestReconciliation(e) ==
  /\ status[e] \in {"OUTCOME_UNKNOWN", "RECONCILIATION_REQUIRED"}
  /\ status' = [status EXCEPT ![e] = "RECONCILIATION_PENDING"]
  /\ UNCHANGED <<attempts, leaseToken, lockedBy, lockedAge, retryDue, origin,
                 boundRevision>>
  /\ UNCHANGED <<approvalVars, policyVars, qbVars, workerVars>>

ApprovalExpires(e) ==
  /\ ~approvalDue[e]
  /\ approvalDue' = [approvalDue EXCEPT ![e] = TRUE]
  /\ UNCHANGED <<approvalStatus, jobs>>
  /\ UNCHANGED <<executionVars, policyVars, qbVars, workerVars>>

RetryDelayEnds(e) ==
  /\ status[e] = "RETRY_WAIT" /\ ~retryDue[e]
  /\ retryDue' = [retryDue EXCEPT ![e] = TRUE]
  /\ UNCHANGED <<status, attempts, leaseToken, lockedBy, lockedAge, origin,
                 boundRevision>>
  /\ UNCHANGED <<approvalVars, policyVars, qbVars, workerVars>>

LeaseAges(e) ==
  /\ leaseToken[e] # 0 /\ ~LeaseStale(e)
  /\ lockedAge' = [lockedAge EXCEPT ![e] = @ + 1]
  /\ UNCHANGED <<status, attempts, leaseToken, lockedBy, retryDue, origin,
                 boundRevision>>
  /\ UNCHANGED <<approvalVars, policyVars, qbVars, workerVars>>

----------------------------------------------------------------------------
\* run_once: recover what other claims left behind, then claim one execution.

Stale == {e \in Executions : status[e] \in ActiveStates /\ LeaseStale(e)}

\* Mutants: a reserved submission is retried like a validation; a validation
\* out of attempts is scheduled again.
RetryEveryStale(e) ==
  IF attempts[e] < MaxAttempts THEN "RETRY_WAIT" ELSE "FAILED"

RetryExhausted(e) ==
  IF status[e] = "SUBMITTING" THEN "RECONCILIATION_REQUIRED" ELSE "RETRY_WAIT"

\* _recover_stale_executions settles one transaction's worth of rows: a
\* reserved submission must be reconciled, a validation is retried or fails.
RecoveredStatus(e) ==
  IF status[e] = "SUBMITTING" THEN "RECONCILIATION_REQUIRED"
  ELSE IF attempts[e] < MaxAttempts THEN "RETRY_WAIT" ELSE "FAILED"

RecoverStaleExecutions(w) ==
  /\ pc[w] = "idle" /\ Stale # {}
  /\ status'     = [e \in Executions |-> IF e \in Stale THEN RecoveredStatus(e)
                                                        ELSE status[e]]
  /\ leaseToken' = [e \in Executions |-> IF e \in Stale THEN 0 ELSE leaseToken[e]]
  /\ lockedBy'   = [e \in Executions |-> IF e \in Stale THEN NoWorker
                                                        ELSE lockedBy[e]]
  /\ lockedAge'  = [e \in Executions |-> IF e \in Stale THEN 0 ELSE lockedAge[e]]
  /\ retryDue'   = [e \in Executions |-> retryDue[e] /\ e \notin Stale]
  /\ UNCHANGED <<attempts, origin, boundRevision>>
  /\ UNCHANGED <<approvalVars, policyVars, qbVars, workerVars>>

\* Mutant: stale validations are claimed where they lie, and max_attempts is
\* not asked.
EligibleUnbounded(e) ==
  \/ status[e] = "PENDING" \/ (status[e] = "RETRY_WAIT" /\ retryDue[e])
  \/ status[e] = "VALIDATING" /\ LeaseStale(e)

Eligible(e) == /\ status[e] = "PENDING" \/ (status[e] = "RETRY_WAIT" /\ retryDue[e])
               /\ attempts[e] < MaxAttempts

\* _claim_next_execution. Rows locked by others are skipped, so any eligible
\* row may be the one. lease_token is a fresh uuid; the attempt number, which
\* every claim increments, stands for it.
ClaimNextExecution(w, e) ==
  /\ pc[w] = "idle" /\ Eligible(e)
  /\ status'     = [status EXCEPT ![e] = "VALIDATING"]
  /\ attempts'   = [attempts EXCEPT ![e] = @ + 1]
  /\ leaseToken' = [leaseToken EXCEPT ![e] = attempts[e] + 1]
  /\ lockedBy'   = [lockedBy EXCEPT ![e] = w]
  /\ lockedAge'  = [lockedAge EXCEPT ![e] = 0]
  /\ retryDue'   = [retryDue EXCEPT ![e] = FALSE]
  /\ pc'         = [pc EXCEPT ![w] = "resolve"]
  /\ claim'      = [claim EXCEPT ![w] = e]
  /\ claimToken' = [claimToken EXCEPT ![w] = attempts[e] + 1]
  /\ UNCHANGED <<origin, boundRevision, outcome, addMayHaveOccurred>>
  /\ UNCHANGED <<approvalVars, policyVars, qbVars>>

\* _heartbeat / _renew_lease, concurrent with every step of the claim.
RenewLease(w) ==
  /\ pc[w] # "idle" /\ OwnsLease(w) /\ status[claim[w]] \in ActiveStates
  /\ LeaseFresh(claim[w])
  /\ Renew(claim[w])
  /\ UNCHANGED <<approvalVars, policyVars, qbVars, workerVars>>

\* The process dies, or an exception escapes _process_claim.
Crash(w) ==
  /\ pc[w] # "idle"
  /\ Drop(w)
  /\ UNCHANGED <<executionVars, approvalVars, policyVars, qbVars>>

----------------------------------------------------------------------------
\* _ensure_external_action_allowed: the transaction before every request to a
\* tracker or to qBittorrent. It refuses, cancels, or renews the lease.

Expected(w) == IF pc[w] \in UnreservedSteps THEN "VALIDATING" ELSE "SUBMITTING"

GuardLosesLease(w) ==
  /\ pc[w] \in GuardedSteps /\ ~FreshMatchingLease(w, Expected(w))
  /\ Drop(w)
  /\ UNCHANGED <<executionVars, approvalVars, policyVars, qbVars>>

\* Mutant: the fence cancels without asking what may have been written.
CancelWhenFenced(w) ==
  /\ pc[w] \in GuardedSteps /\ FreshMatchingLease(w, Expected(w))
  /\ Fenced(claim[w])
  /\ Settle(claim[w], "CANCELLED")
  /\ SetApproval(claim[w], "REVOKED")
  /\ Drop(w)
  /\ UNCHANGED <<policyVars, qbVars>>

\* The automation fence before any write: the execution is cancelled and its
\* approval, reserved or not, is revoked (_cancel_by_automation_fence).
GuardCancelsByFence(w) ==
  LET e == claim[w] IN
  /\ pc[w] \in GuardedSteps /\ FreshMatchingLease(w, Expected(w))
  /\ Fenced(e) /\ ~addMayHaveOccurred[w]
  /\ Settle(e, "CANCELLED")
  /\ SetApproval(e, IF approvalStatus[e] \in {"APPROVED", "EXECUTING"}
                    THEN "REVOKED" ELSE approvalStatus[e])
  /\ Drop(w)
  /\ UNCHANGED <<policyVars, qbVars>>

\* The fence after a write: AUTOMATION_POLICY_CHANGED_AFTER_WRITE.
GuardFencedAfterWrite(w) ==
  /\ pc[w] \in ReservedGuarded /\ FreshMatchingLease(w, "SUBMITTING")
  /\ Fenced(claim[w]) /\ addMayHaveOccurred[w]
  /\ Goto(w, "failReserved")
  /\ UNCHANGED <<executionVars, approvalVars, policyVars, qbVars>>

\* Revoked or expired before the reservation.
GuardFindsApprovalInvalid(w) ==
  LET e == claim[w] IN
  /\ pc[w] \in UnreservedGuarded /\ FreshMatchingLease(w, "VALIDATING")
  /\ ~Fenced(e) /\ ~ApprovalUsable(e)
  /\ Settle(e, "CANCELLED")
  /\ SetApproval(e, MarkIfExpired(e))
  /\ Drop(w)
  /\ UNCHANGED <<policyVars, qbVars>>

\* The guard lets w act; a reserved approval must still be EXECUTING.
GuardAllows(w) ==
  /\ FreshMatchingLease(w, Expected(w))
  /\ ~Fenced(claim[w])
  /\ IF pc[w] \in UnreservedSteps THEN ApprovalUsable(claim[w])
                                  ELSE approvalStatus[claim[w]] = "EXECUTING"
  /\ Renew(claim[w])

\* Mutant: a torrents/add without an answer is sent again.
StepFailsResending(w) ==
  /\ \/ pc[w] \in UnreservedGuarded \cup {"reserve"} /\ Goto(w, "failUnreserved")
     \/ pc[w] = "await" /\ Goto(w, "post")
     \/ pc[w] \in ReservedGuarded \cup {"post", "finalize"} /\ Goto(w, "failReserved")
  /\ UNCHANGED <<executionVars, approvalVars, policyVars, qbVars>>

\* An AppError or another exception: a failed request, a changed binding or
\* target, an invalid torrent, an ambiguous or missing observation.
StepFails(w) ==
  /\ \/ pc[w] \in UnreservedGuarded \cup {"reserve"} /\ Goto(w, "failUnreserved")
     \/ pc[w] \in ReservedGuarded \cup {"post", "await", "finalize"}
        /\ Goto(w, "failReserved")
  /\ UNCHANGED <<executionVars, approvalVars, policyVars, qbVars>>

----------------------------------------------------------------------------
\* _process_claim before the reservation: status VALIDATING.

\* _load_binding, the tracker searches, fetch_torrent and validate_torrent,
\* each request behind its own guard.
ResolveTorrent(w) ==
  /\ pc[w] = "resolve" /\ GuardAllows(w)
  /\ Goto(w, "lookup")
  /\ UNCHANGED <<approvalVars, policyVars, qbVars>>

\* authenticate and find_torrents_by_hashes: is the torrent there already?
LookupExisting(w) ==
  LET present == TorrentOf[claim[w]] \in torrents IN
  /\ pc[w] = "lookup" /\ GuardAllows(w)
  /\ pc' = [pc EXCEPT ![w] = IF present THEN "reserve" ELSE "prepare"]
  /\ outcome' = [outcome EXCEPT ![w] = IF present THEN "ALREADY_PRESENT" ELSE @]
  /\ UNCHANGED <<claim, claimToken, addMayHaveOccurred>>
  /\ UNCHANGED <<approvalVars, policyVars, qbVars>>

\* ensure_category: idempotent, and read back, so only its failure matters.
PrepareCategory(w) ==
  /\ pc[w] = "prepare" /\ GuardAllows(w)
  /\ Goto(w, "reserve")
  /\ UNCHANGED <<approvalVars, policyVars, qbVars>>

\* Mutant: the reservation is flushed and never committed.
ReserveUncommitted(w) ==
  /\ pc[w] = "reserve" /\ FreshMatchingLease(w, "VALIDATING")
  /\ ApprovalUsable(claim[w])
  /\ Goto(w, "recheck")
  /\ UNCHANGED <<executionVars, approvalVars, policyVars, qbVars>>

\* _reserve_submission and persist_info_hash_before_submission. The worker may
\* not learn that its commit succeeded: it then believes nothing is reserved.
ReserveSubmission(w) ==
  LET e == claim[w] IN
  /\ pc[w] = "reserve" /\ FreshMatchingLease(w, "VALIDATING")
  /\ ApprovalUsable(e)
  /\ SetApproval(e, "EXECUTING")
  /\ status' = [status EXCEPT ![e] = "SUBMITTING"]
  /\ \/ Goto(w, IF outcome[w] = "none" THEN "recheck" ELSE "observe")
     \/ Goto(w, "failUnreserved")
  /\ UNCHANGED <<attempts, leaseToken, lockedBy, lockedAge, retryDue, origin,
                 boundRevision>>
  /\ UNCHANGED <<policyVars, qbVars>>

ReserveFindsApprovalInvalid(w) ==
  LET e == claim[w] IN
  /\ pc[w] = "reserve" /\ FreshMatchingLease(w, "VALIDATING")
  /\ ~ApprovalUsable(e)
  /\ Settle(e, "CANCELLED")
  /\ SetApproval(e, MarkIfExpired(e))
  /\ Drop(w)
  /\ UNCHANGED <<policyVars, qbVars>>

ReserveLosesLease(w) ==
  /\ pc[w] = "reserve" /\ ~FreshMatchingLease(w, "VALIDATING")
  /\ Drop(w)
  /\ UNCHANGED <<executionVars, approvalVars, policyVars, qbVars>>

\* _mark_validation_failure: only the owner of the lease, expired or not, may
\* schedule a retry; a retryable error with attempts left does.
MarkValidationFailure(w) ==
  LET e == claim[w] IN
  /\ pc[w] = "failUnreserved"
  /\ IF OwnsLease(w) /\ status[e] = "VALIDATING"
       THEN \E next \in {"FAILED"} \cup
              (IF attempts[e] < MaxAttempts THEN {"RETRY_WAIT"} ELSE {}) :
              Settle(e, next)
       ELSE UNCHANGED executionVars
  /\ Drop(w)
  /\ UNCHANGED <<approvalVars, policyVars, qbVars>>

----------------------------------------------------------------------------
\* _process_claim after the reservation: status SUBMITTING.

\* add_torrent looks once more before it sends anything.
RecheckExisting(w) ==
  LET present == TorrentOf[claim[w]] \in torrents IN
  /\ pc[w] = "recheck" /\ GuardAllows(w)
  /\ pc' = [pc EXCEPT ![w] = IF present THEN "observe" ELSE "arm"]
  /\ outcome' = [outcome EXCEPT ![w] = IF present THEN "ALREADY_PRESENT" ELSE @]
  /\ UNCHANGED <<claim, claimToken, addMayHaveOccurred>>
  /\ UNCHANGED <<approvalVars, policyVars, qbVars>>

\* The request guard and torrent_add_write_guard run back to back, with the
\* same conditions; then the flag is set, before the request leaves.
ArmWriteGuard(w) ==
  /\ pc[w] = "arm" /\ GuardAllows(w)
  /\ pc' = [pc EXCEPT ![w] = "post"]
  /\ addMayHaveOccurred' = [addMayHaveOccurred EXCEPT ![w] = TRUE]
  /\ UNCHANGED <<claim, claimToken, outcome>>
  /\ UNCHANGED <<approvalVars, policyVars, qbVars>>

\* client.send: no lock is held and nothing is checked any more.
PostAddTorrent(w) ==
  LET e == claim[w] IN
  /\ pc[w] = "post"
  /\ inFlight' = inFlight \cup {e}
  /\ addRequests' = [addRequests EXCEPT ![e] = @ + 1]
  /\ Goto(w, "await")
  /\ UNCHANGED <<torrents, accepted>>
  /\ UNCHANGED <<executionVars, approvalVars, policyVars>>

\* Mutant: any answer counts as "Ok.".
AnyAnswer(w) ==
  /\ pc[w] = "await" /\ claim[w] \notin inFlight
  /\ pc' = [pc EXCEPT ![w] = "observe"]
  /\ outcome' = [outcome EXCEPT ![w] = "SUBMITTED"]
  /\ UNCHANGED <<claim, claimToken, addMayHaveOccurred>>
  /\ UNCHANGED <<executionVars, approvalVars, policyVars, qbVars>>

\* The answer "Ok."; every other answer, and none in time, is StepFails.
AddAnswered(w) ==
  /\ pc[w] = "await" /\ claim[w] \in accepted
  /\ pc' = [pc EXCEPT ![w] = "observe"]
  /\ outcome' = [outcome EXCEPT ![w] = "SUBMITTED"]
  /\ UNCHANGED <<claim, claimToken, addMayHaveOccurred>>
  /\ UNCHANGED <<executionVars, approvalVars, policyVars, qbVars>>

\* Exactly one torrent with these hashes must be observed, in the launch mode
\* asked for (a wrong one is StepFails).
ObserveTorrent(w) ==
  /\ pc[w] = "observe" /\ GuardAllows(w)
  /\ TorrentOf[claim[w]] \in torrents
  /\ Goto(w, "confirm")
  /\ UNCHANGED <<approvalVars, policyVars, qbVars>>

ConfirmAllowed(w) ==
  /\ pc[w] = "confirm" /\ GuardAllows(w)
  /\ Goto(w, "finalize")
  /\ UNCHANGED <<approvalVars, policyVars, qbVars>>

\* finalize_download_submission: the job, the consumed approval and the
\* outcome in one transaction, under the policy head lock for an automatic
\* execution. Here too the answer to the commit may be lost.
FinalizeSubmission(w) ==
  LET e == claim[w] IN
  /\ pc[w] = "finalize" /\ FreshMatchingLease(w, "SUBMITTING")
  /\ approvalStatus[e] = "EXECUTING" /\ ~Fenced(e)
  /\ jobs' = jobs \cup {e}
  /\ approvalStatus' = [approvalStatus EXCEPT ![e] = "CONSUMED"]
  /\ UNCHANGED approvalDue
  /\ Settle(e, outcome[w])
  /\ Drop(w) \/ Goto(w, "failReserved")
  /\ UNCHANGED <<policyVars, qbVars>>

FinalizeRefused(w) ==
  LET e == claim[w] IN
  /\ pc[w] = "finalize"
  /\ \/ ~FreshMatchingLease(w, "SUBMITTING") /\ Drop(w)
     \/ FreshMatchingLease(w, "SUBMITTING") /\ Fenced(e) /\ Goto(w, "failReserved")
  /\ UNCHANGED <<executionVars, approvalVars, policyVars, qbVars>>

\* _mark_reserved_failure: mark_outcome_unknown once a write may have left,
\* mark_reconciliation_required otherwise; both need an unexpired lease, and
\* without one the row stays SUBMITTING until it is recovered.
MarkReservedFailure(w) ==
  LET e == claim[w] IN
  /\ pc[w] = "failReserved"
  /\ IF FreshMatchingLease(w, "SUBMITTING")
       THEN Settle(e, IF addMayHaveOccurred[w] THEN "OUTCOME_UNKNOWN"
                                               ELSE "RECONCILIATION_REQUIRED")
       ELSE UNCHANGED executionVars
  /\ Drop(w)
  /\ UNCHANGED <<approvalVars, policyVars, qbVars>>

----------------------------------------------------------------------------
\* qBittorrent, with the network and its other users.

\* A request arrives, perhaps long after its worker gave up. It is accepted
\* unless the torrent is there already.
QbReceivesAdd(e) ==
  /\ e \in inFlight
  /\ inFlight' = inFlight \ {e}
  /\ torrents' = torrents \cup {TorrentOf[e]}
  /\ accepted' = IF TorrentOf[e] \in torrents THEN accepted ELSE accepted \cup {e}
  /\ UNCHANGED addRequests
  /\ UNCHANGED <<executionVars, approvalVars, policyVars, workerVars>>

AddIsLost(e) ==
  /\ e \in inFlight
  /\ inFlight' = inFlight \ {e}
  /\ UNCHANGED <<torrents, accepted, addRequests>>
  /\ UNCHANGED <<executionVars, approvalVars, policyVars, workerVars>>

QbUserRemoves(t) ==
  /\ t \in torrents
  /\ torrents' = torrents \ {t}
  /\ UNCHANGED <<inFlight, accepted, addRequests>>
  /\ UNCHANGED <<executionVars, approvalVars, policyVars, workerVars>>

----------------------------------------------------------------------------
ControlPlane ==
  \/ \E e \in Executions, by \in {"MANUAL", "AUTOMATION"} : ExecuteApprovedPlan(e, by)
  \/ \E e \in Executions : RevokeRequest(e) \/ RequestReconciliation(e)
  \/ \E mode \in AutomationModes : PublishPolicy(mode)

Time ==
  \E e \in Executions : ApprovalExpires(e) \/ RetryDelayEnds(e) \/ LeaseAges(e)

Validating(w) ==
  \/ ResolveTorrent(w)    \/ LookupExisting(w)
  \/ PrepareCategory(w)   \/ ReserveSubmission(w)
  \/ ReserveFindsApprovalInvalid(w) \/ ReserveLosesLease(w)
  \/ MarkValidationFailure(w)

Submitting(w) ==
  \/ RecheckExisting(w)   \/ ArmWriteGuard(w)  \/ PostAddTorrent(w)
  \/ AddAnswered(w)       \/ ObserveTorrent(w) \/ ConfirmAllowed(w)
  \/ FinalizeSubmission(w) \/ FinalizeRefused(w)
  \/ MarkReservedFailure(w)

Guarding(w) ==
  \/ GuardLosesLease(w)       \/ GuardCancelsByFence(w)
  \/ GuardFencedAfterWrite(w) \/ GuardFindsApprovalInvalid(w)

\* What a running worker does about the claim it holds.
Work(w) == Validating(w) \/ Submitting(w) \/ Guarding(w) \/ StepFails(w)

Claiming(w) == \E e \in Executions : ClaimNextExecution(w, e)

Worker(w) == RecoverStaleExecutions(w) \/ Claiming(w) \/ Work(w)
             \/ RenewLease(w) \/ Crash(w)

Qbittorrent ==
  \/ \E e \in Executions : QbReceivesAdd(e) \/ AddIsLost(e)
  \/ \E t \in Torrents : QbUserRemoves(t)

Next == ControlPlane \/ Time \/ (\E w \in Workers : Worker(w)) \/ Qbittorrent

Spec == Init /\ [][Next]_vars

\* Every process loops over run_once, every request of _process_claim ends in
\* an answer or a timeout, and time passes. Crashes and renewals are not fair.
Fairness ==
  /\ \A w \in Workers : /\ WF_vars(RecoverStaleExecutions(w))
                        /\ WF_vars(Claiming(w))
                        /\ WF_vars(Work(w))
  /\ \A e \in Executions : WF_vars(LeaseAges(e)) /\ WF_vars(RetryDelayEnds(e))

FairSpec == Spec /\ Fairness

----------------------------------------------------------------------------
\* Properties.

\* However claims expire, crash and are taken over, an execution sends at most
\* one torrents/add (torrent_add_write_guard, _claim_next_execution).
AddSentAtMostOnce == \A e \in Executions : addRequests[e] <= 1

\* Once a request may have left, the execution is never retried, failed,
\* cancelled or reported as already present, and its approval stays reserved
\* or is consumed (_cancel_by_automation_fence, _recover_stale_executions).
SentAddIsAccountedFor ==
  \A e \in Executions : addRequests[e] > 0 =>
    /\ status[e] \in {"SUBMITTING", "SUBMITTED"} \cup ReconcileStates
    /\ approvalStatus[e] \in {"EXECUTING", "CONSUMED"}

\* SUBMITTED is said only of a torrent this execution's own request added,
\* ALREADY_PRESENT only if it sent none (finalize_download_submission).
OutcomeIsTrue ==
  \A e \in Executions :
    /\ status[e] = "SUBMITTED" => e \in accepted
    /\ status[e] = "ALREADY_PRESENT" => addRequests[e] = 0

\* The approval row follows the execution row across their transactions: it is
\* EXECUTING exactly while a submission is reserved or waits for a human, and
\* CONSUMED exactly when the execution succeeded and has its download job.
ApprovalFollowsExecution ==
  \A e \in Executions :
    /\ approvalStatus[e] = "EXECUTING" <=>
         status[e] \in {"SUBMITTING"} \cup ReconcileStates
    /\ approvalStatus[e] = "CONSUMED" <=> status[e] \in SuccessStates
    /\ e \in jobs <=> status[e] \in SuccessStates

\* An execution is active exactly when it has a lease, so recovery can always
\* find what a dead worker left (_recover_stale_executions filters on both).
ActiveIffLeased ==
  \A e \in Executions :
    /\ status[e] \in ActiveStates <=> leaseToken[e] # 0
    /\ status[e] \in ActiveStates <=> lockedBy[e] # NoWorker

\* Two workers are never both past the reservation of one execution, even
\* when the slower one has lost its lease and not noticed.
OneSubmitter ==
  \A w1, w2 \in Workers :
    /\ pc[w1] \in ReservedSteps
    /\ pc[w2] \in ReservedSteps
    /\ claim[w1] = claim[w2]
    => w1 = w2

\* The executor implements its abstract specification.
PhaseOf(s) == CASE s = "NONE" -> "absent"
                [] s \in QueuedStates \cup {"VALIDATING"} -> "queued"
                [] s = "SUBMITTING" -> "reserved"
                [] s \in SuccessStates -> "confirmed"
                [] s \in ReconcileStates -> "uncertain"
                [] s \in AbandonedStates -> "closed"

Outcome == INSTANCE SubmissionOutcome
             WITH phase  <- [e \in Executions |-> PhaseOf(status[e])],
                  writes <- addRequests

ImplementsOutcome == Outcome!Spec

\* Every requested execution stops being processed: it succeeds, is given up,
\* or waits for a human, whatever crashes and lost answers happen.
Settled == SuccessStates \cup AbandonedStates \cup ReconcileStates

EveryRequestSettles ==
  \A e \in Executions : status[e] = "PENDING" ~> status[e] \in Settled

----------------------------------------------------------------------------
\* The inductive invariant behind the properties above.

Pending == {"SUBMITTING"} \cup ReconcileStates

\* A lease is that of the latest claim, and an unrequested row was never
\* claimed.
LeaseInv ==
  \A e \in Executions :
    /\ leaseToken[e] # 0 => leaseToken[e] = attempts[e]
    /\ status[e] \in {"NONE", "PENDING"} => attempts[e] = 0

\* A working worker holds a claim that was made.
ClaimInv ==
  \A w \in Workers : IF pc[w] = "idle" THEN claim[w] = NoExecution ELSE
    claim[w] \in Executions /\ claimToken[w] \in 1..attempts[claim[w]]

\* No two workers hold the same claim.
TokenInv ==
  \A w1, w2 \in Workers :
    /\ pc[w1] # "idle" /\ pc[w2] # "idle" /\ claim[w1] = claim[w2]
    /\ claimToken[w1] = claimToken[w2]
    => w1 = w2

\* What a worker believes while it works, which stale leases never falsify: a
\* reserved claim is the latest one of an execution that will not be claimed
\* again.
BeliefOf(w) ==
  /\ pc[w] \in {"idle", "recheck", "arm"} \cup UnreservedSteps =>
       ~addMayHaveOccurred[w] /\ outcome[w] # "SUBMITTED"
  /\ pc[w] \in {"post", "await"} => addMayHaveOccurred[w]
  /\ pc[w] \in {"recheck", "arm", "post", "await"} => outcome[w] = "none"
  /\ pc[w] \in {"observe", "confirm", "finalize"} => outcome[w] # "none"
  /\ outcome[w] = "SUBMITTED" => claim[w] \in accepted
  /\ outcome[w] = "ALREADY_PRESENT" => ~addMayHaveOccurred[w]
  /\ pc[w] \in ReservedSteps =>
       /\ claimToken[w] = attempts[claim[w]]
       /\ \/ status[claim[w]] \in Pending
          \/ pc[w] = "failReserved" /\ status[claim[w]] \in SuccessStates

BeliefInv == \A w \in Workers : BeliefOf(w)

\* After a request has left, the worker that sent it is the only one left in a
\* reserved step, and it knows.
WriteOf(e) ==
  /\ addRequests[e] <= 1
  /\ e \in inFlight \cup accepted => addRequests[e] > 0
  /\ addRequests[e] > 0 =>
       /\ status[e] \in Pending \cup {"SUBMITTED"}
       /\ \A w \in Workers : pc[w] \in ReservedSteps /\ claim[w] = e =>
            addMayHaveOccurred[w] /\ pc[w] # "post"

WriteInv == \A e \in Executions : WriteOf(e)

IInv == /\ TypeOK /\ ActiveIffLeased /\ LeaseInv /\ ClaimInv /\ TokenInv
        /\ BeliefInv /\ WriteInv /\ ApprovalFollowsExecution /\ OutcomeIsTrue
=============================================================================
