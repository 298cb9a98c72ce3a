----------------------- MODULE DownloadExecutionProofs -----------------------
(***************************************************************************)
(* What DownloadExecution promises for any number of executions, workers,  *)
(* attempts, lease ticks and policy revisions. The invariant IInv of that  *)
(* module is inductive; its conjuncts are carried over a step one after    *)
(* the other: types, lease columns, claims, approvals, beliefs, writes.    *)
(* The safety properties and the refinement of SubmissionOutcome follow.   *)
(***************************************************************************)
EXTENDS DownloadExecution, TLAPS

USE TorrentOfAssumption, BoundsAssumption, NullsAssumption
USE DEF ActiveStates, QueuedStates, ReconcileStates, SuccessStates,
        AbandonedStates, ExecutionStatuses, ApprovalStatuses, AutomationModes,
        UnreservedGuarded, UnreservedSteps, ReservedGuarded, ReservedSteps,
        GuardedSteps, Steps, Pending, vars, executionVars, approvalVars,
        policyVars, qbVars, workerVars

----------------------------------------------------------------------------
\* What the helpers of DownloadExecution do to the types of the variables they
\* assign. A settled row (_cancel_by_automation_fence, _mark_validation_failure,
\* finalize) keeps its type.
LEMMA SettleType ==
  ASSUME ExecutionTypeOK, NEW e \in Executions, NEW next \in ExecutionStatuses,
         Settle(e, next)
  PROVE  ExecutionTypeOK'
BY DEF ExecutionTypeOK, Settle

\* locked_at = now (_renew_lease and the guards) keeps the row typed.
LEMMA RenewType ==
  ASSUME ExecutionTypeOK, NEW e \in Executions, Renew(e)
  PROVE  ExecutionTypeOK'
BY DEF ExecutionTypeOK, Renew

\* A change of approval.status keeps the approval rows typed.
LEMMA SetApprovalType ==
  ASSUME ApprovalTypeOK, NEW e \in Executions, NEW next \in ApprovalStatuses,
         SetApproval(e, next)
  PROVE  ApprovalTypeOK'
BY DEF ApprovalTypeOK, SetApproval

\* The next step of _process_claim keeps the workers typed.
LEMMA GotoType ==
  ASSUME WorkerTypeOK, NEW w \in Workers, NEW step \in Steps, Goto(w, step)
  PROVE  WorkerTypeOK'
BY DEF WorkerTypeOK, Goto

\* Returning from _process_claim, or dying in it, keeps the workers typed.
LEMMA DropType ==
  ASSUME WorkerTypeOK, NEW w \in Workers, Drop(w)
  PROVE  WorkerTypeOK'
BY DEF WorkerTypeOK, Drop

\* Groups of variables a transaction does not touch keep their types.
LEMMA FrameType ==
  /\ ExecutionTypeOK /\ UNCHANGED executionVars => ExecutionTypeOK'
  /\ ApprovalTypeOK /\ UNCHANGED approvalVars => ApprovalTypeOK'
  /\ PolicyTypeOK /\ UNCHANGED policyVars => PolicyTypeOK'
  /\ QbTypeOK /\ UNCHANGED qbVars => QbTypeOK'
  /\ WorkerTypeOK /\ UNCHANGED workerVars => WorkerTypeOK'
BY DEF ExecutionTypeOK, ApprovalTypeOK, PolicyTypeOK, QbTypeOK, WorkerTypeOK

\* TypeOK survives the API transactions and the passing of time.
LEMMA ControlPlaneType ==
  ASSUME TypeOK, ControlPlane \/ Time PROVE TypeOK'
<1> USE FrameType, SetApprovalType DEF TypeOK
<1>1. ASSUME NEW e \in Executions, NEW by \in {"MANUAL", "AUTOMATION"},
             ExecuteApprovedPlan(e, by)
      PROVE  TypeOK'
  <2>1. ExecutionTypeOK' BY <1>1 DEF ExecutionTypeOK, PolicyTypeOK, ExecuteApprovedPlan
  <2> QED BY <1>1, <2>1 DEF ExecuteApprovedPlan
<1>2. ASSUME NEW e \in Executions, RevokeRequest(e) PROVE TypeOK'
  BY <1>2 DEF RevokeRequest
<1>3. ASSUME NEW e \in Executions, RequestReconciliation(e) PROVE TypeOK'
  <2>1. ExecutionTypeOK' BY <1>3 DEF ExecutionTypeOK, RequestReconciliation
  <2> QED BY <1>3, <2>1 DEF RequestReconciliation
<1>4. ASSUME NEW mode \in AutomationModes, PublishPolicy(mode) PROVE TypeOK'
  <2>1. PolicyTypeOK' BY <1>4 DEF PolicyTypeOK, PublishPolicy
  <2> QED BY <1>4, <2>1 DEF PublishPolicy
<1>5. ASSUME NEW e \in Executions, ApprovalExpires(e) PROVE TypeOK'
  <2>1. ApprovalTypeOK' BY <1>5 DEF ApprovalTypeOK, ApprovalExpires
  <2> QED BY <1>5, <2>1 DEF ApprovalExpires
<1>6. ASSUME NEW e \in Executions, RetryDelayEnds(e) PROVE TypeOK'
  <2>1. ExecutionTypeOK' BY <1>6 DEF ExecutionTypeOK, RetryDelayEnds
  <2> QED BY <1>6, <2>1 DEF RetryDelayEnds
<1>7. ASSUME NEW e \in Executions, LeaseAges(e) PROVE TypeOK'
  <2>1. ExecutionTypeOK' BY <1>7 DEF ExecutionTypeOK, LeaseAges, LeaseStale
  <2> QED BY <1>7, <2>1 DEF LeaseAges
<1> QED BY <1>1, <1>2, <1>3, <1>4, <1>5, <1>6, <1>7 DEF ControlPlane, Time

\* A worker inside _process_claim holds an execution that it claimed.
LEMMA HoldsClaim ==
  ASSUME ClaimInv, NEW w \in Workers, pc[w] # "idle"
  PROVE  /\ claim[w] \in Executions
         /\ claimToken[w] \in 1..attempts[claim[w]]
BY DEF ClaimInv

\* TypeOK survives every step of _process_claim before the reservation.
LEMMA ValidatingType ==
  ASSUME TypeOK, ClaimInv, NEW w \in Workers, Validating(w) PROVE TypeOK'
<1> USE FrameType, SetApprovalType, SettleType, RenewType, GotoType, DropType,
        HoldsClaim
    DEF TypeOK
<1>1. CASE ResolveTorrent(w)
  BY <1>1 DEF ResolveTorrent, GuardAllows
<1>2. CASE LookupExisting(w)
  <2>1. WorkerTypeOK' BY <1>2 DEF WorkerTypeOK, LookupExisting
  <2> QED BY <1>2, <2>1 DEF LookupExisting, GuardAllows
<1>3. CASE PrepareCategory(w)
  BY <1>3 DEF PrepareCategory, GuardAllows
<1>4. CASE ReserveSubmission(w)
  <2>1. ExecutionTypeOK' BY <1>4 DEF ExecutionTypeOK, ReserveSubmission
  <2> QED BY <1>4, <2>1 DEF ReserveSubmission
<1>5. CASE ReserveFindsApprovalInvalid(w)
  <2>1. MarkIfExpired(claim[w]) \in ApprovalStatuses
    BY <1>5 DEF ReserveFindsApprovalInvalid, MarkIfExpired, ApprovalTypeOK
  <2> QED BY <1>5, <2>1 DEF ReserveFindsApprovalInvalid
<1>6. CASE ReserveLosesLease(w)
  BY <1>6 DEF ReserveLosesLease
<1>7. CASE MarkValidationFailure(w)
  BY <1>7 DEF MarkValidationFailure
<1> QED BY <1>1, <1>2, <1>3, <1>4, <1>5, <1>6, <1>7 DEF Validating

\* TypeOK survives every step of _process_claim after the reservation; for
\* finalize_download_submission that needs an outcome that is known by then.
LEMMA SubmittingType ==
  ASSUME TypeOK, ClaimInv, BeliefInv, NEW w \in Workers, Submitting(w) PROVE TypeOK'
<1> USE FrameType, SetApprovalType, SettleType, RenewType, GotoType, DropType,
        HoldsClaim
    DEF TypeOK
<1>1. CASE RecheckExisting(w)
  <2>1. WorkerTypeOK' BY <1>1 DEF WorkerTypeOK, RecheckExisting
  <2> QED BY <1>1, <2>1 DEF RecheckExisting, GuardAllows
<1>2. CASE ArmWriteGuard(w)
  <2>1. WorkerTypeOK' BY <1>2 DEF WorkerTypeOK, ArmWriteGuard
  <2> QED BY <1>2, <2>1 DEF ArmWriteGuard, GuardAllows
<1>3. CASE PostAddTorrent(w)
  <2>1. QbTypeOK' BY <1>3 DEF QbTypeOK, PostAddTorrent
  <2> QED BY <1>3, <2>1 DEF PostAddTorrent
<1>4. CASE AddAnswered(w)
  <2>1. WorkerTypeOK' BY <1>4 DEF WorkerTypeOK, AddAnswered
  <2> QED BY <1>4, <2>1 DEF AddAnswered
<1>5. CASE ObserveTorrent(w)
  BY <1>5 DEF ObserveTorrent, GuardAllows
<1>6. CASE ConfirmAllowed(w)
  BY <1>6 DEF ConfirmAllowed, GuardAllows
<1>7. CASE FinalizeSubmission(w)
  <2>1. ApprovalTypeOK' BY <1>7 DEF ApprovalTypeOK, FinalizeSubmission
  <2>2. outcome[w] \in ExecutionStatuses
    BY <1>7 DEF FinalizeSubmission, BeliefInv, BeliefOf, WorkerTypeOK
  <2> QED BY <1>7, <2>1, <2>2 DEF FinalizeSubmission
<1>8. CASE FinalizeRefused(w)
  BY <1>8 DEF FinalizeRefused
<1>9. CASE MarkReservedFailure(w)
  BY <1>9 DEF MarkReservedFailure
<1> QED BY <1>1, <1>2, <1>3, <1>4, <1>5, <1>6, <1>7, <1>8, <1>9 DEF Submitting

\* TypeOK survives the refusals of _ensure_external_action_allowed.
LEMMA GuardingType ==
  ASSUME TypeOK, ClaimInv, NEW w \in Workers, Guarding(w) PROVE TypeOK'
<1> USE FrameType, SetApprovalType, SettleType, GotoType, DropType, HoldsClaim
    DEF TypeOK
<1>1. CASE GuardLosesLease(w) BY <1>1 DEF GuardLosesLease
<1>2. CASE GuardCancelsByFence(w) BY <1>2 DEF GuardCancelsByFence, ApprovalTypeOK
<1>3. CASE GuardFencedAfterWrite(w) BY <1>3 DEF GuardFencedAfterWrite
<1>4. CASE GuardFindsApprovalInvalid(w)
  <2>1. MarkIfExpired(claim[w]) \in ApprovalStatuses
    BY <1>4 DEF GuardFindsApprovalInvalid, MarkIfExpired, ApprovalTypeOK
  <2> QED BY <1>4, <2>1 DEF GuardFindsApprovalInvalid
<1> QED BY <1>1, <1>2, <1>3, <1>4 DEF Guarding

\* TypeOK survives run_once; _claim_next_execution bounds the attempts.
LEMMA WorkerType ==
  ASSUME TypeOK, ClaimInv, BeliefInv, NEW w \in Workers, Worker(w) PROVE TypeOK'
<1> USE FrameType, RenewType, GotoType, DropType, HoldsClaim DEF TypeOK
<1>1. CASE RecoverStaleExecutions(w)
  <2>1. \A e \in Executions : RecoveredStatus(e) \in ExecutionStatuses
    BY DEF RecoveredStatus
  <2>2. ExecutionTypeOK'
    BY <1>1, <2>1 DEF ExecutionTypeOK, RecoverStaleExecutions
  <2> QED BY <1>1, <2>2 DEF RecoverStaleExecutions
<1>2. ASSUME NEW e \in Executions, ClaimNextExecution(w, e) PROVE TypeOK'
  <2>1. attempts[e] + 1 \in 0..MaxAttempts
    BY <1>2 DEF ClaimNextExecution, Eligible, ExecutionTypeOK
  <2>2. ExecutionTypeOK'
    BY <1>2, <2>1 DEF ExecutionTypeOK, ClaimNextExecution
  <2>3. WorkerTypeOK'
    BY <1>2, <2>1 DEF WorkerTypeOK, ClaimNextExecution
  <2> QED BY <1>2, <2>2, <2>3 DEF ClaimNextExecution
<1>3. CASE RenewLease(w) BY <1>3 DEF RenewLease
<1>4. CASE Crash(w) BY <1>4 DEF Crash
<1>5. CASE StepFails(w) BY <1>5 DEF StepFails
<1>6. CASE Work(w)
  BY <1>5, <1>6, ValidatingType, SubmittingType, GuardingType DEF Work
<1> QED BY <1>1, <1>2, <1>3, <1>4, <1>6 DEF Worker, Claiming

\* TypeOK survives what happens in qBittorrent and the network.
LEMMA QbittorrentType ==
  ASSUME TypeOK, Qbittorrent PROVE TypeOK'
<1> USE FrameType DEF TypeOK
<1>1. QbTypeOK'
  BY DEF Qbittorrent, QbReceivesAdd, AddIsLost, QbUserRemoves, QbTypeOK
<1> QED BY <1>1 DEF Qbittorrent, QbReceivesAdd, AddIsLost, QbUserRemoves

\* TypeOK survives every step.
LEMMA TypeStep ==
  ASSUME TypeOK, ClaimInv, BeliefInv, [Next]_vars PROVE TypeOK'
<1>1. CASE UNCHANGED vars BY <1>1, FrameType DEF TypeOK
<1> QED
  BY <1>1, ControlPlaneType, WorkerType, QbittorrentType DEF Next

----------------------------------------------------------------------------
\* The lease columns: a row that leaves the active states leaves its lease.
LEMMA SettleRow ==
  ASSUME ExecutionTypeOK, ActiveIffLeased, LeaseInv, NEW e \in Executions,
         NEW next, next \notin ActiveStates \cup {"NONE", "PENDING"},
         Settle(e, next)
  PROVE  ActiveIffLeased' /\ LeaseInv'
BY DEF ExecutionTypeOK, ActiveIffLeased, LeaseInv, Settle

\* Transactions that leave status and lease alone keep the lease invariants.
LEMMA FrameRow ==
  ASSUME ActiveIffLeased, LeaseInv,
         UNCHANGED <<status, attempts, leaseToken, lockedBy>>
  PROVE  ActiveIffLeased' /\ LeaseInv'
BY DEF ActiveIffLeased, LeaseInv

\* The lease invariants survive the steps before the reservation and the guards.
LEMMA ValidatingRow ==
  ASSUME TypeOK, ActiveIffLeased, LeaseInv, ClaimInv, NEW w \in Workers,
         Validating(w) \/ Guarding(w)
  PROVE  ActiveIffLeased' /\ LeaseInv'
<1> USE SettleRow, FrameRow, HoldsClaim DEF TypeOK
<1>1. CASE ResolveTorrent(w) BY <1>1 DEF ResolveTorrent, GuardAllows, Renew
<1>2. CASE LookupExisting(w) BY <1>2 DEF LookupExisting, GuardAllows, Renew
<1>3. CASE PrepareCategory(w) BY <1>3 DEF PrepareCategory, GuardAllows, Renew
<1>4. CASE ReserveSubmission(w)
  BY <1>4 DEF ReserveSubmission, FreshMatchingLease, ExecutionTypeOK,
              ActiveIffLeased, LeaseInv
<1>5. CASE ReserveFindsApprovalInvalid(w)
  BY <1>5 DEF ReserveFindsApprovalInvalid
<1>6. CASE ReserveLosesLease(w) BY <1>6 DEF ReserveLosesLease
<1>7. CASE MarkValidationFailure(w) BY <1>7 DEF MarkValidationFailure
<1>8. CASE Guarding(w)
  BY <1>8 DEF Guarding, GuardLosesLease, GuardCancelsByFence,
              GuardFencedAfterWrite, GuardFindsApprovalInvalid
<1> QED BY <1>1, <1>2, <1>3, <1>4, <1>5, <1>6, <1>7, <1>8 DEF Validating

\* The lease invariants survive the steps after the reservation.
LEMMA SubmittingRow ==
  ASSUME TypeOK, ActiveIffLeased, LeaseInv, ClaimInv, BeliefInv,
         NEW w \in Workers, Submitting(w)
  PROVE  ActiveIffLeased' /\ LeaseInv'
<1> USE SettleRow, FrameRow, HoldsClaim DEF TypeOK
<1>1. CASE RecheckExisting(w) BY <1>1 DEF RecheckExisting, GuardAllows, Renew
<1>2. CASE ArmWriteGuard(w) BY <1>2 DEF ArmWriteGuard, GuardAllows, Renew
<1>3. CASE PostAddTorrent(w) BY <1>3 DEF PostAddTorrent
<1>4. CASE AddAnswered(w) BY <1>4 DEF AddAnswered
<1>5. CASE ObserveTorrent(w) BY <1>5 DEF ObserveTorrent, GuardAllows, Renew
<1>6. CASE ConfirmAllowed(w) BY <1>6 DEF ConfirmAllowed, GuardAllows, Renew
<1>7. CASE FinalizeSubmission(w)
  <2>1. outcome[w] \in SuccessStates
    BY <1>7 DEF FinalizeSubmission, BeliefInv, BeliefOf, WorkerTypeOK
  <2> QED BY <1>7, <2>1 DEF FinalizeSubmission
<1>8. CASE FinalizeRefused(w) BY <1>8 DEF FinalizeRefused
<1>9. CASE MarkReservedFailure(w) BY <1>9 DEF MarkReservedFailure
<1> QED BY <1>1, <1>2, <1>3, <1>4, <1>5, <1>6, <1>7, <1>8, <1>9 DEF Submitting

\* The lease invariants survive run_once: recovery clears exactly the leases it
\* takes, and a claim takes a new one.
LEMMA WorkerRow ==
  ASSUME TypeOK, ActiveIffLeased, LeaseInv, ClaimInv, BeliefInv,
         NEW w \in Workers, Worker(w)
  PROVE  ActiveIffLeased' /\ LeaseInv'
<1> USE FrameRow, HoldsClaim DEF TypeOK
<1>1. CASE RecoverStaleExecutions(w)
  <2>1. \A e \in Stale : /\ status[e] \in ActiveStates
                         /\ RecoveredStatus(e) \notin ActiveStates \cup {"NONE", "PENDING"}
    BY DEF Stale, RecoveredStatus
  <2> QED BY <1>1, <2>1 DEF RecoverStaleExecutions, ExecutionTypeOK,
                            ActiveIffLeased, LeaseInv
<1>2. ASSUME NEW e \in Executions, ClaimNextExecution(w, e)
      PROVE  ActiveIffLeased' /\ LeaseInv'
  BY <1>2 DEF ClaimNextExecution, Eligible, ExecutionTypeOK, ActiveIffLeased,
              LeaseInv
<1>3. CASE RenewLease(w) BY <1>3 DEF RenewLease, Renew
<1>4. CASE Crash(w) BY <1>4 DEF Crash
<1>5. CASE StepFails(w) BY <1>5 DEF StepFails
<1> QED BY <1>1, <1>2, <1>3, <1>4, <1>5, ValidatingRow, SubmittingRow
        DEF Worker, Claiming, Work

\* ActiveIffLeased and LeaseInv survive every step.
LEMMA RowStep ==
  ASSUME TypeOK, ActiveIffLeased, LeaseInv, ClaimInv, BeliefInv, [Next]_vars
  PROVE  ActiveIffLeased' /\ LeaseInv'
<1> USE FrameRow DEF TypeOK
<1>1. ASSUME NEW e \in Executions, NEW by, ExecuteApprovedPlan(e, by)
      PROVE  ActiveIffLeased' /\ LeaseInv'
  BY <1>1 DEF ExecuteApprovedPlan, ExecutionTypeOK, ActiveIffLeased, LeaseInv
<1>2. ASSUME NEW e \in Executions, RequestReconciliation(e)
      PROVE  ActiveIffLeased' /\ LeaseInv'
  BY <1>2 DEF RequestReconciliation, ExecutionTypeOK, ActiveIffLeased, LeaseInv
<1>3. CASE ControlPlane
  BY <1>1, <1>2, <1>3 DEF ControlPlane, RevokeRequest, PublishPolicy
<1>4. CASE Time
  BY <1>4 DEF Time, ApprovalExpires, RetryDelayEnds, LeaseAges
<1>5. CASE Qbittorrent
  BY <1>5 DEF Qbittorrent, QbReceivesAdd, AddIsLost, QbUserRemoves
<1>6. CASE UNCHANGED vars BY <1>6
<1> QED BY <1>3, <1>4, <1>5, <1>6, WorkerRow DEF Next

----------------------------------------------------------------------------
\* A worker that goes on with its claim keeps it.
LEMMA StepClaim ==
  ASSUME WorkerTypeOK, ClaimInv, TokenInv, NEW w \in Workers, pc[w] # "idle",
         NEW step, step # "idle", pc' = [pc EXCEPT ![w] = step],
         UNCHANGED <<claim, claimToken, attempts>>
  PROVE  ClaimInv' /\ TokenInv'
BY DEF WorkerTypeOK, ClaimInv, TokenInv

\* A worker that ends its claim drops it.
LEMMA DropClaim ==
  ASSUME WorkerTypeOK, ClaimInv, TokenInv, NEW w \in Workers, Drop(w),
         UNCHANGED attempts
  PROVE  ClaimInv' /\ TokenInv'
BY DEF WorkerTypeOK, ClaimInv, TokenInv, Drop

\* Steps that touch no worker and no attempts keep the claims.
LEMMA FrameClaim ==
  ASSUME ClaimInv, TokenInv, UNCHANGED <<pc, claim, claimToken, attempts>>
  PROVE  ClaimInv' /\ TokenInv'
BY DEF ClaimInv, TokenInv

\* ClaimInv and TokenInv survive every step: _claim_next_execution hands out a
\* lease token nobody holds.
LEMMA ClaimStep ==
  ASSUME TypeOK, ClaimInv, TokenInv, [Next]_vars
  PROVE  ClaimInv' /\ TokenInv'
<1> USE StepClaim, DropClaim, FrameClaim DEF TypeOK
<1>1. ASSUME NEW w \in Workers, NEW e \in Executions, ClaimNextExecution(w, e)
      PROVE  ClaimInv' /\ TokenInv'
  <2>1. attempts[e] \in Nat /\ attempts' = [attempts EXCEPT ![e] = @ + 1]
    BY <1>1 DEF ClaimNextExecution, ExecutionTypeOK
  <2>2. \A w1 \in Workers : claim[w1] = e /\ pc[w1] # "idle" =>
          claimToken[w1] <= attempts[e]
    BY <2>1 DEF ClaimInv
  <2>3. ClaimInv'
    BY <1>1, <2>1 DEF ClaimNextExecution, ClaimInv, ExecutionTypeOK, WorkerTypeOK
  <2>4. TokenInv'
    BY <1>1, <2>1, <2>2 DEF ClaimNextExecution, TokenInv, WorkerTypeOK
  <2> QED BY <2>3, <2>4
<1>2. ASSUME NEW w \in Workers, Validating(w) PROVE ClaimInv' /\ TokenInv'
  <2>1. CASE ResolveTorrent(w)
    BY <2>1 DEF ResolveTorrent, GuardAllows, Renew, Goto
  <2>2. CASE LookupExisting(w) BY <2>2 DEF LookupExisting, GuardAllows, Renew
  <2>3. CASE PrepareCategory(w)
    BY <2>3 DEF PrepareCategory, GuardAllows, Renew, Goto
  <2>4. CASE ReserveSubmission(w) BY <2>4 DEF ReserveSubmission, Goto
  <2>5. CASE ReserveFindsApprovalInvalid(w)
    BY <2>5 DEF ReserveFindsApprovalInvalid, Settle
  <2>6. CASE ReserveLosesLease(w) BY <2>6 DEF ReserveLosesLease
  <2>7. CASE MarkValidationFailure(w) BY <2>7 DEF MarkValidationFailure, Settle
  <2> QED BY <1>2, <2>1, <2>2, <2>3, <2>4, <2>5, <2>6, <2>7 DEF Validating
<1>3. ASSUME NEW w \in Workers, Submitting(w) PROVE ClaimInv' /\ TokenInv'
  <2>1. CASE RecheckExisting(w) BY <2>1 DEF RecheckExisting, GuardAllows, Renew
  <2>2. CASE ArmWriteGuard(w) BY <2>2 DEF ArmWriteGuard, GuardAllows, Renew
  <2>3. CASE PostAddTorrent(w) BY <2>3 DEF PostAddTorrent, Goto
  <2>4. CASE AddAnswered(w) BY <2>4 DEF AddAnswered
  <2>5. CASE ObserveTorrent(w)
    BY <2>5 DEF ObserveTorrent, GuardAllows, Renew, Goto
  <2>6. CASE ConfirmAllowed(w)
    BY <2>6 DEF ConfirmAllowed, GuardAllows, Renew, Goto
  <2>7. CASE FinalizeSubmission(w)
    BY <2>7 DEF FinalizeSubmission, Settle, Goto
  <2>8. CASE FinalizeRefused(w) BY <2>8 DEF FinalizeRefused, Goto
  <2>9. CASE MarkReservedFailure(w) BY <2>9 DEF MarkReservedFailure, Settle
  <2> QED BY <1>3, <2>1, <2>2, <2>3, <2>4, <2>5, <2>6, <2>7, <2>8, <2>9
          DEF Submitting
<1>4. ASSUME NEW w \in Workers, Guarding(w) PROVE ClaimInv' /\ TokenInv'
  <2>1. CASE GuardLosesLease(w) BY <2>1 DEF GuardLosesLease
  <2>2. CASE GuardCancelsByFence(w) BY <2>2 DEF GuardCancelsByFence, Settle
  <2>3. CASE GuardFencedAfterWrite(w) BY <2>3 DEF GuardFencedAfterWrite, Goto
  <2>4. CASE GuardFindsApprovalInvalid(w)
    BY <2>4 DEF GuardFindsApprovalInvalid, Settle
  <2> QED BY <1>4, <2>1, <2>2, <2>3, <2>4 DEF Guarding
<1>5. ASSUME NEW w \in Workers, Worker(w) PROVE ClaimInv' /\ TokenInv'
  <2>1. CASE RecoverStaleExecutions(w) BY <2>1 DEF RecoverStaleExecutions
  <2>2. CASE RenewLease(w) BY <2>2 DEF RenewLease, Renew
  <2>3. CASE Crash(w) BY <2>3 DEF Crash
  <2>4. CASE StepFails(w) BY <2>4 DEF StepFails, Goto
  <2> QED BY <1>1, <1>2, <1>3, <1>4, <1>5, <2>1, <2>2, <2>3, <2>4
          DEF Worker, Claiming, Work
<1>6. CASE ControlPlane \/ Time
  BY <1>6 DEF ControlPlane, ExecuteApprovedPlan, RevokeRequest,
              RequestReconciliation, PublishPolicy, Time, ApprovalExpires,
              RetryDelayEnds, LeaseAges
<1>7. CASE Qbittorrent
  BY <1>7 DEF Qbittorrent, QbReceivesAdd, AddIsLost, QbUserRemoves
<1>8. CASE UNCHANGED vars BY <1>8
<1> QED BY <1>5, <1>6, <1>7, <1>8 DEF Next

----------------------------------------------------------------------------
\* Steps that touch neither row keep the approval in step with the execution.
LEMMA FrameApproval ==
  ASSUME ApprovalFollowsExecution, UNCHANGED <<status, approvalStatus, jobs>>
  PROVE  ApprovalFollowsExecution'
BY DEF ApprovalFollowsExecution

\* ApprovalFollowsExecution survives every step: revocation and expiry stop at
\* the reservation, and each later transaction changes both rows together.
LEMMA ApprovalStep ==
  ASSUME TypeOK, ClaimInv, BeliefInv, ApprovalFollowsExecution, [Next]_vars
  PROVE  ApprovalFollowsExecution'
<1> USE FrameApproval, HoldsClaim
    DEF TypeOK, ExecutionTypeOK, ApprovalTypeOK
<1>1. CASE ControlPlane
  <2>1. ASSUME NEW e \in Executions, NEW by, ExecuteApprovedPlan(e, by)
        PROVE  ApprovalFollowsExecution'
    BY <2>1 DEF ExecuteApprovedPlan, ApprovalFollowsExecution
  <2>2. ASSUME NEW e \in Executions, RevokeRequest(e)
        PROVE  ApprovalFollowsExecution'
    BY <2>2 DEF RevokeRequest, SetApproval, ApprovalFollowsExecution
  <2>3. ASSUME NEW e \in Executions, RequestReconciliation(e)
        PROVE  ApprovalFollowsExecution'
    BY <2>3 DEF RequestReconciliation, ApprovalFollowsExecution
  <2> QED BY <1>1, <2>1, <2>2, <2>3 DEF ControlPlane, PublishPolicy
<1>2. CASE Time
  BY <1>2 DEF Time, ApprovalExpires, RetryDelayEnds, LeaseAges
<1>3. ASSUME NEW w \in Workers, Validating(w) PROVE ApprovalFollowsExecution'
  <2>1. CASE ResolveTorrent(w) BY <2>1 DEF ResolveTorrent, GuardAllows, Renew
  <2>2. CASE LookupExisting(w) BY <2>2 DEF LookupExisting, GuardAllows, Renew
  <2>3. CASE PrepareCategory(w) BY <2>3 DEF PrepareCategory, GuardAllows, Renew
  <2>4. CASE ReserveSubmission(w)
    BY <2>4 DEF ReserveSubmission, SetApproval, FreshMatchingLease,
                ApprovalFollowsExecution
  <2>5. CASE ReserveFindsApprovalInvalid(w)
    BY <2>5 DEF ReserveFindsApprovalInvalid, FreshMatchingLease, Settle,
                SetApproval, MarkIfExpired, ApprovalFollowsExecution
  <2>6. CASE ReserveLosesLease(w) BY <2>6 DEF ReserveLosesLease
  <2>7. CASE MarkValidationFailure(w)
    BY <2>7 DEF MarkValidationFailure, Settle, ApprovalFollowsExecution
  <2> QED BY <1>3, <2>1, <2>2, <2>3, <2>4, <2>5, <2>6, <2>7 DEF Validating
<1>4. ASSUME NEW w \in Workers, Submitting(w) PROVE ApprovalFollowsExecution'
  <2>1. CASE RecheckExisting(w) BY <2>1 DEF RecheckExisting, GuardAllows, Renew
  <2>2. CASE ArmWriteGuard(w) BY <2>2 DEF ArmWriteGuard, GuardAllows, Renew
  <2>3. CASE PostAddTorrent(w) BY <2>3 DEF PostAddTorrent
  <2>4. CASE AddAnswered(w) BY <2>4 DEF AddAnswered
  <2>5. CASE ObserveTorrent(w) BY <2>5 DEF ObserveTorrent, GuardAllows, Renew
  <2>6. CASE ConfirmAllowed(w) BY <2>6 DEF ConfirmAllowed, GuardAllows, Renew
  <2>7. CASE FinalizeSubmission(w)
    <3>1. outcome[w] \in SuccessStates
      BY <2>7 DEF FinalizeSubmission, BeliefInv, BeliefOf, WorkerTypeOK
    <3> QED BY <2>7, <3>1 DEF FinalizeSubmission, Settle, ApprovalFollowsExecution
  <2>8. CASE FinalizeRefused(w) BY <2>8 DEF FinalizeRefused
  <2>9. CASE MarkReservedFailure(w)
    BY <2>9 DEF MarkReservedFailure, FreshMatchingLease, Settle,
                ApprovalFollowsExecution
  <2> QED BY <1>4, <2>1, <2>2, <2>3, <2>4, <2>5, <2>6, <2>7, <2>8, <2>9
          DEF Submitting
<1>5. ASSUME NEW w \in Workers, Guarding(w) PROVE ApprovalFollowsExecution'
  <2>1. CASE GuardLosesLease(w) BY <2>1 DEF GuardLosesLease
  <2>2. CASE GuardCancelsByFence(w)
    BY <2>2 DEF GuardCancelsByFence, FreshMatchingLease, Expected, Settle,
                SetApproval, ApprovalFollowsExecution
  <2>3. CASE GuardFencedAfterWrite(w) BY <2>3 DEF GuardFencedAfterWrite
  <2>4. CASE GuardFindsApprovalInvalid(w)
    BY <2>4 DEF GuardFindsApprovalInvalid, FreshMatchingLease, Settle,
                SetApproval, MarkIfExpired, ApprovalFollowsExecution
  <2> QED BY <1>5, <2>1, <2>2, <2>3, <2>4 DEF Guarding
<1>6. ASSUME NEW w \in Workers, Worker(w) PROVE ApprovalFollowsExecution'
  <2>1. CASE RecoverStaleExecutions(w)
    BY <2>1 DEF RecoverStaleExecutions, Stale, RecoveredStatus,
                ApprovalFollowsExecution
  <2>2. ASSUME NEW e \in Executions, ClaimNextExecution(w, e)
        PROVE  ApprovalFollowsExecution'
    BY <2>2 DEF ClaimNextExecution, Eligible, ApprovalFollowsExecution
  <2>3. CASE RenewLease(w) BY <2>3 DEF RenewLease, Renew
  <2>4. CASE Crash(w) BY <2>4 DEF Crash
  <2>5. CASE StepFails(w) BY <2>5 DEF StepFails
  <2> QED BY <1>3, <1>4, <1>5, <1>6, <2>1, <2>2, <2>3, <2>4, <2>5
          DEF Worker, Claiming, Work
<1>7. CASE Qbittorrent
  BY <1>7 DEF Qbittorrent, QbReceivesAdd, AddIsLost, QbUserRemoves
<1>8. CASE UNCHANGED vars BY <1>8
<1> QED BY <1>1, <1>2, <1>6, <1>7, <1>8 DEF Next

----------------------------------------------------------------------------
\* A worker in a reserved step of an execution is the one that owns its lease,
\* if anyone does (_owns_lease compares the token of the latest claim).
LEMMA SoleSubmitter ==
  ASSUME ExecutionTypeOK, LeaseInv, ClaimInv, TokenInv, BeliefInv,
         NEW w \in Workers, pc[w] # "idle", OwnsLease(w),
         NEW w2 \in Workers, pc[w2] \in ReservedSteps, claim[w2] = claim[w]
  PROVE  w2 = w
<1>1. claimToken[w] = attempts[claim[w]]
  BY DEF OwnsLease, LeaseInv, ClaimInv, ExecutionTypeOK
<1>2. claimToken[w2] = attempts[claim[w2]]
  BY DEF BeliefInv, BeliefOf
<1> QED BY <1>1, <1>2 DEF TokenInv

\* What a step may do to the rows and to the workers without disturbing what
\* the other workers believe.
RowKept(e) ==
  /\ attempts'[e] = attempts[e]
  /\ status'[e] = status[e] \/ (status[e] \in Pending /\ status'[e] \in Pending)

WorkerKept(w) ==
  /\ pc'[w] = pc[w] /\ claim'[w] = claim[w] /\ claimToken'[w] = claimToken[w]
  /\ outcome'[w] = outcome[w] /\ addMayHaveOccurred'[w] = addMayHaveOccurred[w]

\* A worker that does not move keeps its belief if its row is kept and answers
\* of qBittorrent are not taken back.
LEMMA KeptBelief ==
  ASSUME ClaimInv, NEW w \in Workers, BeliefOf(w), WorkerKept(w),
         accepted \subseteq accepted',
         pc[w] \in ReservedSteps => RowKept(claim[w])
  PROVE  BeliefOf(w)'
BY DEF ClaimInv, BeliefOf, WorkerKept, RowKept

\* A worker between two claims believes nothing.
LEMMA DroppedBelief ==
  ASSUME WorkerTypeOK, NEW w \in Workers, Drop(w) PROVE BeliefOf(w)'
BY DEF WorkerTypeOK, Drop, BeliefOf

\* A step of one worker leaves the local variables of the others alone.
LEMMA GotoKeeps ==
  ASSUME WorkerTypeOK, NEW w \in Workers, NEW step, Goto(w, step),
         NEW w2 \in Workers, w2 # w
  PROVE  WorkerKept(w2)
BY DEF WorkerTypeOK, Goto, WorkerKept

\* The end of one claim leaves the local variables of the others alone.
LEMMA DropKeeps ==
  ASSUME WorkerTypeOK, NEW w \in Workers, Drop(w), NEW w2 \in Workers, w2 # w
  PROVE  WorkerKept(w2)
BY DEF WorkerTypeOK, Drop, WorkerKept

\* What is unchanged is kept.
LEMMA FrameKeeps ==
  /\ UNCHANGED workerVars => \A w \in Workers : WorkerKept(w)
  /\ UNCHANGED <<status, attempts>> => \A e \in Executions : RowKept(e)
BY DEF WorkerKept, RowKept

\* The owner of a lease settles its row under nobody else in a reserved step.
LEMMA SettleKeeps ==
  ASSUME ExecutionTypeOK, LeaseInv, ClaimInv, TokenInv, BeliefInv,
         NEW w \in Workers, pc[w] # "idle", OwnsLease(w),
         NEW next, Settle(claim[w], next),
         NEW w2 \in Workers, pc[w2] \in ReservedSteps, w2 # w
  PROVE  RowKept(claim[w2])
BY SoleSubmitter DEF ClaimInv, ExecutionTypeOK, Settle, RowKept

\* What each step leaves to the workers that do not take it.
Undisturbed(w) ==
  \A w2 \in Workers : w2 # w =>
    WorkerKept(w2) /\ (pc[w2] \in ReservedSteps => RowKept(claim[w2]))

\* No step of _process_claim disturbs another worker: the lease checks of the
\* transactions are enough.
LEMMA WorkUndisturbed ==
  ASSUME TypeOK, LeaseInv, ClaimInv, TokenInv, BeliefInv,
         NEW w \in Workers, Work(w)
  PROVE  Undisturbed(w)
<1> USE GotoKeeps, DropKeeps, FrameKeeps, SettleKeeps, HoldsClaim
    DEF TypeOK, Undisturbed
<1>1. CASE Validating(w)
  <2>1. CASE ResolveTorrent(w) BY <2>1 DEF ResolveTorrent, GuardAllows, Renew
  <2>2. CASE LookupExisting(w)
    BY <2>2 DEF LookupExisting, GuardAllows, Renew, WorkerTypeOK, WorkerKept
  <2>3. CASE PrepareCategory(w) BY <2>3 DEF PrepareCategory, GuardAllows, Renew
  <2>4. CASE ReserveSubmission(w)
    <3>1. \A w2 \in Workers : w2 # w => WorkerKept(w2)
      BY <2>4 DEF ReserveSubmission
    <3>2. \A w2 \in Workers : pc[w2] \in ReservedSteps => RowKept(claim[w2])
      BY <2>4 DEF ReserveSubmission, FreshMatchingLease, BeliefInv, BeliefOf,
                  ExecutionTypeOK, RowKept
    <3> QED BY <3>1, <3>2
  <2>5. CASE ReserveFindsApprovalInvalid(w)
    BY <2>5 DEF ReserveFindsApprovalInvalid, FreshMatchingLease
  <2>6. CASE ReserveLosesLease(w) BY <2>6 DEF ReserveLosesLease
  <2>7. CASE MarkValidationFailure(w) BY <2>7 DEF MarkValidationFailure
  <2> QED BY <1>1, <2>1, <2>2, <2>3, <2>4, <2>5, <2>6, <2>7 DEF Validating
<1>2. CASE Submitting(w)
  <2>1. CASE RecheckExisting(w)
    BY <2>1 DEF RecheckExisting, GuardAllows, Renew, WorkerTypeOK, WorkerKept
  <2>2. CASE ArmWriteGuard(w)
    BY <2>2 DEF ArmWriteGuard, GuardAllows, Renew, WorkerTypeOK, WorkerKept
  <2>3. CASE PostAddTorrent(w) BY <2>3 DEF PostAddTorrent
  <2>4. CASE AddAnswered(w) BY <2>4 DEF AddAnswered, WorkerTypeOK, WorkerKept
  <2>5. CASE ObserveTorrent(w) BY <2>5 DEF ObserveTorrent, GuardAllows, Renew
  <2>6. CASE ConfirmAllowed(w) BY <2>6 DEF ConfirmAllowed, GuardAllows, Renew
  <2>7. CASE FinalizeSubmission(w)
    BY <2>7 DEF FinalizeSubmission, FreshMatchingLease
  <2>8. CASE FinalizeRefused(w) BY <2>8 DEF FinalizeRefused
  <2>9. CASE MarkReservedFailure(w)
    BY <2>9 DEF MarkReservedFailure, FreshMatchingLease
  <2> QED BY <1>2, <2>1, <2>2, <2>3, <2>4, <2>5, <2>6, <2>7, <2>8, <2>9
          DEF Submitting
<1>3. CASE Guarding(w)
  <2>1. CASE GuardLosesLease(w) BY <2>1 DEF GuardLosesLease
  <2>2. CASE GuardCancelsByFence(w)
    BY <2>2 DEF GuardCancelsByFence, FreshMatchingLease
  <2>3. CASE GuardFencedAfterWrite(w) BY <2>3 DEF GuardFencedAfterWrite
  <2>4. CASE GuardFindsApprovalInvalid(w)
    BY <2>4 DEF GuardFindsApprovalInvalid, FreshMatchingLease
  <2> QED BY <1>3, <2>1, <2>2, <2>3, <2>4 DEF Guarding
<1>4. CASE StepFails(w) BY <1>4 DEF StepFails
<1> QED BY <1>1, <1>2, <1>3, <1>4 DEF Work

\* Every step of _process_claim keeps the belief of the worker that takes it.
LEMMA OwnBelief ==
  ASSUME TypeOK, LeaseInv, ClaimInv, BeliefInv, NEW w \in Workers, Work(w)
  PROVE  BeliefOf(w)'
<1> USE HoldsClaim, DroppedBelief DEF TypeOK
<1>1. BeliefOf(w) BY DEF BeliefInv
<1>2. CASE Validating(w)
  <2> USE <1>1 DEF WorkerTypeOK, BeliefOf
  <2>1. CASE ResolveTorrent(w)
    BY <2>1 DEF ResolveTorrent, GuardAllows, Renew, Goto
  <2>2. CASE LookupExisting(w) BY <2>2 DEF LookupExisting, GuardAllows, Renew
  <2>3. CASE PrepareCategory(w)
    BY <2>3 DEF PrepareCategory, GuardAllows, Renew, Goto
  <2>4. CASE ReserveSubmission(w)
    <3>1. claim'[w] = claim[w] /\ status'[claim[w]] = "SUBMITTING"
      BY <2>4 DEF ReserveSubmission, Goto, ExecutionTypeOK
    <3>2. claimToken'[w] = attempts'[claim[w]]
      BY <2>4 DEF ReserveSubmission, Goto, FreshMatchingLease, OwnsLease,
                  LeaseInv, ExecutionTypeOK
    <3> QED BY <2>4, <3>1, <3>2 DEF ReserveSubmission, Goto
  <2>5. CASE ReserveFindsApprovalInvalid(w)
    BY <2>5 DEF ReserveFindsApprovalInvalid
  <2>6. CASE ReserveLosesLease(w) BY <2>6 DEF ReserveLosesLease
  <2>7. CASE MarkValidationFailure(w) BY <2>7 DEF MarkValidationFailure
  <2> QED BY <1>2, <2>1, <2>2, <2>3, <2>4, <2>5, <2>6, <2>7 DEF Validating
<1>3. CASE Submitting(w)
  <2> USE <1>1 DEF WorkerTypeOK, BeliefOf
  <2>1. CASE RecheckExisting(w)
    BY <2>1 DEF RecheckExisting, GuardAllows, Renew
  <2>2. CASE ArmWriteGuard(w) BY <2>2 DEF ArmWriteGuard, GuardAllows, Renew
  <2>3. CASE PostAddTorrent(w) BY <2>3 DEF PostAddTorrent, Goto
  <2>4. CASE AddAnswered(w) BY <2>4 DEF AddAnswered
  <2>5. CASE ObserveTorrent(w)
    BY <2>5 DEF ObserveTorrent, GuardAllows, Renew, Goto
  <2>6. CASE ConfirmAllowed(w)
    BY <2>6 DEF ConfirmAllowed, GuardAllows, Renew, Goto
  <2>7. CASE FinalizeSubmission(w)
    <3>1. outcome[w] \in SuccessStates BY <2>7 DEF FinalizeSubmission
    <3>2. CASE Goto(w, "failReserved")
      BY <2>7, <3>1, <3>2 DEF FinalizeSubmission, Settle, Goto, ExecutionTypeOK
    <3>3. CASE Drop(w) BY <3>3, DroppedBelief
    <3> QED BY <2>7, <3>2, <3>3 DEF FinalizeSubmission
  <2>8. CASE FinalizeRefused(w) BY <2>8 DEF FinalizeRefused, Goto
  <2>9. CASE MarkReservedFailure(w) BY <2>9 DEF MarkReservedFailure
  <2> QED BY <1>3, <2>1, <2>2, <2>3, <2>4, <2>5, <2>6, <2>7, <2>8, <2>9
          DEF Submitting
<1>4. CASE Guarding(w)
  <2>1. CASE GuardFencedAfterWrite(w)
    BY <1>1, <2>1 DEF GuardFencedAfterWrite, Goto, WorkerTypeOK, BeliefOf
  <2> QED BY <1>4, <2>1 DEF Guarding, GuardLosesLease, GuardCancelsByFence,
                            GuardFindsApprovalInvalid
<1>5. CASE StepFails(w)
  BY <1>1, <1>5 DEF StepFails, Goto, WorkerTypeOK, BeliefOf
<1> QED BY <1>2, <1>3, <1>4, <1>5 DEF Work

\* An answer "Ok." is never taken back.
LEMMA AcceptedKept ==
  ASSUME TypeOK, [Next]_vars PROVE accepted \subseteq accepted'
<1>1. ASSUME NEW w \in Workers, Validating(w) PROVE accepted' = accepted
  BY <1>1 DEF Validating, ResolveTorrent, LookupExisting, PrepareCategory,
              ReserveSubmission, ReserveFindsApprovalInvalid,
              ReserveLosesLease, MarkValidationFailure
<1>2. ASSUME NEW w \in Workers, Submitting(w) PROVE accepted' = accepted
  BY <1>2 DEF Submitting, RecheckExisting, ArmWriteGuard, PostAddTorrent,
              AddAnswered, ObserveTorrent, ConfirmAllowed, FinalizeSubmission,
              FinalizeRefused, MarkReservedFailure
<1>3. ASSUME NEW w \in Workers, Guarding(w) PROVE accepted' = accepted
  BY <1>3 DEF Guarding, GuardLosesLease, GuardCancelsByFence,
              GuardFencedAfterWrite, GuardFindsApprovalInvalid
<1>4. ASSUME NEW w \in Workers, Worker(w) PROVE accepted' = accepted
  BY <1>1, <1>2, <1>3, <1>4 DEF Worker, Work, StepFails, Claiming,
     RecoverStaleExecutions, ClaimNextExecution, RenewLease, Crash
<1>5. CASE ControlPlane \/ Time
  BY <1>5 DEF ControlPlane, ExecuteApprovedPlan, RevokeRequest,
              RequestReconciliation, PublishPolicy, Time, ApprovalExpires,
              RetryDelayEnds, LeaseAges
<1>6. CASE Qbittorrent
  BY <1>6 DEF Qbittorrent, QbReceivesAdd, AddIsLost, QbUserRemoves
<1> QED BY <1>4, <1>5, <1>6 DEF Next

\* BeliefInv survives every step; recovery by another worker included.
LEMMA BeliefStep ==
  ASSUME TypeOK, LeaseInv, ClaimInv, TokenInv, BeliefInv, [Next]_vars
  PROVE  BeliefInv'
<1> USE AcceptedKept, KeptBelief DEF TypeOK
<1>1. ASSUME NEW w \in Workers, Work(w) PROVE BeliefInv'
  BY <1>1, OwnBelief, WorkUndisturbed DEF BeliefInv, Undisturbed
<1>2. ASSUME NEW w \in Workers, NEW e \in Executions, ClaimNextExecution(w, e)
      PROVE  BeliefInv'
  <2>1. BeliefOf(w)'
    BY <1>2 DEF ClaimNextExecution, BeliefInv, BeliefOf, WorkerTypeOK
  <2>2. \A w2 \in Workers : w2 # w => WorkerKept(w2)
    BY <1>2 DEF ClaimNextExecution, WorkerKept, WorkerTypeOK
  <2>3. \A w2 \in Workers : pc[w2] \in ReservedSteps => RowKept(claim[w2])
    BY <1>2 DEF ClaimNextExecution, Eligible, BeliefInv, BeliefOf,
                ExecutionTypeOK, RowKept
  <2> QED BY <2>1, <2>2, <2>3 DEF BeliefInv
<1>3. ASSUME UNCHANGED <<workerVars, attempts>>,
             \A e \in Executions : status[e] \in Pending \cup SuccessStates => RowKept(e)
      PROVE  BeliefInv'
  <2>1. \A w \in Workers : WorkerKept(w) BY <1>3 DEF WorkerKept
  <2>2. \A w \in Workers : pc[w] \in ReservedSteps => RowKept(claim[w])
    BY <1>3, HoldsClaim DEF BeliefInv, BeliefOf
  <2> QED BY <2>1, <2>2 DEF BeliefInv
<1>4. ASSUME NEW w \in Workers, RecoverStaleExecutions(w) PROVE BeliefInv'
  BY <1>3, <1>4 DEF RecoverStaleExecutions, Stale, RecoveredStatus, RowKept,
                    ExecutionTypeOK
<1>5. ASSUME NEW w \in Workers, Crash(w) PROVE BeliefInv'
  BY <1>5, DroppedBelief, DropKeeps, FrameKeeps, HoldsClaim DEF Crash, BeliefInv
<1>6. ASSUME NEW w \in Workers, RenewLease(w) PROVE BeliefInv'
  BY <1>3, <1>6 DEF RenewLease, Renew, RowKept
<1>7. CASE ControlPlane
  <2>1. ASSUME NEW e \in Executions, NEW by, ExecuteApprovedPlan(e, by)
        PROVE  BeliefInv'
    BY <1>3, <2>1 DEF ExecuteApprovedPlan, RowKept, ExecutionTypeOK
  <2>2. ASSUME NEW e \in Executions, RequestReconciliation(e)
        PROVE  BeliefInv'
    BY <1>3, <2>2 DEF RequestReconciliation, RowKept, ExecutionTypeOK
  <2> QED BY <1>3, <1>7, <2>1, <2>2 DEF ControlPlane, RevokeRequest,
                                        PublishPolicy, RowKept
<1>8. CASE Time
  BY <1>3, <1>8 DEF Time, ApprovalExpires, RetryDelayEnds, LeaseAges, RowKept
<1>9. CASE Qbittorrent
  BY <1>3, <1>9 DEF Qbittorrent, QbReceivesAdd, AddIsLost, QbUserRemoves, RowKept
<1>10. CASE UNCHANGED vars BY <1>3, <1>10 DEF RowKept
<1> QED BY <1>1, <1>2, <1>4, <1>5, <1>6, <1>7, <1>8, <1>9, <1>10
        DEF Next, Worker, Claiming

----------------------------------------------------------------------------
\* Two workers in reserved steps of one execution are one.
LEMMA OneReserved ==
  ASSUME ClaimInv, TokenInv, BeliefInv
  PROVE  OneSubmitter
BY DEF TokenInv, BeliefInv, BeliefOf, OneSubmitter

\* A worker in a reserved step that armed no write, or has armed one and not
\* sent it (torrent_add_write_guard), knows that no request has left.
LEMMA UnarmedUnsent ==
  ASSUME TypeOK, ClaimInv, WriteInv, NEW w \in Workers, pc[w] \in ReservedSteps,
         ~addMayHaveOccurred[w] \/ pc[w] = "post"
  PROVE  addRequests[claim[w]] = 0
<1>1. claim[w] \in Executions BY HoldsClaim
<1>2. ~(addRequests[claim[w]] > 0) BY <1>1 DEF WriteInv, WriteOf
<1> QED BY <1>1, <1>2 DEF TypeOK, QbTypeOK

\* No request has left for an execution that is not reserved or after.
LEMMA UnreservedUnsent ==
  ASSUME TypeOK, WriteInv, NEW e \in Executions,
         status[e] \notin Pending \cup {"SUBMITTED"}
  PROVE  addRequests[e] = 0
BY DEF TypeOK, QbTypeOK, WriteInv, WriteOf

\* What a step that sends and receives nothing owes to an execution.
Faithful(e) ==
  /\ addRequests[e] > 0 =>
       /\ status'[e] \in Pending \cup {"SUBMITTED"}
       /\ \A w \in Workers : pc'[w] \in ReservedSteps /\ claim'[w] = e =>
            addMayHaveOccurred'[w] /\ pc'[w] # "post"
  /\ status'[e] = "SUBMITTED" => e \in accepted
  /\ status'[e] = "ALREADY_PRESENT" => addRequests[e] = 0

\* A step that touches neither qBittorrent nor the network and is faithful to
\* every execution keeps WriteInv and OutcomeIsTrue.
LEMMA FaithfulStep ==
  ASSUME WriteInv, OutcomeIsTrue, UNCHANGED qbVars,
         \A e \in Executions : Faithful(e)
  PROVE  WriteInv' /\ OutcomeIsTrue'
BY DEF WriteInv, WriteOf, OutcomeIsTrue, Faithful

\* A step that moves no worker is faithful to an execution whose status stays,
\* moves among the pending ones, or had sent nothing and does not succeed.
LEMMA FrameFaithful ==
  ASSUME WriteInv, OutcomeIsTrue, UNCHANGED <<pc, claim, addMayHaveOccurred>>,
         NEW e \in Executions,
         \/ status'[e] = status[e]
         \/ addRequests[e] = 0 /\ status'[e] \notin SuccessStates
         \/ status[e] \in Pending /\ status'[e] \in Pending
  PROVE  Faithful(e)
BY DEF WriteInv, WriteOf, OutcomeIsTrue, Faithful

\* The same for a step of worker w, which must not arm after a request has left.
LEMMA WorkerFaithful ==
  ASSUME TypeOK, WriteInv, OutcomeIsTrue, NEW w \in Workers,
         \A w2 \in Workers : w2 # w => WorkerKept(w2),
         NEW e \in Executions,
         \/ status'[e] = status[e]
         \/ addRequests[e] = 0 /\ status'[e] \notin SuccessStates
         \/ status[e] \in Pending /\ status'[e] \in Pending,
         \/ pc'[w] \notin ReservedSteps
         \/ claim'[w] # e
         \/ addRequests[e] = 0
         \/ /\ pc[w] \in ReservedSteps /\ claim'[w] = claim[w] /\ pc'[w] # "post"
            /\ addMayHaveOccurred[w] => addMayHaveOccurred'[w]
  PROVE  Faithful(e)
BY DEF TypeOK, QbTypeOK, WriteInv, WriteOf, OutcomeIsTrue, Faithful, WorkerKept

\* Ending a claim is faithful, whatever row it settles on the way.
LEMMA DropFaithful ==
  ASSUME TypeOK, ClaimInv, WriteInv, OutcomeIsTrue, NEW w \in Workers,
         pc[w] # "idle", Drop(w),
         \/ UNCHANGED executionVars
         \/ \E next \in ExecutionStatuses :
              /\ Settle(claim[w], next)
              /\ \/ addRequests[claim[w]] = 0 /\ next \notin SuccessStates
                 \/ status[claim[w]] \in Pending /\ next \in Pending,
         NEW e \in Executions
  PROVE  Faithful(e)
<1>1. \A w2 \in Workers : w2 # w => WorkerKept(w2) BY DropKeeps DEF TypeOK
<1>2. pc'[w] = "idle" BY DEF Drop, TypeOK, WorkerTypeOK
<1>3. \/ status'[e] = status[e]
      \/ addRequests[e] = 0 /\ status'[e] \notin SuccessStates
      \/ status[e] \in Pending /\ status'[e] \in Pending
  BY HoldsClaim DEF Settle, TypeOK, ExecutionTypeOK
<1> QED BY <1>1, <1>2, <1>3, WorkerFaithful

\* Going on without a change of the row is faithful.
LEMMA GotoFaithful ==
  ASSUME TypeOK, ClaimInv, WriteInv, OutcomeIsTrue, NEW w \in Workers,
         pc[w] # "idle", UNCHANGED status, NEW step, Goto(w, step),
         \/ step \notin ReservedSteps
         \/ addRequests[claim[w]] = 0
         \/ pc[w] \in ReservedSteps /\ step # "post",
         NEW e \in Executions
  PROVE  Faithful(e)
<1>1. \A w2 \in Workers : w2 # w => WorkerKept(w2) BY GotoKeeps DEF TypeOK
<1>2. pc'[w] = step /\ claim'[w] = claim[w]
      /\ addMayHaveOccurred'[w] = addMayHaveOccurred[w]
  BY DEF Goto, TypeOK, WorkerTypeOK
<1> QED BY <1>1, <1>2, WorkerFaithful

\* The steps before the reservation and the guards are faithful; the fence
\* cancels a reserved submission only before its write.
LEMMA ValidatingFaithful ==
  ASSUME TypeOK, ClaimInv, BeliefInv, WriteInv, OutcomeIsTrue,
         NEW w \in Workers, Validating(w) \/ Guarding(w), NEW e \in Executions
  PROVE  Faithful(e)
<1> USE HoldsClaim, DropFaithful, GotoFaithful, UnreservedUnsent
<1>1. CASE ResolveTorrent(w) BY <1>1 DEF ResolveTorrent, GuardAllows, Renew
<1>2. CASE LookupExisting(w)
  <2>1. \A w2 \in Workers : w2 # w => WorkerKept(w2)
    BY <1>2 DEF LookupExisting, TypeOK, WorkerTypeOK, WorkerKept
  <2>2. pc'[w] \notin ReservedSteps
    BY <1>2 DEF LookupExisting, TypeOK, WorkerTypeOK
  <2> QED BY <1>2, <2>1, <2>2, WorkerFaithful DEF LookupExisting, GuardAllows, Renew
<1>3. CASE PrepareCategory(w) BY <1>3 DEF PrepareCategory, GuardAllows, Renew
<1>4. CASE ReserveSubmission(w)
  <2>1. claim[w] \in Executions /\ addRequests[claim[w]] = 0
    BY <1>4 DEF ReserveSubmission, FreshMatchingLease
  <2>2. \A w2 \in Workers : w2 # w => WorkerKept(w2)
    BY <1>4, GotoKeeps DEF ReserveSubmission, TypeOK
  <2>3. claim'[w] = claim[w] BY <1>4 DEF ReserveSubmission, Goto
  <2>4. status'[e] = status[e] \/ (e = claim[w] /\ status'[e] = "SUBMITTING")
    BY <1>4 DEF ReserveSubmission, TypeOK, ExecutionTypeOK
  <2> QED BY <2>1, <2>2, <2>3, <2>4, WorkerFaithful
<1>5. CASE ReserveFindsApprovalInvalid(w)
  BY <1>5 DEF ReserveFindsApprovalInvalid, FreshMatchingLease
<1>6. CASE ReserveLosesLease(w) BY <1>6 DEF ReserveLosesLease
<1>7. CASE MarkValidationFailure(w) BY <1>7 DEF MarkValidationFailure
<1>8. CASE GuardLosesLease(w) BY <1>8 DEF GuardLosesLease
<1>9. CASE GuardCancelsByFence(w)
  <2>1. addRequests[claim[w]] = 0
    BY <1>9, UnarmedUnsent DEF GuardCancelsByFence, FreshMatchingLease, Expected
  <2> QED BY <1>9, <2>1 DEF GuardCancelsByFence
<1>10. CASE GuardFencedAfterWrite(w)
  BY <1>10 DEF GuardFencedAfterWrite
<1>11. CASE GuardFindsApprovalInvalid(w)
  BY <1>11 DEF GuardFindsApprovalInvalid, FreshMatchingLease
<1> QED BY <1>1, <1>2, <1>3, <1>4, <1>5, <1>6, <1>7, <1>8, <1>9, <1>10, <1>11
        DEF Validating, Guarding

\* The steps after the reservation, but for the request itself, are faithful.
LEMMA SubmittingFaithful ==
  ASSUME TypeOK, ClaimInv, BeliefInv, WriteInv, OutcomeIsTrue,
         NEW w \in Workers, Submitting(w), ~PostAddTorrent(w),
         NEW e \in Executions
  PROVE  Faithful(e)
<1> USE HoldsClaim, DropFaithful, GotoFaithful
<1>1. CASE RecheckExisting(w)
  <2>1. \A w2 \in Workers : w2 # w => WorkerKept(w2)
    BY <1>1 DEF RecheckExisting, TypeOK, WorkerTypeOK, WorkerKept
  <2>2. pc'[w] # "post" /\ claim'[w] = claim[w]
        /\ addMayHaveOccurred'[w] = addMayHaveOccurred[w]
    BY <1>1 DEF RecheckExisting, TypeOK, WorkerTypeOK
  <2> QED BY <1>1, <2>1, <2>2, WorkerFaithful
          DEF RecheckExisting, GuardAllows, Renew
<1>2. CASE ArmWriteGuard(w)
  <2>1. \A w2 \in Workers : w2 # w => WorkerKept(w2)
    BY <1>2 DEF ArmWriteGuard, TypeOK, WorkerTypeOK, WorkerKept
  <2>2. addRequests[claim[w]] = 0
    BY <1>2, UnarmedUnsent DEF ArmWriteGuard, BeliefInv, BeliefOf
  <2> QED BY <1>2, <2>1, <2>2, WorkerFaithful
          DEF ArmWriteGuard, GuardAllows, Renew
<1>3. CASE AddAnswered(w)
  <2>1. \A w2 \in Workers : w2 # w => WorkerKept(w2)
    BY <1>3 DEF AddAnswered, TypeOK, WorkerTypeOK, WorkerKept
  <2>2. pc'[w] # "post" BY <1>3 DEF AddAnswered, TypeOK, WorkerTypeOK
  <2> QED BY <1>3, <2>1, <2>2, WorkerFaithful DEF AddAnswered
<1>4. CASE ObserveTorrent(w) BY <1>4 DEF ObserveTorrent, GuardAllows, Renew
<1>5. CASE ConfirmAllowed(w) BY <1>5 DEF ConfirmAllowed, GuardAllows, Renew
<1>6. CASE FinalizeSubmission(w)
  <2> DEFINE c == claim[w]
  <2>1. c \in Executions /\ pc[w] \in ReservedSteps
    BY <1>6 DEF FinalizeSubmission
  <2>2. /\ outcome[w] \in SuccessStates
        /\ outcome[w] = "SUBMITTED" => c \in accepted
        /\ outcome[w] = "ALREADY_PRESENT" => addRequests[c] = 0
    BY <1>6, <2>1, UnarmedUnsent
       DEF FinalizeSubmission, BeliefInv, BeliefOf, TypeOK, WorkerTypeOK
  <2>3. \A w2 \in Workers : w2 # w => WorkerKept(w2)
    BY <1>6, GotoKeeps, DropKeeps DEF FinalizeSubmission, TypeOK
  <2>4. \/ pc'[w] = "idle"
        \/ /\ pc'[w] = "failReserved" /\ claim'[w] = c
           /\ addMayHaveOccurred'[w] = addMayHaveOccurred[w]
    BY <1>6 DEF FinalizeSubmission, Drop, Goto, TypeOK, WorkerTypeOK
  <2>5. CASE e # c
    <3>1. status'[e] = status[e]
      BY <1>6, <2>5 DEF FinalizeSubmission, Settle, TypeOK, ExecutionTypeOK
    <3> QED BY <2>1, <2>3, <2>4, <3>1, WorkerFaithful
  <2>6. CASE e = c
    <3>1. status'[e] = outcome[w]
      BY <1>6, <2>1, <2>6 DEF FinalizeSubmission, Settle, TypeOK, ExecutionTypeOK
    <3> QED BY <2>1, <2>2, <2>3, <2>4, <2>6, <3>1
            DEF Faithful, WorkerKept, WriteInv, WriteOf
  <2> QED BY <2>5, <2>6
<1>7. CASE FinalizeRefused(w) BY <1>7 DEF FinalizeRefused
<1>8. CASE MarkReservedFailure(w)
  BY <1>8 DEF MarkReservedFailure, FreshMatchingLease
<1> QED BY <1>1, <1>2, <1>3, <1>4, <1>5, <1>6, <1>7, <1>8 DEF Submitting

\* client.send keeps WriteInv: it is the first request of its execution, and
\* its worker is the only one in a reserved step.
LEMMA PostStep ==
  ASSUME TypeOK, ClaimInv, TokenInv, BeliefInv, WriteInv, OutcomeIsTrue,
         NEW w \in Workers, PostAddTorrent(w)
  PROVE  WriteInv' /\ OutcomeIsTrue'
<1> DEFINE c == claim[w]
<1>1. c \in Executions /\ pc[w] = "post"
  BY HoldsClaim DEF PostAddTorrent
<1>2. addRequests[c] = 0 /\ addRequests' = [addRequests EXCEPT ![c] = 1]
  <2>1. addRequests[c] = 0 BY <1>1, UnarmedUnsent
  <2> QED BY <2>1 DEF PostAddTorrent, TypeOK, QbTypeOK
<1>3. status[c] \in Pending /\ addMayHaveOccurred[w] BY <1>1 DEF BeliefInv, BeliefOf
<1>4. \A w2 \in Workers : pc[w2] \in ReservedSteps /\ claim[w2] = c => w2 = w
  BY <1>1, OneReserved DEF OneSubmitter
<1>5. /\ claim' = claim /\ addMayHaveOccurred' = addMayHaveOccurred
      /\ pc' = [pc EXCEPT ![w] = "await"]
      /\ status' = status /\ accepted' = accepted /\ inFlight' = inFlight \cup {c}
  BY DEF PostAddTorrent, Goto
<1>6. ASSUME NEW e \in Executions PROVE WriteOf(e)'
  <2>1. CASE e = c
    BY <1>1, <1>2, <1>3, <1>4, <1>5, <2>1
       DEF WriteOf, TypeOK, WorkerTypeOK, QbTypeOK
  <2>2. CASE e # c
    BY <1>1, <1>2, <1>5, <2>2 DEF WriteInv, WriteOf, TypeOK, WorkerTypeOK, QbTypeOK
  <2> QED BY <2>1, <2>2
<1>7. OutcomeIsTrue'
  BY <1>1, <1>2, <1>3, <1>5 DEF OutcomeIsTrue, TypeOK, QbTypeOK
<1> QED BY <1>6, <1>7 DEF WriteInv

\* WriteInv and OutcomeIsTrue survive every step.
LEMMA WriteStep ==
  ASSUME TypeOK, ClaimInv, TokenInv, BeliefInv, WriteInv, OutcomeIsTrue,
         [Next]_vars
  PROVE  WriteInv' /\ OutcomeIsTrue'
<1> USE FaithfulStep, FrameFaithful, UnreservedUnsent
<1>1. ASSUME NEW w \in Workers, Work(w) PROVE WriteInv' /\ OutcomeIsTrue'
  <2>1. CASE Validating(w) \/ Guarding(w)
    <3>1. UNCHANGED qbVars
      BY <2>1 DEF Validating, ResolveTorrent, LookupExisting, PrepareCategory,
         ReserveSubmission, ReserveFindsApprovalInvalid, ReserveLosesLease,
         MarkValidationFailure, Guarding, GuardLosesLease, GuardCancelsByFence,
         GuardFencedAfterWrite, GuardFindsApprovalInvalid
    <3> QED BY <2>1, <3>1, ValidatingFaithful
  <2>2. CASE Submitting(w) /\ ~PostAddTorrent(w)
    <3>1. UNCHANGED qbVars
      BY <2>2 DEF Submitting, RecheckExisting, ArmWriteGuard, AddAnswered,
         ObserveTorrent, ConfirmAllowed, FinalizeSubmission, FinalizeRefused,
         MarkReservedFailure
    <3> QED BY <2>2, <3>1, SubmittingFaithful
  <2>3. CASE StepFails(w)
    <3>1. UNCHANGED qbVars BY <2>3 DEF StepFails
    <3>2. \A e \in Executions : Faithful(e)
      BY <2>3, GotoFaithful DEF StepFails
    <3> QED BY <3>1, <3>2
  <2> QED BY <1>1, <2>1, <2>2, <2>3, PostStep DEF Work
<1>2. ASSUME NEW w \in Workers, NEW e \in Executions, ClaimNextExecution(w, e)
      PROVE  WriteInv' /\ OutcomeIsTrue'
  <2>1. \A w2 \in Workers : w2 # w => WorkerKept(w2)
    BY <1>2 DEF ClaimNextExecution, WorkerKept, TypeOK, WorkerTypeOK
  <2>2. pc'[w] \notin ReservedSteps
    BY <1>2 DEF ClaimNextExecution, TypeOK, WorkerTypeOK
  <2>3. \A x \in Executions :
          \/ status'[x] = status[x]
          \/ addRequests[x] = 0 /\ status'[x] \notin SuccessStates
    BY <1>2 DEF ClaimNextExecution, Eligible, TypeOK, ExecutionTypeOK
  <2>4. UNCHANGED qbVars BY <1>2 DEF ClaimNextExecution
  <2> QED BY <2>1, <2>2, <2>3, <2>4, WorkerFaithful
<1>3. ASSUME NEW w \in Workers, RecoverStaleExecutions(w)
      PROVE  WriteInv' /\ OutcomeIsTrue'
  <2>1. \A e \in Executions :
          \/ status'[e] = status[e]
          \/ addRequests[e] = 0 /\ status'[e] \notin SuccessStates
          \/ status[e] \in Pending /\ status'[e] \in Pending
    BY <1>3 DEF RecoverStaleExecutions, Stale, RecoveredStatus
  <2> QED BY <1>3, <2>1 DEF RecoverStaleExecutions
<1>4. ASSUME NEW w \in Workers, Crash(w) PROVE WriteInv' /\ OutcomeIsTrue'
  BY <1>4, DropFaithful DEF Crash
<1>5. ASSUME NEW w \in Workers, RenewLease(w) PROVE WriteInv' /\ OutcomeIsTrue'
  BY <1>5 DEF RenewLease, Renew
<1>6. CASE ControlPlane
  <2>1. ASSUME NEW e \in Executions, NEW by, ExecuteApprovedPlan(e, by)
        PROVE  WriteInv' /\ OutcomeIsTrue'
    BY <2>1 DEF ExecuteApprovedPlan, TypeOK, ExecutionTypeOK
  <2>2. ASSUME NEW e \in Executions, RequestReconciliation(e)
        PROVE  WriteInv' /\ OutcomeIsTrue'
    BY <2>2 DEF RequestReconciliation, TypeOK, ExecutionTypeOK
  <2> QED BY <1>6, <2>1, <2>2 DEF ControlPlane, RevokeRequest, PublishPolicy
<1>7. CASE Time
  BY <1>7 DEF Time, ApprovalExpires, RetryDelayEnds, LeaseAges
<1>8. CASE Qbittorrent
  BY <1>8 DEF Qbittorrent, QbReceivesAdd, AddIsLost, QbUserRemoves, WriteInv,
              WriteOf, OutcomeIsTrue
<1>9. CASE UNCHANGED vars BY <1>9
<1> QED BY <1>1, <1>2, <1>3, <1>4, <1>5, <1>6, <1>7, <1>8, <1>9
        DEF Next, Worker, Claiming

----------------------------------------------------------------------------
\* The inductive invariant holds of an empty execution table.
LEMMA InitIInv == Init => IInv
<1> SUFFICES ASSUME Init PROVE IInv OBVIOUS
<1>1. TypeOK
  BY DEF Init, TypeOK, ExecutionTypeOK, ApprovalTypeOK, PolicyTypeOK, QbTypeOK,
         WorkerTypeOK
<1>2. ActiveIffLeased /\ LeaseInv BY DEF Init, ActiveIffLeased, LeaseInv
<1>3. ClaimInv /\ TokenInv BY DEF Init, ClaimInv, TokenInv
<1>4. BeliefInv BY DEF Init, BeliefInv, BeliefOf
<1>5. WriteInv BY DEF Init, WriteInv, WriteOf
<1>6. ApprovalFollowsExecution /\ OutcomeIsTrue
  BY DEF Init, ApprovalFollowsExecution, OutcomeIsTrue
<1> QED BY <1>1, <1>2, <1>3, <1>4, <1>5, <1>6 DEF IInv

\* Every step keeps the inductive invariant.
LEMMA NextIInv == IInv /\ [Next]_vars => IInv'
<1> SUFFICES ASSUME IInv, [Next]_vars PROVE IInv' OBVIOUS
<1>1. TypeOK' BY TypeStep DEF IInv
<1>2. ActiveIffLeased' /\ LeaseInv' BY RowStep DEF IInv
<1>3. ClaimInv' /\ TokenInv' BY ClaimStep DEF IInv
<1>4. BeliefInv' BY BeliefStep DEF IInv
<1>5. WriteInv' /\ OutcomeIsTrue' BY WriteStep DEF IInv
<1>6. ApprovalFollowsExecution' BY ApprovalStep DEF IInv
<1> QED BY <1>1, <1>2, <1>3, <1>4, <1>5, <1>6 DEF IInv

\* In every behaviour of the executor, for any number of workers, executions,
\* torrents, attempts and policy revisions, the inductive invariant holds.
THEOREM Invariance == Spec => []IInv
BY InitIInv, NextIInv, PTL DEF Spec

\* Rows, requests and workers keep their types, and no execution is claimed
\* more than max_attempts times (_claim_next_execution).
THEOREM TypeCorrect == Spec => []TypeOK
<1>1. IInv => TypeOK BY DEF IInv
<1> QED BY <1>1, Invariance, PTL

\* No execution ever sends two torrents/add requests, however its claims
\* expire, crash and are taken over (_reserve_submission, _recover_stale_executions).
THEOREM SentAtMostOnce == Spec => []AddSentAtMostOnce
<1>1. IInv => AddSentAtMostOnce BY DEF IInv, WriteInv, WriteOf, AddSentAtMostOnce
<1> QED BY <1>1, Invariance, PTL

\* Once a request may have left, the execution stays reserved, submitted or
\* waiting for a human, and its approval with it (_cancel_by_automation_fence).
THEOREM SentIsAccountedFor == Spec => []SentAddIsAccountedFor
<1>1. IInv => SentAddIsAccountedFor
  BY DEF IInv, WriteInv, WriteOf, ApprovalFollowsExecution, SentAddIsAccountedFor
<1> QED BY <1>1, Invariance, PTL

\* SUBMITTED is reported only of an accepted request of this execution, and
\* ALREADY_PRESENT only without one (finalize_download_submission).
THEOREM ReportedOutcomeIsTrue == Spec => []OutcomeIsTrue
<1>1. IInv => OutcomeIsTrue BY DEF IInv
<1> QED BY <1>1, Invariance, PTL

\* The approval is EXECUTING or CONSUMED exactly when the execution row says so
\* (persist_info_hash_before_submission, finalize_download_submission).
THEOREM ApprovalFollows == Spec => []ApprovalFollowsExecution
<1>1. IInv => ApprovalFollowsExecution BY DEF IInv
<1> QED BY <1>1, Invariance, PTL

\* An execution is active exactly while it is leased, so stale recovery finds
\* every row a dead worker left (_recover_stale_executions).
THEOREM LeasedWhileActive == Spec => []ActiveIffLeased
<1>1. IInv => ActiveIffLeased BY DEF IInv
<1> QED BY <1>1, Invariance, PTL

\* At most one worker is past the reservation of an execution
\* (_reserve_submission).
THEOREM OneSubmitterOnly == Spec => []OneSubmitter
<1>1. IInv => OneSubmitter BY OneReserved DEF IInv
<1> QED BY <1>1, Invariance, PTL

----------------------------------------------------------------------------
\* How a step may change the status s of an execution with n requests sent.
StatusMove(s, t, n) ==
  \/ s = t
  \/ s = "NONE" /\ t = "PENDING"
  \/ s \in QueuedStates \cup {"VALIDATING"} /\ t \in QueuedStates \cup {"VALIDATING"}
  \/ s = "VALIDATING" /\ t = "SUBMITTING"
  \/ s = "SUBMITTING" /\ t \in SuccessStates
  \/ s \in Pending /\ t \in ReconcileStates
  \/ s \in ActiveStates /\ n = 0 /\ t \in AbandonedStates

\* A settled row moves as StatusMove says if its own status does.
LEMMA SettleMoves ==
  ASSUME TypeOK, NEW c \in Executions, NEW next, Settle(c, next),
         StatusMove(status[c], next, addRequests[c])
  PROVE  \A e \in Executions : StatusMove(status[e], status'[e], addRequests[e])
BY DEF TypeOK, ExecutionTypeOK, Settle, StatusMove

\* Every step changes the statuses only as StatusMove allows; an execution is
\* given up only while it has sent nothing.
LEMMA StatusStep ==
  ASSUME IInv, [Next]_vars
  PROVE  \A e \in Executions : StatusMove(status[e], status'[e], addRequests[e])
<1> DEFINE Moves == \A e \in Executions :
                      StatusMove(status[e], status'[e], addRequests[e])
<1>a. TypeOK /\ ClaimInv /\ BeliefInv /\ WriteInv BY DEF IInv
<1>b. UNCHANGED status => Moves BY DEF StatusMove
<1> USE <1>a, HoldsClaim, SettleMoves, UnreservedUnsent
<1>1. ASSUME NEW w \in Workers, Validating(w) PROVE Moves
  <2>1. CASE ReserveSubmission(w)
    BY <2>1 DEF ReserveSubmission, FreshMatchingLease, StatusMove, TypeOK,
                ExecutionTypeOK
  <2>2. CASE ReserveFindsApprovalInvalid(w)
    BY <2>2 DEF ReserveFindsApprovalInvalid, FreshMatchingLease, StatusMove
  <2>3. CASE MarkValidationFailure(w)
    BY <1>b, <2>3 DEF MarkValidationFailure, StatusMove
  <2> QED BY <1>b, <1>1, <2>1, <2>2, <2>3
          DEF Validating, ResolveTorrent, LookupExisting, PrepareCategory,
              ReserveLosesLease, GuardAllows, Renew
<1>2. ASSUME NEW w \in Workers, Submitting(w) PROVE Moves
  <2>1. CASE FinalizeSubmission(w)
    <3>1. outcome[w] \in SuccessStates
      BY <2>1 DEF FinalizeSubmission, BeliefInv, BeliefOf, TypeOK, WorkerTypeOK
    <3> QED BY <2>1, <3>1 DEF FinalizeSubmission, FreshMatchingLease, StatusMove
  <2>2. CASE MarkReservedFailure(w)
    BY <1>b, <2>2 DEF MarkReservedFailure, FreshMatchingLease, StatusMove
  <2> QED BY <1>b, <1>2, <2>1, <2>2
          DEF Submitting, RecheckExisting, ArmWriteGuard, PostAddTorrent,
              AddAnswered, ObserveTorrent, ConfirmAllowed, FinalizeRefused,
              GuardAllows, Renew
<1>3. ASSUME NEW w \in Workers, Guarding(w) PROVE Moves
  <2>1. CASE GuardCancelsByFence(w)
    <3>1. addRequests[claim[w]] = 0
      BY <2>1, UnarmedUnsent DEF GuardCancelsByFence, FreshMatchingLease, Expected
    <3> QED BY <2>1, <3>1 DEF GuardCancelsByFence, FreshMatchingLease, Expected,
                              StatusMove
  <2>2. CASE GuardFindsApprovalInvalid(w)
    BY <2>2 DEF GuardFindsApprovalInvalid, FreshMatchingLease, StatusMove
  <2> QED BY <1>b, <1>3, <2>1, <2>2
          DEF Guarding, GuardLosesLease, GuardFencedAfterWrite
<1>4. ASSUME NEW w \in Workers, Worker(w) PROVE Moves
  <2>1. CASE RecoverStaleExecutions(w)
    BY <2>1 DEF RecoverStaleExecutions, Stale, RecoveredStatus, StatusMove
  <2>2. ASSUME NEW e \in Executions, ClaimNextExecution(w, e) PROVE Moves
    BY <2>2 DEF ClaimNextExecution, Eligible, StatusMove, TypeOK, ExecutionTypeOK
  <2> QED BY <1>b, <1>1, <1>2, <1>3, <1>4, <2>1, <2>2
          DEF Worker, Claiming, Work, StepFails, RenewLease, Renew, Crash
<1>5. CASE ControlPlane
  <2>1. ASSUME NEW e \in Executions, NEW by, ExecuteApprovedPlan(e, by) PROVE Moves
    BY <2>1 DEF ExecuteApprovedPlan, StatusMove, TypeOK, ExecutionTypeOK
  <2>2. ASSUME NEW e \in Executions, RequestReconciliation(e) PROVE Moves
    BY <2>2 DEF RequestReconciliation, StatusMove, TypeOK, ExecutionTypeOK
  <2> QED BY <1>b, <1>5, <2>1, <2>2 DEF ControlPlane, RevokeRequest, PublishPolicy
<1>6. CASE Time \/ Qbittorrent \/ UNCHANGED vars
  BY <1>b, <1>6 DEF Time, ApprovalExpires, RetryDelayEnds, LeaseAges,
                    Qbittorrent, QbReceivesAdd, AddIsLost, QbUserRemoves
<1> QED BY <1>4, <1>5, <1>6 DEF Next

\* A request leaves only once, for a reserved or uncertain execution.
LEMMA SendStep ==
  ASSUME IInv, [Next]_vars, NEW e \in Executions
  PROVE  \/ addRequests'[e] = addRequests[e]
         \/ /\ addRequests[e] = 0 /\ addRequests'[e] = 1
            /\ status[e] \in Pending /\ status'[e] = status[e]
<1> USE DEF IInv
<1>1. ASSUME NEW w \in Workers, PostAddTorrent(w), claim[w] = e
      PROVE  /\ addRequests[e] = 0 /\ addRequests'[e] = 1
             /\ status[e] \in Pending /\ status'[e] = status[e]
  <2>1. addRequests[e] = 0 BY <1>1, UnarmedUnsent DEF PostAddTorrent
  <2>2. status[e] \in Pending BY <1>1 DEF PostAddTorrent, BeliefInv, BeliefOf
  <2> QED BY <1>1, <2>1, <2>2 DEF PostAddTorrent, TypeOK, QbTypeOK
<1>2. ASSUME NEW w \in Workers, PostAddTorrent(w), claim[w] # e
      PROVE  addRequests'[e] = addRequests[e]
  BY <1>2 DEF PostAddTorrent, TypeOK, QbTypeOK
<1>3. ASSUME NEW w \in Workers, Submitting(w), ~PostAddTorrent(w)
      PROVE  addRequests' = addRequests
  BY <1>3 DEF Submitting, RecheckExisting, ArmWriteGuard, AddAnswered,
     ObserveTorrent, ConfirmAllowed, FinalizeSubmission, FinalizeRefused,
     MarkReservedFailure
<1>4. ASSUME NEW w \in Workers, Validating(w) \/ Guarding(w)
      PROVE  addRequests' = addRequests
  BY <1>4 DEF Validating, ResolveTorrent, LookupExisting, PrepareCategory,
     ReserveSubmission, ReserveFindsApprovalInvalid, ReserveLosesLease,
     MarkValidationFailure, Guarding, GuardLosesLease, GuardCancelsByFence,
     GuardFencedAfterWrite, GuardFindsApprovalInvalid
<1>5. CASE \E w \in Workers : Worker(w)
  BY <1>1, <1>2, <1>3, <1>4, <1>5 DEF Worker, Work, StepFails, Claiming,
     RecoverStaleExecutions, ClaimNextExecution, RenewLease, Crash
<1>6. CASE ControlPlane \/ Time
  BY <1>6 DEF ControlPlane, ExecuteApprovedPlan, RevokeRequest,
              RequestReconciliation, PublishPolicy, Time, ApprovalExpires,
              RetryDelayEnds, LeaseAges
<1>7. CASE Qbittorrent
  BY <1>7 DEF Qbittorrent, QbReceivesAdd, AddIsLost, QbUserRemoves
<1> QED BY <1>5, <1>6, <1>7 DEF Next

\* Each change of status is a move of the abstract request, or none.
LEMMA PhaseMoves ==
  ASSUME NEW s \in ExecutionStatuses, NEW t \in ExecutionStatuses,
         NEW n \in Nat, StatusMove(s, t, n)
  PROVE  PhaseOf(t) = PhaseOf(s) \/ Outcome!Move(PhaseOf(s), n, PhaseOf(t), n)
BY DEF StatusMove, PhaseOf, Outcome!Move, Outcome!Queue, Outcome!Reserve,
       Outcome!Write, Outcome!Confirm, Outcome!Suspend, Outcome!Close

\* Every step implements a step of SubmissionOutcome.
LEMMA OutcomeStep ==
  ASSUME IInv, IInv', [Next]_vars
  PROVE  Outcome!Next
<1> DEFINE phase == [e \in Executions |-> PhaseOf(status[e])]
<1>1. /\ status \in [Executions -> ExecutionStatuses]
      /\ status' \in [Executions -> ExecutionStatuses]
      /\ addRequests \in [Executions -> Nat] /\ addRequests' \in [Executions -> Nat]
  BY DEF IInv, TypeOK, ExecutionTypeOK, QbTypeOK
<1>2. \A s \in ExecutionStatuses : PhaseOf(s) \in Outcome!Phases
  BY DEF PhaseOf, Outcome!Phases
<1>3. ASSUME NEW e \in Executions
      PROVE  \/ PhaseOf(status'[e]) = PhaseOf(status[e]) /\ addRequests'[e] = addRequests[e]
             \/ Outcome!Move(PhaseOf(status[e]), addRequests[e],
                             PhaseOf(status'[e]), addRequests'[e])
  <2>1. CASE addRequests'[e] = addRequests[e]
    BY <1>1, <2>1, StatusStep, PhaseMoves
  <2>2. CASE /\ addRequests[e] = 0 /\ addRequests'[e] = 1
             /\ status[e] \in Pending /\ status'[e] = status[e]
    BY <2>2 DEF PhaseOf, Outcome!Move, Outcome!Write
  <2> QED BY <2>1, <2>2, SendStep
<1> QED BY <1>1, <1>2, <1>3 DEF Outcome!Next

\* The initial states of the executor map to those of SubmissionOutcome.
LEMMA OutcomeInit == Init => Outcome!Init
BY DEF Init, Outcome!Init, PhaseOf

\* The executor implements SubmissionOutcome: seen through PhaseOf, every
\* behaviour of workers, leases and failures is a behaviour of the promise.
THEOREM Implementation == Spec => ImplementsOutcome
<1>1. IInv /\ IInv' /\ [Next]_vars
        => [Outcome!Next]_<<[e \in Executions |-> PhaseOf(status[e])], addRequests>>
  BY OutcomeStep
<1> QED BY <1>1, OutcomeInit, Invariance, PTL
        DEF Spec, ImplementsOutcome, Outcome!Spec
=============================================================================
