# LibSeek in TLA+

LibSeek watches a media catalogue, decides which items are missing, resolves their
identity, searches private trackers for torrents, has a human or a policy approve one, and
hands it to qBittorrent. The backend (`backend/app`) is a FastAPI application and four
polling processes that share one SQL database: the job worker, the automation preflight
worker, the download executor and the download monitor. There is no message broker and no
shared memory: processes meet in rows, row locks, partial unique indexes and leases.

This directory holds the TLA+ modules of the parts of that system that are hard to test,
the TLC configurations that check them on small instances, and TLAPS proofs about them.

| module | what it is |
| --- | --- |
| `DownloadExecution` | approved plans on their way into qBittorrent: executor workers, leases, fences, the one write |
| `SubmissionOutcome` | the promise the executor makes to an operator (abstract specification) |
| `DownloadExecutionProofs` | proofs about `DownloadExecution`, the refinement of `SubmissionOutcome` included |
| `MediaWorkflow` | items from discovery to torrent review: the job queue, its workers, the operator's requests |
| `MediaWorkflowProofs` | proofs about `MediaWorkflow` |
| `ApprovalReview` | an approval request from its creation to its execution: operators, the automatic preflight worker, the policy |
| `ApprovalReviewProofs` | proofs about `ApprovalReview` |
| `ExecutionIntents` | one-use intents and idempotency keys: how an approval gets its one execution |
| `CandidateEvidence` | what is known of one candidate, and which of it is checked between selection and submission |
| `RuntimeConfiguration` | connections and secrets an administrator stores at run time |
| `ExecutionIntentsProofs`, `CandidateEvidenceProofs`, `RuntimeConfigurationProofs` | proofs about these three |
| `DownloadMonitor` | the read-only observer of handed-over torrents |
| `MediaImport` | import plans for finished downloads; extends `DownloadMonitor`, which writes the jobs under them |
| `MediaImportProofs` | proofs about both |
| `LocalSetup` | the set-up wizard's transaction over `.env` and the secret files, crash by crash |
| `SetupStore` | the atomic store the wizard promises to be (abstract specification) |
| `LocalSetupProofs` | proofs about `LocalSetup`, the refinement of `SetupStore` included |
| `MCDownloadExecution`, `MCMediaWorkflow`, `MCApprovalReview`, `MCMediaImport`, `MCCandidateEvidence` | instances for TLC |
| `MCControlPlane`, `MCLocalRecovery` | instances of several modules that share no state: one of the parts moves, the others stand still |

Check one run with `tlc -config MCExecutionSafety.cfg MCDownloadExecution.tla`, prove a module
with `tlapm MediaWorkflowProofs.tla`. `PROJECT.json` lists components, runs, mutants, the
source lines of every definition, findings, hazards and theorems.

## 1. Inventory

Paths are relative to `src/backend/app`.

### Download executor (`workers/download_executor.py`, `services/executions.py`)
*State:* `download_executions` (status, attempts, lease token, `locked_by`, `locked_at`,
`next_retry_at`, origin, bound policy revision), `download_jobs`, the approval it executes,
and a worker's local variables in `_process_claim`.
*Operations:* create intent, execute the plan, claim, heartbeat, the guard before every
external request, reserve, write guard, finalize, fail before and after the reservation,
recover stale leases, request reconciliation.
*Hard:* the write to qBittorrent is outside every transaction, can time out, and must not
be repeated; leases run out under a worker that is still alive; the policy or the approval
changes between two steps; the answer to a commit can be lost.
*Correct when:* at most one `torrents/add` per execution; nothing that may have been
written is ever retried, failed or cancelled; the reported outcome is true; the approval
and the download job agree with the execution; every request ends or waits for a human.

### qBittorrent adapter (`adapters/downloaders`)
*State:* none of its own; qBittorrent's torrents are the outside world.
*Operations:* look up by hash, ensure a category, add with a second look just before.
*Hard:* two executions of the same torrent; a request that arrives after its sender gave up.
*Correct when:* the guard runs before each request, and only "Ok." counts as added.

### Job worker (`workers/processor.py`)
*State:* `jobs` with lease and attempts, `discovery_runs`, `torrent_search_runs`.
*Operations:* `claim_job`, `renew_lease`, one completion per job kind, `_fail`.
*Hard:* two workers on one row after a lease ran out, the failure path that reads before it
locks, a worker that dies in its last attempt.
*Correct when:* a stale worker commits nothing; every job ends; run and item follow the job.

### Media workflow (`services/workflow.py`, `services/discovery.py`, `api/routes/workflow.py`)
*State:* `media_items.workflow_status`, the identity input, `metadata_matches`,
`identity_reviews`.
*Operations:* start a discovery, resolve, confirm an identity, start a search, cancel the
active resolutions of an item, aggregate the status of its searches.
*Hard:* handlers read the item before they lock; confirmation meets a resolution that is
running, waiting for a retry or failing; discoveries change the input of a running lookup.
*Correct when:* confirmation is final; an item that says work is pending has a job that
will do it; stored matches belong to the input the item has.

### Approvals (`services/approvals.py`, `api/routes/approvals.py`)
*State:* `approval_requests` (PENDING_REVIEW to CONSUMED), frozen snapshot and plan,
preflight runs, one-use intents. *Operations:* create, preflight, approve, confirm-download
(both at once, with an execution), reject, revoke, expire, make an intent, execute it.
*Hard:* a preflight takes seconds outside any lock and its verdict is written into a row
that may have moved; clients repeat requests with the same idempotency key or with another.
*Correct when:* a grant rests on a passing result of its own request, under the current
settings; one candidate has one live request; one approval and one key have one execution.

### Preflight evaluation (`services/preflight.py`, `core/pt_site_rules.py`, `services/torrent_validation.py`)
*State:* none; the evidence is spread over the candidate, the settings and qBittorrent.
*Operations:* twelve checks folded into a verdict; the executor's second look at the
candidate and at the torrent file. *Hard:* what the site did not say is put off to a later
check, and settings and site may say something else by then. *Correct when:* what is
submitted is what was approved, and whatever was put off is really looked at later.

### Automation (`services/automation*.py`, `workers/automation.py`)
*State:* immutable policy revisions with a head, decisions, queued preflights.
*Operations:* publish (compare-and-swap on the head), decide to search, request, preflight,
approve and execute. *Hard:* a revision published in the middle of an automatic chain;
lock order between head and approval. *Correct when:* nothing automatic outlives the
revision it was decided under.

### Download monitor (`DownloadMonitor` in `workers/download_executor.py`)
*State:* a cursor in memory; `download_jobs`. *Operations:* read a page, ask qBittorrent
once, write row by row. *Hard:* the table changes under the cursor, an exception ends a cycle
half-way, a restart forgets the cursor. *Correct when:* every job is looked at again.

### Media import planning (`services/media_imports.py`, `api/routes/media_imports.py`)
*State:* requests, each with its frozen plan, its inspections. *Operations:* create, record a
preflight, approve, reject, revoke. *Hard:* the monitor writes the job at any moment, the
settings and the title change and change back. *Correct when:* what is approved is what was
planned and inspected, and a download has one active plan.

### Runtime configuration (`core/runtime_config.py`, `api/routes/configuration.py`)
*State:* one JSON file, version 1 or 2. *Operations:* read, save, merge an update into it,
make settings of file and environment. *Hard:* a secret left out of an update is kept, an
address may change in the same update, a file of the earlier release has no addresses.
*Correct when:* no secret goes to an address it was not entered for, and what is saved can
be read.

### Local set-up wizard (`tools/local_setup_wizard.py`)
*State:* `.env`, secret files, a run directory with markers, copies and hard links.
*Operations:* stage, commit, mark, roll back, clean up, recover on the next start.
*Hard:* every system call may fail, the process may die and the power may fail between any
two. *Correct when:* a save happens whole or not at all, and an answered save stays.

### Other parts
- Matching, identity and episode rules: pure scoring.
- Tracker and metadata adapters: HTTP and parsing.
- Site rate limiting: one advisory lock of the database per site, held over a request and
  its cooldown.
- Authentication, read-only routes, frontend, deployment scripts.

How they interact: discovery queues resolutions, a confirmed identity may queue a search
(automation), a reviewed torrent becomes an approval request, an approved plan becomes an
execution, a finished execution becomes a monitored job. Each arrow is a row written by one
process and polled by another.

## 2. DownloadExecution

Every action is one database transaction or one network effect. The constant sets are the
approvals with a plan (an execution and its approval are one-to-one, `approval_id` is
unique), worker processes and torrent identities.

| code | model |
| --- | --- |
| row of `download_executions` | `status`, `attempts`, `leaseToken`, `lockedBy`, `lockedAge`, `retryDue`, `origin`, `boundRevision` |
| row of `approval_requests`, `download_jobs` | `approvalStatus`, `approvalDue`, `jobs` |
| policy head | `revision`, `executionMode` |
| qBittorrent and the network | `torrents`, `inFlight`, `accepted`; `addRequests` counts what was sent (history) |
| locals of `_process_claim` | `pc`, `claim`, `claimToken`, `outcome`, `addMayHaveOccurred` |
| `_ensure_external_action_allowed` | the `Guard...` actions; `GuardAllows` is a conjunct of each guarded step |
| `_reserve_submission`, `persist_info_hash_before_submission` | `ReserveSubmission` and its two refusals |
| `torrent_add_write_guard`, `client.send`, its answer | `ArmWriteGuard`, `PostAddTorrent`, `AddAnswered` |
| `finalize_download_submission` | `FinalizeSubmission`, `FinalizeRefused` |
| `_mark_validation_failure`, `_mark_reserved_failure` | `MarkValidationFailure`, `MarkReservedFailure` |
| `_recover_stale_executions`, `_claim_next_execution` | `RecoverStaleExecutions`, `ClaimNextExecution` |

What is abstracted, and why that is sound for the properties:
- The one-use intent and the idempotency key in front of `execute_approved_plan` are folded
  into `ExecuteApprovedPlan`: together they let an approved, unexpired approval without an
  execution get one (`ExecutionIntents`, section 5).
- The lease token, a fresh uuid, is the attempt number, which grows with every claim.
- Guard and the read-only request it protects are one step; the request guard and the write
  guard, which run back to back with the same conditions, are one step. The guard and the
  *write* are two steps with everything else in between.
- Every AppError of a step (changed binding, invalid torrent, failed request, HNR rules,
  disabled capability) is the nondeterministic `StepFails`.
- Capability settings are fixed for the life of a process; database and application clocks
  are the same clock. `lockedAge` counts ticks of it; "expired" (`locked_at + lease <= now`)
  and "recoverable" (`locked_at < now - lease`) differ by a tick, as in the code.
- `SKIP LOCKED` makes any eligible row the one that is claimed.
- Approvals start APPROVED; how they get there is `ApprovalReview`.

**Abstract specification.** `SubmissionOutcome` knows a phase and a write count per request:
queued, reserved, confirmed, uncertain, closed. It allows one write, only after the
reservation, and forbids closing a request that was written. `PhaseOf` maps the eleven
statuses to the phases; `ImplementsOutcome` is `Outcome!Spec` under that mapping, checked by
TLC and proved.

### Runs
| run | instance | question |
| --- | --- | --- |
| `execution_safety` | 1 execution, 2 workers, 2 attempts, lease of 2 ticks, 2 revisions | at most one write, rows that agree, and every request settles |
| `execution_shared` | 2 executions of one torrent, 2 workers, 1 attempt, lease of 1 tick | truth of the outcome, refinement |

*Bounds.* Two workers and two attempts are what a takeover needs: the first worker loses its
lease, the second claims again, the first wakes up at any step. A lease of two ticks tells
fresh, expired-but-not-recoverable and stale apart. With two revisions the policy changes once,
to any mode, at any step; the executor asks only whether the latest revision is still that of
the execution and lets it run, and a revision number never returns, so that a further
change shows nothing new. Two executions
with the same torrent are what one qBittorrent can confuse. The proofs remove all bounds.

*Fairness.* `EveryRequestSettles` assumes weak fairness of a worker's recovery, claiming and
work (the mains loop over `run_once`, and each request has a timeout, so `StepFails` or an
answer always comes) and of the clock (`LeaseAges`, `RetryDelayEnds`). Crashes, heartbeats
and qBittorrent are not fair: a crash may happen at any step, or never. A worker that is
alive renews its lease for ever only if it also makes progress, because work is fair.

### What is proved
`DownloadExecutionProofs`, for every set of executions, workers and torrents and every value
of the bounds, from the constants' assumptions only: the safety invariants of the runs, and
`Implementation`. They follow from `IInv`:
- `LeaseInv`, `ActiveIffLeased`: a lease is that of the latest claim, and active rows are
  exactly the leased ones. Without it stale recovery could miss a row.
- `ClaimInv`, `TokenInv`: a worker's claim was made, and no two workers hold the same one.
  Tokens are what distinguishes an overtaken worker from the owner.
- `BeliefInv`: what a worker believes. The key clause: a worker past the reservation holds
  the *latest* claim of an execution that will not be claimed again, even when its lease is
  long gone. So two workers are never both past it.
- `WriteInv`: after a request has left, only its sender may be in a reserved step, and it
  knows. That is why a late fence never cancels a written request.
- `ApprovalFollowsExecution`, `OutcomeIsTrue` are part of the invariant themselves.

The invariant is needed because `AddSentAtMostOnce` alone is not inductive: it says nothing
of a second worker standing at `post`. Each conjunct has a lemma per group of actions
(`LeaseStep`, `ClaimStep`, `BeliefStep`, `WriteStep`, `ApprovalStep`).

## 3. MediaWorkflow

Job rows are indexed by job type (`DISCOVER_NEXTFIND`, `RESOLVE_METADATA:<item>`,
`TORRENT_SEARCH:<site>:<item>`) and a number; a row stands for the `jobs` row and its
`torrent_search_runs` row, which are created and ended together but updated separately.

| code | model |
| --- | --- |
| `jobs`, `torrent_search_runs` | `jobs[row]` with `status`, `attempts`, `lapsed`, `input`, `run` |
| `media_items` | `workflow`, `input` (hash of what identifies the item) |
| latest `metadata_matches`, `identity_reviews` | `matchedInput`, `confirmed` |
| a handler of `api/routes/workflow.py` | `LoadMedia`, then `RequestResolution`, `ConfirmIdentity`, `RequestSearch` or `AbandonRequest` |
| locals of `run_once` | `pc`, `row`, `lease`, `queriedInput` |
| `claim_job`, `renew_lease` | `ClaimJob`, `RenewLease`, `LoseLease`, `LeaseLapses` |
| `_prepare_...`, `_complete_...` | `PrepareResolution`, `CompleteResolution`, `CompleteSearch`, `CompleteDiscovery`, `DiscardStaleResult` |
| `_fail` | `StepFails` (its unlocked read), then `FailWrites` or `FailIsRefused` |

Two facts about SQLAlchemy as this code uses it shape the model. The sessions are created
with `expire_on_commit=False` (`db/session.py:11`), and no query asks for
`populate_existing`: so a locking read of an object that the session has already loaded does
not refresh it, and an assignment of the value the session last saw is not sent. `_fail`
therefore writes on what it read before it waited for the lock, and `Written(new, loaded,
current)` is the column after a handler assigned `new` to an object loaded as `loaded`.

Abstractions:
- Handlers lock the policy head first (`require_stage_not_disabled`), so one `request` at a
  time is enough. `CompleteResolution` takes the same lock after item and job, and so waits
  for `request = NoRequest`; the deadlock this can cause is broken by the database, which
  ends one side: `StepFails` or `AbandonRequest`.
- Scores are gone: a resolution confirms the identity or sends the item to review; a search
  finds something or nothing. A confirmation may start one search (automation) or none.
- A discovery picks any set of items and any inputs for them. Its unlocked reads and its
  flush are one transaction. TMDB is configured; `discovery_status` is MISSING, as it always
  is in this program. Merging and splitting of items by TMDB id is not modelled.
- A discovery run mirrors its job, so it has no variable. A retry delay is the time until
  somebody claims the row. The lease token is the attempt number.

### Runs
| run | instance | question |
| --- | --- | --- |
| `workflow_safety` | 1 item, 1 site, 2 workers, 2 inputs, 1 attempt; 3 discoveries, 3 resolutions, 2 searches | confirmation is final; pending work has a job; runs follow their jobs; stored matches fit the input |
| `workflow_liveness` | 2 workers, 1 input, 2 attempts; 1 discovery, 1 resolution, 2 searches | every job ends or lost its last attempt |
| `workflow_stale_failure`, `workflow_status_skew` | small | two claims of tests that do not hold |

*Bounds.* Items share nothing but the discovery row, so one item shows every conflict about
an item; the proofs cover any number. Three discoveries with two inputs change an input and
change it back
while a lookup runs; two searches are what a new request beside an old, failing job needs.
Two attempts make a retry, a takeover and a last attempt; they are in the liveness run, and
the proofs cover safety for any number of them. When the bounded rows are
used up the model stops, hence `CHECK_DEADLOCK FALSE`; the program would go on with new rows.

*Fairness.* Weak fairness of claiming and working for each worker (they loop over
`run_once`, requests time out), of the end of a handler (`AbandonRequest`, otherwise the head
lock would be held for ever) and of the lapse of a lease. Renewals and crashes are free.
Because only `Work` of one worker is fair and a retry needs a claim, the property excludes
exactly the rows whose last attempt is gone: `LostLastAttempt`.

### What is proved
`MediaWorkflowProofs`, for all values of the constants: type correctness, the three
invariants, `ConfirmedIsKept` and `MatchesFitInput`, from `IInv`:
- `RowInv`: search rows have a run, others none; unused rows have no attempts.
- `SettledInv`: the three signs by which `identity_finalization_evidence` recognises a settled
  identity agree. This is why a check of any one sign suffices.
- `ResolutionInv`: an active resolution belongs to an item that is not confirmed, and is the
  only one of its item; `PendingInv`: the announced work exists.
- `ClaimInv`: a claim was made and at most overtaken; `QueryInv`: while a worker still owns a
  resolution that can count, the input it sent to TMDB is the item's.

`QueryInv` is what makes `MatchesFitInput` inductive. Its argument does not depend on the
comparison of fingerprints in `_complete_metadata_resolution`: a discovery that changes the
input cancels the running resolution in the same transaction, attempts only grow, and so a
worker that still owns its row saw no change (lemmas `RowsAdvance` and `InputMoves`).
The hardest step is `FailData`, the write of `_fail` from an outdated read: it may overwrite
another worker's claim or revive a finished row, and yet it keeps these properties, because
the item's finalization is read afresh and the unique index on active types refuses a second
active row.

## 4. ApprovalReview

Each action is one transaction. A row of `approval_requests` is a record with its latest
preflight, its plan, who granted it and who made its execution; a preflight is its verdict,
the version of the settings it was taken with, and a number that tells results apart.

| code | model |
| --- | --- |
| `create_approval_request`, `maybe_enqueue_automatic_preflight` | `CreateRequest`, `RequeuePreflight`, `Enqueue` |
| the handlers approve, confirm-download, preflight: first transaction | `StartApprove`, `StartConfirm`, `StartPreflight` |
| their second transaction | `FinishApprove`, `FinishConfirm`, `FinishPreflight`, on the copy of the first (`CopyExpires`, `CopyStores`, `CopyGranted`) |
| reject, revoke, expire | `Reject`, `RevokePending`, `Revoke`, `Expire` |
| `maybe_create_automatic_execution`, the executor's writes into the row | `AutomaticExecution`, `CreateExecution`, `ExecutorReserves`, `ExecutorConsumes` |
| `publish_policy_revision`, saved settings | `PublishPolicy`, `ChangeConfig` |
| the automatic preflight worker | `ClaimJob`, `Prepare`, `BindingRefused`, `ReadFails`, `Finalize`, `Fail`, `LeaseLapses`, `Restart` |

The model takes two facts from SQLAlchemy as section 3 does: the second transaction of a
handler locks the row again, but the session still holds the object of the first, so what
is judged is the PENDING copy; and only changed columns are sent. The policy head is not
held by the session and is read afresh. That the status of a row, its plan and its rivals
nevertheless agree (`PlanBacksStatus`, `OneLivePerCandidate`) is due to two unique indexes
(`Insertable`), which a reader of the handler alone would not think of.

Abstractions: who an operator is, names and reasons; a preflight's checks (section 5); its
maximal age, because every grant rests on the result its own request has just stored;
`SKIP LOCKED`. Verdicts include PASS, which the real evaluation cannot give (section 5): the
automatic path is modelled as it is written.

| run | instance | question |
| --- | --- | --- |
| `review_safety` | 2 requests of one candidate, 1 handler, 1 automatic worker, 2 revisions, 2 versions of the settings, 2 results and 2 jobs of the first request | plans back statuses, grants rest on current evidence, automation stays within its policy |
| `review_stale_copy` | the same without the worker | a comment of the source that does not hold |

One handler is enough to hold one stale copy, while all other transactions (rejecting,
granting by the worker, revoking) go on beside it; the second request of the candidate is
the rival. Rows end, so `CHECK_DEADLOCK FALSE`.

### What is proved

`ApprovalReviewProofs` shows every property of `review_safety` (`TypeOK`, `PlanBacksStatus`,
`OneLivePerCandidate`, `AutomationIsEntitled`, `OneAutomaticVerdict`, `GrantIsJustified`) for
any requests, candidates, handlers, workers, policies and bounds. It assumes `NoEvidence` to
be no result, and what the module assumes of its other constants.

The invariant is `IInv == RowsInv /\ WorkInv`. A handler writes on a copy that may be outdated,
so the status it has seen proves nothing. The argument looks at writes instead: each one is
`Quiet` (it leaves the plan and its author alone, and brings no ended row to life) or it
`Grants`, and the unique indexes (`Insertable`) let a grant pass only for a row without a
plan and a candidate without a live rival. `QuietKeeps` and `GrantKeeps` show that either kind
keeps `RowsInv`; each action is then shown to be one of them. `BirthInv` is what
`AutomationIsEntitled` needs to be inductive: the revision a row was born under is published,
and revisions never change. `WorkInv` is kept the same way by the writes to jobs (`JobWrite`):
a job that succeeds has the number of the first job of its row.

## 5. Intents, configuration and evidence

Three modules that share no variable with each other or with `MediaImport` (section 6);
`MCControlPlane` moves one of the four at a time, so that the run `control_safety` has the sum
of their states and not the product. A part that stands still holds no model values, which
allows elements of two parts to be exchanged together: fewer symmetries, of larger orbits. All
three are proved.

**ExecutionIntents** is what stands behind `ExecuteApprovedPlan` of section 2:
`create_execution_intent` (`CreateIntent`), `execute_approved_plan` and its replays
(`Execute`, `ExecuteAgain`, `Consume`, `IntentExpires`), the confirmation of a candidate in
two transactions (`StartConfirm`, `FinishConfirm`, `DropConfirm`) and what the policy
executes (`AutomaticGrant`). Every writer holds the policy head from its first look-up to its
commit (`require_stage_not_disabled`), so each transaction is one action. For the same
reason the recovery from a uniqueness violation (`recover_idempotent_execution`,
`services/executions.py:478-528`) cannot be reached on PostgreSQL and is not modelled. The
instance has two approvals, two keys, two confirmations at a time, two intents and a target
that changes: what a repeated key, a foreign key and a changed qBittorrent need.
*Proved* (`ExecutionIntentsProofs`): `IntentBacksExecution` and `AnswersAgree`, from
`IntentsInv`, whose parts say that a plan is there exactly once an approval was granted
(`PlanInv`: nobody gets an intent before), that an approval has one active intent
(`ActiveInv`), that used intents and executions correspond (`BackInv`), and that a key of a
client has one execution (`KeyInv`). From the same invariant, `ExecutionIsGranted`: whichever
of the three ways is taken, executions only come into being for an approval that has none and
stands approved, with the stage open. That is the guard with which `ExecuteApprovedPlan` of
section 2 leaves intents and keys out. It says "stands approved afterwards": a confirmation
writes APPROVED on its copy, whatever became of the row meanwhile (see section 8).

**RuntimeConfiguration** keeps one group for NextFind, qBittorrent and each tracker; a secret
*is* the address and user it was entered for, so that `SecretsStayPut` can be stated.
`Kept`, the updates, `Readable`, `FromV1` and `Effective` are `_optional_secret_update`,
`_merge_configuration`, `_configuration_from_payload`, the reading of a version 1 file and
`settings_overrides`. The environment is fixed for the life of the process; the TMDB token has
no address and is left out. *Proved* (`RuntimeConfigurationProofs`): `SecretsStayPut`,
`FileStaysReadable` and `CompleteIsUsable`, from `ConfigInv`, which speaks of `Stored`, the
file as it is read, and so treats a file of the earlier release like any other. The three
rest on each other: a tracker's secret without an address would go to the environment's, and
it is the readability of the file that excludes such a group.

**CandidateEvidence** follows one candidate from its selection to the torrent file that is
handed over: the twelve checks (`VersionCheck` to `HnrCheck`) and their `Verdict`, the
automatic selection (`Eligible`), the plan's settings, the executor's binding
(`BindingHolds`), the second search (`SearchAgain`, `Exact`) and the comparison with the file
(`Consistent`). The site may leave anything out and may say something else each time, the
file may be any, settings and executor may change between any two steps. How rows are locked
and leased is in sections 2 and 4: here one handler runs at a time. qBittorrent's answers
are all well or deviate in one respect, which is enough for a verdict that is the worst of
its checks. *Proved* (`CandidateEvidenceProofs`): `SubmittedIsAsApproved`, from
`EvidenceInv`, which carries the limit of the preflight through the plan to the executor's
settings.

`CompleteEvidencePasses` states what the docs say of automatic approval
(`docs/architecture.md:132` and `:158`, `docs/security.md:154`): that it happens, on a complete
PASS. It asks for little: where the automation has selected a candidate and the settings leave
no check open (`NothingMissing`), *some* answers of qBittorrent let the preflight pass. The run
`automatic_approval` finds it violated: `_duplicate_release_check` warns at best. It is the only
check in the way: with a `ReleaseCheck` that passes when there is no namesake, the property
holds in all reachable states of the same instance.

| run | instance | question |
| --- | --- | --- |
| `control_safety` (three parts) | as above; 2 addresses with https, 1 with http, 2 users; 2 titles, hashes, sizes and ids, 1 change of settings | one execution per approval and key; secrets stay put; what is submitted was approved |
| `automatic_approval` | the evidence alone | an automatic approval that never happens |
| `deferred_size` | the evidence alone | a deferred check that never happens |

The first title, hash and id of a candidate are named without loss of generality (nothing
tells them apart), which is a condition of the instance, not of the module.

## 6. Monitor and imports

**DownloadMonitor**: `ReadPage`, `AskQb`, `WriteJob` and `CycleFails` are `_next_jobs`,
`find_torrents_by_hashes`, the transaction of one row and an exception anywhere; the cursor only
moves with the last row of a page (`Advance`). `AddJob` and `TorrentChanges` are the executor
and qBittorrent. *Fairness*: pages are read for ever (weak), and neither all questions nor
all writes of one row fail (strong, because a failing cycle gives both up again and again).
The code justifies this only as far as failures are passing ones: a row whose write always
fails ends every cycle where it is, the cursor stays before its page, and later pages are
never reached. `EveryJobIsWatched` is checked with two jobs in pages of one, new rows, and
a restart that resets the cursor.

**MediaImport** adds the plans: `CreatePlan`, `RecordPreflight`, `ApprovePlan`, `RejectPlan`,
`RevokePlan`, each a transaction that locks the request and then what it is about. The
monitor's steps are the environment that makes a plan stale, `ChangeConfig` and `ChangeTitle`
change and change back. `record_media_import_preflight` has no caller outside the tests; it
is modelled as the operation it is. A plan whose job drifted after approval keeps the job's
only active slot until somebody revokes it. The settings gate the operations and nothing else:
no property is about them, because a plan is compared with them in the one transaction that
approves it. The instance has one job, two requests, three
views of a torrent (one drifted), two settings and two titles; requests, settings and titles
are symmetric. In the instance qBittorrent changes right before it is asked, since nothing else
looks at it once the row is there.

| run | instance | question |
| --- | --- | --- |
| `control_safety` (imports part) | as above | what is approved is what was planned and inspected; one active plan |
| `local_recovery` (monitor part) | 2 jobs, pages of 1, 1 restart | every job is watched |

### What is proved

`MediaImportProofs` shows every property `control_safety` checks of imports, and the types, for any number of downloads, any
page size, whatever qBittorrent shows, and any requests, settings and titles. Assumed are the
named assumptions, among them that `NoJob` is no row and `NoPreflight` no preflight.

`IInv == MonitorInv /\ PlansInv`. `MonitorInv` adds two facts to the types: a page holds rows
that are there, and a complete row has a completion time. The first needs `RankExists`: the
n-th row of a page exists, because the number of rows below a row is an injection into
`0..n-1` and so onto it. `ObservedIsARow` is the second, and `PlannedDownloadIsComplete` rests
on it. `PlansInv` consists of the invariants themselves, stated of one request by `RowOK`;
`RequestWritten` shows what a write has to respect, and each operation respects it.

## 7. LocalSetup

The wizard writes the secret files and `.env` as one transaction on the file system. Every
system call that changes it is one action; after each, the call may fail (`CallFails`), the
process may die (`WizardDies`) or the power may fail (`PowerFails`: any file system since the
last `fsync` of the directory, kept in `survivors`). A file is the number of the save that
wrote it, as the code tells files apart by device and inode; a hard link keeps the old one.

| code | model |
| --- | --- |
| `_stage_all`: markers, new files, hard links, manifest | `Stage`, `StageFails` |
| `_commit`, `_mark_committed` | `Commit`, `MarkCommitted`, `AcknowledgeCommitted`, `SyncCommitted` and their failures |
| `_rollback` | `Undo`, `SyncUndone`, `UndoFails` |
| `_cleanup_staging`, `_recover_run_without_manifest` | `Clean`, `Purge`, `CleanFails`, `CleanRank` |
| `_recover_staging` at the next start or save | `Decide`, `Recovered` |

**Abstract specification.** `SetupStore` is a store of files, the save that is being made
(`asked`) and the number of the last one (`count`). A save that is asked for takes effect on
all its files in one step, with its own number, and ends; or it is refused without effect.
Nothing else puts a save's number on a file: `Edit` only leaves a foreign file or none, and
only while no save is made, and a power failure only brings back what was in force as a whole
and may still be on disk. A torn save, a second one, or one that recovery brings back to life is
no sequence of these steps. `ImplementsStore` is its `Spec` under the mapping of `stored`
to `InForce` (what recovery would make of the files), `onDisk` to the same of every file system
that may survive, and `asked` to `Asked`: the files of a save until COMMITTED is written or
the save is given up. `AnsweredIsKept` and `OthersAreKept` say the rest. `LeftoversAreRecovered` assumes that a running wizard goes on and a stopped one
is started again (`SetupFairness`).

Two files and two saves let a save meet the leftovers of an earlier one half-way through its
files; two faults let the recovery of a fault fail itself.

What the run shows beside the properties: a run directory can be orphaned for ever, each
later start ending in ROLLBACK_FAILED, when the process dies while only `PREPARING.tmp` is
there (`tools/local_setup_wizard.py:697-708`), or in `_recover_run_without_manifest` after
PREPARING was removed first (line 1198). `Orphaned` is the exception in the property.
Assumed: a file system whose journal keeps the order of metadata changes; files are edited
by hand only beside a left-over run directory. Not modelled: the reuse of an inode after a
roll-back, a power failure after a suppressed failure to synchronise COMMITTED, a digest
that cannot be read in `_mark_committed`.

| run | instance | question |
| --- | --- | --- |
| `local_recovery` (set-up part) | 2 files, 2 saves, 2 faults | saves are atomic, answered ones stay, leftovers are recovered |

### What is proved

`LocalSetupProofs` shows `AnsweredIsKept`, `OthersAreKept` and `ImplementsStore` for any
number of files, saves and faults. Assumed are the named assumptions: there is a file, the
bounds are numbers, and no file and a foreign file are neither each other nor a save.

`IInv == StateInv /\ AnsweredIsKept`. `StateInv` has four parts:

- `DiskInv` speaks of every file system a power failure may leave. Beside its type it says
  that no file of a run was before what the run writes (`WellFormed`): without that, "it is
  new" would not tell a file to be undone from one to be kept.
- `FreshInv` carries the reason: when a save is asked for, its number is on no file, and
  recovering older leftovers brings none there.
- `CallsInv` says what holds before each call. Up to the manifest every file is what it was;
  while committing, the files that are not `left` are new, and of the others at most the
  first (`Reached`: a call may have done its work and failed all the same); the marker is
  written when all are new; a roll-back that has not failed has left none of the files it
  has passed new; an uncommitted run is cleaned up only when none is.
- `WizardInv` types the rest.

Each action has a lemma that shows `StateInv'` and `Moves`: the configuration in force stays
(`Quiet`), takes the save as a whole (`Takes`, by the call that writes COMMITTED), is edited
(`Edits`, beside a left-over run), becomes durable (`Settles`) or falls back (`Rewinds`, by a
power failure). `AnsweredIsKept` follows from `Moves`. For the refinement `AskedStep` adds what
becomes of the save that is being made: only `Submit` asks for one, and any other step leaves
it as it is or ends it. `StoreStep` puts both together. Two places carry the argument. The order of
clean-up never takes COMMITTED before manifest (`FirstToGoIsFirst`, from the place of every
entry in one order, `PlaceIsUnique`); the other way round a crash would turn a committed save
into one to undo. And replacing a file counts only with the marker
(`ReplacingDoesNotCount`, `MarkCounts`).

The last part of the module states three more properties, checked by TLC on the same
instance before they were proved, and is the safety half of `LeftoversAreRecovered`:

- `LeftoversAreAccepted`: unless files were changed by hand, recovery accepts what it finds on
  every disk that may be left, and every file it has to undo has its hard link, provided the
  directory is no orphan.
- `OrphansAreLitter`: an orphan has no manifest, so the files are what is in force.
- `GivesUpOnlyIfItMust`: a start or a save ends in ROLLBACK_FAILED only because of an orphan,
  an edit or a failing call.

`FoundInv` is their invariant: with a manifest there is PREPARING; COMMITTED
without manifest stands among markers only (`EntriesOK`); a committed run is all new (`FilesOK`); and an
old file is linked before its new one is staged (`LinksInv`), which makes every roll-back
possible later.

## 8. Findings

Shown by runs:
- `_fail` (`workers/processor.py:1327`) judges the lease on the copy it read before it took
  the lock: a worker that lost its lease can still overwrite the claim, or the result, of the
  worker that took over (`workflow_stale_failure`).
- `refresh_media_search_workflow_status` works on the copy loaded before its lock: an item
  can go on showing NO_CANDIDATE while a new search runs (`workflow_status_skew`).
- The second transaction of approve, confirm-download and preflight works on the copy of the
  first, contrary to `api/routes/approvals.py:424`: a request another administrator has
  rejected meanwhile still gets the result, and can be approved (`review_stale_copy`).
- A candidate of unknown size passes the preflight with the remark that its torrent file will
  be compared with the limit (`services/preflight.py:465`); nothing compares it
  (`deferred_size`). Unknown seeders are put off to the executor's search in the same way
  (`services/preflight.py:508-515`), and not looked at there either.
- No preflight ends in PASS, so that the automatic approval of `docs/architecture.md:132` and
  `docs/security.md:154` never happens; the APPROVAL stage always falls back to an operator
  (`services/preflight.py:413`, `automatic_approval`).

Met while modelling, without a run of their own:
- A job whose worker dies in its last attempt stays RUNNING for ever, and new requests of
  its type are answered with that row (`workers/processor.py:139`, against
  `docs/architecture.md:285`). It is the exception `LostLastAttempt` of `JobsEndOrAreLost`.
- A policy published between the write guard and the request does not stop the request,
  contrary to `docs/testing.md:250`. The row ends in manual reconciliation.
- A replayed execute request is refused once the execution stage is disabled, although
  `docs/architecture.md:173` says that the original is returned; a replayed confirmation is
  answered before any gate.
- `docs/security.md:74` says that a missing hash stays UNKNOWN, and `docs/architecture.md:262`
  that an absent category blocks; both are warnings in the code.

## 9. Only model-checked, and not modelled

By TLC only: liveness (`EveryRequestSettles`, `JobsEndOrAreLost`, `EveryJobIsWatched`,
`LeftoversAreRecovered`), because the provers reach neither fairness nor ENABLED, and what
violation runs show. Every other property of the passing runs is a theorem too. The proofs
assume nothing but the named assumptions on the constants.

Proofs also correct models. Three operators were written with overlapping arms of CASE, of
which TLC takes the first and TLA+ any (`Committed`, `Undone`, `StatusOf`); they could not be
reasoned about, and now have arms that exclude each other.

Not modelled, with the reason in `PROJECT.json`: HTTP and HTML parsing, bencode, scores,
authentication, read-only routes and schemas, frontend, deployment; the site limiter (one
advisory lock of the database and a timer); merging and splitting of items by TMDB id; the
hash chain and acknowledgements of policy revisions; the order of locks inside a
transaction. Hazards without a property carry a note there.

## 10. What is next

1. An abstract specification of the job queue alone, and `MediaWorkflow` shown to implement it.
2. The policy chain with its acknowledgements; the order in which transactions take locks.
3. Items that are merged or split in `MediaWorkflow`.
