--------------------------- MODULE ExecutionIntents ---------------------------
(***************************************************************************)
(* How an approved download plan becomes its one execution:                *)
(*   services/executions.py      execution intents, idempotency keys       *)
(*   api/routes/executions.py    two requests: make an intent, execute it  *)
(*   api/routes/approvals.py     one request that confirms a candidate     *)
(*   services/automation.py      an execution the policy makes             *)
(*                                                                         *)
(* Each action is one transaction.  All that write hold the policy head    *)
(* (require_stage_not_disabled locks it), then the approval row, so none   *)
(* runs between another's look-ups and its commit; only the first look-up  *)
(* of a confirmation holds nothing, and its preflight (ApprovalReview) is  *)
(* between its two transactions.  The client may repeat any request, with  *)
(* the same idempotency key or with another.                               *)
(*                                                                         *)
(* One approval stands for each candidate; what happens to it otherwise is *)
(* in ApprovalReview, and what becomes of the execution in                 *)
(* DownloadExecution.                                                      *)
(***************************************************************************)
EXTENDS Naturals, Sequences, FiniteSets

CONSTANTS
  Approvals,   \* approval_requests rows
  Keys,        \* idempotency keys the clients choose
  Targets,     \* qBittorrent targets that agree with the approved plans
  Clients,     \* confirmations served at the same time
  MaxIntents,  \* bound: execution_intents rows
  RandomKey,   \* the key the automation makes up, never used again
  NoRequest    \* no confirmation is served

ASSUME IntentsAssumption == MaxIntents \in Nat
ASSUME MarkAssumption == RandomKey \notin Keys

LaunchModes == {"ADD_PAUSED", "START_IMMEDIATELY"}

VARIABLES
  stageOpen,   \* the EXECUTION stage is not DISABLED
  qbTarget,    \* the target the settings name now
  approvals,   \* the rows
  intents,     \* execution_intents, in the order of their creation
  executions,  \* download_executions
  confirming,  \* confirmations between their two transactions
  answers      \* what clients were told: request and execution of a key

intentVars == <<stageOpen, qbTarget, approvals, intents, executions, confirming, answers>>

----------------------------------------------------------------------------
\* PENDING, or not asked for yet; APPROVED, and LAPSED when its expires_at has
\* passed unnoticed; ENDED whichever way.  planned: it has a download plan,
\* which nothing takes away.
Approval == [status : {"PENDING", "APPROVED", "LAPSED", "ENDED"}, planned : BOOLEAN]
Intent == [approval : Approvals, mode : LaunchModes, target : Targets,
           status : {"ACTIVE", "CONSUMED", "EXPIRED"}, due : BOOLEAN]
Execution == [approval : Approvals, intent : 1..MaxIntents, key : Keys \cup {RandomKey},
              mode : LaunchModes, target : Targets]
Asked == [key : Keys, approval : Approvals, mode : LaunchModes]

\* Rows, requests and answers keep their types.
IntentsTypeOK ==
  /\ stageOpen  \in BOOLEAN
  /\ qbTarget   \in Targets
  /\ approvals  \in [Approvals -> Approval]
  /\ intents    \in Seq(Intent) /\ Len(intents) <= MaxIntents
  /\ executions \subseteq Execution
  /\ confirming \in [Clients -> Asked \cup {NoRequest}]
  /\ \A x \in answers : x.asked \in Asked /\ x.execution \in executions

IntentsInit ==
  /\ stageOpen  = TRUE
  /\ qbTarget   \in Targets
  /\ approvals  = [a \in Approvals |-> [status |-> "PENDING", planned |-> FALSE]]
  /\ intents    = <<>>
  /\ executions = {}
  /\ confirming = [c \in Clients |-> NoRequest]
  /\ answers    = {}

----------------------------------------------------------------------------
UsableIntent(a) == approvals[a].status = "APPROVED"
ExecutionsOf(a) == {e \in executions : e.approval = a}
WithKey(k) == {e \in executions : e.key = k}
ActiveIntents(a) == {i \in DOMAIN intents :
                       intents[i].approval = a /\ intents[i].status = "ACTIVE"}

\* Mutant of Current: the target is not compared.
CurrentAnyTarget(i) == i \in DOMAIN intents
\* verify: the intent still names the approval's plan and the target of now.
Current(i) == intents[i].target = qbTarget

\* create_execution_intent refuses an approval that was executed, or whose
\* intent may still be used.
Grantable(a) == ExecutionsOf(a) = {} /\ \A i \in ActiveIntents(a) : intents[i].due

NewIntent(a, mode, status) ==
  [approval |-> a, mode |-> mode, target |-> qbTarget, status |-> status, due |-> FALSE]
ExpireActive(a) == [i \in DOMAIN intents |->
  IF i \in ActiveIntents(a) THEN [intents[i] EXCEPT !.status = "EXPIRED"] ELSE intents[i]]
NewExecution(i, k) ==
  [approval |-> intents'[i].approval, intent |-> i, key |-> k,
   mode |-> intents'[i].mode, target |-> qbTarget]

Request(k, a, mode) == [key |-> k, approval |-> a, mode |-> mode]
Answer(asked, e) == answers' = answers \cup {[asked |-> asked, execution |-> e]}

\* _require_approved: the expiry is committed with the refusal.
ApprovalExpires(a) ==
  /\ approvals[a].status = "LAPSED"
  /\ approvals' = [approvals EXCEPT ![a].status = "ENDED"]
  /\ UNCHANGED <<intents, executions, answers>>

----------------------------------------------------------------------------
\* The two requests of api/routes/executions.py.

CreateIntent(a, mode) ==
  /\ stageOpen
  /\ \/ ApprovalExpires(a)
     \/ /\ UsableIntent(a) /\ Grantable(a)
        /\ Len(intents) < MaxIntents
        /\ intents' = Append(ExpireActive(a), NewIntent(a, mode, "ACTIVE"))
        /\ UNCHANGED <<approvals, executions, answers>>
  /\ UNCHANGED <<stageOpen, qbTarget, confirming>>

\* Mutant of Replays: only the approval is compared.
ReplaysApproval(e, a, i) == e.approval = a
\* _require_same_idempotent_request.
Replays(e, a, i) == e.approval = a /\ e.intent = i

\* The key has its execution already.
ExecuteAgain(a, i, k) ==
  /\ \E e \in WithKey(k) : /\ Replays(e, a, i)
                           /\ Answer(Request(k, a, intents[i].mode), e)
  /\ UNCHANGED <<approvals, intents, executions>>

IntentExpires(a, i) ==
  /\ UsableIntent(a) /\ ExecutionsOf(a) = {}
  /\ i \in ActiveIntents(a) /\ intents[i].due
  /\ intents' = [intents EXCEPT ![i].status = "EXPIRED"]
  /\ UNCHANGED <<approvals, executions, answers>>

Consume(a, i, k) ==
  /\ UsableIntent(a) /\ ExecutionsOf(a) = {}
  /\ i \in ActiveIntents(a) /\ ~intents[i].due /\ Current(i)
  /\ intents' = [intents EXCEPT ![i].status = "CONSUMED"]
  /\ executions' = executions \cup {NewExecution(i, k)}
  /\ Answer(Request(k, a, intents[i].mode), NewExecution(i, k))
  /\ UNCHANGED approvals

\* execute_approved_plan, for an intent whose nonce the client was given.
Execute(a, i, k) ==
  /\ stageOpen
  /\ i \in DOMAIN intents
  /\ \/ ExecuteAgain(a, i, k)
     \/ WithKey(k) = {} /\ (ApprovalExpires(a) \/ IntentExpires(a, i) \/ Consume(a, i, k))
  /\ UNCHANGED <<stageOpen, qbTarget, confirming>>

----------------------------------------------------------------------------
\* confirm_candidate_download.

\* find_idempotent_candidate_execution.
Replayed(asked) ==
  /\ \E e \in WithKey(asked.key) : /\ e.approval = asked.approval /\ e.mode = asked.mode
                                   /\ Answer(asked, e)
  /\ UNCHANGED <<approvals, intents, executions>>

\* A replay is answered whatever the stage is; otherwise a pending approval is
\* found or made (get_or_create_pending_approval_request).
StartConfirm(c, k, a, mode) ==
  /\ confirming[c] = NoRequest
  /\ \/ Replayed(Request(k, a, mode)) /\ UNCHANGED confirming
     \/ /\ WithKey(k) = {} /\ stageOpen
        /\ approvals[a].status = "PENDING"
        /\ confirming' = [confirming EXCEPT ![c] = Request(k, a, mode)]
        /\ UNCHANGED <<approvals, intents, executions, answers>>
  /\ UNCHANGED <<stageOpen, qbTarget>>

\* The plan, the intent and the execution in one transaction, on a copy of the
\* row that is still PENDING.  A second plan breaks the unique index.
ConfirmGrants(asked) ==
  LET a == asked.approval IN
  /\ ~approvals[a].planned
  /\ WithKey(asked.key) = {}
  /\ Len(intents) < MaxIntents
  /\ approvals' = [approvals EXCEPT ![a].status = "APPROVED", ![a].planned = TRUE]
  /\ intents' = Append(intents, NewIntent(a, asked.mode, "CONSUMED"))
  /\ executions' = executions \cup {NewExecution(Len(intents'), asked.key)}
  /\ Answer(asked, NewExecution(Len(intents'), asked.key))

\* IntegrityError: rolled back, and looked up by its key.
ConfirmLoses(asked) == approvals[asked.approval].planned /\ Replayed(asked)

FinishConfirm(c) ==
  /\ confirming[c] /= NoRequest
  /\ stageOpen
  /\ ConfirmGrants(confirming[c]) \/ ConfirmLoses(confirming[c])
  /\ confirming' = [confirming EXCEPT ![c] = NoRequest]
  /\ UNCHANGED <<stageOpen, qbTarget>>

\* Blocked, refused, in conflict, or cut off.
DropConfirm(c) ==
  /\ confirming[c] /= NoRequest
  /\ confirming' = [confirming EXCEPT ![c] = NoRequest]
  /\ UNCHANGED <<stageOpen, qbTarget, approvals, intents, executions, answers>>

----------------------------------------------------------------------------
\* An approval and its execution in one transaction of the automation
\* (maybe_create_automatic_execution), always paused, under a key of its own.
AutomaticGrant(a) ==
  /\ stageOpen
  /\ approvals[a].status = "PENDING"
  /\ Len(intents) < MaxIntents
  /\ approvals' = [approvals EXCEPT ![a].status = "APPROVED", ![a].planned = TRUE]
  /\ intents' = Append(intents, NewIntent(a, "ADD_PAUSED", "CONSUMED"))
  /\ executions' = executions \cup {NewExecution(Len(intents'), RandomKey)}
  /\ UNCHANGED <<stageOpen, qbTarget, confirming, answers>>

\* The rest of the review: approved by an operator, or rejected, revoked,
\* expired, and later executed.
Review(a) ==
  /\ \/ /\ approvals[a].status = "PENDING"
        /\ approvals' = [approvals EXCEPT ![a].status = "APPROVED", ![a].planned = TRUE]
     \/ /\ approvals[a].status /= "ENDED"
        /\ approvals' = [approvals EXCEPT ![a].status = "ENDED"]
  /\ UNCHANGED <<stageOpen, qbTarget, intents, executions, confirming, answers>>

TimePasses ==
  /\ \/ \E a \in Approvals : /\ approvals[a].status = "APPROVED"
                             /\ approvals' = [approvals EXCEPT ![a].status = "LAPSED"]
                             /\ UNCHANGED intents
     \/ \E i \in DOMAIN intents : /\ intents[i].status = "ACTIVE" /\ ~intents[i].due
                                  /\ intents' = [intents EXCEPT ![i].due = TRUE]
                                  /\ UNCHANGED approvals
  /\ UNCHANGED <<stageOpen, qbTarget, executions, confirming, answers>>

\* The administrator changes the policy, or the qBittorrent target.
Administer ==
  /\ \/ stageOpen' = ~stageOpen /\ UNCHANGED qbTarget
     \/ qbTarget' \in Targets \ {qbTarget} /\ UNCHANGED stageOpen
  /\ UNCHANGED <<approvals, intents, executions, confirming, answers>>

IntentsNext ==
  \/ \E a \in Approvals : Review(a) \/ AutomaticGrant(a)
  \/ \E a \in Approvals, mode \in LaunchModes : CreateIntent(a, mode)
  \/ \E a \in Approvals, i \in 1..MaxIntents, k \in Keys : Execute(a, i, k)
  \/ \E c \in Clients, k \in Keys, a \in Approvals, mode \in LaunchModes :
       StartConfirm(c, k, a, mode)
  \/ \E c \in Clients : FinishConfirm(c) \/ DropConfirm(c)
  \/ TimePasses \/ Administer

IntentsSpec == IntentsInit /\ [][IntentsNext]_intentVars

----------------------------------------------------------------------------
\* Behind every execution is one intent that was used for it, made for the same
\* approval, launch mode and target; no other can be used once it is there, and
\* none is used up without it (create_execution_intent, execute_approved_plan).
IntentBacksExecution ==
  /\ \A e \in executions : LET i == intents[e.intent] IN
       /\ i.status = "CONSUMED"
       /\ <<i.approval, i.mode, i.target>> = <<e.approval, e.mode, e.target>>
       /\ ActiveIntents(e.approval) = {}
       /\ \A d \in executions \ {e} : d.approval /= e.approval /\ d.intent /= e.intent
  /\ \A i \in DOMAIN intents : intents[i].status = "CONSUMED" =>
       \E e \in executions : e.intent = i

\* A client that repeats a key, whichever way it asks, is told of one request
\* and one execution (docs/architecture.md: the same key and the same request
\* give the original record, another request with the key is a conflict).
AnswersAgree == \A x, y \in answers : x.asked.key = y.asked.key => x = y
===============================================================================
