------------------------- MODULE ApprovalReviewProofs -------------------------
(***************************************************************************)
(* What ApprovalReview promises for any requests, candidates, handlers,    *)
(* workers and policies.                                                   *)
(*                                                                         *)
(* A handler writes on a copy of the row that may be outdated, so nothing  *)
(* can be concluded from the status it has seen.  The proof therefore      *)
(* looks at what a write may change: it leaves the plan alone, or it is a  *)
(* grant, which both unique indexes let pass only for a row without a plan *)
(* and without a rival.                                                    *)
(***************************************************************************)
EXTENDS ApprovalReview, TLAPS

Row == [status : Statuses, due : BOOLEAN, revision : 1..MaxRevision,
        preflight : Evidence \cup {NoEvidence}, plan : Evidence \cup {NoEvidence},
        grantedBy : Actors, execution : Actors]

\* Types, but for what the workers remember of their attempt.
RowInv ==
  /\ approvals \in [Approvals -> Row]
  /\ policies \in [1..MaxRevision -> Policies]
  /\ head \in 1..MaxRevision /\ config \in 1..MaxConfig
  /\ runs \in [Approvals -> Nat]
  /\ workerConfig \in [Workers -> 1..MaxConfig]

\* A row was born under a policy that there is by now, and whoever granted it
\* has left a plan.
BirthInv == \A a \in Approvals :
  /\ approvals[a].revision <= head
  /\ approvals[a].grantedBy # "NOBODY" => approvals[a].plan # NoEvidence

\* What the writes of rows keep, and what is kept of the requests, jobs and
\* workers beside them.
RowsInv == /\ RowInv /\ PlanBacksStatus /\ OneLivePerCandidate
           /\ BirthInv /\ AutomationIsEntitled

Job == [status : JobStatuses, number : Nat, attempts : 0..MaxAttempts, lapsed : BOOLEAN]
Attempt == [step : WorkerSteps, approval : Approvals, number : Nat,
            attempt : 1..MaxAttempts, seen : Evidence \cup {NoEvidence}]

WorkInv ==
  /\ jobs    \in [Approvals -> Job]
  /\ queued  \in [Approvals -> Nat]
  /\ \A a \in Approvals : jobs[a].number <= MaxJobs[a]
  /\ request \in [Handlers -> {NoWork} \cup
       [kind : RequestKinds, approval : Approvals, config : 1..MaxConfig]]
  /\ work    \in [Workers -> {NoWork} \cup Attempt]
  /\ OneAutomaticVerdict

IInv == RowsInv /\ WorkInv

USE DEF LiveStatuses, Statuses, Actors, Passable

----------------------------------------------------------------------------
\* Writes of a row.

\* The plan and who granted it stay; the status stays with the plan, and no
\* ended row comes to life.
Quiet(old, new) ==
  /\ new \in Row
  /\ new.plan = old.plan /\ new.grantedBy = old.grantedBy /\ new.revision = old.revision
  /\ new.execution # "NOBODY" => old.execution # "NOBODY" \/ old.plan # NoEvidence
  /\ new.status \in {"APPROVED", "EXECUTING", "REVOKED", "CONSUMED"} => old.plan # NoEvidence
  /\ new.status \in {"NONE", "PENDING", "REJECTED"} => old.plan = NoEvidence
  /\ new.status \in LiveStatuses => old.status \in LiveStatuses
  /\ new.status = "APPROVED" => old.status = "APPROVED"

\* approve_request, by whomever.
Grants(old, new) ==
  /\ new \in Row
  /\ old.plan = NoEvidence
  /\ new.status = "APPROVED" /\ new.revision = old.revision
  /\ new.plan # NoEvidence /\ new.plan.verdict \in Passable
  /\ new.plan = new.preflight
  /\ new.grantedBy = "AUTOMATION" =>
       new.plan.verdict = "PASS" /\ policies[old.revision].approval = "AUTO_IF_ELIGIBLE"

\* A result is none of nothing.
LEMMA ResultIsEvidence ==
  ASSUME RowInv, NEW a \in Approvals, NEW v \in Verdicts, NEW c \in 1..MaxConfig
  PROVE  /\ Result(a, v, c) \in Evidence /\ Result(a, v, c) # NoEvidence
         /\ Result(a, v, c).verdict = v /\ Result(a, v, c).config = c
<1>1. runs[a] \in Nat /\ runs[a] + 1 \in Nat \ {0} BY DEF RowInv
<1>2. c \in Nat BY BoundsAssumption
<1>3. Result(a, v, c) = [verdict |-> v, config |-> c, run |-> runs[a] + 1] BY DEF Result
<1>4. Result(a, v, c) \in Evidence BY <1>1, <1>3 DEF Evidence
<1>5. Result(a, v, c) \in [verdict : Verdicts, config : Nat, run : Nat] BY <1>1, <1>2, <1>3
<1> QED BY <1>3, <1>4, <1>5, NoEvidenceAssumption

LEMMA QuietKeeps ==
  ASSUME RowsInv, NEW a \in Approvals, NEW new, Quiet(approvals[a], new),
         approvals' = [approvals EXCEPT ![a] = new],
         UNCHANGED policyVars, UNCHANGED workerConfig, runs' \in [Approvals -> Nat]
  PROVE  RowsInv' /\ \A b \in Approvals : ~IsGranted(b)
<1>1. \A b \in Approvals : approvals'[b] = IF b = a THEN new ELSE approvals[b]
  BY DEF RowsInv, RowInv
<1>2. RowInv' BY DEF RowsInv, RowInv, Quiet, policyVars
<1>3. PlanBacksStatus'
  <2> SUFFICES ASSUME NEW b \in Approvals
               PROVE  /\ approvals'[b].status \in {"APPROVED", "EXECUTING", "REVOKED", "CONSUMED"}
                           => approvals'[b].plan # NoEvidence
                      /\ approvals'[b].plan # NoEvidence
                           => approvals'[b].status \notin {"NONE", "PENDING", "REJECTED"}
                      /\ approvals'[b].execution # "NOBODY" => approvals'[b].plan # NoEvidence
    BY DEF PlanBacksStatus
  <2> QED BY <1>1 DEF RowsInv, PlanBacksStatus, Quiet
<1>4. OneLivePerCandidate'
  <2>1. \A b \in Approvals : Live(b)' => Live(b) BY <1>1 DEF Live, Quiet
  <2> QED BY <2>1 DEF RowsInv, OneLivePerCandidate
<1>5. BirthInv' BY <1>1 DEF RowsInv, BirthInv, Quiet, policyVars
<1>6. AutomationIsEntitled' BY <1>1 DEF RowsInv, AutomationIsEntitled, Quiet, policyVars
<1>7. \A b \in Approvals : ~IsGranted(b) BY <1>1 DEF IsGranted, Quiet
<1> QED BY <1>2, <1>3, <1>4, <1>5, <1>6, <1>7 DEF RowsInv

LEMMA GrantKeeps ==
  ASSUME RowsInv, NEW a \in Approvals, NEW new, Grants(approvals[a], new), Rivals(a) = {},
         approvals' = [approvals EXCEPT ![a] = new],
         UNCHANGED policyVars, UNCHANGED workerConfig, runs' \in [Approvals -> Nat]
  PROVE  RowsInv' /\ approvals'[a] = new /\ \A b \in Approvals : IsGranted(b) => b = a
<1>1. \A b \in Approvals : approvals'[b] = IF b = a THEN new ELSE approvals[b]
  BY DEF RowsInv, RowInv
<1>2. RowInv' BY DEF RowsInv, RowInv, Grants, policyVars
<1>3. PlanBacksStatus'
  <2> SUFFICES ASSUME NEW b \in Approvals
               PROVE  /\ approvals'[b].status \in {"APPROVED", "EXECUTING", "REVOKED", "CONSUMED"}
                           => approvals'[b].plan # NoEvidence
                      /\ approvals'[b].plan # NoEvidence
                           => approvals'[b].status \notin {"NONE", "PENDING", "REJECTED"}
                      /\ approvals'[b].execution # "NOBODY" => approvals'[b].plan # NoEvidence
    BY DEF PlanBacksStatus
  <2> QED BY <1>1 DEF RowsInv, PlanBacksStatus, Grants
<1>4. OneLivePerCandidate'
  <2>1. \A b \in Approvals \ {a} : Live(b)' <=> Live(b) BY <1>1 DEF Live
  <2>2. \A b \in Approvals \ {a} : CandidateOf[b] = CandidateOf[a] => ~Live(b)'
    BY <2>1 DEF Rivals
  <2> QED BY <2>1, <2>2 DEF RowsInv, OneLivePerCandidate
<1>5. BirthInv' BY <1>1 DEF RowsInv, BirthInv, Grants, policyVars
<1>6. AutomationIsEntitled' BY <1>1 DEF RowsInv, AutomationIsEntitled, Grants, policyVars
<1>7. \A b \in Approvals : IsGranted(b) => b = a BY <1>1 DEF IsGranted
<1> QED BY <1>1, <1>2, <1>3, <1>4, <1>5, <1>6, <1>7 DEF RowsInv

\* create_approval_request, the rivals' expiry included.
LEMMA CreationKeeps ==
  ASSUME RowsInv, NEW a \in Approvals, Creatable(a), approvals' = Created(a),
         UNCHANGED policyVars, UNCHANGED workerConfig, UNCHANGED runs
  PROVE  RowsInv' /\ \A b \in Approvals : ~IsGranted(b)
<1> DEFINE new == [NoApproval EXCEPT !.status = "PENDING", !.revision = head]
<1>1. new \in Row /\ new.status = "PENDING" /\ new.plan = NoEvidence
      /\ new.revision = head /\ new.grantedBy = "NOBODY" /\ new.execution = "NOBODY"
  BY DEF NoApproval, Row, RowsInv, RowInv
<1>2. approvals'[a] = new
  <2>1. a \notin Rivals(a) BY DEF Rivals
  <2>2. approvals' = [b \in Approvals |->
          CASE b = a           -> new
            [] b \in Rivals(a) -> [approvals[b] EXCEPT !.status = "EXPIRED"]
            [] OTHER           -> approvals[b]]
    BY DEF Created
  <2> HIDE DEF new
  <2> QED BY <2>1, <2>2
<1> HIDE DEF new
<1>3. \A b \in Rivals(a) :
        /\ b \in Approvals
        /\ approvals'[b] = [approvals[b] EXCEPT !.status = "EXPIRED"]
  BY DEF Created, Rivals
<1>4. \A b \in Approvals : b # a /\ b \notin Rivals(a) => approvals'[b] = approvals[b]
  BY DEF Created
<1>5. \A b \in Rivals(a) :
        /\ approvals'[b] \in Row /\ approvals'[b].status = "EXPIRED"
        /\ approvals'[b].plan = approvals[b].plan
        /\ approvals'[b].grantedBy = approvals[b].grantedBy
        /\ approvals'[b].revision = approvals[b].revision
        /\ approvals'[b].execution = approvals[b].execution
  <2> SUFFICES ASSUME NEW b \in Rivals(a)
               PROVE  LET old == approvals[b]
                          end == [old EXCEPT !.status = "EXPIRED"]
                      IN /\ end \in Row /\ end.status = "EXPIRED" /\ end.plan = old.plan
                         /\ end.grantedBy = old.grantedBy /\ end.revision = old.revision
                         /\ end.execution = old.execution
    BY <1>3
  <2>1. approvals[b] \in Row BY <1>3 DEF RowsInv, RowInv
  <2> QED BY <2>1 DEF Row
<1>6. RowInv'
  <2>1. \A b \in Approvals : approvals'[b] \in Row
    BY <1>1, <1>2, <1>4, <1>5 DEF RowsInv, RowInv
  <2>2. approvals' \in [Approvals -> Row] BY <2>1 DEF Created
  <2> QED BY <2>2 DEF RowsInv, RowInv, policyVars
<1>7. PlanBacksStatus' BY <1>1, <1>2, <1>4, <1>5 DEF RowsInv, PlanBacksStatus
<1>8. OneLivePerCandidate'
  <2>1. \A b \in Approvals \ {a} : Live(b)' => Live(b) /\ b \notin Rivals(a)
    BY <1>4, <1>5 DEF Live
  <2>2. \A b \in Approvals \ {a} : CandidateOf[b] = CandidateOf[a] => ~Live(b)'
    BY <2>1 DEF Rivals
  <2> QED BY <2>1, <2>2 DEF RowsInv, OneLivePerCandidate
<1>9. BirthInv' BY <1>1, <1>2, <1>4, <1>5 DEF RowsInv, RowInv, BirthInv, policyVars
<1>10. AutomationIsEntitled'
  BY <1>1, <1>2, <1>4, <1>5 DEF RowsInv, AutomationIsEntitled, policyVars
<1>11. \A b \in Approvals : ~IsGranted(b) BY <1>1, <1>2, <1>4, <1>5 DEF IsGranted
<1> QED BY <1>6, <1>7, <1>8, <1>9, <1>10, <1>11 DEF RowsInv

\* What operators, the clock and the executor do to a status.
LEMMA StatusIsQuiet ==
  ASSUME RowsInv, NEW a \in Approvals,
         NEW s \in {"REJECTED", "REVOKED", "EXPIRED", "EXECUTING", "CONSUMED"},
         s = "REJECTED" => approvals[a].status = "PENDING",
         s \in {"REVOKED", "EXECUTING"} => approvals[a].status = "APPROVED",
         s = "CONSUMED" => approvals[a].status = "EXECUTING"
  PROVE  Quiet(approvals[a], [approvals[a] EXCEPT !.status = s])
<1> DEFINE old == approvals[a]
           new == [old EXCEPT !.status = s]
<1>1. old \in Row BY DEF RowsInv, RowInv
<1>2. /\ old.status \in {"APPROVED", "EXECUTING"} => old.plan # NoEvidence
      /\ old.status = "PENDING" => old.plan = NoEvidence
      /\ s = "REJECTED" => old.status = "PENDING"
      /\ s \in {"REVOKED", "EXECUTING"} => old.status = "APPROVED"
      /\ s = "CONSUMED" => old.status = "EXECUTING"
  BY DEF RowsInv, PlanBacksStatus
<1> HIDE DEF old
<1>3. /\ new \in Row /\ new.status = s
      /\ new.plan = old.plan /\ new.grantedBy = old.grantedBy
      /\ new.revision = old.revision /\ new.execution = old.execution
  BY <1>1 DEF Row
<1>4. Quiet(old, new)
  <2> HIDE DEF new
  <2> QED BY <1>2, <1>3 DEF Quiet
<1> QED BY <1>4 DEF old

\* save_preflight_result.
LEMMA StoringIsQuiet ==
  ASSUME RowsInv, NEW a \in Approvals, NEW e \in Evidence
  PROVE  Quiet(approvals[a], Stored(approvals[a], e))
<1> DEFINE old == approvals[a]
           new == Stored(old, e)
<1>1. old \in Row BY DEF RowsInv, RowInv
<1>2. /\ old.status \in {"APPROVED", "EXECUTING", "REVOKED", "CONSUMED"}
           => old.plan # NoEvidence
      /\ old.status \in {"NONE", "PENDING", "REJECTED"} => old.plan = NoEvidence
      /\ old.execution # "NOBODY" => old.plan # NoEvidence
  BY DEF RowsInv, PlanBacksStatus
<1> HIDE DEF old
<1>3. /\ new \in Row /\ new.status = old.status
      /\ new.plan = old.plan /\ new.grantedBy = old.grantedBy
      /\ new.revision = old.revision /\ new.execution = old.execution
  BY <1>1 DEF Row, Stored
<1>4. Quiet(old, new) BY <1>2, <1>3 DEF Quiet
<1> QED BY <1>4 DEF old

\* approve_request: the plan is made of the result it stores.
LEMMA GrantingGrants ==
  ASSUME RowsInv, NEW a \in Approvals, NEW v \in Verdicts, v \in Passable,
         NEW c \in 1..MaxConfig, NEW actor \in {"OPERATOR", "AUTOMATION"}, NEW x \in Actors,
         Insertable(a), actor = "AUTOMATION" => v = "PASS" /\ Automatic(a)
  PROVE  LET new == Granted(approvals[a], Result(a, v, c), actor, x)
         IN  Grants(approvals[a], new) /\ new.plan = Result(a, v, c)
<1> DEFINE old == approvals[a]
           e == Result(a, v, c)
           new == Granted(old, e, actor, x)
<1>1. old \in Row BY DEF RowsInv, RowInv
<1>2. old.plan = NoEvidence BY DEF Insertable
<1>3. e \in Evidence /\ e # NoEvidence /\ e.verdict = v BY ResultIsEvidence DEF RowsInv
<1>4. actor = "AUTOMATION" => policies[old.revision].approval = "AUTO_IF_ELIGIBLE"
  BY DEF Automatic, Current
<1> HIDE DEF old, e
<1>5. /\ new \in Row /\ new.status = "APPROVED" /\ new.revision = old.revision
      /\ new.plan = e /\ new.preflight = e /\ new.grantedBy = actor
  BY <1>1, <1>3 DEF Row, Granted
<1>6. Grants(old, new) BY <1>2, <1>3, <1>4, <1>5 DEF Grants
<1> QED BY <1>5, <1>6 DEF old, e

----------------------------------------------------------------------------
\* One transaction after another.

\* What GrantIsJustified says of a step.
Justified == \A a \in Approvals : IsGranted(a) =>
  /\ approvals[a].plan = NoEvidence
  /\ approvals'[a].plan # NoEvidence
  /\ approvals'[a].plan.verdict \in Passable
  /\ approvals'[a].plan = approvals'[a].preflight
  /\ ~approvals[a].due
  /\ Enabled("approval")
  /\ request' # request => approvals'[a].plan.config = config

RowsKept == RowsInv' /\ Justified

\* Steps that write no row.
LEMMA NoWriteStep ==
  ASSUME IInv, UNCHANGED approvals, UNCHANGED runs,
         policies' \in [1..MaxRevision -> Policies], head' \in 1..MaxRevision,
         head <= head', \A n \in 1..head : policies'[n] = policies[n],
         config' \in 1..MaxConfig, workerConfig' \in [Workers -> 1..MaxConfig]
  PROVE  RowsKept
<1>1. RowInv' /\ PlanBacksStatus' BY DEF IInv, RowsInv, RowInv, PlanBacksStatus
<1>2. OneLivePerCandidate'
  <2>1. \A b \in Approvals : Live(b)' <=> Live(b) BY DEF Live
  <2> QED BY <2>1 DEF IInv, RowsInv, OneLivePerCandidate
<1>3. \A b \in Approvals : approvals[b].revision \in 1..MaxRevision
  BY DEF IInv, RowsInv, RowInv, Row
<1>4. head \in Nat /\ head' \in Nat BY DEF IInv, RowsInv, RowInv
<1>5. BirthInv'
  <2>1. \A n \in 1..MaxRevision : n <= head => n <= head' BY <1>4, BoundsAssumption
  <2> QED BY <1>3, <2>1 DEF IInv, RowsInv, BirthInv
<1>6. AutomationIsEntitled'
  <2>1. \A b \in Approvals : approvals[b].revision \in 1..head
    BY <1>3, <1>4, BoundsAssumption DEF IInv, RowsInv, BirthInv
  <2> QED BY <2>1 DEF IInv, RowsInv, AutomationIsEntitled
<1>7. Justified BY DEF Justified, IsGranted
<1> QED BY <1>1, <1>2, <1>5, <1>6, <1>7 DEF RowsInv, RowsKept

LEMMA StillStep ==
  ASSUME IInv, UNCHANGED <<approvals, policyVars, runs>>,
         workerConfig' \in [Workers -> 1..MaxConfig] \/ UNCHANGED workerConfig
  PROVE  RowsKept
<1>1. /\ policies \in [1..MaxRevision -> Policies] /\ head \in 1..MaxRevision
      /\ config \in 1..MaxConfig /\ workerConfig \in [Workers -> 1..MaxConfig]
  BY DEF IInv, RowsInv, RowInv
<1>2. /\ UNCHANGED <<approvals, policies, head, config, runs>>
      /\ workerConfig' \in [Workers -> 1..MaxConfig]
  BY <1>1 DEF policyVars
<1>3. head <= head' BY <1>1, <1>2, BoundsAssumption
<1> QED BY <1>1, <1>2, <1>3, NoWriteStep

\* Steps that write one row, but grant nothing.
LEMMA QuietStep ==
  ASSUME IInv, NEW a \in Approvals, NEW new, Quiet(approvals[a], new), Write(a, new),
         UNCHANGED policyVars, UNCHANGED workerConfig, runs' \in [Approvals -> Nat]
  PROVE  RowsKept
BY QuietKeeps DEF IInv, Write, RowsKept, Justified

\* A grant is justified by what its transaction has looked at.
LEMMA GrantStep ==
  ASSUME IInv, NEW a \in Approvals, NEW v \in Verdicts, v \in Passable,
         NEW c \in 1..MaxConfig, NEW actor \in {"OPERATOR", "AUTOMATION"}, NEW x \in Actors,
         Insertable(a), actor = "AUTOMATION" => v = "PASS" /\ Automatic(a),
         ~approvals[a].due, Enabled("approval"), request' # request => c = config,
         Write(a, Granted(approvals[a], Result(a, v, c), actor, x)),
         UNCHANGED policyVars, UNCHANGED workerConfig, runs' \in [Approvals -> Nat]
  PROVE  RowsKept
<1> DEFINE new == Granted(approvals[a], Result(a, v, c), actor, x)
<1>1. Grants(approvals[a], new) /\ new.plan = Result(a, v, c) BY GrantingGrants DEF IInv
<1>2. Result(a, v, c).config = c BY ResultIsEvidence DEF IInv, RowsInv
<1> HIDE DEF new
<1>3. approvals' = [approvals EXCEPT ![a] = new] BY DEF Write, new
<1>4. RowsInv' /\ approvals'[a] = new /\ \A b \in Approvals : IsGranted(b) => b = a
  BY <1>1, <1>3, GrantKeeps DEF IInv, Insertable
<1>5. Justified BY <1>1, <1>2, <1>4 DEF Justified, Grants
<1> QED BY <1>4, <1>5 DEF RowsKept

LEMMA CreationStep ==
  ASSUME IInv, NEW a \in Approvals, Creatable(a), approvals' = Created(a),
         UNCHANGED policyVars, UNCHANGED workerConfig, UNCHANGED runs
  PROVE  RowsKept
BY CreationKeeps DEF IInv, RowsKept, Justified

----------------------------------------------------------------------------
\* The actions, as such steps.

LEMMA InHandIsTyped ==
  ASSUME IInv
  PROVE  /\ \A h \in Handlers : request[h] # NoWork =>
              request[h].approval \in Approvals /\ request[h].config \in 1..MaxConfig
         /\ \A w \in Workers : work[w] # NoWork => work[w].approval \in Approvals
         /\ \A w \in Workers : workerConfig[w] \in 1..MaxConfig
         /\ config \in 1..MaxConfig
BY DEF IInv, WorkInv, RowsInv, RowInv, Attempt

LEMMA CountingIsTyped ==
  ASSUME IInv, NEW a \in Approvals
  PROVE  /\ CountRun(a) => runs' \in [Approvals -> Nat]
         /\ UNCHANGED runs => runs' \in [Approvals -> Nat]
         /\ AutomaticExecution \subseteq Actors
<1>1. runs \in [Approvals -> Nat] BY DEF IInv, RowsInv, RowInv
<1>2. CountRun(a) => runs' = [runs EXCEPT ![a] = @ + 1] BY DEF CountRun
<1>3. runs[a] + 1 \in Nat BY <1>1
<1>4. CountRun(a) => runs' \in [Approvals -> Nat] BY <1>1, <1>2, <1>3
<1>5. AutomaticExecution \subseteq Actors BY DEF AutomaticExecution
<1> QED BY <1>1, <1>4, <1>5

\* The three ends of a handler's second transaction, on a copy of the row.
LEMMA CopyExpiresStep ==
  ASSUME IInv, NEW h \in Handlers, request[h] # NoWork, CopyExpires(h),
         UNCHANGED policyVars, UNCHANGED workerConfig
  PROVE  RowsKept
<1> DEFINE a == request[h].approval
<1>1. a \in Approvals BY InHandIsTyped
<1>2. Write(a, [approvals[a] EXCEPT !.status = "EXPIRED"]) /\ UNCHANGED runs
  BY DEF CopyExpires
<1> HIDE DEF a
<1>3. runs' \in [Approvals -> Nat] BY <1>1, <1>2, CountingIsTyped
<1>4. Quiet(approvals[a], [approvals[a] EXCEPT !.status = "EXPIRED"])
  BY <1>1, StatusIsQuiet DEF IInv
<1> QED BY <1>1, <1>2, <1>3, <1>4, QuietStep

LEMMA CopyStoresStep ==
  ASSUME IInv, NEW h \in Handlers, request[h] # NoWork, NEW v \in Verdicts, CopyStores(h, v),
         UNCHANGED policyVars, UNCHANGED workerConfig
  PROVE  RowsKept
<1> DEFINE a == request[h].approval
           c == request[h].config
           e == Result(a, v, c)
<1>1. a \in Approvals /\ c \in 1..MaxConfig BY InHandIsTyped
<1>2. Write(a, Stored(approvals[a], e)) /\ CountRun(a) BY DEF CopyStores
<1> HIDE DEF a, c
<1>3. runs' \in [Approvals -> Nat] BY <1>1, <1>2, CountingIsTyped
<1>4. e \in Evidence BY <1>1, ResultIsEvidence DEF IInv, RowsInv
<1> HIDE DEF e
<1>5. Quiet(approvals[a], Stored(approvals[a], e)) BY <1>1, <1>4, StoringIsQuiet DEF IInv
<1> QED BY <1>1, <1>2, <1>3, <1>5, QuietStep

LEMMA CopyGrantedStep ==
  ASSUME IInv, NEW h \in Handlers, request[h] # NoWork, NEW v \in Verdicts, v \in Passable,
         NEW actor \in {"OPERATOR", "AUTOMATION"}, NEW x \in Actors,
         CopyGranted(h, v, actor, x), Enabled("approval"),
         actor = "AUTOMATION" => v = "PASS" /\ Automatic(request[h].approval),
         UNCHANGED policyVars, UNCHANGED workerConfig
  PROVE  RowsKept
<1> DEFINE a == request[h].approval
<1>1. a \in Approvals /\ config \in 1..MaxConfig BY InHandIsTyped
<1>2. /\ ~approvals[a].due /\ Insertable(a) /\ CountRun(a)
      /\ Write(a, Granted(approvals[a], Result(a, v, config), actor, x))
  BY DEF CopyGranted
<1>3. actor = "AUTOMATION" => v = "PASS" /\ Automatic(a) OBVIOUS
<1> HIDE DEF a
<1>4. runs' \in [Approvals -> Nat] BY <1>1, <1>2, CountingIsTyped
<1> QED BY <1>1, <1>2, <1>3, <1>4, GrantStep

\* An automatic approval stage is not disabled.
LEMMA AutomaticIsEnabled ==
  ASSUME NEW a \in Approvals, Automatic(a)
  PROVE  Enabled("approval")
BY DEF Automatic, Enabled, Current

LEMMA FinishStep ==
  ASSUME IInv, NEW h \in Handlers, Finish(h)
  PROVE  RowsKept
<1>1. CASE DropRequest(h)
  <2>1. UNCHANGED <<approvals, policyVars, runs, workerConfig>>
    BY <1>1 DEF DropRequest, workerVars
  <2> QED BY <2>1, StillStep
<1>2. ASSUME NEW v \in Verdicts, FinishApprove(h, v) PROVE RowsKept
  <2>1. /\ request[h] # NoWork /\ Enabled("approval")
        /\ UNCHANGED policyVars /\ UNCHANGED workerConfig
    BY <1>2 DEF FinishApprove, Finishing, workerVars
  <2>2. CASE CopyExpires(h) BY <2>1, <2>2, CopyExpiresStep
  <2>3. CASE CopyStores(h, v) BY <2>1, <2>3, CopyStoresStep
  <2>4. ASSUME NEW x \in AutomaticExecution, v \in Passable, CopyGranted(h, v, "OPERATOR", x)
        PROVE  RowsKept
    <3>1. request[h].approval \in Approvals BY <2>1, InHandIsTyped
    <3>2. x \in Actors BY <3>1, CountingIsTyped
    <3> QED BY <2>1, <2>4, <3>2, CopyGrantedStep
  <2> QED BY <1>2, <2>2, <2>3, <2>4 DEF FinishApprove
<1>3. ASSUME NEW v \in Verdicts, FinishConfirm(h, v) PROVE RowsKept
  <2>1. /\ request[h] # NoWork /\ Enabled("approval")
        /\ UNCHANGED policyVars /\ UNCHANGED workerConfig
    BY <1>3 DEF FinishConfirm, Finishing, workerVars
  <2>2. CASE CopyExpires(h) BY <2>1, <2>2, CopyExpiresStep
  <2>3. CASE CopyStores(h, v) BY <2>1, <2>3, CopyStoresStep
  <2>4. CASE v \in Passable /\ CopyGranted(h, v, "OPERATOR", "OPERATOR")
    BY <2>1, <2>4, CopyGrantedStep
  <2> QED BY <1>3, <2>2, <2>3, <2>4 DEF FinishConfirm
<1>4. ASSUME NEW v \in Verdicts, FinishPreflight(h, v) PROVE RowsKept
  <2> DEFINE a == request[h].approval
  <2>1. /\ request[h] # NoWork /\ UNCHANGED policyVars /\ UNCHANGED workerConfig
    BY <1>4 DEF FinishPreflight, Finishing, workerVars
  <2>2. CASE CopyExpires(h) BY <2>1, <2>2, CopyExpiresStep
  <2>3. CASE CopyStores(h, v) BY <2>1, <2>3, CopyStoresStep
  <2>4. ASSUME v = "PASS", Automatic(a), NEW x \in AutomaticExecution,
               CopyGranted(h, v, "AUTOMATION", x)
        PROVE  RowsKept
    <3>1. a \in Approvals BY <2>1, InHandIsTyped
    <3>2. x \in Actors BY <3>1, CountingIsTyped
    <3>3. Enabled("approval") BY <2>4, <3>1, AutomaticIsEnabled
    <3> QED BY <2>1, <2>4, <3>2, <3>3, CopyGrantedStep
  <2> QED BY <1>4, <2>2, <2>3, <2>4 DEF FinishPreflight
<1> QED BY <1>1, <1>2, <1>3, <1>4 DEF Finish

LEMMA OperatorStep ==
  ASSUME IInv, NEW a \in Approvals, Operator(a)
  PROVE  RowsKept
<1> USE CountingIsTyped
<1>1. CASE CreateRequest(a)
  BY <1>1, CreationStep DEF CreateRequest, workerVars
<1>2. CASE Reject(a)
  BY <1>2, StatusIsQuiet, QuietStep DEF Reject, Pending, workerVars, IInv
<1>3. CASE Revoke(a)
  BY <1>3, StatusIsQuiet, QuietStep DEF Revoke, workerVars, IInv
<1>4. CASE CreateExecution(a)
  <2> DEFINE old == approvals[a]
             new == [old EXCEPT !.execution = "OPERATOR"]
  <2>1. /\ old \in Row /\ old.plan # NoEvidence /\ old.status = "APPROVED"
        /\ UNCHANGED policyVars /\ UNCHANGED workerConfig /\ UNCHANGED runs
        /\ Write(a, new)
    BY <1>4 DEF CreateExecution, UsableApproval, PlanIntact, workerVars, IInv, RowsInv, RowInv
  <2> HIDE DEF old
  <2>2. /\ new \in Row /\ new.status = old.status /\ new.plan = old.plan
        /\ new.grantedBy = old.grantedBy /\ new.revision = old.revision
    BY <2>1 DEF Row
  <2> HIDE DEF new
  <2>3. Quiet(old, new) BY <2>1, <2>2 DEF Quiet
  <2> QED BY <2>1, <2>3, QuietStep DEF old
<1>5. ASSUME NEW h \in Handlers, StartApprove(h, a) \/ StartPreflight(h, a) PROVE RowsKept
  <2>1. UNCHANGED <<approvals, policyVars, runs, workerConfig>>
    BY <1>5 DEF StartApprove, StartPreflight, workerVars
  <2> QED BY <2>1, StillStep
<1>6. ASSUME NEW h \in Handlers, StartConfirm(h, a) PROVE RowsKept
  <2>1. CASE UNCHANGED approvals
    <3>1. UNCHANGED <<approvals, policyVars, runs, workerConfig>>
      BY <1>6, <2>1 DEF StartConfirm, workerVars
    <3> QED BY <3>1, StillStep
  <2>2. CASE Creatable(a) /\ approvals' = Created(a)
    BY <1>6, <2>2, CreationStep DEF StartConfirm, workerVars
  <2> QED BY <1>6, <2>1, <2>2 DEF StartConfirm
<1> QED BY <1>1, <1>2, <1>3, <1>4, <1>5, <1>6 DEF Operator

LEMMA WorkStep ==
  ASSUME IInv, NEW w \in Workers, Work(w) \/ \E a \in Approvals : ClaimJob(w, a)
  PROVE  RowsKept
<1>1. CASE \/ Prepare(w) \/ BindingRefused(w) \/ ReadFails(w) \/ Fail(w)
           \/ \E a \in Approvals : ClaimJob(w, a)
  <2>1. UNCHANGED <<approvals, policyVars, runs, workerConfig>>
    BY <1>1 DEF Prepare, BindingRefused, ReadFails, Fail, ClaimJob
  <2> QED BY <2>1, StillStep
<1>2. ASSUME NEW v \in Verdicts, Finalize(w, v) PROVE RowsKept
  <2> DEFINE a == work[w].approval
             c == workerConfig[w]
             e == Result(a, v, c)
  <2>1. a \in Approvals /\ c \in 1..MaxConfig BY <1>2, InHandIsTyped DEF Finalize
  <2>2. /\ Automatic(a) /\ ~approvals[a].due /\ CountRun(a)
        /\ UNCHANGED policyVars /\ UNCHANGED workerConfig /\ UNCHANGED request
    BY <1>2 DEF Finalize, Bound, Pending
  <2>3. \/ Write(a, Stored(approvals[a], e))
        \/ /\ v = "PASS" /\ Insertable(a)
           /\ \E x \in AutomaticExecution :
                Write(a, Granted(approvals[a], e, "AUTOMATION", x))
    BY <1>2 DEF Finalize
  <2> HIDE DEF a, c
  <2>4. runs' \in [Approvals -> Nat] BY <2>1, <2>2, CountingIsTyped
  <2>5. CASE Write(a, Stored(approvals[a], e))
    <3>1. e \in Evidence BY <2>1, ResultIsEvidence DEF IInv, RowsInv
    <3> HIDE DEF e
    <3>2. Quiet(approvals[a], Stored(approvals[a], e)) BY <2>1, <3>1, StoringIsQuiet DEF IInv
    <3> QED BY <2>1, <2>2, <2>4, <2>5, <3>2, QuietStep
  <2>6. ASSUME v = "PASS", Insertable(a), NEW x \in AutomaticExecution,
               Write(a, Granted(approvals[a], e, "AUTOMATION", x))
        PROVE  RowsKept
    <3>1. x \in Actors BY <2>1, CountingIsTyped
    <3>2. Enabled("approval") BY <2>1, <2>2, AutomaticIsEnabled
    <3> QED BY <2>1, <2>2, <2>4, <2>6, <3>1, <3>2, GrantStep
  <2> QED BY <2>3, <2>5, <2>6
<1> QED BY <1>1, <1>2 DEF Work

LEMMA EnvironmentStep ==
  ASSUME IInv, Environment
  PROVE  RowsKept
<1> USE CountingIsTyped
<1>1. CASE ChangeConfig
  <2>1. /\ config \in 1..MaxConfig /\ config < MaxConfig /\ config' = config + 1
        /\ head \in 1..MaxRevision /\ policies \in [1..MaxRevision -> Policies]
        /\ workerConfig \in [Workers -> 1..MaxConfig]
        /\ UNCHANGED <<approvals, policies, head, runs, workerConfig>>
    BY <1>1 DEF ChangeConfig, workerVars, IInv, RowsInv, RowInv
  <2>2. config' \in 1..MaxConfig /\ head <= head' BY <2>1, BoundsAssumption
  <2> QED BY <2>1, <2>2, NoWriteStep
<1>2. ASSUME NEW p \in Policies, PublishPolicy(p) PROVE RowsKept
  <2>1. /\ head \in 1..MaxRevision /\ head < MaxRevision /\ head' = head + 1
        /\ policies \in [1..MaxRevision -> Policies]
        /\ policies' = [policies EXCEPT ![head + 1] = p]
        /\ UNCHANGED <<approvals, config, runs, workerConfig>>
    BY <1>2 DEF PublishPolicy, workerVars, IInv, RowsInv, RowInv
  <2>2. /\ policies' \in [1..MaxRevision -> Policies] /\ head' \in 1..MaxRevision
        /\ head <= head' /\ \A n \in 1..head : policies'[n] = policies[n]
    BY <2>1, BoundsAssumption
  <2> QED BY <2>1, <2>2, NoWriteStep DEF IInv, RowsInv, RowInv
<1>3. ASSUME NEW w \in Workers, Restart(w) PROVE RowsKept
  <2>1. workerConfig' \in [Workers -> 1..MaxConfig]
    BY <1>3 DEF Restart, IInv, RowsInv, RowInv
  <2> QED BY <1>3, <2>1, StillStep DEF Restart
<1>4. ASSUME NEW a \in Approvals, RequeuePreflight(a) \/ LeaseLapses(a) PROVE RowsKept
  <2>1. UNCHANGED <<approvals, policyVars, runs, workerConfig>>
    BY <1>4 DEF RequeuePreflight, LeaseLapses, workerVars
  <2> QED BY <2>1, StillStep
<1>5. ASSUME NEW a \in Approvals, Expire(a) PROVE RowsKept
  BY <1>5, StatusIsQuiet, QuietStep DEF Expire, workerVars, IInv
<1>6. ASSUME NEW a \in Approvals, TimePasses(a) PROVE RowsKept
  <2> DEFINE old == approvals[a]
             new == [old EXCEPT !.due = TRUE]
  <2>1. /\ old \in Row /\ Write(a, new)
        /\ UNCHANGED policyVars /\ UNCHANGED workerConfig /\ UNCHANGED runs
    BY <1>6 DEF TimePasses, workerVars, IInv, RowsInv, RowInv
  <2>2. /\ old.status \in {"APPROVED", "EXECUTING", "REVOKED", "CONSUMED"}
             => old.plan # NoEvidence
        /\ old.status \in {"NONE", "PENDING", "REJECTED"} => old.plan = NoEvidence
        /\ old.execution # "NOBODY" => old.plan # NoEvidence
    BY DEF IInv, RowsInv, PlanBacksStatus
  <2> HIDE DEF old
  <2>3. /\ new \in Row /\ new.status = old.status /\ new.plan = old.plan
        /\ new.grantedBy = old.grantedBy /\ new.revision = old.revision
        /\ new.execution = old.execution
    BY <2>1 DEF Row
  <2> HIDE DEF new
  <2>4. Quiet(old, new) BY <2>1, <2>2, <2>3 DEF Quiet
  <2> QED BY <2>1, <2>4, QuietStep DEF old
<1>7. ASSUME NEW a \in Approvals, ExecutorReserves(a) PROVE RowsKept
  BY <1>7, StatusIsQuiet, QuietStep DEF ExecutorReserves, UsableApproval, workerVars, IInv
<1>8. ASSUME NEW a \in Approvals, ExecutorConsumes(a) PROVE RowsKept
  BY <1>8, StatusIsQuiet, QuietStep DEF ExecutorConsumes, workerVars, IInv
<1> QED BY <1>1, <1>2, <1>3, <1>4, <1>5, <1>6, <1>7, <1>8 DEF Environment

----------------------------------------------------------------------------
\* Requests, jobs and workers.

\* One job is written.
LEMMA JobWrite ==
  ASSUME WorkInv, NEW a \in Approvals, NEW job \in Job,
         jobs' = [jobs EXCEPT ![a] = job], job.number <= MaxJobs[a],
         queued' \in [Approvals -> Nat],
         \A b \in Approvals \ {a} : queued'[b] = queued[b],
         job.status = "SUCCEEDED" => job.number = queued'[a],
         UNCHANGED request, work' \in [Workers -> {NoWork} \cup Attempt]
  PROVE  WorkInv'
<1>1. jobs' \in [Approvals -> Job] BY DEF WorkInv
<1>2. \A b \in Approvals : jobs'[b] = IF b = a THEN job ELSE jobs[b] BY DEF WorkInv
<1>3. \A b \in Approvals : jobs'[b].number <= MaxJobs[b] BY <1>2 DEF WorkInv
<1>4. OneAutomaticVerdict' BY <1>2 DEF WorkInv, OneAutomaticVerdict
<1> QED BY <1>1, <1>3, <1>4 DEF WorkInv

\* No job is written.
LEMMA NoJobWrite ==
  ASSUME WorkInv, UNCHANGED jobVars,
         request' \in [Handlers -> {NoWork} \cup
           [kind : RequestKinds, approval : Approvals, config : 1..MaxConfig]],
         work' \in [Workers -> {NoWork} \cup Attempt]
  PROVE  WorkInv'
BY DEF WorkInv, jobVars, OneAutomaticVerdict

LEMMA EnqueueStep ==
  ASSUME WorkInv, NEW a \in Approvals, Enqueue(a), UNCHANGED request, UNCHANGED work
  PROVE  WorkInv'
<1> DEFINE job == [NoJob EXCEPT !.status = "PENDING", !.number = jobs[a].number + 1]
<1>1. jobs[a].number \in Nat /\ jobs[a].number < MaxJobs[a] /\ MaxJobs[a] \in Nat
  BY BoundsAssumption DEF WorkInv, Enqueue, Job
<1>2. /\ job \in Job /\ job.status = "PENDING" /\ job.number = jobs[a].number + 1
  <2> DEFINE blank == [NoJob EXCEPT !.status = "PENDING"]
  <2>1. NoJob \in Job BY BoundsAssumption DEF NoJob, Job, JobStatuses
  <2>2. blank \in Job /\ blank.status = "PENDING" BY <2>1 DEF Job, JobStatuses
  <2>3. job = [blank EXCEPT !.number = jobs[a].number + 1] OBVIOUS
  <2>4. jobs[a].number + 1 \in Nat BY <1>1
  <2> HIDE DEF blank, job
  <2> QED BY <2>2, <2>3, <2>4 DEF Job
<1>3. /\ jobs' = [jobs EXCEPT ![a] = job]
      /\ queued' = [queued EXCEPT ![a] = IF @ = 0 THEN jobs[a].number + 1 ELSE @]
  BY DEF Enqueue
<1> HIDE DEF job
<1>4. /\ queued' \in [Approvals -> Nat]
      /\ \A b \in Approvals \ {a} : queued'[b] = queued[b]
  BY <1>1, <1>3 DEF WorkInv
<1>5. job.number <= MaxJobs[a] BY <1>1, <1>2
<1>6. work' \in [Workers -> {NoWork} \cup Attempt] BY DEF WorkInv
<1> QED BY <1>2, <1>3, <1>4, <1>5, <1>6, JobWrite

\* Steps of the operators: requests in flight, and new jobs.
LEMMA OperatorWork ==
  ASSUME IInv, NEW a \in Approvals, Operator(a)
  PROVE  WorkInv'
<1>1. CASE CreateRequest(a)
  <2>1. UNCHANGED request /\ UNCHANGED work BY <1>1 DEF CreateRequest, workerVars
  <2>2. CASE UNCHANGED jobVars BY <2>1, <2>2, NoJobWrite DEF IInv, WorkInv
  <2>3. CASE Enqueue(a) BY <2>1, <2>3, EnqueueStep DEF IInv
  <2> QED BY <1>1, <2>2, <2>3 DEF CreateRequest
<1>2. CASE Reject(a) \/ Revoke(a) \/ CreateExecution(a)
  <2>1. UNCHANGED <<jobVars, request, work>>
    BY <1>2 DEF Reject, Revoke, CreateExecution, workerVars
  <2> QED BY <2>1, NoJobWrite DEF IInv, WorkInv
<1>3. ASSUME NEW h \in Handlers, StartApprove(h, a) \/ StartConfirm(h, a) \/ StartPreflight(h, a)
      PROVE  WorkInv'
  <2>1. UNCHANGED <<jobVars, work>>
    BY <1>3 DEF StartApprove, StartConfirm, StartPreflight, workerVars
  <2>2. PICK kind \in RequestKinds : request' = [request EXCEPT ![h] = InFlight(a, kind)]
    BY <1>3 DEF StartApprove, StartConfirm, StartPreflight, RequestKinds
  <2>3. InFlight(a, kind) \in [kind : RequestKinds, approval : Approvals, config : 1..MaxConfig]
    BY InHandIsTyped DEF InFlight
  <2>4. request' \in [Handlers -> {NoWork} \cup
          [kind : RequestKinds, approval : Approvals, config : 1..MaxConfig]]
    BY <2>2, <2>3 DEF IInv, WorkInv
  <2> QED BY <2>1, <2>4, NoJobWrite DEF IInv, WorkInv
<1> QED BY <1>1, <1>2, <1>3 DEF Operator

LEMMA FinishWork ==
  ASSUME IInv, NEW h \in Handlers, Finish(h)
  PROVE  WorkInv'
<1>1. UNCHANGED <<jobVars, work>> /\ request' = [request EXCEPT ![h] = NoWork]
  BY DEF Finish, DropRequest, FinishApprove, FinishConfirm, FinishPreflight, Done, workerVars
<1>2. request' \in [Handlers -> {NoWork} \cup
        [kind : RequestKinds, approval : Approvals, config : 1..MaxConfig]]
  BY <1>1 DEF IInv, WorkInv
<1> QED BY <1>1, <1>2, NoJobWrite DEF IInv, WorkInv

\* Steps of the worker, on a job that it owns.
LEMMA WorkerWork ==
  ASSUME IInv, NEW w \in Workers, Work(w) \/ \E a \in Approvals : ClaimJob(w, a)
  PROVE  WorkInv'
<1>1. work \in [Workers -> {NoWork} \cup Attempt] /\ jobs \in [Approvals -> Job]
  BY DEF IInv, WorkInv
<1>2. ASSUME NEW a \in Approvals, ClaimJob(w, a) PROVE WorkInv'
  <2> DEFINE old == jobs[a]
             job == [old EXCEPT !.status = "RUNNING", !.lapsed = FALSE, !.attempts = @ + 1]
             try == [step |-> "claimed", approval |-> a, number |-> old.number,
                     attempt |-> old.attempts + 1, seen |-> NoEvidence]
  <2>1. /\ old \in Job /\ old.attempts < MaxAttempts /\ old.number <= MaxJobs[a]
        /\ jobs' = [jobs EXCEPT ![a] = job] /\ work' = [work EXCEPT ![w] = try]
        /\ UNCHANGED queued /\ UNCHANGED request
    BY <1>1, <1>2 DEF ClaimJob, Claimable, IInv, WorkInv
  <2> HIDE DEF old
  <2>2. old.attempts + 1 \in 1..MaxAttempts BY <2>1, BoundsAssumption DEF Job
  <2>3. job \in Job /\ job.number = old.number /\ job.status = "RUNNING"
    <3> DEFINE run  == [old EXCEPT !.status = "RUNNING"]
               kept == [run EXCEPT !.lapsed = FALSE]
    <3>1. run \in Job /\ run.status = "RUNNING" /\ run.number = old.number
             /\ run.attempts = old.attempts
      BY <2>1 DEF Job, JobStatuses
    <3>2. kept \in Job /\ kept.status = "RUNNING" /\ kept.number = old.number
             /\ kept.attempts = old.attempts
      <4> HIDE DEF run
      <4> QED BY <3>1 DEF Job
    <3>3. old.attempts + 1 \in 0..MaxAttempts BY <2>1, <2>2 DEF Job
    <3>4. job = [kept EXCEPT !.attempts = old.attempts + 1]
      <4>1. job = [kept EXCEPT !.attempts = @ + 1] OBVIOUS
      <4> HIDE DEF job, kept
      <4> QED BY <4>1, <3>2
    <3> HIDE DEF job, kept
    <3> QED BY <3>2, <3>3, <3>4 DEF Job
  <2>4. try \in Attempt BY <2>1, <2>2 DEF Job, Attempt, WorkerSteps
  <2> HIDE DEF job, try
  <2>5. work' \in [Workers -> {NoWork} \cup Attempt] BY <1>1, <2>1, <2>4
  <2> QED BY <2>1, <2>3, <2>5, JobWrite DEF IInv, WorkInv
<1>3. CASE Prepare(w) \/ BindingRefused(w) \/ ReadFails(w)
  <2>1. UNCHANGED <<jobVars, request>>
    BY <1>3 DEF Prepare, BindingRefused, ReadFails
  <2>2. work[w] \in Attempt BY <1>1, <1>3 DEF Prepare, BindingRefused, ReadFails
  <2>3. approvals[work[w].approval].preflight \in Evidence \cup {NoEvidence}
    BY <2>2 DEF Attempt, IInv, RowsInv, RowInv, Row
  <2>4. \A step \in WorkerSteps : [work[w] EXCEPT !.step = step] \in Attempt
    BY <2>2 DEF Attempt
  <2>5. \A seen \in Evidence \cup {NoEvidence} :
          [work[w] EXCEPT !.step = "reading", !.seen = seen] \in Attempt
    BY <2>2 DEF Attempt, WorkerSteps
  <2>6. \E try \in Attempt : work' = [work EXCEPT ![w] = try]
    <3>1. CASE Prepare(w) BY <3>1, <2>3, <2>5 DEF Prepare
    <3>2. CASE BindingRefused(w) BY <3>2, <2>4 DEF BindingRefused, Step, WorkerSteps
    <3>3. CASE ReadFails(w) BY <3>3, <2>4 DEF ReadFails, Step, WorkerSteps
    <3> QED BY <1>3, <3>1, <3>2, <3>3
  <2>7. work' \in [Workers -> {NoWork} \cup Attempt] BY <1>1, <2>6
  <2> QED BY <2>1, <2>7, NoJobWrite DEF IInv, WorkInv
<1>4. CASE Fail(w)
  <2> DEFINE a == work[w].approval
  <2>1. work[w] \in Attempt BY <1>1, <1>4 DEF Fail
  <2>2. a \in Approvals BY <2>1 DEF Attempt
  <2>3. /\ UNCHANGED <<queued, request>> /\ work' = [work EXCEPT ![w] = NoWork]
        /\ jobs' = IF OwnsJob(w) THEN [jobs EXCEPT ![a] = Failed(w)] ELSE jobs
    BY <1>4 DEF Fail
  <2>4. work' \in [Workers -> {NoWork} \cup Attempt] BY <1>1, <2>3
  <2>5. CASE ~OwnsJob(w) BY <2>3, <2>4, <2>5, NoJobWrite DEF IInv, WorkInv, jobVars
  <2>6. CASE OwnsJob(w)
    <3>1. Failed(w) \in Job /\ Failed(w).number = jobs[a].number
          /\ Failed(w).status # "SUCCEEDED"
      <4> DEFINE old == jobs[a]
      <4>1. old \in Job BY <1>1, <2>2
      <4>2. \E st \in {"RETRY_WAIT", "FAILED"} : Failed(w) = [old EXCEPT !.status = st]
        BY DEF Failed
      <4> HIDE DEF old
      <4>3. \A st \in {"RETRY_WAIT", "FAILED"} :
              /\ [old EXCEPT !.status = st] \in Job
              /\ [old EXCEPT !.status = st].number = old.number
              /\ [old EXCEPT !.status = st].status = st
        BY <4>1 DEF Job, JobStatuses
      <4>4. Failed(w) \in Job /\ Failed(w).number = old.number
            /\ Failed(w).status # "SUCCEEDED"
        BY <4>2, <4>3
      <4> QED BY <4>4 DEF old
    <3>2. Failed(w).number <= MaxJobs[a] BY <2>2, <3>1 DEF IInv, WorkInv
    <3> HIDE DEF a
    <3> QED BY <2>2, <2>3, <2>4, <2>6, <3>1, <3>2, JobWrite DEF IInv, WorkInv
  <2> QED BY <2>5, <2>6
<1>5. ASSUME NEW v \in Verdicts, Finalize(w, v) PROVE WorkInv'
  <2> DEFINE a == work[w].approval
             old == jobs[a]
             job == [old EXCEPT !.status = "SUCCEEDED", !.lapsed = FALSE]
  <2>1. work[w] \in Attempt BY <1>1, <1>5 DEF Finalize
  <2>2. a \in Approvals /\ old \in Job BY <1>1, <2>1 DEF Attempt
  <2>3. /\ UNCHANGED <<queued, request>> /\ work' = [work EXCEPT ![w] = NoWork]
        /\ jobs' = [jobs EXCEPT ![a] = job]
        /\ queued[a] = work[w].number /\ old.number = work[w].number
        /\ old.number <= MaxJobs[a]
    BY <1>5, <2>2 DEF Finalize, Bound, OwnsJob, IInv, WorkInv
  <2> HIDE DEF a, old
  <2>4. job \in Job /\ job.number = old.number BY <2>2 DEF Job, JobStatuses
  <2>5. work' \in [Workers -> {NoWork} \cup Attempt] BY <1>1, <2>3
  <2> HIDE DEF job
  <2> QED BY <2>2, <2>3, <2>4, <2>5, JobWrite DEF IInv, WorkInv
<1> QED BY <1>2, <1>3, <1>4, <1>5 DEF Work

LEMMA EnvironmentWork ==
  ASSUME IInv, Environment
  PROVE  WorkInv'
<1>1. CASE ChangeConfig \/ \E p \in Policies : PublishPolicy(p)
  <2>1. UNCHANGED <<jobVars, request, work>>
    BY <1>1 DEF ChangeConfig, PublishPolicy, workerVars
  <2> QED BY <2>1, NoJobWrite DEF IInv, WorkInv
<1>2. ASSUME NEW w \in Workers, Restart(w) PROVE WorkInv'
  <2>1. UNCHANGED <<jobVars, request>> /\ work' = [work EXCEPT ![w] = NoWork]
    BY <1>2 DEF Restart
  <2>2. work' \in [Workers -> {NoWork} \cup Attempt] BY <2>1 DEF IInv, WorkInv
  <2> QED BY <2>1, <2>2, NoJobWrite DEF IInv, WorkInv
<1>3. ASSUME NEW a \in Approvals, RequeuePreflight(a) PROVE WorkInv'
  <2>1. Enqueue(a) /\ UNCHANGED request /\ UNCHANGED work
    BY <1>3 DEF RequeuePreflight, workerVars
  <2> QED BY <2>1, EnqueueStep DEF IInv
<1>4. ASSUME NEW a \in Approvals,
             \/ Expire(a) \/ TimePasses(a) \/ ExecutorReserves(a) \/ ExecutorConsumes(a)
      PROVE  WorkInv'
  <2>1. UNCHANGED <<jobVars, request, work>>
    BY <1>4 DEF Expire, TimePasses, ExecutorReserves, ExecutorConsumes, workerVars
  <2> QED BY <2>1, NoJobWrite DEF IInv, WorkInv
<1>5. ASSUME NEW a \in Approvals, LeaseLapses(a) PROVE WorkInv'
  <2> DEFINE old == jobs[a]
             job == [old EXCEPT !.lapsed = TRUE]
  <2>1. /\ old \in Job /\ old.number <= MaxJobs[a] /\ old.status = "RUNNING"
        /\ jobs' = [jobs EXCEPT ![a] = job]
        /\ UNCHANGED <<queued, request, work>>
    BY <1>5 DEF LeaseLapses, workerVars, IInv, WorkInv
  <2> HIDE DEF old
  <2>2. job \in Job /\ job.number = old.number /\ job.status = old.status BY <2>1 DEF Job
  <2> HIDE DEF job
  <2> QED BY <2>1, <2>2, JobWrite DEF IInv, WorkInv
<1> QED BY <1>1, <1>2, <1>3, <1>4, <1>5 DEF Environment

----------------------------------------------------------------------------
LEMMA Initially == Init => IInv
<1> SUFFICES ASSUME Init PROVE IInv OBVIOUS
<1>1. MaxRevision \in Nat \ {0} /\ MaxConfig \in Nat \ {0} /\ MaxAttempts \in Nat \ {0}
  BY BoundsAssumption
<1>2. 1 \in 1..MaxRevision /\ 1 \in 1..MaxConfig /\ 0 \in 0..MaxAttempts BY <1>1
<1>3. NoApproval \in Row BY <1>2 DEF NoApproval, Row
<1>4. /\ NoApproval.status = "NONE" /\ NoApproval.plan = NoEvidence
      /\ NoApproval.execution = "NOBODY" /\ NoApproval.grantedBy = "NOBODY"
      /\ NoApproval.revision = 1
  BY DEF NoApproval
<1>5. approvals = [a \in Approvals |-> NoApproval] BY DEF Init
<1>6. \A a \in Approvals : approvals[a] = NoApproval BY <1>5
<1>7. RowInv
  <2>1. approvals \in [Approvals -> Row] BY <1>3, <1>5
  <2>2. policies \in [1..MaxRevision -> Policies] BY DEF Init
  <2>3. /\ head \in 1..MaxRevision /\ config \in 1..MaxConfig /\ runs \in [Approvals -> Nat]
        /\ workerConfig \in [Workers -> 1..MaxConfig]
    BY <1>2 DEF Init
  <2> QED BY <2>1, <2>2, <2>3 DEF RowInv
<1>8. PlanBacksStatus /\ OneLivePerCandidate /\ AutomationIsEntitled
  BY <1>4, <1>6 DEF PlanBacksStatus, OneLivePerCandidate, Live, AutomationIsEntitled
<1>9. BirthInv
  <2>1. head = 1 BY DEF Init
  <2> QED BY <1>4, <1>6, <2>1 DEF BirthInv
<1>10. WorkInv
  <2>1. NoJob \in Job /\ NoJob.status = "NONE" /\ NoJob.number = 0
    BY <1>2 DEF NoJob, Job, JobStatuses
  <2>2. jobs = [a \in Approvals |-> NoJob] /\ queued = [a \in Approvals |-> 0] BY DEF Init
  <2>3. jobs \in [Approvals -> Job] /\ queued \in [Approvals -> Nat] BY <2>1, <2>2
  <2>4. \A a \in Approvals : jobs[a].number <= MaxJobs[a]
    BY <2>1, <2>2, BoundsAssumption
  <2>5. OneAutomaticVerdict BY <2>1, <2>2 DEF OneAutomaticVerdict
  <2>6. /\ request \in [Handlers -> {NoWork} \cup
              [kind : RequestKinds, approval : Approvals, config : 1..MaxConfig]]
        /\ work \in [Workers -> {NoWork} \cup Attempt]
    BY DEF Init
  <2> QED BY <2>3, <2>4, <2>5, <2>6 DEF WorkInv
<1> QED BY <1>7, <1>8, <1>9, <1>10 DEF IInv, RowsInv

LEMMA Inductive == IInv /\ [Next]_vars => IInv' /\ [Justified]_vars
<1> SUFFICES ASSUME IInv, [Next]_vars PROVE IInv' /\ [Justified]_vars OBVIOUS
<1>1. ASSUME NEW a \in Approvals, Operator(a) PROVE RowsKept /\ WorkInv'
  BY <1>1, OperatorStep, OperatorWork
<1>2. ASSUME NEW h \in Handlers, Finish(h) PROVE RowsKept /\ WorkInv'
  BY <1>2, FinishStep, FinishWork
<1>3. ASSUME NEW w \in Workers, Work(w) \/ \E a \in Approvals : ClaimJob(w, a)
      PROVE  RowsKept /\ WorkInv'
  BY <1>3, WorkStep, WorkerWork
<1>4. CASE Environment BY <1>4, EnvironmentStep, EnvironmentWork DEF IInv, RowsKept
<1>5. CASE UNCHANGED vars
  <2>1. UNCHANGED <<approvals, policyVars, runs, workerConfig>> /\ UNCHANGED <<jobVars, request, work>>
    BY <1>5 DEF vars, workerVars
  <2>2. RowsKept BY <2>1, StillStep
  <2>3. WorkInv' BY <2>1, NoJobWrite DEF IInv, WorkInv
  <2> QED BY <2>2, <2>3, <1>5 DEF IInv, RowsKept
<1> QED BY <1>1, <1>2, <1>3, <1>4, <1>5 DEF Next, IInv, RowsKept

----------------------------------------------------------------------------
\* IInv holds in every state.
THEOREM Invariance == Spec => []IInv
BY Initially, Inductive, PTL DEF Spec

\* Rows, jobs, requests and workers keep their types.
THEOREM TypeCorrect == Spec => []TypeOK
<1>1. IInv => TypeOK BY DEF IInv, RowsInv, RowInv, WorkInv, TypeOK, Row, Job, Attempt
<1> QED BY <1>1, Invariance, PTL

\* The status of a row and its plan agree, whatever outdated copies are written
\* (approve_request, save_preflight_result, _stage_expiration_if_needed).
THEOREM PlansBackStatuses == Spec => []PlanBacksStatus
<1>1. IInv => PlanBacksStatus BY DEF IInv, RowsInv
<1> QED BY <1>1, Invariance, PTL

\* A candidate has one live request (create_approval_request and the unique
\* index over the candidate's requests).
THEOREM OneLive == Spec => []OneLivePerCandidate
<1>1. IInv => OneLivePerCandidate BY DEF IInv, RowsInv
<1> QED BY <1>1, Invariance, PTL

\* The system grants only under a policy that lets it, and only a PASS
\* (maybe_finalize_automatic_approval, AutomationPreflightWorker._finalize).
THEOREM Entitled == Spec => []AutomationIsEntitled
<1>1. IInv => AutomationIsEntitled BY DEF IInv, RowsInv
<1> QED BY <1>1, Invariance, PTL

\* A row gets one automatic verdict (_validate_binding).
THEOREM OneVerdict == Spec => []OneAutomaticVerdict
<1>1. IInv => OneAutomaticVerdict BY DEF IInv, WorkInv
<1> QED BY <1>1, Invariance, PTL

\* Every grant is justified when it is made (approve_request).
THEOREM GrantsAreJustified == Spec => GrantIsJustified
<1>1. IInv /\ [Next]_vars => [Justified]_vars BY Inductive
<1> QED BY <1>1, Invariance, PTL DEF Spec, GrantIsJustified, Justified
==============================================================================
