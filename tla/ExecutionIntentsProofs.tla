------------------------ MODULE ExecutionIntentsProofs ------------------------
(***************************************************************************)
(* What ExecutionIntents promises for any approvals, keys, targets,        *)
(* clients and number of intents.                                          *)
(*                                                                         *)
(* BackInv is the property wanted; it is kept because an approval without  *)
(* a plan has no intents at all (PlanInv), so that a confirmation can make *)
(* an intent of its own without looking for others, and because one intent *)
(* of an approval is active at a time (ActiveInv), so that using it leaves *)
(* none.  KeyInv follows the keys to the answers.                          *)
(***************************************************************************)
EXTENDS ExecutionIntents, SequenceTheorems, TLAPS

USE IntentsAssumption, MarkAssumption

Answers == [asked : Asked, execution : Execution]

TypeInv ==
  /\ IntentsTypeOK
  /\ answers \subseteq Answers

\* A plan is there exactly once the approval was granted, and nobody gets an
\* intent without.
PlanInv ==
  /\ \A a \in Approvals :
       /\ approvals[a].status = "PENDING" => ~approvals[a].planned
       /\ approvals[a].status \in {"APPROVED", "LAPSED"} => approvals[a].planned
  /\ \A i \in DOMAIN intents : approvals[intents[i].approval].planned

ActiveInv == \A i, j \in DOMAIN intents :
  /\ intents[i].status = "ACTIVE" /\ intents[j].status = "ACTIVE"
  /\ intents[i].approval = intents[j].approval
  => i = j

\* IntentBacksExecution, with the intents said to exist.
BackInv ==
  /\ \A e \in executions :
       /\ e.intent \in DOMAIN intents
       /\ intents[e.intent].status = "CONSUMED"
       /\ intents[e.intent].approval = e.approval
       /\ intents[e.intent].mode = e.mode
       /\ intents[e.intent].target = e.target
       /\ \A i \in DOMAIN intents :
            intents[i].approval = e.approval => intents[i].status # "ACTIVE"
  /\ \A d, e \in executions : d.approval = e.approval \/ d.intent = e.intent => d = e
  /\ \A i \in DOMAIN intents : intents[i].status = "CONSUMED" =>
       \E e \in executions : e.intent = i

\* A key of a client has one execution, and answers tell of the request that
\* the execution was made for.
KeyInv ==
  /\ \A d, e \in executions : d.key = e.key /\ d.key \in Keys => d = e
  /\ \A x \in answers :
       /\ x.execution \in executions
       /\ x.asked.key = x.execution.key
       /\ x.asked.approval = x.execution.approval
       /\ x.asked.mode = x.execution.mode

IntentsInv == TypeInv /\ PlanInv /\ ActiveInv /\ BackInv /\ KeyInv

----------------------------------------------------------------------------
\* The rows, one by one.
LEMMA IntentRows ==
  ASSUME TypeInv
  PROVE  /\ Len(intents) \in Nat /\ DOMAIN intents = 1..Len(intents)
         /\ \A i \in DOMAIN intents : intents[i] \in Intent
BY DEF TypeInv, IntentsTypeOK

\* A table of as many rows is one of the type.
LEMMA RowsAreTyped ==
  ASSUME NEW s, NEW n \in Nat, DOMAIN s = 1..n, n <= MaxIntents,
         s = [i \in 1..n |-> s[i]], \A i \in 1..n : s[i] \in Intent
  PROVE  s \in Seq(Intent) /\ Len(s) = n /\ Len(s) <= MaxIntents
<1>1. s \in [1..n -> Intent] OBVIOUS
<1>2. s \in Seq(Intent) BY <1>1, SeqDef
<1>3. Len(s) = n BY <1>2, LenProperties
<1> QED BY <1>2, <1>3

\* The numbers of the rows, before and after a step that may add the row i.
LEMMA RowNumbers ==
  ASSUME NEW m \in Nat, NEW n \in Nat, NEW i \in Nat \ {0},
         (n = m /\ i \in 1..m) \/ (n = m + 1 /\ i = n)
  PROVE  /\ i \in 1..n /\ 1..m \subseteq 1..n
         /\ \A j : j \in 1..n /\ j \notin 1..m => j = i
         /\ n = m + 1 => i \notin 1..m
OBVIOUS

LEMMA RowSets ==
  ASSUME NEW D, NEW E, NEW m \in Nat, NEW n \in Nat, NEW i \in Nat \ {0},
         (n = m /\ i \in 1..m) \/ (n = m + 1 /\ i = n),
         D = 1..m, E = 1..n
  PROVE  /\ i \in E /\ D \subseteq E
         /\ \A j \in E \ D : j = i
         /\ n = m + 1 => i \notin D
<1>1. ASSUME NEW j \in E \ D PROVE j = i BY RowNumbers
<1> QED BY <1>1, RowNumbers

\* A row made by NewIntent.
LEMMA NewIntentIsTyped ==
  ASSUME TypeInv, NEW a \in Approvals, NEW mode \in LaunchModes,
         NEW status \in {"ACTIVE", "CONSUMED", "EXPIRED"}
  PROVE  NewIntent(a, mode, status) \in Intent
BY DEF TypeInv, IntentsTypeOK, NewIntent, Intent

LEMMA IntentsInitially == IntentsInit => IntentsInv
<1> SUFFICES ASSUME IntentsInit PROVE IntentsInv OBVIOUS
<1>1. /\ intents = <<>> /\ Len(intents) = 0 /\ DOMAIN intents = {} /\ intents \in Seq(Intent)
  BY DEF IntentsInit
<1> QED BY <1>1 DEF IntentsInit, IntentsInv, TypeInv, IntentsTypeOK, PlanInv, ActiveInv,
  BackInv, KeyInv, Approval

----------------------------------------------------------------------------
\* Steps that leave intents and executions alone: an approval keeps its plan,
\* and an answer tells of an execution there is.
LEMMA ApprovalsMove ==
  ASSUME IntentsInv, UNCHANGED <<intents, executions>>,
         approvals' \in [Approvals -> Approval],
         stageOpen' \in BOOLEAN, qbTarget' \in Targets,
         confirming' \in [Clients -> Asked \cup {NoRequest}],
         \A a \in Approvals :
           /\ approvals[a].planned => approvals'[a].planned
           /\ approvals'[a].status = "PENDING" => ~approvals'[a].planned
           /\ approvals'[a].status \in {"APPROVED", "LAPSED"} => approvals'[a].planned,
         answers' = answers \/
           \E k \in Keys, a \in Approvals, mode \in LaunchModes : \E e \in WithKey(k) :
             e.approval = a /\ e.mode = mode /\ Answer(Request(k, a, mode), e)
  PROVE  IntentsInv'
<1> DEFINE Fit == /\ answers' \subseteq Answers
                  /\ \A x \in answers' :
                       /\ x.execution \in executions
                       /\ x.asked.key = x.execution.key
                       /\ x.asked.approval = x.execution.approval
                       /\ x.asked.mode = x.execution.mode
<1>1. Fit
  <2>1. CASE answers' = answers BY <2>1 DEF IntentsInv, KeyInv, TypeInv
  <2>2. ASSUME NEW k \in Keys, NEW a \in Approvals, NEW mode \in LaunchModes,
               NEW e \in WithKey(k), e.approval = a, e.mode = mode,
               Answer(Request(k, a, mode), e)
        PROVE  Fit
    <3> DEFINE y == [asked |-> Request(k, a, mode), execution |-> e]
    <3>1. answers' = answers \cup {y} BY <2>2 DEF Answer
    <3>2. e \in executions /\ e.key = k /\ e \in Execution
      BY DEF WithKey, IntentsInv, TypeInv, IntentsTypeOK
    <3>3. y \in Answers BY <3>2 DEF Answers, Asked, Request
    <3>4. y.execution = e /\ y.asked.key = k /\ y.asked.approval = a /\ y.asked.mode = mode
      BY DEF Request
    <3> HIDE DEF y
    <3> QED BY <3>1, <3>2, <3>3, <3>4, <2>2 DEF IntentsInv, KeyInv, TypeInv
  <2> QED BY <2>1, <2>2
<1>2. TypeInv'
  <2>1. \A x \in answers' : x.asked \in Asked BY <1>1 DEF Answers
  <2> QED BY <1>1, <2>1 DEF IntentsInv, TypeInv, IntentsTypeOK
<1>3. PlanInv'
  <2>1. \A i \in DOMAIN intents : intents[i].approval \in Approvals
    BY IntentRows DEF IntentsInv, Intent
  <2> QED BY <2>1 DEF IntentsInv, PlanInv
<1>4. ActiveInv' /\ BackInv' BY DEF IntentsInv, ActiveInv, BackInv
<1>5. KeyInv' BY <1>1 DEF IntentsInv, KeyInv
<1> QED BY <1>2, <1>3, <1>4, <1>5 DEF IntentsInv

\* Steps that only write the status or the age of intents, none of which is
\* used or made active again by that, and may add one active intent to an
\* approval that has a plan and no other active intent, nor an execution.
LEMMA IntentsMove ==
  ASSUME IntentsInv, UNCHANGED <<stageOpen, qbTarget, approvals, executions, confirming, answers>>,
         NEW a \in Approvals, NEW n \in Nat,
         intents' \in Seq(Intent), Len(intents') = n, n <= MaxIntents,
         n \in {Len(intents), Len(intents) + 1},
         \A i \in DOMAIN intents :
           /\ intents'[i].approval = intents[i].approval
           /\ intents'[i].mode = intents[i].mode
           /\ intents'[i].target = intents[i].target
           /\ intents[i].status # "ACTIVE" => intents'[i].status = intents[i].status
           /\ intents'[i].status # "CONSUMED" \/ intents[i].status = "CONSUMED",
         n = Len(intents) + 1 =>
           /\ intents'[n].approval = a /\ intents'[n].status = "ACTIVE"
           /\ approvals[a].planned
           /\ \A e \in executions : e.approval # a
           /\ \A i \in DOMAIN intents : intents[i].approval = a => intents'[i].status # "ACTIVE"
  PROVE  IntentsInv'
<1>1. Len(intents) \in Nat /\ DOMAIN intents = 1..Len(intents) BY IntentRows DEF IntentsInv
<1>2. DOMAIN intents' = 1..n BY LenProperties
<1>3. DOMAIN intents \subseteq DOMAIN intents'
      /\ \A i \in DOMAIN intents' \ DOMAIN intents : i = n /\ n = Len(intents) + 1
  <2> DEFINE m == Len(intents)
  <2>1. \A l \in Nat : n \in {l, l + 1} =>
          1..l \subseteq 1..n /\ \A i \in (1..n) \ (1..l) : i = n /\ n = l + 1
    OBVIOUS
  <2>2. m \in Nat /\ n \in {m, m + 1} BY <1>1
  <2>3. 1..m \subseteq 1..n /\ \A i \in (1..n) \ (1..m) : i = n /\ n = m + 1
    <3> HIDE DEF m
    <3> QED BY <2>1, <2>2
  <2> QED BY <1>1, <1>2, <2>3, Zenon
<1>4. TypeInv' BY DEF IntentsInv, TypeInv, IntentsTypeOK
<1>5. PlanInv' BY <1>3 DEF IntentsInv, PlanInv
<1>6. ActiveInv' BY <1>3 DEF IntentsInv, ActiveInv
<1>7. BackInv'
  <2>r. \A i \in DOMAIN intents' : i \in DOMAIN intents \/ (i = n /\ n = Len(intents) + 1)
    BY <1>3
  <2>s. \A i \in DOMAIN intents : i \in DOMAIN intents' BY <1>3
  <2>1. ASSUME NEW e \in executions
        PROVE  /\ e.intent \in DOMAIN intents'
               /\ intents'[e.intent].status = "CONSUMED"
               /\ intents'[e.intent].approval = e.approval
               /\ intents'[e.intent].mode = e.mode
               /\ intents'[e.intent].target = e.target
    BY <2>s DEF IntentsInv, BackInv
  <2>2. ASSUME NEW e \in executions, NEW i \in DOMAIN intents',
               intents'[i].approval = e.approval
        PROVE  intents'[i].status # "ACTIVE"
    <3>1. CASE i \in DOMAIN intents BY <2>2, <3>1 DEF IntentsInv, BackInv
    <3>2. CASE i = n /\ n = Len(intents) + 1 BY <2>2, <3>2
    <3> QED BY <3>1, <3>2, <2>r
  <2>3. ASSUME NEW i \in DOMAIN intents', intents'[i].status = "CONSUMED"
        PROVE  \E e \in executions : e.intent = i
    <3>1. CASE i \in DOMAIN intents BY <2>3, <3>1 DEF IntentsInv, BackInv
    <3>2. CASE i = n /\ n = Len(intents) + 1 BY <2>3, <3>2
    <3> QED BY <3>1, <3>2, <2>r
  <2>4. \A d, e \in executions : d.approval = e.approval \/ d.intent = e.intent => d = e
    BY DEF IntentsInv, BackInv
  <2>5. executions' = executions OBVIOUS
  <2> QED BY <2>1, <2>2, <2>3, <2>4, <2>5 DEF BackInv
<1>8. KeyInv' BY DEF IntentsInv, KeyInv
<1> QED BY <1>4, <1>5, <1>6, <1>7, <1>8 DEF IntentsInv

\* Steps that make an execution, and use an intent for it: the active one of its
\* approval, or a new one of an approval that had no plan.
LEMMA ExecutionIsMade ==
  ASSUME IntentsInv, UNCHANGED <<stageOpen, qbTarget>>,
         confirming' \in [Clients -> Asked \cup {NoRequest}],
         NEW a \in Approvals, NEW i \in Nat \ {0}, NEW n \in Nat,
         NEW k \in Keys \cup {RandomKey}, NEW mode \in LaunchModes,
         WithKey(k) = {} \/ k = RandomKey,
         approvals' \in [Approvals -> Approval],
         \A b \in Approvals : b # a => approvals'[b] = approvals[b],
         approvals'[a].planned, approvals'[a].status # "PENDING",
         intents' \in Seq(Intent), Len(intents') = n, n <= MaxIntents,
         \/ /\ i \in DOMAIN intents /\ n = Len(intents)
            /\ intents[i].approval = a /\ intents[i].status = "ACTIVE"
            /\ ExecutionsOf(a) = {}
         \/ n = Len(intents) + 1 /\ i = n /\ ~approvals[a].planned,
         \A j \in DOMAIN intents : j # i => intents'[j] = intents[j],
         intents'[i].approval = a, intents'[i].status = "CONSUMED",
         intents'[i].mode = mode, intents'[i].target = qbTarget,
         executions' = executions \cup {NewExecution(i, k)},
         IF k = RandomKey THEN UNCHANGED answers
                          ELSE Answer(Request(k, a, mode), NewExecution(i, k))
  PROVE  IntentsInv'
<1> DEFINE new == NewExecution(i, k)
<1>1. Len(intents) \in Nat /\ DOMAIN intents = 1..Len(intents) BY IntentRows DEF IntentsInv
<1> DEFINE Used == /\ i \in DOMAIN intents /\ n = Len(intents)
                   /\ intents[i].approval = a /\ intents[i].status = "ACTIVE"
                   /\ ExecutionsOf(a) = {}
           Fresh == n = Len(intents) + 1 /\ i = n /\ ~approvals[a].planned
<1>a. Used \/ Fresh OBVIOUS
<1>b. DOMAIN intents' = 1..n BY LenProperties
<1> DEFINE m == Len(intents)
<1>c. (n = m /\ i \in 1..m) \/ (n = m + 1 /\ i = n)
  <2>1. CASE Used
    <3>1. n = m /\ i \in DOMAIN intents BY <2>1
    <3>2. i \in 1..m BY <3>1, IntentRows DEF IntentsInv
    <3> QED BY <3>1, <3>2
  <2>2. CASE Fresh BY <2>2
  <2> QED BY <1>a, <2>1, <2>2
<1>2. /\ i \in DOMAIN intents' /\ DOMAIN intents \subseteq DOMAIN intents'
      /\ \A j \in DOMAIN intents' \ DOMAIN intents : j = i
      /\ n = m + 1 => i \notin DOMAIN intents
  <2>1. m \in Nat /\ DOMAIN intents = 1..m BY <1>1
  <2> HIDE DEF m
  <2> QED BY <1>b, <1>c, <2>1, RowSets
<1>3. /\ DOMAIN intents \subseteq DOMAIN intents'
      /\ \A j \in DOMAIN intents' \ DOMAIN intents : j = i
      /\ Fresh => i \notin DOMAIN intents
  <2>1. Fresh => n = m + 1 OBVIOUS
  <2> HIDE DEF m, Fresh
  <2> QED BY <1>2, <2>1, Zenon
<1> HIDE DEF m
<1>4. /\ new.approval = a /\ new.intent = i /\ new.key = k /\ new.mode = mode
      /\ new.target = qbTarget /\ qbTarget \in Targets
      /\ new = [approval |-> a, intent |-> i, key |-> k, mode |-> mode, target |-> qbTarget]
  BY DEF NewExecution, IntentsInv, TypeInv, IntentsTypeOK
<1>5. new \in Execution BY <1>2, <1>4 DEF Execution
<1>6. \A j \in DOMAIN intents : intents[j].approval \in Approvals
  BY IntentRows DEF IntentsInv, Intent
<1>7. \A j \in DOMAIN intents :
        j # i /\ intents[j].approval = a => intents[j].status # "ACTIVE"
  BY <1>a DEF IntentsInv, PlanInv, ActiveInv
<1>8. \A e \in executions : e.intent \in DOMAIN intents /\ e.intent # i /\ e.approval # a
  <2>1. CASE Used BY <2>1 DEF IntentsInv, BackInv, ExecutionsOf
  <2>2. CASE Fresh
    <3>1. i \notin DOMAIN intents BY <1>3, <2>2, Zenon
    <3> QED BY <2>2, <3>1 DEF IntentsInv, BackInv, PlanInv
  <2> QED BY <1>a, <2>1, <2>2
<1>9. k = RandomKey => k \notin Keys OBVIOUS
<1> DEFINE y == [asked |-> Request(k, a, mode), execution |-> new]
<1>10. /\ y.execution = new /\ y.asked.key = k /\ y.asked.approval = a /\ y.asked.mode = mode
       /\ k \in Keys => y \in Answers
  BY <1>5 DEF Request, Answers, Asked
<1>11. answers' = IF k = RandomKey THEN answers ELSE answers \cup {y} BY DEF Answer
<1> HIDE DEF new, y
<1>12. executions' = executions \cup {new} BY DEF new
<1>13. TypeInv'
  <2>1. answers' \subseteq Answers BY <1>10, <1>11 DEF IntentsInv, TypeInv
  <2>2. \A x \in answers' : x.asked \in Asked BY <2>1 DEF Answers
  <2>3. \A x \in answers' : x.execution \in executions'
    BY <1>10, <1>11, <1>12 DEF IntentsInv, TypeInv, IntentsTypeOK
  <2> QED BY <1>5, <1>12, <2>1, <2>2, <2>3 DEF IntentsInv, TypeInv, IntentsTypeOK
<1>r. \A j \in DOMAIN intents' :
         j = i \/ (j # i /\ j \in DOMAIN intents /\ intents'[j] = intents[j])
  BY <1>3
<1>14. PlanInv'
  <2>1. \A b \in Approvals :
          /\ approvals'[b].status = "PENDING" => ~approvals'[b].planned
          /\ approvals'[b].status \in {"APPROVED", "LAPSED"} => approvals'[b].planned
          /\ approvals[b].planned => approvals'[b].planned
    BY DEF IntentsInv, PlanInv
  <2>2. ASSUME NEW j \in DOMAIN intents' PROVE approvals'[intents'[j].approval].planned
    <3>1. CASE j = i BY <3>1
    <3>2. CASE j # i
      <4>1. j \in DOMAIN intents /\ intents'[j] = intents[j] BY <3>2, <1>r
      <4>2. approvals[intents[j].approval].planned /\ intents[j].approval \in Approvals
        BY <4>1, <1>6 DEF IntentsInv, PlanInv
      <4> QED BY <2>1, <4>1, <4>2
    <3> QED BY <3>1, <3>2
  <2> QED BY <2>1, <2>2 DEF PlanInv
<1>15. ActiveInv' BY <1>r DEF IntentsInv, ActiveInv
<1>16. BackInv'
  <2>1. ASSUME NEW e \in executions'
        PROVE  /\ e.intent \in DOMAIN intents'
               /\ intents'[e.intent].status = "CONSUMED"
               /\ intents'[e.intent].approval = e.approval
               /\ intents'[e.intent].mode = e.mode
               /\ intents'[e.intent].target = e.target
               /\ \A j \in DOMAIN intents' :
                    intents'[j].approval = e.approval => intents'[j].status # "ACTIVE"
    <3>1. CASE e = new BY <3>1, <1>2, <1>3, <1>4, <1>7
    <3>2. CASE e \in executions BY <3>2, <1>3, <1>8 DEF IntentsInv, BackInv
    <3> QED BY <3>1, <3>2, <1>12
  <2>2. \A d, e \in executions' : d.approval = e.approval \/ d.intent = e.intent => d = e
    BY <1>4, <1>8, <1>12 DEF IntentsInv, BackInv
  <2>3. ASSUME NEW j \in DOMAIN intents', intents'[j].status = "CONSUMED"
        PROVE  \E e \in executions' : e.intent = j
    <3>1. CASE j = i BY <3>1, <1>4, <1>12
    <3>2. CASE j # i BY <3>2, <2>3, <1>3, <1>12 DEF IntentsInv, BackInv
    <3> QED BY <3>1, <3>2
  <2> QED BY <2>1, <2>2, <2>3 DEF BackInv
<1>17. KeyInv'
  <2>1. \A d, e \in executions' : d.key = e.key /\ d.key \in Keys => d = e
    BY <1>4, <1>9, <1>12 DEF IntentsInv, KeyInv, WithKey
  <2>2. ASSUME NEW x \in answers'
        PROVE  /\ x.execution \in executions'
               /\ x.asked.key = x.execution.key
               /\ x.asked.approval = x.execution.approval
               /\ x.asked.mode = x.execution.mode
    <3>1. CASE x \in answers BY <3>1, <1>12 DEF IntentsInv, KeyInv
    <3>2. CASE x = y BY <3>2, <1>4, <1>10, <1>12
    <3> QED BY <3>1, <3>2, <1>11
  <2> QED BY <2>1, <2>2 DEF KeyInv
<1> QED BY <1>13, <1>14, <1>15, <1>16, <1>17 DEF IntentsInv

----------------------------------------------------------------------------
\* The transactions, each of one of these kinds.

LEMMA CreateIntentStep ==
  ASSUME IntentsInv, NEW a \in Approvals, NEW mode \in LaunchModes, CreateIntent(a, mode)
  PROVE  IntentsInv'
<1>1. CASE ApprovalExpires(a)
  BY <1>1, ApprovalsMove DEF CreateIntent, ApprovalExpires, IntentsInv, TypeInv, IntentsTypeOK,
    PlanInv, Approval
<1>2. CASE /\ UsableIntent(a) /\ Grantable(a)
           /\ Len(intents) < MaxIntents
           /\ intents' = Append(ExpireActive(a), NewIntent(a, mode, "ACTIVE"))
           /\ UNCHANGED <<approvals, executions, answers>>
  <2> DEFINE s == ExpireActive(a)
             n == Len(intents)
  <2>1. n \in Nat /\ DOMAIN intents = 1..n /\ \A i \in 1..n : intents[i] \in Intent
    BY IntentRows DEF IntentsInv
  <2>2. /\ DOMAIN s = 1..n /\ s = [i \in 1..n |-> s[i]]
        /\ \A i \in 1..n :
             s[i] = IF intents[i].approval = a /\ intents[i].status = "ACTIVE"
                    THEN [intents[i] EXCEPT !.status = "EXPIRED"] ELSE intents[i]
    BY <2>1 DEF ExpireActive, ActiveIntents
  <2>3. \A i \in 1..n : s[i] \in Intent BY <2>1, <2>2 DEF Intent
  <2> HIDE DEF s
  <2>4. s \in Seq(Intent) /\ Len(s) = n BY <1>2, <2>1, <2>2, <2>3, RowsAreTyped
  <2>5. NewIntent(a, mode, "ACTIVE") \in Intent BY NewIntentIsTyped DEF IntentsInv
  <2>6. /\ intents' \in Seq(Intent) /\ Len(intents') = n + 1
        /\ intents'[n + 1] = NewIntent(a, mode, "ACTIVE")
        /\ \A i \in 1..n : intents'[i] = s[i]
    BY <1>2, <2>4, <2>5, AppendProperties DEF s
  <2>7. /\ NewIntent(a, mode, "ACTIVE").approval = a
        /\ NewIntent(a, mode, "ACTIVE").status = "ACTIVE"
    BY DEF NewIntent
  <2>8. approvals[a].planned BY <1>2 DEF UsableIntent, IntentsInv, PlanInv
  <2>9. \A e \in executions : e.approval # a BY <1>2 DEF Grantable, ExecutionsOf
  <2>10. \A i \in 1..n :
          /\ intents'[i].approval = intents[i].approval
          /\ intents'[i].mode = intents[i].mode
          /\ intents'[i].target = intents[i].target
          /\ intents[i].status # "ACTIVE" => intents'[i].status = intents[i].status
          /\ intents'[i].status # "CONSUMED" \/ intents[i].status = "CONSUMED"
          /\ intents[i].approval = a => intents'[i].status # "ACTIVE"
    BY <2>1, <2>2, <2>6 DEF Intent
  <2>11. n + 1 <= MaxIntents /\ n + 1 \in Nat BY <1>2, <2>1
  <2>12. UNCHANGED <<stageOpen, qbTarget, approvals, executions, confirming, answers>>
    BY <1>2 DEF CreateIntent
  <2> DEFINE next == n + 1
  <2>13. /\ next \in Nat /\ next <= MaxIntents /\ Len(intents') = next
         /\ next \in {Len(intents), Len(intents) + 1}
         /\ intents'[next].approval = a /\ intents'[next].status = "ACTIVE"
    BY <2>1, <2>6, <2>7, <2>11
  <2>14. \A i \in DOMAIN intents :
          /\ intents'[i].approval = intents[i].approval
          /\ intents'[i].mode = intents[i].mode
          /\ intents'[i].target = intents[i].target
          /\ intents[i].status # "ACTIVE" => intents'[i].status = intents[i].status
          /\ intents'[i].status # "CONSUMED" \/ intents[i].status = "CONSUMED"
          /\ intents[i].approval = a => intents'[i].status # "ACTIVE"
    BY <2>1, <2>10
  <2> HIDE DEF next, n
  <2> QED BY <2>6, <2>8, <2>9, <2>12, <2>13, <2>14, IntentsMove
<1> QED BY <1>1, <1>2 DEF CreateIntent

LEMMA RowUpdate ==
  ASSUME TypeInv, NEW i \in DOMAIN intents, NEW row \in Intent,
         intents' = [intents EXCEPT ![i] = row]
  PROVE  /\ intents' \in Seq(Intent) /\ Len(intents') = Len(intents)
         /\ intents'[i] = row /\ \A j \in DOMAIN intents : j # i => intents'[j] = intents[j]
         /\ Len(intents) \in Nat /\ Len(intents) <= MaxIntents
BY DEF TypeInv, IntentsTypeOK

LEMMA ExecuteStep ==
  ASSUME IntentsInv, NEW a \in Approvals, NEW i \in 1..MaxIntents, NEW k \in Keys,
         Execute(a, i, k)
  PROVE  IntentsInv'
<1>0. UNCHANGED <<stageOpen, qbTarget, confirming>> /\ i \in DOMAIN intents
      /\ intents[i] \in Intent
  BY IntentRows DEF Execute, IntentsInv
<1>1. CASE ExecuteAgain(a, i, k)
  <2>1. PICK e \in WithKey(k) : Replays(e, a, i) /\ Answer(Request(k, a, intents[i].mode), e)
    BY <1>1 DEF ExecuteAgain
  <2>2. e.approval = a /\ e.mode = intents[i].mode /\ intents[i].mode \in LaunchModes
    BY <1>0, <2>1 DEF Replays, WithKey, IntentsInv, BackInv, Intent
  <2> QED BY <1>0, <1>1, <2>1, <2>2, ApprovalsMove
    DEF ExecuteAgain, IntentsInv, TypeInv, IntentsTypeOK, PlanInv
<1>2. CASE ApprovalExpires(a)
  BY <1>0, <1>2, ApprovalsMove DEF ApprovalExpires, IntentsInv, TypeInv, IntentsTypeOK,
    PlanInv, Approval
<1>3. CASE IntentExpires(a, i)
  <2> DEFINE row == [intents[i] EXCEPT !.status = "EXPIRED"]
  <2>1. row \in Intent /\ intents' = [intents EXCEPT ![i] = row]
    BY <1>0, <1>3 DEF IntentExpires, Intent
  <2>2. /\ row.approval = intents[i].approval /\ row.mode = intents[i].mode
        /\ row.target = intents[i].target /\ row.status = "EXPIRED"
    BY <1>0 DEF Intent
  <2>3. intents[i].status = "ACTIVE" BY <1>3 DEF IntentExpires, ActiveIntents
  <2> HIDE DEF row
  <2>4. /\ intents' \in Seq(Intent) /\ Len(intents') = Len(intents)
        /\ intents'[i] = row /\ \A j \in DOMAIN intents : j # i => intents'[j] = intents[j]
        /\ Len(intents) \in Nat /\ Len(intents) <= MaxIntents
    BY <1>0, <2>1, RowUpdate DEF IntentsInv
  <2>5. \A j \in DOMAIN intents :
           /\ intents'[j].approval = intents[j].approval
           /\ intents'[j].mode = intents[j].mode
           /\ intents'[j].target = intents[j].target
           /\ intents[j].status # "ACTIVE" => intents'[j].status = intents[j].status
           /\ intents'[j].status # "CONSUMED" \/ intents[j].status = "CONSUMED"
    BY <2>2, <2>3, <2>4
  <2>6. Len(intents) # Len(intents) + 1 BY <2>4
  <2> QED BY <1>0, <1>3, <2>4, <2>5, <2>6, IntentsMove DEF IntentExpires
<1>4. CASE WithKey(k) = {} /\ Consume(a, i, k)
  <2> DEFINE row == [intents[i] EXCEPT !.status = "CONSUMED"]
  <2>1. row \in Intent /\ intents' = [intents EXCEPT ![i] = row]
    BY <1>0, <1>4 DEF Consume, Intent
  <2>2. /\ intents[i].approval = a /\ intents[i].status = "ACTIVE"
        /\ intents[i].target = qbTarget /\ intents[i].mode \in LaunchModes
    BY <1>0, <1>4 DEF Consume, ActiveIntents, Current, Intent
  <2>3. /\ row.approval = a /\ row.mode = intents[i].mode
        /\ row.target = qbTarget /\ row.status = "CONSUMED"
    BY <1>0, <2>2 DEF Intent
  <2> HIDE DEF row
  <2>4. /\ intents' \in Seq(Intent) /\ Len(intents') = Len(intents)
        /\ intents'[i] = row /\ \A j \in DOMAIN intents : j # i => intents'[j] = intents[j]
        /\ Len(intents) \in Nat /\ Len(intents) <= MaxIntents
    BY <1>0, <2>1, RowUpdate DEF IntentsInv
  <2>5. /\ approvals'[a].planned /\ approvals'[a].status # "PENDING"
        /\ approvals' = approvals /\ approvals' \in [Approvals -> Approval]
    BY <1>4 DEF Consume, UsableIntent, IntentsInv, PlanInv, TypeInv, IntentsTypeOK
  <2>6. /\ executions' = executions \cup {NewExecution(i, k)}
        /\ Answer(Request(k, a, intents[i].mode), NewExecution(i, k))
        /\ ExecutionsOf(a) = {} /\ WithKey(k) = {}
    BY <1>4 DEF Consume
  <2>7. confirming' \in [Clients -> Asked \cup {NoRequest}] /\ i \in Nat \ {0} /\ k # RandomKey
    BY <1>0 DEF IntentsInv, TypeInv, IntentsTypeOK
  <2> QED BY <1>0, <2>2, <2>3, <2>4, <2>5, <2>6, <2>7, ExecutionIsMade
<1> QED BY <1>1, <1>2, <1>3, <1>4 DEF Execute

LEMMA ReplayStep ==
  ASSUME IntentsInv, NEW asked \in Asked, Replayed(asked),
         confirming' \in [Clients -> Asked \cup {NoRequest}], UNCHANGED <<stageOpen, qbTarget>>
  PROVE  IntentsInv'
<1>1. PICK e \in WithKey(asked.key) :
        e.approval = asked.approval /\ e.mode = asked.mode /\ Answer(asked, e)
  BY DEF Replayed
<1>2. /\ asked = Request(asked.key, asked.approval, asked.mode)
      /\ asked.key \in Keys /\ asked.approval \in Approvals /\ asked.mode \in LaunchModes
  BY DEF Request, Asked
<1>3. Answer(Request(asked.key, asked.approval, asked.mode), e) BY <1>1, <1>2
<1> QED BY <1>1, <1>2, <1>3, ApprovalsMove
  DEF Replayed, IntentsInv, TypeInv, IntentsTypeOK, PlanInv

LEMMA StartConfirmStep ==
  ASSUME IntentsInv, NEW c \in Clients, NEW k \in Keys, NEW a \in Approvals,
         NEW mode \in LaunchModes, StartConfirm(c, k, a, mode)
  PROVE  IntentsInv'
<1>1. Request(k, a, mode) \in Asked BY DEF Request, Asked
<1>2. confirming' \in [Clients -> Asked \cup {NoRequest}]
  BY <1>1 DEF StartConfirm, IntentsInv, TypeInv, IntentsTypeOK
<1>3. CASE Replayed(Request(k, a, mode))
  BY <1>1, <1>2, <1>3, ReplayStep DEF StartConfirm
<1>4. CASE UNCHANGED <<approvals, intents, executions, answers>>
  BY <1>2, <1>4, ApprovalsMove DEF StartConfirm, IntentsInv, TypeInv, IntentsTypeOK, PlanInv
<1> QED BY <1>3, <1>4 DEF StartConfirm

\* An approval without a plan is granted, and executed at once.
LEMMA GrantStep ==
  ASSUME IntentsInv, NEW a \in Approvals, NEW mode \in LaunchModes,
         NEW k \in Keys \cup {RandomKey}, WithKey(k) = {} \/ k = RandomKey,
         UNCHANGED <<stageOpen, qbTarget>>,
         confirming' \in [Clients -> Asked \cup {NoRequest}],
         ~approvals[a].planned, Len(intents) < MaxIntents,
         approvals' = [approvals EXCEPT ![a].status = "APPROVED", ![a].planned = TRUE],
         intents' = Append(intents, NewIntent(a, mode, "CONSUMED")),
         executions' = executions \cup {NewExecution(Len(intents'), k)},
         IF k = RandomKey THEN UNCHANGED answers
         ELSE Answer(Request(k, a, mode), NewExecution(Len(intents'), k))
  PROVE  IntentsInv'
<1> DEFINE n == Len(intents) + 1
           row == NewIntent(a, mode, "CONSUMED")
<1>1. row \in Intent BY NewIntentIsTyped DEF IntentsInv
<1>2. /\ row.approval = a /\ row.status = "CONSUMED" /\ row.mode = mode
      /\ row.target = qbTarget
  BY DEF NewIntent
<1>3. intents \in Seq(Intent) /\ Len(intents) \in Nat /\ DOMAIN intents = 1..Len(intents)
  BY IntentRows DEF IntentsInv, TypeInv, IntentsTypeOK
<1> HIDE DEF row
<1>4. /\ intents' \in Seq(Intent) /\ Len(intents') = n /\ n \in Nat \ {0} /\ n <= MaxIntents
      /\ intents'[n] = row /\ \A j \in DOMAIN intents : intents'[j] = intents[j]
  BY <1>1, <1>3, AppendProperties DEF row
<1>5. /\ approvals' \in [Approvals -> Approval]
      /\ approvals'[a].planned /\ approvals'[a].status = "APPROVED"
      /\ \A b \in Approvals : b # a => approvals'[b] = approvals[b]
  BY DEF IntentsInv, TypeInv, IntentsTypeOK, Approval
<1>6. executions' = executions \cup {NewExecution(n, k)} BY <1>4
<1>7. IF k = RandomKey THEN UNCHANGED answers
                       ELSE Answer(Request(k, a, mode), NewExecution(n, k))
  BY <1>4
<1> HIDE DEF n
<1>8. n = Len(intents) + 1 BY DEF n
<1> QED BY <1>2, <1>4, <1>5, <1>6, <1>7, <1>8, ExecutionIsMade

LEMMA FinishConfirmStep ==
  ASSUME IntentsInv, NEW c \in Clients, FinishConfirm(c)
  PROVE  IntentsInv'
<1> DEFINE asked == confirming[c]
<1>1. asked \in Asked BY DEF FinishConfirm, IntentsInv, TypeInv, IntentsTypeOK
<1>2. confirming' \in [Clients -> Asked \cup {NoRequest}]
  BY DEF FinishConfirm, IntentsInv, TypeInv, IntentsTypeOK
<1>3. CASE ConfirmGrants(asked)
  <2> DEFINE a == asked.approval
             k == asked.key
  <2>1. /\ a \in Approvals /\ k \in Keys /\ asked.mode \in LaunchModes
        /\ asked = Request(k, a, asked.mode)
    BY <1>1 DEF Asked, Request
  <2>2. /\ ~approvals[a].planned /\ WithKey(k) = {} /\ Len(intents) < MaxIntents
        /\ approvals' = [approvals EXCEPT ![a].status = "APPROVED", ![a].planned = TRUE]
        /\ intents' = Append(intents, NewIntent(a, asked.mode, "CONSUMED"))
        /\ executions' = executions \cup {NewExecution(Len(intents'), k)}
        /\ Answer(asked, NewExecution(Len(intents'), k))
    BY <1>3 DEF ConfirmGrants
  <2>3. UNCHANGED <<stageOpen, qbTarget>> BY DEF FinishConfirm
  <2>4. Answer(Request(k, a, asked.mode), NewExecution(Len(intents'), k)) BY <2>1, <2>2
  <2> HIDE DEF a, k, asked
  <2> QED BY <1>2, <2>1, <2>2, <2>3, <2>4, GrantStep
<1>4. CASE ConfirmLoses(asked)
  BY <1>1, <1>2, <1>4, ReplayStep DEF ConfirmLoses, FinishConfirm
<1> QED BY <1>3, <1>4 DEF FinishConfirm

LEMMA TimeStep ==
  ASSUME IntentsInv, TimePasses
  PROVE  IntentsInv'
<1>1. CASE \E a \in Approvals : /\ approvals[a].status = "APPROVED"
                                /\ approvals' = [approvals EXCEPT ![a].status = "LAPSED"]
                                /\ UNCHANGED intents
  BY <1>1, ApprovalsMove DEF TimePasses, IntentsInv, TypeInv, IntentsTypeOK, PlanInv, Approval
<1>2. CASE \E i \in DOMAIN intents : /\ intents[i].status = "ACTIVE" /\ ~intents[i].due
                                     /\ intents' = [intents EXCEPT ![i].due = TRUE]
                                     /\ UNCHANGED approvals
  <2>1. PICK i \in DOMAIN intents : /\ intents[i].status = "ACTIVE"
                                    /\ intents' = [intents EXCEPT ![i].due = TRUE]
    BY <1>2
  <2> DEFINE row == [intents[i] EXCEPT !.due = TRUE]
  <2>2. intents[i] \in Intent /\ Len(intents) \in Nat /\ intents[i].approval \in Approvals
    BY IntentRows DEF IntentsInv, Intent
  <2>3. row \in Intent /\ intents' = [intents EXCEPT ![i] = row] BY <2>1, <2>2 DEF Intent
  <2>4. /\ row.approval = intents[i].approval /\ row.mode = intents[i].mode
        /\ row.target = intents[i].target /\ row.status = intents[i].status
    BY <2>2 DEF Intent
  <2> HIDE DEF row
  <2>5. /\ intents' \in Seq(Intent) /\ Len(intents') = Len(intents)
        /\ intents'[i] = row /\ \A j \in DOMAIN intents : j # i => intents'[j] = intents[j]
        /\ Len(intents) <= MaxIntents
    BY <2>3, RowUpdate DEF IntentsInv
  <2>6. \A j \in DOMAIN intents :
           /\ intents'[j].approval = intents[j].approval
           /\ intents'[j].mode = intents[j].mode
           /\ intents'[j].target = intents[j].target
           /\ intents[j].status # "ACTIVE" => intents'[j].status = intents[j].status
           /\ intents'[j].status # "CONSUMED" \/ intents[j].status = "CONSUMED"
    BY <2>1, <2>4, <2>5
  <2>7. Len(intents) # Len(intents) + 1 BY <2>2
  <2> QED BY <1>2, <2>2, <2>5, <2>6, <2>7, IntentsMove DEF TimePasses
<1> QED BY <1>1, <1>2 DEF TimePasses

LEMMA IntentsStep == IntentsInv /\ [IntentsNext]_intentVars => IntentsInv'
<1> SUFFICES ASSUME IntentsInv, [IntentsNext]_intentVars PROVE IntentsInv' OBVIOUS
<1>1. ASSUME NEW a \in Approvals, Review(a) PROVE IntentsInv'
  <2>1. CASE approvals' = [approvals EXCEPT ![a].status = "APPROVED", ![a].planned = TRUE]
    BY <1>1, <2>1, ApprovalsMove DEF Review, IntentsInv, TypeInv, IntentsTypeOK, PlanInv, Approval
  <2>2. CASE approvals' = [approvals EXCEPT ![a].status = "ENDED"]
    BY <1>1, <2>2, ApprovalsMove DEF Review, IntentsInv, TypeInv, IntentsTypeOK, PlanInv, Approval
  <2> QED BY <1>1, <2>1, <2>2 DEF Review
<1>2. ASSUME NEW a \in Approvals, AutomaticGrant(a) PROVE IntentsInv'
  <2>1. ~approvals[a].planned BY <1>2 DEF AutomaticGrant, IntentsInv, PlanInv
  <2>2. confirming' \in [Clients -> Asked \cup {NoRequest}]
    BY <1>2 DEF AutomaticGrant, IntentsInv, TypeInv, IntentsTypeOK
  <2>3. "ADD_PAUSED" \in LaunchModes BY DEF LaunchModes
  <2> QED BY <1>2, <2>1, <2>2, <2>3, GrantStep DEF AutomaticGrant
<1>3. CASE \E a \in Approvals, mode \in LaunchModes : CreateIntent(a, mode)
  BY <1>3, CreateIntentStep
<1>4. CASE \E a \in Approvals, i \in 1..MaxIntents, k \in Keys : Execute(a, i, k)
  BY <1>4, ExecuteStep
<1>5. CASE \E c \in Clients, k \in Keys, a \in Approvals, mode \in LaunchModes :
             StartConfirm(c, k, a, mode)
  BY <1>5, StartConfirmStep
<1>6. CASE \E c \in Clients : FinishConfirm(c)
  BY <1>6, FinishConfirmStep
<1>7. CASE \E c \in Clients : DropConfirm(c)
  BY <1>7, ApprovalsMove DEF DropConfirm, IntentsInv, TypeInv, IntentsTypeOK, PlanInv
<1>8. CASE TimePasses
  BY <1>8, TimeStep
<1>9. CASE Administer
  BY <1>9, ApprovalsMove DEF Administer, IntentsInv, TypeInv, IntentsTypeOK, PlanInv
<1>10. CASE UNCHANGED intentVars
  BY <1>10, ApprovalsMove DEF intentVars, IntentsInv, TypeInv, IntentsTypeOK, PlanInv
<1> QED BY <1>1, <1>2, <1>3, <1>4, <1>5, <1>6, <1>7, <1>8, <1>9, <1>10 DEF IntentsNext

----------------------------------------------------------------------------
\* IntentsInv holds in every state.
THEOREM IntentsInvariance == IntentsSpec => []IntentsInv
BY IntentsInitially, IntentsStep, PTL DEF IntentsSpec

\* Behind every execution is one intent that was used for it, and none is used
\* up without (create_execution_intent, execute_approved_plan).
THEOREM ExecutionsAreBacked == IntentsSpec => []IntentBacksExecution
<1>1. IntentsInv => IntentBacksExecution
  BY DEF IntentsInv, BackInv, IntentBacksExecution, ActiveIntents
<1> QED BY <1>1, IntentsInvariance, PTL

\* A repeated key is answered with one request and one execution
\* (_require_same_idempotent_request, find_idempotent_candidate_execution).
THEOREM AnswersAreOne == IntentsSpec => []AnswersAgree
<1>1. ASSUME IntentsInv, NEW x \in answers, NEW y \in answers, x.asked.key = y.asked.key
      PROVE  x = y
  <2>1. /\ x \in Answers /\ y \in Answers BY <1>1 DEF IntentsInv, TypeInv
  <2>2. x.asked.key \in Keys BY <2>1 DEF Answers, Asked
  <2>3. x.execution = y.execution BY <1>1, <2>2 DEF IntentsInv, KeyInv
  <2>4. x.asked = y.asked
    <3>1. x.asked \in Asked /\ y.asked \in Asked BY <2>1 DEF Answers
    <3>2. x.asked.approval = y.asked.approval /\ x.asked.mode = y.asked.mode
      BY <1>1, <2>3 DEF IntentsInv, KeyInv
    <3> QED BY <1>1, <3>1, <3>2 DEF Asked
  <2> QED BY <2>1, <2>3, <2>4 DEF Answers
<1>2. IntentsInv => AnswersAgree BY <1>1 DEF AnswersAgree
<1> QED BY <1>2, IntentsInvariance, PTL

----------------------------------------------------------------------------
\* e comes into being for an approval that has none and stands approved, while
\* the stage is open, for the target of now, under a key nobody has used.
Granted(e) ==
  /\ executions' = executions \cup {e}
  /\ ExecutionsOf(e.approval) = {}
  /\ approvals'[e.approval].status = "APPROVED"
  /\ stageOpen /\ e.target = qbTarget
  /\ e.key \in Keys => WithKey(e.key) = {}

\* What ExecuteApprovedPlan of DownloadExecution rests on: no execution is lost,
\* and each comes from a grant (execute_approved_plan, confirm_candidate_download,
\* maybe_create_automatic_execution).
ExecutionIsGranted ==
  [][executions' /= executions => \E e \in executions' : Granted(e)]_intentVars

\* An approval without a plan was never executed.
LEMMA UnplannedIsUnexecuted ==
  ASSUME IntentsInv, NEW a \in Approvals, ~approvals[a].planned
  PROVE  ExecutionsOf(a) = {}
BY DEF IntentsInv, BackInv, PlanInv, ExecutionsOf

\* A grant with an intent of its own.
LEMMA GrantIsGranted ==
  ASSUME IntentsInv, NEW a \in Approvals, NEW mode, NEW k,
         ~approvals[a].planned, stageOpen, k \in Keys => WithKey(k) = {},
         approvals' = [approvals EXCEPT ![a].status = "APPROVED", ![a].planned = TRUE],
         intents' = Append(intents, NewIntent(a, mode, "CONSUMED")),
         executions' = executions \cup {NewExecution(Len(intents'), k)}
  PROVE  Granted(NewExecution(Len(intents'), k))
<1> DEFINE n == NewIntent(a, mode, "CONSUMED")
<1>1. intents \in Seq(Intent) BY DEF IntentsInv, TypeInv, IntentsTypeOK
<1>2. Len(intents') = Len(intents) + 1 /\ intents'[Len(intents')] = n
  <2>1. intents \in Seq(Intent \cup {n}) /\ n \in Intent \cup {n}
    BY <1>1
  <2> HIDE DEF n
  <2>2. intents' = Append(intents, n) BY DEF n
  <2> QED BY <2>1, <2>2, AppendProperties
<1>3. approvals'[a].status = "APPROVED"
  BY DEF IntentsInv, TypeInv, IntentsTypeOK, Approval
<1>4. ExecutionsOf(a) = {} BY UnplannedIsUnexecuted
<1>5. n.approval = a BY DEF NewIntent
<1> HIDE DEF n
<1> QED BY <1>2, <1>3, <1>4, <1>5 DEF Granted, NewExecution

\* Every execution comes from a grant of the same transaction or of an intent
\* (execute_approved_plan, confirm_candidate_download, maybe_create_automatic_execution).
THEOREM ExecutionsAreGranted == IntentsSpec => ExecutionIsGranted
<1>1. ASSUME IntentsInv, [IntentsNext]_intentVars, executions' /= executions
      PROVE  \E e \in executions' : Granted(e)
  <2>1. CASE \E a \in Approvals : AutomaticGrant(a)
    <3>1. PICK a \in Approvals : AutomaticGrant(a) BY <2>1
    <3>2. ~approvals[a].planned BY <1>1, <3>1 DEF AutomaticGrant, IntentsInv, PlanInv
    <3>3. Granted(NewExecution(Len(intents'), RandomKey))
      BY <1>1, <3>1, <3>2, GrantIsGranted, MarkAssumption DEF AutomaticGrant
    <3> QED BY <3>3 DEF Granted
  <2>2. CASE \E a \in Approvals, i \in 1..MaxIntents, k \in Keys : Execute(a, i, k)
    <3>1. PICK a \in Approvals, i \in 1..MaxIntents, k \in Keys :
            stageOpen /\ WithKey(k) = {} /\ Consume(a, i, k)
      BY <1>1, <2>2 DEF Execute, ExecuteAgain, ApprovalExpires, IntentExpires
    <3>2. intents'[i].approval = a
      <4>1. /\ i \in DOMAIN intents /\ intents[i].approval = a
            /\ intents' = [intents EXCEPT ![i].status = "CONSUMED"]
        BY <3>1 DEF Consume, ActiveIntents
      <4>2. intents[i] \in Intent BY <1>1, <4>1, IntentRows DEF IntentsInv
      <4>3. intents'[i] = [intents[i] EXCEPT !.status = "CONSUMED"] BY <4>1
      <4> QED BY <4>1, <4>2, <4>3 DEF Intent
    <3>3. Granted(NewExecution(i, k))
      BY <3>1, <3>2 DEF Consume, Granted, NewExecution, UsableIntent
    <3> QED BY <3>3 DEF Granted
  <2>3. CASE \E c \in Clients : FinishConfirm(c)
    <3>1. PICK c \in Clients : FinishConfirm(c) BY <2>3
    <3>2. ConfirmGrants(confirming[c]) BY <1>1, <3>1 DEF FinishConfirm, ConfirmLoses, Replayed
    <3>3. confirming[c] \in Asked
      BY <1>1, <3>1 DEF FinishConfirm, IntentsInv, TypeInv, IntentsTypeOK
    <3>4. Granted(NewExecution(Len(intents'), confirming[c].key))
      BY <1>1, <3>1, <3>2, <3>3, GrantIsGranted DEF FinishConfirm, ConfirmGrants, Asked
    <3> QED BY <3>4 DEF Granted
  <2>4. CASE UNCHANGED executions BY <1>1, <2>4
  <2>5. ASSUME \/ \E a \in Approvals : Review(a)
               \/ \E a \in Approvals, mode \in LaunchModes : CreateIntent(a, mode)
               \/ \E c \in Clients, k \in Keys, a \in Approvals, mode \in LaunchModes :
                    StartConfirm(c, k, a, mode)
               \/ \E c \in Clients : DropConfirm(c)
               \/ TimePasses \/ Administer \/ UNCHANGED intentVars
        PROVE  UNCHANGED executions
    BY <2>5 DEF Review, CreateIntent, ApprovalExpires, StartConfirm, Replayed, DropConfirm,
                TimePasses, Administer, intentVars
  <2> QED BY <1>1, <2>1, <2>2, <2>3, <2>4, <2>5 DEF IntentsNext
<1>2. IntentsInv /\ [IntentsNext]_intentVars =>
        [executions' /= executions => \E e \in executions' : Granted(e)]_intentVars
  BY <1>1
<1> QED BY <1>2, IntentsInvariance, PTL DEF IntentsSpec, ExecutionIsGranted
===============================================================================
