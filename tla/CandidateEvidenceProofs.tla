----------------------- MODULE CandidateEvidenceProofs -----------------------
(***************************************************************************)
(* What CandidateEvidence promises for any titles, hashes, sizes, ids,     *)
(* settings and answers.                                                   *)
(*                                                                         *)
(* SubmittedIsAsApproved is about the last step alone, but what that step  *)
(* needs was settled long before: the preflight looked at the size, the    *)
(* plan took its settings, and the executor compared them with its own,    *)
(* which cannot change while an attempt goes on.  EvidenceInv carries the  *)
(* verdict of the preflight from stage to stage.                           *)
(***************************************************************************)
EXTENDS CandidateEvidence, TLAPS

USE DEF Maybe

Stages == {"found", "pending", "approved", "queued", "bound", "searched", "submitted"}
Planned == stage \in {"approved", "queued", "bound", "searched", "submitted"}

EvidenceTypeOK ==
  /\ stage \in Stages
  /\ found \in Candidate
  /\ settings \in Settings /\ executor \in Settings
  /\ preflight # Nothing => preflight.settings \in Settings
  /\ Planned => plan \in Settings

\* A known size is within a known limit.
Within(s) == s.limit # Unknown /\ (found.size # Unknown => found.size <= s.limit)

\* Before a request is made nothing is known; a preflight that an operator may
\* accept has compared the size with the limit; so has every plan; an attempt
\* is made under the plan's settings; the automation requests only what has a
\* size.
EvidenceInv ==
  /\ EvidenceTypeOK
  /\ stage = "found" => preflight = Nothing /\ requester = "NOBODY"
  /\ preflight # Nothing /\ preflight.verdict \in {"PASS", "WARNING"}
       => Within(preflight.settings)
  /\ Planned => Within(plan)
  /\ Attempting => plan = executor
  /\ requester = "AUTOMATION" => found.size # Unknown

----------------------------------------------------------------------------
\* A preflight that is not worse than a warning has found a known size within
\* the limit (evaluate_preflight, _size_check).
LEMMA VerdictIsGrave ==
  ASSUME EvidenceTypeOK, NEW connected, NEW a,
         Verdict(connected, a) \in {"PASS", "WARNING"}
  PROVE  Within(settings)
<1>1. SizeCheck \notin {"BLOCKED", "UNKNOWN"} BY DEF Verdict
<1>2. settings.limit # Unknown BY <1>1 DEF SizeCheck
<1>3. found.size # Unknown => ~(found.size > settings.limit) BY <1>1, <1>2 DEF SizeCheck
<1>4. found.size \in Sizes \cup {Unknown} /\ settings.limit \in Sizes \cup {Unknown}
  BY DEF EvidenceTypeOK, Candidate, Settings
<1>5. ASSUME found.size # Unknown PROVE found.size <= settings.limit
  <2>1. found.size \in Nat /\ settings.limit \in Nat BY <1>2, <1>4, <1>5, SizesAssumption
  <2> QED BY <1>3, <1>5, <2>1
<1> QED BY <1>2, <1>5 DEF Within

LEMMA EvidenceInitially == EvidenceInit => EvidenceInv
BY SettingsAssumption
DEF EvidenceInit, EvidenceInv, EvidenceTypeOK, Planned, Attempting, Stages

\* Each handler keeps the invariant.
LEMMA EvidenceStep == EvidenceInv /\ [EvidenceNext]_evidenceVars => EvidenceInv'
<1> SUFFICES ASSUME EvidenceInv, [EvidenceNext]_evidenceVars PROVE EvidenceInv' OBVIOUS
<1> USE DEF EvidenceInv, EvidenceTypeOK, Planned, Attempting, Stages, Within
<1>1. CASE RequestApproval
  <2>1. found' \in Candidate /\ found'.size = found.size
    BY <1>1 DEF RequestApproval, Candidate, HnrRule
  <2>2. requester' = "AUTOMATION" => found.size # Unknown
    BY <1>1 DEF RequestApproval, Eligible
  <2>3. /\ stage = "found" /\ stage' = "pending" /\ preflight' = Nothing
        /\ UNCHANGED <<settings, executor, plan>>
    BY <1>1 DEF RequestApproval, settingsVars
  <2> QED BY <2>1, <2>2, <2>3
<1>2. CASE Preflight
  <2>1. PICK connected \in BOOLEAN, a \in SomeAnswers :
          preflight' = [verdict |-> Verdict(connected, a), settings |-> settings]
    BY <1>2 DEF Preflight
  <2>2. preflight'.verdict = Verdict(connected, a) /\ preflight'.settings = settings
    BY <2>1
  <2> HIDE DEF Within
  <2>3. Within(settings)' <=> Within(settings)
    BY <1>2 DEF Preflight, bindingVars, settingsVars, Within
  <2>4. preflight'.verdict \in {"PASS", "WARNING"} => Within(settings)
    BY <2>2, VerdictIsGrave
  <2>5. Within(preflight.settings)' <=> Within(settings)
    BY <2>2, <1>2 DEF Preflight, bindingVars, settingsVars, Within
  <2>6. preflight'.settings \in Settings BY <2>2
  <2> QED BY <1>2, <2>4, <2>5, <2>6 DEF Preflight, bindingVars, settingsVars, Within
<1>3. CASE Approve
  BY <1>3 DEF Approve, bindingVars, settingsVars
<1>4. CASE CreateExecution
  BY <1>4 DEF CreateExecution, bindingVars, settingsVars
<1>5. CASE LoadBinding
  BY <1>5 DEF LoadBinding, BindingHolds, bindingVars, settingsVars
<1>6. CASE SearchAgain
  BY <1>6 DEF SearchAgain, bindingVars, settingsVars
<1>7. CASE Submit
  BY <1>7 DEF Submit, bindingVars, settingsVars
<1>8. CASE LoseAttempt
  BY <1>8 DEF LoseAttempt, bindingVars
<1>9. CASE RestartExecutor
  BY <1>9 DEF RestartExecutor, bindingVars
<1>10. CASE ChangeSettings
  BY <1>10, SettingsAssumption DEF ChangeSettings, bindingVars
<1>11. CASE UNCHANGED evidenceVars
  BY <1>11 DEF evidenceVars, bindingVars, settingsVars
<1> QED BY <1>1, <1>2, <1>3, <1>4, <1>5, <1>6, <1>7, <1>8, <1>9, <1>10, <1>11
  DEF EvidenceNext

----------------------------------------------------------------------------
\* EvidenceInv holds in every state.
THEOREM EvidenceInvariance == EvidenceSpec => []EvidenceInv
BY EvidenceInitially, EvidenceStep, PTL DEF EvidenceSpec

\* The file that is handed over has the hash and the size that were approved,
\* and is within the limit (_require_torrent_candidate_consistency).
THEOREM SubmitsWhatWasApproved == EvidenceSpec => SubmittedIsAsApproved
<1> DEFINE AsApproved ==
      /\ found.hash # Unknown => found.hash \in torrent'.hashes
      /\ found.size # Unknown => torrent'.size = found.size
      /\ found.size # Unknown \/ requester = "AUTOMATION" =>
           executor.limit # Unknown /\ torrent'.size <= executor.limit
<1>1. ASSUME EvidenceInv, EvidenceNext, torrent' # torrent PROVE AsApproved
  <2>1. Submit
    BY <1>1 DEF EvidenceNext, RequestApproval, Preflight, Approve, CreateExecution,
      LoadBinding, SearchAgain, LoseAttempt, RestartExecutor, ChangeSettings
  <2>2. PICK t \in Torrent : Consistent(t) /\ torrent' = t BY <2>1 DEF Submit
  <2>3. stage = "searched" BY <2>1 DEF Submit
  <2>4. plan = executor /\ Within(plan) BY <1>1, <2>3 DEF EvidenceInv, Attempting, Planned
  <2>5. found.hash # Unknown => found.hash \in torrent'.hashes
    BY <2>2 DEF Consistent
  <2>6. found.size # Unknown => torrent'.size = found.size BY <2>2 DEF Consistent
  <2>7. /\ executor.limit # Unknown
        /\ found.size # Unknown => found.size <= executor.limit
    BY <2>4 DEF Within
  <2>8. requester = "AUTOMATION" => found.size # Unknown BY <1>1 DEF EvidenceInv
  <2> QED BY <2>5, <2>6, <2>7, <2>8
<1>2. EvidenceInv /\ [EvidenceNext]_evidenceVars
        => [torrent' # torrent => AsApproved]_evidenceVars
  BY <1>1
<1> QED BY <1>2, EvidenceInvariance, PTL DEF EvidenceSpec, SubmittedIsAsApproved
==============================================================================
