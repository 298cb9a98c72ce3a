--------------------------- MODULE CandidateEvidence ---------------------------
(***************************************************************************)
(* What is known of one candidate on its way to the downloader, and which  *)
(* of it is checked where:                                                 *)
(*   services/automation.py          may it be selected automatically?     *)
(*   services/preflight.py           the twelve checks and their verdict   *)
(*   services/approvals.py           the snapshot and the plan             *)
(*   core/pt_site_rules.py           what a site's H&R rule says           *)
(*   services/torrent_validation.py  the torrent file                      *)
(*   workers/download_executor.py    the candidate, found again            *)
(*                                                                         *)
(* The site may leave a field out (Unknown) and may say something else     *)
(* each time it is asked; the torrent file may be any.  How the rows are   *)
(* locked and leased is left to ApprovalReview and DownloadExecution: here *)
(* one handler runs at a time, and an attempt of the executor may be lost  *)
(* in any step.                                                            *)
(***************************************************************************)
EXTENDS Naturals, FiniteSets

CONSTANTS
  Titles,      \* release titles
  Hashes,      \* info hashes
  Sizes,       \* sizes of a download
  Ids,         \* TMDB ids
  SomeSettings,\* settings an administrator may give, see Settings
  SomeAnswers, \* answers qBittorrent may give, see Answers
  MinSeeders,  \* the policy's torrent_min_seeders; more are like as many
  MaxChanges,  \* bound: changes of the settings
  Unknown,     \* the site does not say
  Nothing      \* no preflight, no plan, no torrent yet

ASSUME SizesAssumption == Sizes \subseteq Nat \ {0} /\ Unknown \notin Sizes
ASSUME SeedersAssumption == MinSeeders \in Nat \ {0}

PtSites  == {"avistaz", "other"}
Maybe(S) == S \cup {Unknown}
Candidate == [title : Titles, id : Maybe(Ids), hash : Maybe(Hashes),
              size : Maybe(Sizes), seeders : Maybe(0..MinSeeders), hnr : Maybe(BOOLEAN)]
\* A torrent file has one hash, or those of its two versions.
Torrent == [hashes : (SUBSET Hashes) \ {{}}, size : Sizes]

\* The settings that the fingerprint of a preflight covers: the size limit, the
\* target category, the forbidden versions and the save path's being allowed.
Settings == [limit : Maybe(Sizes), category : BOOLEAN, rules : BOOLEAN,
             path : {"allowed", "outside", "missing"}]
ASSUME SettingsAssumption == SomeSettings \subseteq Settings

VARIABLES
  stage,      \* found, pending, approved, queued, bound, searched, submitted
  site,       \* the site it was found on
  found,      \* torrent_candidates: what the search found
  media,      \* the TMDB id of its media item, confirmed or not known
  requester,  \* who requested the approval, and
  launcher,   \*   who created the execution
  preflight,  \* the result of the last preflight: its verdict and settings
  plan,       \* the settings the plan was made under
  settings,   \* the settings of the API
  executor,   \* the settings the executor was started with
  listing,    \* hash and size of the candidate that the executor has found again
  torrent,    \* the torrent file that it has handed over
  changes

bindingVars  == <<site, found, media>>
settingsVars == <<settings, executor, changes>>
evidenceVars == <<stage, bindingVars, requester, launcher, preflight, plan,
                  settingsVars, listing, torrent>>


EvidenceInit ==
  /\ stage = "found"
  /\ site \in PtSites /\ found \in Candidate /\ media \in Maybe(Ids)
  /\ requester = "NOBODY" /\ launcher = "NOBODY"
  /\ preflight = Nothing /\ plan = Nothing
  /\ settings \in SomeSettings /\ executor = settings
  /\ listing = Nothing /\ torrent = Nothing /\ changes = 0

----------------------------------------------------------------------------
\* Rules.

\* effective_hnr_rule: AvistaZ has a rule of its own.
HnrRule(s, hnr) == IF s = "avistaz" THEN TRUE ELSE hnr

\* evaluate_torrent_candidates, of the best candidate: the part that looks at
\* its evidence.  Scores, margins, warnings, year and episodes may refuse it
\* too.  The job worker that asks has the settings of the API.
Eligible ==
  /\ site = "avistaz"
  /\ media /= Unknown /\ found.id = media
  /\ HnrRule(site, found.hnr) /= Unknown
  /\ found.hash /= Unknown
  /\ found.size /= Unknown
  /\ settings.limit /= Unknown => found.size <= settings.limit
  /\ found.seeders /= Unknown /\ found.seeders >= MinSeeders

----------------------------------------------------------------------------
\* The twelve checks, from the answers of qBittorrent.  An answer that failed
\* is "failed"; only what a check makes of it is kept of the others.

Answers == [version : {"permitted", "forbidden", "failed"}, webApi : {"read", "failed"},
            hash : {"clear", "present", "failed"}, recent : {"read", "failed"},
            seeding : {"active", "none", "failed"},
            categories : {"exists", "absent", "failed"}]
ASSUME AnswersAssumption == SomeAnswers \subseteq Answers

VersionCheck(a) == IF a.version = "failed" THEN "UNKNOWN" ELSE "PASS"
WebApiCheck(a)  == IF a.webApi = "failed" THEN "UNKNOWN" ELSE "PASS"
\* _avistaz_version_check: without rules there is no telling.
VersionRuleCheck(a) ==
  CASE ~settings.rules \/ a.version = "failed"      -> "UNKNOWN"
    [] settings.rules /\ a.version = "forbidden"    -> "BLOCKED"
    [] settings.rules /\ a.version = "permitted"    -> "PASS"
CategoryCheck(a) ==
  CASE ~settings.category \/ a.categories = "failed" -> "UNKNOWN"
    [] settings.category /\ a.categories = "absent"  -> "WARNING"
    [] settings.category /\ a.categories = "exists"  -> "PASS"
\* _info_hash_check: qBittorrent is not asked for a hash that is not known.
HashCheck(a) ==
  IF found.hash = Unknown THEN "WARNING"
  ELSE [failed |-> "UNKNOWN", present |-> "BLOCKED", clear |-> "PASS"][a.hash]
\* _duplicate_release_check: it warns with or without a namesake in the sample,
\* since the sample is not the whole library.
ReleaseCheck(a) ==
  IF found.size /= Unknown /\ a.recent = "failed" THEN "UNKNOWN" ELSE "WARNING"
PathCheck == [missing |-> "UNKNOWN", outside |-> "BLOCKED", allowed |-> "PASS"][settings.path]
SizeCheck ==
  CASE settings.limit = Unknown -> "UNKNOWN"
    [] settings.limit /= Unknown /\ found.size = Unknown -> "WARNING"
    [] settings.limit /= Unknown /\ found.size /= Unknown ->
         IF found.size > settings.limit THEN "BLOCKED" ELSE "PASS"
SeedingCheck(a) == [failed |-> "UNKNOWN", none |-> "WARNING", active |-> "PASS"][a.seeding]
SeedersCheck ==
  IF found.seeders = Unknown THEN "WARNING"
  ELSE IF found.seeders = 0 THEN "BLOCKED" ELSE "PASS"
HnrCheck == IF HnrRule(site, found.hnr) = Unknown THEN "UNKNOWN" ELSE "PASS"

\* evaluate_preflight: the gravest of the checks; without a connection nothing
\* is read, and that check blocks.
Verdict(connected, a) ==
  LET checks == {VersionCheck(a), WebApiCheck(a), VersionRuleCheck(a), CategoryCheck(a),
                 HashCheck(a), ReleaseCheck(a), PathCheck, SizeCheck, SeedingCheck(a),
                 SeedersCheck, HnrCheck, IF connected THEN "PASS" ELSE "BLOCKED"}
  IN  IF "BLOCKED" \in checks THEN "BLOCKED"
      ELSE IF "UNKNOWN" \in checks THEN "UNKNOWN"
      ELSE IF "WARNING" \in checks THEN "WARNING" ELSE "PASS"

----------------------------------------------------------------------------
\* Handlers.

\* maybe_automate_torrent_selection and create_approval_request: the snapshot
\* is what was found, with the H&R rule of its site.
RequestApproval ==
  /\ stage = "found"
  /\ \E who \in {"OPERATOR", "AUTOMATION"} :
       /\ who = "AUTOMATION" => Eligible
       /\ requester' = who
  /\ found' = [found EXCEPT !.hnr = HnrRule(site, found.hnr)]
  /\ stage' = "pending"
  /\ UNCHANGED <<site, media, launcher, preflight, plan, settingsVars, listing, torrent>>

\* evaluate_preflight: the answers that a check would not use are not asked for.
Preflight ==
  /\ stage = "pending"
  /\ \E connected \in BOOLEAN, a \in SomeAnswers :
       preflight' = [verdict |-> Verdict(connected, a), settings |-> settings]
  /\ UNCHANGED <<stage, bindingVars, requester, launcher, plan, settingsVars,
                 listing, torrent>>

\* approve_request, manual or automatic: the plan keeps the fingerprint.
\* Automatic approval wants a PASS, see CompleteEvidencePasses.
Approve ==
  /\ stage = "pending" /\ preflight /= Nothing
  /\ preflight.verdict \in {"PASS", "WARNING"}
  /\ preflight.settings = settings
  /\ settings.category
  /\ stage' = "approved" /\ plan' = settings
  /\ UNCHANGED <<bindingVars, requester, launcher, preflight, settingsVars, listing, torrent>>

\* execute_approved_plan, or maybe_create_automatic_execution with the approval.
CreateExecution ==
  /\ stage = "approved"
  /\ stage' = "queued" /\ launcher' \in {"OPERATOR", "AUTOMATION"}
  /\ UNCHANGED <<bindingVars, requester, preflight, plan, settingsVars, listing, torrent>>

\* Mutant of BindingHolds: the settings are not compared.
BindingAnySettings == plan /= Nothing
\* _load_binding: the plan was made under the settings the executor has.
BindingHolds == plan = executor

LoadBinding ==
  /\ stage = "queued" /\ BindingHolds
  /\ stage' = "bound"
  /\ UNCHANGED <<bindingVars, requester, launcher, preflight, plan, settingsVars,
                 listing, torrent>>

\* _require_exact_candidate, of the only candidate with the torrent's id.  An
\* operator's execution bears with a missing TMDB id.
Exact(c) ==
  /\ c.title = found.title
  /\ IF launcher = "AUTOMATION"
     THEN /\ media /= Unknown /\ c.id = media
          /\ HnrRule(site, c.hnr) = HnrRule(site, found.hnr)
     ELSE Unknown \in {c.id, media} \/ c.id = media

\* The site is searched again; how many may seed by now is not looked at.
SearchAgain ==
  /\ stage = "bound"
  /\ \E c \in Candidate :
       Exact(c) /\ listing' = [hash |-> c.hash, size |-> c.size]
  /\ stage' = "searched"
  /\ UNCHANGED <<bindingVars, requester, launcher, preflight, plan, settingsVars, torrent>>

\* validate_torrent and _require_torrent_candidate_consistency: what the plan
\* and the site say of the hash and the size is true of the file.
Consistent(t) ==
  /\ {found.hash, listing.hash} \subseteq t.hashes \cup {Unknown}
  /\ {found.size, listing.size} \subseteq {t.size, Unknown}

Submit ==
  /\ stage = "searched"
  /\ \E t \in Torrent : Consistent(t) /\ torrent' = t
  /\ stage' = "submitted"
  /\ UNCHANGED <<bindingVars, requester, launcher, preflight, plan, settingsVars, listing>>

\* An attempt that is lost starts over; so does one whose process is restarted,
\* with the settings of that moment.
Attempting == stage \in {"bound", "searched"}
LoseAttempt ==
  /\ Attempting
  /\ stage' = "queued" /\ listing' = Nothing
  /\ executor' \in {executor, settings}
  /\ UNCHANGED <<bindingVars, requester, launcher, preflight, plan, settings, changes, torrent>>
RestartExecutor ==
  /\ ~Attempting
  /\ executor' = settings
  /\ UNCHANGED <<stage, bindingVars, requester, launcher, preflight, plan, settings, changes,
                 listing, torrent>>

\* The API is configured anew.
ChangeSettings ==
  /\ changes < MaxChanges
  /\ settings' \in SomeSettings \ {settings}
  /\ changes' = changes + 1
  /\ UNCHANGED <<stage, bindingVars, requester, launcher, preflight, plan, executor,
                 listing, torrent>>

EvidenceNext ==
  \/ RequestApproval \/ Preflight \/ Approve \/ CreateExecution
  \/ LoadBinding \/ SearchAgain \/ Submit
  \/ LoseAttempt \/ RestartExecutor \/ ChangeSettings

EvidenceSpec == EvidenceInit /\ [][EvidenceNext]_evidenceVars

----------------------------------------------------------------------------
\* Properties.

\* Nothing the site says in between, and no change of settings, leads to a
\* torrent other than the one approved: where the approval named its hash or
\* its size, they are the file's, and the size is within the limit of the
\* executor that submits (preflight.py, _require_torrent_candidate_consistency,
\* require_preflight_policy_current).
SubmittedIsAsApproved ==
  [][torrent' /= torrent =>
       /\ found.hash /= Unknown => found.hash \in torrent'.hashes
       /\ found.size /= Unknown => torrent'.size = found.size
       /\ found.size /= Unknown \/ requester = "AUTOMATION" =>
            executor.limit /= Unknown /\ torrent'.size <= executor.limit]_evidenceVars

\* What the automation may select, under settings that leave no check open.
NothingMissing ==
  /\ Eligible
  /\ settings.limit /= Unknown /\ settings.path = "allowed"
  /\ settings.category /\ settings.rules

\* What architecture.md:132 and :158 and security.md:154 say of automatic
\* approval: that it happens, on a complete PASS.  Of a candidate that the
\* automation has selected, under complete settings, some state of qBittorrent
\* lets the preflight pass (evaluate_preflight).
CompleteEvidencePasses ==
  stage = "pending" /\ requester = "AUTOMATION" /\ NothingMissing
    => \E a \in SomeAnswers : Verdict(TRUE, a) = "PASS"

\* What the SIZE_LIMIT check says of a candidate of unknown size: that it is
\* checked from the torrent file before anything is written (preflight.py:465).
DeferredSizeIsChecked ==
  stage = "submitted" => torrent.size <= plan.limit
===============================================================================
