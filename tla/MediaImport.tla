------------------------------ MODULE MediaImport ------------------------------
(***************************************************************************)
(* Plans to import a finished download into the media library:             *)
(*   services/media_imports.py    requests, plans, preflights, decisions   *)
(*   api/routes/media_imports.py  who commits them                         *)
(*                                                                         *)
(* A plan records the download it is about.  The monitor goes on writing   *)
(* the job, qBittorrent goes on changing, and nothing re-reads a plan but  *)
(* its own preflight and its approval.  Every operation is one transaction *)
(* that locks the request, then the job, the media item, the execution and *)
(* the approval; the last two are final once the job exists.               *)
(***************************************************************************)
EXTENDS DownloadMonitor

CONSTANTS
  Requests,    \* media_import_requests rows
  Configs,     \* media_import_config_fingerprint values
  MediaTitles, \* title, year, type and tmdb_id of a media item
  NoImport,    \* a row that is not there yet
  NoPreflight  \* no media_import_preflights row

VARIABLES
  requests,  \* the rows, each with its plan and its latest preflight
  config,    \* the fingerprint of the current settings
  title      \* the media item of each job

planVars == <<requests, config, title>>
vars == <<monitoringVars, planVars>>

----------------------------------------------------------------------------
OpenStatuses   == {"PREFLIGHT_REQUIRED", "REVIEW_REQUIRED"}
ActiveStatuses == OpenStatuses \cup {"APPROVED_PLAN_ONLY"}
Statuses == ActiveStatuses \cup {"REJECTED", "REVOKED"}
\* No code sets hnr_status: HNR_DISCLOSURE warns, so no import preflight PASSes.
Verdicts == {"WARNING", "UNKNOWN", "BLOCKED"}
Passable == {"PASS", "WARNING"}

\* _job_summary_snapshot, but for what never changes once the job is there.
Summary == [status : JobStatuses, full : BOOLEAN, done : BOOLEAN, title : MediaTitles]
SummaryOf(j) == [status |-> jobs[j].status, full |-> jobs[j].full,
                 done |-> jobs[j].done, title |-> title[j]]

\* A preflight: its verdict, whether its inspection is younger than
\* media_import_preflight_max_age_seconds, and, for the properties alone, whether
\* the download was as planned then.
ImportPreflight == [verdict : Verdicts, fresh : BOOLEAN, asPlanned : BOOLEAN]
ASSUME NoPreflightAssumption == NoPreflight \notin ImportPreflight
ImportRequest == [job : Jobs, status : Statuses, summary : Summary, config : Configs,
                  preflight : ImportPreflight \cup {NoPreflight}]

\* Requests, settings and media items keep their types, and so does the monitor.
TypeOK ==
  /\ MonitorTypeOK
  /\ requests \in [Requests -> ImportRequest \cup {NoImport}]
  /\ config   \in Configs
  /\ title    \in [Jobs -> MediaTitles]

Init ==
  /\ MonitorInit
  /\ requests = [r \in Requests |-> NoImport]
  /\ config   \in Configs
  /\ title    \in [Jobs -> MediaTitles]

Planned == {r \in Requests : requests[r] /= NoImport}

----------------------------------------------------------------------------
\* What the transactions look at.

\* Mutant of ReadyState: any status will do.
ReadyWhenFull(s) == s.full
\* _require_download_ready, of a job and of a plan's record of it.
ReadyState(s) == s.full /\ s.status \in {"SEEDING", "COMPLETED", "PAUSED"}

Status(r) == requests[r].status
\* Mutant of Taken: approved plans do not count.
TakenByOpen(j) == \E r \in Planned : requests[r].job = j /\ Status(r) \in OpenStatuses
\* uq_media_import_active_download_job, and the look at it before.
Taken(j) == \E r \in Planned : requests[r].job = j /\ Status(r) \in ActiveStatuses

\* Mutant of Bound: only the readiness of the job is looked at.
BoundIfReady(r) == ReadyState(SummaryOf(requests[r].job))
\* SUMMARY_BINDING.
Bound(r) == SummaryOf(requests[r].job) = requests[r].summary

\* _evaluate_inspection: the worst of eleven checks.  The two that compare the
\* plan with the download block; what the files add is up to the inspection.
Evaluations(r) == IF Bound(r) /\ ReadyState(SummaryOf(requests[r].job))
                  THEN Verdicts ELSE {"BLOCKED"}

Set(r, fields) == requests' = [requests EXCEPT ![r] = fields]

----------------------------------------------------------------------------
\* create_media_import_request.
CreatePlan(r, j) ==
  /\ requests[r] = NoImport
  /\ jobs[j] /= NoJob
  /\ ReadyState(SummaryOf(j))
  /\ ~Taken(j)
  /\ Set(r, [job |-> j, status |-> "PREFLIGHT_REQUIRED", summary |-> SummaryOf(j),
             config |-> config, preflight |-> NoPreflight])
  /\ UNCHANGED <<monitoringVars, config, title>>

\* Mutant of RecordPreflight: a bad result leaves the request in review.
RecordKeepingReview(r) ==
  /\ r \in Planned
  /\ Status(r) \in OpenStatuses
  /\ requests[r].config = config
  /\ \E v \in Evaluations(r) :
       Set(r, [requests[r] EXCEPT
         !.preflight = [verdict |-> v, fresh |-> TRUE,
                        asPlanned |-> SummaryOf(requests[r].job) = requests[r].summary],
         !.status = IF v \in Passable THEN "REVIEW_REQUIRED" ELSE @])
  /\ UNCHANGED <<monitoringVars, config, title>>
\* record_media_import_preflight: of an inspection that is not too old.
RecordPreflight(r) ==
  /\ r \in Planned
  /\ Status(r) \in OpenStatuses
  /\ requests[r].config = config
  /\ \E v \in Evaluations(r) :
       Set(r, [requests[r] EXCEPT
         !.preflight = [verdict |-> v, fresh |-> TRUE,
                        asPlanned |-> SummaryOf(requests[r].job) = requests[r].summary],
         !.status = IF v \in Passable THEN "REVIEW_REQUIRED" ELSE "PREFLIGHT_REQUIRED"])
  /\ UNCHANGED <<monitoringVars, config, title>>

\* approve_media_import_request, with all confirmations.
Approvable(r) ==
  /\ Status(r) = "REVIEW_REQUIRED"
  /\ requests[r].config = config
  /\ requests[r].preflight.fresh
  /\ requests[r].preflight.verdict \in Passable
  /\ ReadyState(SummaryOf(requests[r].job))
  /\ Bound(r)

ApprovePlan(r) ==
  /\ r \in Planned
  /\ Approvable(r)
  /\ Set(r, [requests[r] EXCEPT !.status = "APPROVED_PLAN_ONLY"])
  /\ UNCHANGED <<monitoringVars, config, title>>

\* reject_media_import_request.
RejectPlan(r) ==
  /\ r \in Planned
  /\ Status(r) \in OpenStatuses
  /\ Set(r, [requests[r] EXCEPT !.status = "REJECTED"])
  /\ UNCHANGED <<monitoringVars, config, title>>

\* revoke_media_import_request.
RevokePlan(r) ==
  /\ r \in Planned
  /\ Status(r) = "APPROVED_PLAN_ONLY"
  /\ Set(r, [requests[r] EXCEPT !.status = "REVOKED"])
  /\ UNCHANGED <<monitoringVars, config, title>>

\* Time: the inspection reaches its maximal age.
InspectionAges(r) ==
  /\ r \in Planned
  /\ requests[r].preflight /= NoPreflight
  /\ requests[r].preflight.fresh
  /\ Set(r, [requests[r] EXCEPT !.preflight.fresh = FALSE])
  /\ UNCHANGED <<monitoringVars, config, title>>

\* An administrator saves other settings; a later discovery
\* run stores another title or year of the item.
ChangeConfig == /\ \E c \in Configs \ {config} : config' = c
                /\ UNCHANGED <<monitoringVars, requests, title>>
ChangeTitle(j) == /\ \E n \in MediaTitles \ {title[j]} : title' = [title EXCEPT ![j] = n]
                  /\ UNCHANGED <<monitoringVars, requests, config>>

Decide(r) == ApprovePlan(r) \/ RejectPlan(r) \/ RevokePlan(r)

Next ==
  \/ MonitorNext /\ UNCHANGED planVars
  \/ \E r \in Requests : \/ \E j \in Jobs : CreatePlan(r, j)
                         \/ RecordPreflight(r) \/ Decide(r) \/ InspectionAges(r)
  \/ ChangeConfig
  \/ \E j \in Jobs : ChangeTitle(j)

Spec == Init /\ [][Next]_vars
FairSpec == Spec /\ MonitorFairness

----------------------------------------------------------------------------
\* A request is in review exactly while its latest preflight lets it be
\* approved (record_media_import_preflight).
ReviewIsBacked ==
  \A r \in Planned : Status(r) \in OpenStatuses =>
    (Status(r) = "REVIEW_REQUIRED" <=>
       requests[r].preflight /= NoPreflight /\ requests[r].preflight.verdict \in Passable)

\* The plan, the inspection that passed and the approval are about one state of
\* the download, although the monitor wrote the job in between.
InspectedAsPlanned ==
  \A r \in Planned : Status(r) \in {"REVIEW_REQUIRED", "APPROVED_PLAN_ONLY", "REVOKED"} =>
    /\ requests[r].preflight.asPlanned
    /\ ReadyState(requests[r].summary)

\* A download has one plan at a time that is open or approved.
OneActivePlan ==
  \A r, s \in Planned :
    /\ requests[r].job = requests[s].job
    /\ {Status(r), Status(s)} \subseteq ActiveStatuses
    => r = s

\* What a plan imports was complete and has a completion time: the monitor never
\* loses one, whatever it saw of the torrent before.
PlannedDownloadIsComplete ==
  \A r \in Planned : requests[r].summary.full /\ requests[r].summary.done
=============================================================================
