------------------------- MODULE MediaWorkflowProofs -------------------------
(***************************************************************************)
(* What MediaWorkflow promises for any number of items, sites, workers,    *)
(* inputs, attempts and rows: the proof that IInv is inductive, and the    *)
(* properties it implies.                                                  *)
(*                                                                         *)
(* DataInv relates rows and items.  Its core is SettledInv: the three      *)
(* signs by which identity_finalization_evidence tells a settled identity  *)
(* agree, so that a check of one of them is a check of all.  Most steps    *)
(* change one row, and each conjunct is argued for that row and its item;  *)
(* discoveries and confirmations change several and go through a relation  *)
(* of old and new rows (DiscoveryMove, ConfirmMove).                       *)
(*                                                                         *)
(* ClaimInv and QueryInv relate workers and rows.  They rest on two facts  *)
(* about every step: attempts only grow, and a row is RUNNING only if it   *)
(* was or has been claimed again (RowsAdvance); and the input of an item   *)
(* that is not settled changes only in a transaction after which none of   *)
(* its resolutions is RUNNING (InputMoves).                                *)
(***************************************************************************)
EXTENDS MediaWorkflow, WellFoundedInduction, TLAPS

USE BoundsAssumption, NullsAssumption
USE DEF Kinds, ActiveStatuses, EndStatuses, JobStatuses, Steps,
        ActiveSearchStatuses, UnconfirmedStatuses, WorkflowStatuses

----------------------------------------------------------------------------
\* The rows of a job type carry it (job_type).
LEMMA RowOfType ==
  ASSUME NEW j \in JobTypes, NEW r \in RowsOf(j)
  PROVE  r \in Rows /\ r[1] = j /\ r[2] \in Nat /\ r = <<j, r[2]>>
BY DEF RowsOf, Rows

\* A row has one of the job types.
LEMMA TypeOfRow ==
  ASSUME NEW r \in Rows
  PROVE  r[1] \in JobTypes /\ r \in RowsOf(r[1])
BY DEF RowsOf, Rows

\* The three kinds of job types, told apart by their first component.
LEMMA KindOfType ==
  ASSUME NEW j \in JobTypes
  PROVE  /\ j[1] \in Kinds
         /\ j[1] = "DISCOVER_NEXTFIND" => j = Discover
         /\ j[1] = "RESOLVE_METADATA" => j[2] \in Media /\ j = Resolve(j[2])
         /\ j[1] = "TORRENT_SEARCH" =>
              j[2] \in Sites /\ j[3] \in Media /\ j = Search(j[2], j[3])
BY DEF JobTypes, Discover, Resolve, Search

\* The three shapes of job_type are told apart by their first part.
LEMMA Types ==
  /\ Discover \in JobTypes /\ Discover[1] = "DISCOVER_NEXTFIND"
  /\ \A m \in Media : /\ Resolve(m) \in JobTypes 
                      /\ Resolve(m)[1] = "RESOLVE_METADATA" /\ Resolve(m)[2] = m
  /\ \A s \in Sites, m \in Media :
       /\ Search(s, m) \in JobTypes /\ Search(s, m)[1] = "TORRENT_SEARCH"
       /\ Search(s, m)[2] = s /\ Search(s, m)[3] = m
BY DEF JobTypes, Discover, Resolve, Search

\* The rows of the searches of an item, told by their job type.
LEMMA SearchRow ==
  ASSUME NEW m \in Media, NEW r \in Rows
  PROVE  r \in SearchRows(m) <=> r[1][1] = "TORRENT_SEARCH" /\ r[1][3] = m
<1>1. ASSUME r \in SearchRows(m) PROVE r[1][1] = "TORRENT_SEARCH" /\ r[1][3] = m
  <2>1. PICK s \in Sites : r \in RowsOf(Search(s, m)) BY <1>1 DEF SearchRows
  <2> QED BY <2>1, RowOfType, Types
<1>2. ASSUME r[1][1] = "TORRENT_SEARCH", r[1][3] = m PROVE r \in SearchRows(m)
  BY <1>2, TypeOfRow, KindOfType DEF SearchRows
<1> QED BY <1>1, <1>2

\* A type that has a free row has a first one, which is taken next.
LEMMA NextRowIsFree ==
  ASSUME NEW j \in JobTypes, FreeRows(j) # {}
  PROVE  NextRow(j) \in FreeRows(j)
<1> DEFINE N  == {r[2] : r \in FreeRows(j)}
           LT == OpToRel(<, Nat)
<1>1. N \subseteq Nat /\ N # {} BY RowOfType DEF FreeRows
<1>2. IsWellFoundedOn(LT, Nat) BY NatLessThanWellFounded
<1>3. \A k, n \in Nat : <<k, n>> \in LT <=> k < n BY DEF OpToRel
<1> HIDE DEF N, LT
<1>4. PICK n \in N : \A k \in N : ~(<<k, n>> \in LT) BY <1>1, <1>2, WFMin
<1>5. ASSUME NEW k \in N PROVE n <= k
  <2>1. k \in Nat /\ n \in Nat BY <1>1
  <2>2. <<k, n>> \notin LT BY <1>4
  <2>3. <<k, n>> \in LT <=> k < n BY <1>3, <2>1
  <2>4. ~(k < n) BY <2>2, <2>3
  <2> QED BY <2>1, <2>4
<1>6. PICK r \in FreeRows(j) : r[2] = n BY DEF N
<1>7. \A q \in FreeRows(j) : r[2] <= q[2] BY <1>5, <1>6 DEF N
<1> QED BY <1>7 DEF NextRow

----------------------------------------------------------------------------
\* What becomes of a job row.
Job == [status : JobStatuses, attempts : 0..MaxAttempts, lapsed : BOOLEAN,
        input : Inputs \cup {NoInput}, run : RunStatuses \cup {"NONE"}]

Same(j, k) == /\ k \in Job /\ k.status = j.status /\ k.attempts = j.attempts
              /\ k.run = j.run /\ k.input = j.input

\* The statuses of a torrent_search_runs row.
LEMMA RunStatusSet ==
  RunStatuses = {"TORRENT_REVIEW", "PT_SEARCHING", "PT_SEARCH_PENDING",
                 "NO_CANDIDATE", "SEARCH_FAILED"}
BY DEF RunStatuses, Precedence

\* A queued job waits and has not been claimed (enqueue_*).
LEMMA QueuedJob ==
  ASSUME NEW v \in Inputs \cup {NoInput}, NEW run \in RunStatuses \cup {"NONE"}
  PROVE  /\ Queued(v, run) \in Job
         /\ Queued(v, run).status = "PENDING" /\ Queued(v, run).attempts = 0
         /\ Queued(v, run).run = run /\ Queued(v, run).input = v
BY DEF Queued, Job

\* Ending a job changes its status and nothing else that is asked for.
LEMMA EndedJob ==
  ASSUME NEW j \in Job, NEW s \in JobStatuses
  PROVE  /\ Ended(j, s) \in Job
         /\ Ended(j, s).status = s /\ Ended(j, s).attempts = j.attempts
         /\ Ended(j, s).run = j.run /\ Ended(j, s).input = j.input
BY DEF Ended, Job

\* Ending the job of a search also sets the status of its run.
LEMMA SearchedJob ==
  ASSUME NEW j \in Job, NEW s \in JobStatuses, NEW run \in RunStatuses \cup {"NONE"}
  PROVE  LET k == [Ended(j, s) EXCEPT !.run = run] IN
         /\ k \in Job /\ k.status = s /\ k.attempts = j.attempts
         /\ k.run = run /\ k.input = j.input
BY DEF Ended, Job

\* cancel_active_metadata_resolution_jobs cancels the active resolutions of the
\* items and leaves every other row.
LEMMA SupersededJobs ==
  ASSUME jobs \in [Rows -> Job], NEW items \in SUBSET Media
  PROVE  /\ Superseded(items) \in [Rows -> Job]
         /\ \A r \in Rows :
              LET k == Superseded(items)[r] IN
              IF /\ r[1][1] = "RESOLVE_METADATA" /\ r[1][2] \in items
                 /\ jobs[r].status \in ActiveStatuses
              THEN /\ k.status = "CANCELLED" /\ k.attempts = jobs[r].attempts
                   /\ k.run = jobs[r].run /\ k.input = jobs[r].input
              ELSE k = jobs[r]
<1>1. ASSUME NEW r \in Rows
      PROVE  (\E m \in items : r \in ActiveRows(Resolve(m))) <=>
                /\ r[1][1] = "RESOLVE_METADATA" /\ r[1][2] \in items
                /\ jobs[r].status \in ActiveStatuses
  <2>1. ASSUME NEW m \in items, r \in ActiveRows(Resolve(m))
        PROVE  /\ r[1][1] = "RESOLVE_METADATA" /\ r[1][2] = m
               /\ jobs[r].status \in ActiveStatuses
    BY <2>1, RowOfType, Types DEF ActiveRows, ActiveRowsIn
  <2>2. ASSUME r[1][1] = "RESOLVE_METADATA", r[1][2] \in items,
               jobs[r].status \in ActiveStatuses
        PROVE  r \in ActiveRows(Resolve(r[1][2]))
    BY <2>2, TypeOfRow, KindOfType DEF ActiveRows, ActiveRowsIn
  <2> QED BY <2>1, <2>2
<1>2. ASSUME NEW r \in Rows PROVE Ended(jobs[r], "CANCELLED") \in Job
  BY EndedJob
<1>3. Superseded(items) \in [Rows -> Job] BY <1>2 DEF Superseded
<1>4. ASSUME NEW r \in Rows
      PROVE  LET k == Superseded(items)[r] IN
              IF /\ r[1][1] = "RESOLVE_METADATA" /\ r[1][2] \in items
                 /\ jobs[r].status \in ActiveStatuses
              THEN /\ k.status = "CANCELLED" /\ k.attempts = jobs[r].attempts
                   /\ k.run = jobs[r].run /\ k.input = jobs[r].input
              ELSE k = jobs[r]
  <2>1. jobs[r] \in Job OBVIOUS
  <2> QED BY <1>1, <2>1, EndedJob DEF Superseded
<1> QED BY <1>3, <1>4

\* The members of Runs, row by row.
LEMMA RunsOf ==
  ASSUME NEW js, NEW m \in Media, NEW x
  PROVE  x \in Runs(js, m) <=>
           \E r \in Rows : /\ r[1][1] = "TORRENT_SEARCH" /\ r[1][3] = m
                           /\ js[r].run = x /\ x # "NONE"
<1>1. SearchRows(m) \subseteq Rows BY RowOfType, Types DEF SearchRows
<1> QED BY <1>1, SearchRow DEF Runs

\* refresh_media_search_workflow_status picks the status of one of the runs.
LEMMA SearchStatusOfRun ==
  ASSUME NEW js, NEW m \in Media, NEW current, Runs(js, m) \subseteq RunStatuses
  PROVE  /\ Runs(js, m) # {} => SearchStatus(js, m, current) \in Runs(js, m)
         /\ Runs(js, m) = {} => SearchStatus(js, m, current) = current
<1> DEFINE found == {i \in 1..5 : Precedence[i] \in Runs(js, m)}
<1>1. found = {} <=> Runs(js, m) = {} BY DEF RunStatuses
<1>2. ASSUME found # {}
      PROVE  \E i \in found : \A k \in found : i <= k
  <2>1. found \subseteq {1, 2, 3, 4, 5} OBVIOUS
  <2> HIDE DEF found
  <2>2. CASE 1 \in found BY <2>1, <2>2
  <2>3. CASE 1 \notin found /\ 2 \in found BY <2>1, <2>3
  <2>4. CASE 1 \notin found /\ 2 \notin found /\ 3 \in found BY <2>1, <2>4
  <2>5. CASE 1 \notin found /\ 2 \notin found /\ 3 \notin found /\ 4 \in found
    BY <2>1, <2>5
  <2>6. CASE 1 \notin found /\ 2 \notin found /\ 3 \notin found /\ 4 \notin found
    <3>1. 5 \in found /\ \A k \in found : k = 5 BY <1>2, <2>1, <2>6
    <3> QED BY <3>1
  <2> QED BY <2>2, <2>3, <2>4, <2>5, <2>6
<1>3. found # {} => (CHOOSE i \in found : \A k \in found : i <= k) \in found
  BY <1>2
<1> QED BY <1>1, <1>3 DEF SearchStatus

----------------------------------------------------------------------------
\* What the invariant says about the helpers that transactions ask.
LEMMA ActiveRowsOf ==
  ASSUME NEW j \in JobTypes, NEW js, NEW r
  PROVE  r \in ActiveRowsIn(js, j) <=>
           r \in Rows /\ r[1] = j /\ js[r].status \in ActiveStatuses
BY RowOfType, TypeOfRow DEF ActiveRowsIn

\* TypeOK, for the job rows.
LEMMA RowType ==
  ASSUME TypeOK
  PROVE  jobs \in [Rows -> Job]
BY DEF TypeOK, Job

\* identity_finalization_evidence finds nothing but confirmed identities.
LEMMA FinalizedMeansConfirmed ==
  ASSUME RowInv, SettledInv, NEW m \in Media
  PROVE  Finalized(m) <=> m \in confirmed
<1>1. ASSUME NEW x \in Runs(jobs, m) PROVE m \in confirmed
  <2>1. PICK r \in Rows : /\ r[1][1] = "TORRENT_SEARCH" /\ r[1][3] = m
                          /\ jobs[r].run = x /\ x # "NONE"
    BY <1>1, RunsOf
  <2> QED BY <2>1 DEF SettledInv
<1>2. workflow[m] = "IDENTITY_CONFIRMED" => m \in confirmed BY DEF SettledInv
<1> QED BY <1>1, <1>2 DEF Finalized

\* A row that a request or a discovery queues is one that was free.
LEMMA QueueRow ==
  ASSUME TypeOK, NEW j \in JobTypes, FreeRows(j) # {},
         NEW v \in Inputs \cup {NoInput}, NEW run \in RunStatuses \cup {"NONE"},
         jobs' = [jobs EXCEPT ![NextRow(j)] = Queued(v, run)]
  PROVE  /\ jobs' \in [Rows -> Job]
         /\ NextRow(j) \in Rows /\ NextRow(j)[1] = j
         /\ jobs[NextRow(j)].status = "NONE"
         /\ jobs'[NextRow(j)] = Queued(v, run)
         /\ \A r \in Rows \ {NextRow(j)} : jobs'[r] = jobs[r]
<1>1. NextRow(j) \in Rows /\ NextRow(j)[1] = j /\ jobs[NextRow(j)].status = "NONE"
  BY NextRowIsFree, RowOfType DEF FreeRows
<1>2. Queued(v, run) \in Job BY QueuedJob
<1> QED BY <1>1, <1>2, RowType

----------------------------------------------------------------------------
\* Types. A request queues rows and sets the status of an item.
LEMMA RequestTypes ==
  ASSUME TypeOK,
         \/ CreateDiscoveryRun \/ Operator
  PROVE  TypeOK'
<1>1. ASSUME CreateDiscoveryRun PROVE TypeOK'
  <2>1. jobs' \in [Rows -> Job]
    BY <1>1, QueueRow, Types DEF CreateDiscoveryRun
  <2> QED BY <1>1, <2>1 DEF CreateDiscoveryRun, TypeOK, Job, mediaVars, workerVars
<1>2. ASSUME NEW m \in Media, LoadMedia(m) PROVE TypeOK'
  BY <1>2 DEF LoadMedia, TypeOK, mediaVars, workerVars
<1>3. ASSUME AbandonRequest PROVE TypeOK'
  BY <1>3 DEF AbandonRequest, TypeOK, mediaVars, workerVars
<1> DEFINE m == request.media
<1>4. ASSUME request # NoRequest
      PROVE  /\ m \in Media /\ request.input \in Inputs
             /\ request.workflow \in WorkflowStatuses
  BY <1>4 DEF TypeOK
<1>5. ASSUME RequestResolution PROVE TypeOK'
  <2>1. m \in Media /\ request.input \in Inputs BY <1>4, <1>5 DEF RequestResolution
  <2>2. jobs' \in [Rows -> Job]
    BY <1>5, <2>1, QueueRow, Types DEF RequestResolution
  <2> QED BY <1>5, <2>1, <2>2
          DEF RequestResolution, SetWorkflow, Written, TypeOK, Job, workerVars
<1>6. ASSUME ConfirmIdentity PROVE TypeOK'
  <2>1. m \in Media /\ request.input \in Inputs BY <1>4, <1>6 DEF ConfirmIdentity
  <2>2. PICK searches \in FirstSearches : Confirm(Superseded({m}), m, searches, request.input)
    BY <1>6 DEF ConfirmIdentity
  <2>3. Superseded({m}) \in [Rows -> Job] BY <2>1, SupersededJobs, RowType
  <2>4. jobs' \in [Rows -> Job]
    BY <2>1, <2>2, <2>3, QueuedJob, RunStatusSet DEF Confirm
  <2> QED BY <1>6, <2>1, <2>2, <2>4, RunStatusSet
          DEF ConfirmIdentity, Confirm, TypeOK, Job, workerVars
<1>7. ASSUME NEW s \in Sites, RequestSearch(s) PROVE TypeOK'
  <2>1. m \in Media /\ request.input \in Inputs /\ request.workflow \in WorkflowStatuses
    BY <1>4, <1>7 DEF RequestSearch
  <2>2. jobs' \in [Rows -> Job]
    <3>1. /\ FreeRows(Search(s, m)) # {}
          /\ jobs' = [jobs EXCEPT ![NextRow(Search(s, m))] =
                        Queued(request.input, "PT_SEARCH_PENDING")]
      BY <1>7 DEF RequestSearch
    <3>2. Search(s, m) \in JobTypes /\ "PT_SEARCH_PENDING" \in RunStatuses
      BY <2>1, Types, RunStatusSet
    <3> QED BY <2>1, <3>1, <3>2, QueueRow
  <2>3. Runs(jobs', m) \subseteq RunStatuses BY <2>1, <2>2, RunsOf DEF Job
  <2>4. SearchStatus(jobs', m, request.workflow) \in WorkflowStatuses
    BY <2>1, <2>3, SearchStatusOfRun
  <2> QED BY <1>7, <2>1, <2>2, <2>4
          DEF RequestSearch, SetWorkflow, Written, TypeOK, Job, workerVars
<1> QED BY <1>1, <1>2, <1>3, <1>5, <1>6, <1>7 DEF Operator

\* A worker whose run_once returns leaves types as they are.
LEMMA DropTypes ==
  ASSUME TypeOK, NEW w \in Workers, Drop(w),
         jobs' \in [Rows -> Job], workflow' \in [Media -> WorkflowStatuses],
         input' \in [Media -> Inputs \cup {NoInput}],
         matchedInput' \in [Media -> Inputs \cup {NoInput}],
         confirmed' \in SUBSET Media, request' = request
  PROVE  TypeOK'
BY DEF Drop, TypeOK, Job

\* So does one that goes on to its next step.
LEMMA GotoTypes ==
  ASSUME TypeOK, NEW w \in Workers, NEW step \in Steps, Goto(w, step),
         UNCHANGED <<jobs, mediaVars, request>>
  PROVE  TypeOK'
BY DEF Goto, TypeOK, mediaVars

\* A transaction that ends a claimed row changes that row only.
LEMMA EndRow ==
  ASSUME TypeOK, NEW r \in Rows, NEW s \in JobStatuses,
         jobs' = [jobs EXCEPT ![r] = Ended(@, s)]
  PROVE  /\ jobs' \in [Rows -> Job]
         /\ jobs'[r].status = s /\ jobs'[r].attempts = jobs[r].attempts
         /\ jobs'[r].run = jobs[r].run /\ jobs'[r].input = jobs[r].input
         /\ \A q \in Rows \ {r} : jobs'[q] = jobs[q]
<1>1. jobs[r] \in Job BY RowType
<1>2. jobs' = [jobs EXCEPT ![r] = Ended(jobs[r], s)] OBVIOUS
<1> QED BY <1>1, <1>2, EndedJob, RowType

\* A search row that ends with a new run status.
LEMMA EndSearchRow ==
  ASSUME TypeOK, NEW r \in Rows, NEW s \in JobStatuses,
         NEW run \in RunStatuses \cup {"NONE"},
         jobs' = [jobs EXCEPT ![r] = [Ended(@, s) EXCEPT !.run = run]]
  PROVE  /\ jobs' \in [Rows -> Job]
         /\ jobs'[r].status = s /\ jobs'[r].attempts = jobs[r].attempts
         /\ jobs'[r].run = run /\ jobs'[r].input = jobs[r].input
         /\ \A q \in Rows \ {r} : jobs'[q] = jobs[q]
<1> DEFINE k == [Ended(jobs[r], s) EXCEPT !.run = run]
<1>1. jobs[r] \in Job BY RowType
<1>2. jobs' = [jobs EXCEPT ![r] = k] OBVIOUS
<1>3. /\ k \in Job /\ k.status = s /\ k.attempts = jobs[r].attempts
      /\ k.run = run /\ k.input = jobs[r].input
  BY <1>1, SearchedJob
<1> HIDE DEF k
<1> QED BY <1>2, <1>3, RowType

\* renew_lease, and the lease running out.
LEMMA LeaseRow ==
  ASSUME TypeOK, NEW r \in Rows, NEW b \in BOOLEAN,
         jobs' = [jobs EXCEPT ![r].lapsed = b]
  PROVE  jobs' \in [Rows -> Job] /\ \A q \in Rows : Same(jobs[q], jobs'[q])
<1> DEFINE k == [jobs[r] EXCEPT !.lapsed = b]
<1>1. jobs[r] \in Job BY RowType
<1>2. Same(jobs[r], k) BY <1>1 DEF Same, Job
<1>3. jobs' = [jobs EXCEPT ![r] = k] OBVIOUS
<1>4. \A q \in Rows : jobs[q] \in Job /\ Same(jobs[q], jobs[q]) BY RowType DEF Same
<1> HIDE DEF k
<1>5. \A q \in Rows : jobs'[q] = IF q = r THEN k ELSE jobs[q] BY <1>3, RowType
<1>6. \A q \in Rows : Same(jobs[q], jobs'[q]) BY <1>2, <1>4, <1>5
<1>7. k \in Job BY <1>2 DEF Same
<1> QED BY <1>3, <1>6, <1>7, RowType

\* claim_job
LEMMA ClaimRow ==
  ASSUME TypeOK, NEW w \in Workers, NEW r \in Rows, ClaimJob(w, r)
  PROVE  /\ jobs' \in [Rows -> Job]
         /\ jobs[r].status \in ActiveStatuses
         /\ jobs'[r].status = "RUNNING" /\ jobs'[r].attempts = jobs[r].attempts + 1
         /\ jobs'[r].run = IF jobs[r].run = "NONE" THEN "NONE" ELSE "PT_SEARCHING"
         /\ jobs'[r].input = jobs[r].input
         /\ \A q \in Rows \ {r} : jobs'[q] = jobs[q]
<1> DEFINE job == [jobs[r] EXCEPT !.status = "RUNNING", !.attempts = @ + 1,
                             !.lapsed = FALSE,
                             !.run = IF @ = "NONE" THEN @ ELSE "PT_SEARCHING"]
<1>1. jobs[r] \in Job /\ jobs[r].attempts < MaxAttempts
  BY RowType DEF ClaimJob, Claimable
<1>2. /\ job \in Job /\ job.status = "RUNNING" /\ job.attempts = jobs[r].attempts + 1
      /\ job.run = IF jobs[r].run = "NONE" THEN "NONE" ELSE "PT_SEARCHING"
      /\ job.input = jobs[r].input
  <2>1. "PT_SEARCHING" \in RunStatuses BY RunStatusSet
  <2>2. jobs[r].attempts + 1 \in 0..MaxAttempts BY <1>1 DEF Job
  <2> QED BY <1>1, <2>1, <2>2 DEF Job
<1>3. jobs' = [jobs EXCEPT ![r] = job] BY DEF ClaimJob
<1> HIDE DEF job
<1>4. jobs[r].status \in ActiveStatuses BY DEF ClaimJob, Claimable
<1> QED BY <1>2, <1>3, <1>4, RowType

\* refresh_media_search_workflow_status, from a session that has just read.
LEMMA RefreshedType ==
  ASSUME TypeOK, jobs' \in [Rows -> Job], NEW m \in Media
  PROVE  SearchStatus(jobs', m, workflow[m]) \in WorkflowStatuses
<1>1. Runs(jobs', m) \subseteq RunStatuses BY RunsOf DEF Job
<1> QED BY <1>1, SearchStatusOfRun DEF TypeOK

\* Claims, renewals, lost leases and crashes keep types.
LEMMA QueueTypes ==
  ASSUME TypeOK, ClaimInv, NEW w \in Workers,
         \/ Claiming(w) \/ RenewLease(w) \/ Crash(w) \/ LoseLease(w)
  PROVE  TypeOK'
<1>1. ASSUME NEW r \in Rows, ClaimJob(w, r) PROVE TypeOK'
  <2>1. jobs' \in [Rows -> Job] BY <1>1, ClaimRow
  <2>2. workflow' \in [Media -> WorkflowStatuses]
    BY <1>1, <2>1, RefreshedType DEF ClaimJob, TypeOK
  <2>3. lease' \in [Workers -> 0..MaxAttempts]
    <3>1. lease' = [lease EXCEPT ![w] = jobs'[r].attempts] BY <1>1, <2>1, RowType DEF ClaimJob
    <3>2. jobs'[r].attempts \in 0..MaxAttempts BY <2>1 DEF Job
    <3> QED BY <3>1, <3>2 DEF TypeOK
  <2> QED BY <1>1, <2>1, <2>2, <2>3 DEF ClaimJob, TypeOK, Job
<1>2. ASSUME RenewLease(w) PROVE TypeOK'
  <2>1. row[w] \in Rows BY <1>2 DEF RenewLease, ClaimInv
  <2>2. jobs' \in [Rows -> Job] BY <1>2, <2>1, LeaseRow DEF RenewLease
  <2> QED BY <1>2, <2>2 DEF RenewLease, TypeOK, Job, mediaVars, workerVars
<1>3. ASSUME Crash(w) \/ LoseLease(w) PROVE TypeOK'
  <2>1. Drop(w) /\ UNCHANGED <<jobs, mediaVars, request>> BY <1>3 DEF Crash, LoseLease
  <2> QED BY <2>1, DropTypes, RowType DEF TypeOK, mediaVars
<1> QED BY <1>1, <1>2, <1>3 DEF Claiming

\* _complete_discovery, row by row: what becomes of a job row r when the
\* worker of row d stores the items found with their inputs now.
DiscoveryMove(d, r, fresh, now) ==
  \/ /\ r = d /\ jobs'[r].status = "SUCCEEDED"
     /\ jobs'[r].attempts = jobs[r].attempts /\ jobs'[r].run = jobs[r].run
     /\ jobs'[r].input = jobs[r].input
  \/ /\ r # d /\ r[1][1] = "RESOLVE_METADATA" /\ r[1][2] \in fresh
     /\ jobs[r].status = "NONE" /\ r = NextRow(Resolve(r[1][2]))
     /\ jobs'[r] = Queued(now[r[1][2]], "NONE")
  \/ /\ r # d /\ r[1][1] = "RESOLVE_METADATA" /\ r[1][2] \in fresh
     /\ jobs[r].status \in ActiveStatuses /\ jobs'[r].status = "CANCELLED"
     /\ jobs'[r].attempts = jobs[r].attempts /\ jobs'[r].run = jobs[r].run
     /\ jobs'[r].input = jobs[r].input
  \/ /\ r # d /\ jobs'[r] = jobs[r]
     /\ r[1][1] = "RESOLVE_METADATA" /\ r[1][2] \in fresh =>
          jobs[r].status \notin ActiveStatuses /\ r # NextRow(Resolve(r[1][2]))

\* _complete_discovery moves every row so, and every item to match.
LEMMA DiscoveredRows ==
  ASSUME TypeOK, NEW d \in Rows, d[1] = Discover, NEW found \in SUBSET Media,
         NEW now \in [found -> Inputs], StoreItems(d, found, now)
  PROVE  /\ jobs' \in [Rows -> Job]
         /\ \E fresh \in SUBSET Media :
              /\ \A m \in fresh : /\ now[m] \in Inputs /\ ~Finalized(m)
                                  /\ NextRow(Resolve(m)) \in Rows
                                  /\ NextRow(Resolve(m))[1] = Resolve(m)
                                  /\ jobs[NextRow(Resolve(m))].status = "NONE"
              /\ \A m \in Media : input'[m] # input[m] => m \in fresh \/ Finalized(m)
              /\ \A r \in Rows : DiscoveryMove(d, r, fresh, now)
              /\ workflow' = [m \in Media |-> IF m \in fresh THEN "METADATA_PENDING"
                                                            ELSE workflow[m]]
<1> DEFINE fresh  == {m \in found : input[m] # now[m] /\ ~Finalized(m)}
           js     == Superseded(fresh)
           queued == {m \in fresh : ActiveRowsIn(js, Resolve(m)) = {}}
<1>1. /\ fresh \in SUBSET Media
      /\ \A m \in fresh : now[m] \in Inputs /\ ~Finalized(m)
      /\ \A m \in Media : input'[m] # input[m] => m \in fresh \/ Finalized(m)
  BY DEF StoreItems, TypeOK
<1>2. /\ \A m \in queued : FreeRows(Resolve(m)) # {}
      /\ jobs' = [q \in Rows |->
           IF q = d THEN Ended(jobs[q], "SUCCEEDED")
           ELSE IF \E m \in queued : q = NextRow(Resolve(m))
                  THEN Queued(now[MediaOf(q[1])], "NONE")
           ELSE js[q]]
      /\ workflow' = [m \in Media |-> IF m \in queued THEN "METADATA_PENDING"
                                                     ELSE workflow[m]]
  BY DEF StoreItems
<1> HIDE DEF fresh
<1>3. /\ js \in [Rows -> Job]
      /\ \A r \in Rows :
           IF /\ r[1][1] = "RESOLVE_METADATA" /\ r[1][2] \in fresh
              /\ jobs[r].status \in ActiveStatuses
           THEN /\ js[r].status = "CANCELLED" /\ js[r].attempts = jobs[r].attempts
                /\ js[r].run = jobs[r].run /\ js[r].input = jobs[r].input
           ELSE js[r] = jobs[r]
  BY <1>1, SupersededJobs, RowType
<1> HIDE DEF js
<1>4. ASSUME NEW m \in fresh PROVE ActiveRowsIn(js, Resolve(m)) = {}
  <2>1. m \in Media BY <1>1
  <2>2. ASSUME NEW r \in ActiveRowsIn(js, Resolve(m)) PROVE FALSE
    <3>1. r \in Rows /\ r[1] = Resolve(m) /\ js[r].status \in ActiveStatuses
      BY <2>1, <2>2, Types, ActiveRowsOf
    <3>2. r[1][1] = "RESOLVE_METADATA" /\ r[1][2] = m BY <2>1, <3>1, Types
    <3> QED BY <1>3, <3>1, <3>2
  <2> QED BY <2>2
<1>5. queued = fresh BY <1>4
<1> HIDE DEF queued
<1>6. ASSUME NEW m \in fresh
      PROVE  /\ NextRow(Resolve(m)) \in Rows
             /\ NextRow(Resolve(m))[1] = Resolve(m)
             /\ jobs[NextRow(Resolve(m))].status = "NONE"
             /\ NextRow(Resolve(m)) # d
  <2>1. m \in Media /\ Resolve(m) \in JobTypes /\ FreeRows(Resolve(m)) # {}
    BY <1>1, <1>2, <1>5, Types
  <2>2. NextRow(Resolve(m)) \in FreeRows(Resolve(m)) BY <2>1, NextRowIsFree
  <2>3. NextRow(Resolve(m)) \in Rows /\ NextRow(Resolve(m))[1] = Resolve(m)
        /\ jobs[NextRow(Resolve(m))].status = "NONE"
    BY <2>1, <2>2, RowOfType DEF FreeRows
  <2> QED BY <2>1, <2>3, Types
<1>7. ASSUME NEW r \in Rows
      PROVE  jobs'[r] \in Job /\ DiscoveryMove(d, r, fresh, now)
  <2>1. CASE r = d
    <3>1. jobs'[r] = Ended(jobs[r], "SUCCEEDED") BY <1>2, <2>1
    <3>2. jobs[r] \in Job BY RowType
    <3> QED BY <2>1, <3>1, <3>2, EndedJob DEF DiscoveryMove
  <2>2. ASSUME r # d, NEW m \in fresh, r = NextRow(Resolve(m))
        PROVE  jobs'[r] \in Job /\ DiscoveryMove(d, r, fresh, now)
    <3>1. jobs'[r] = Queued(now[MediaOf(r[1])], "NONE") BY <1>2, <1>5, <2>2
    <3>2. r[1] = Resolve(m) /\ m \in Media BY <1>1, <1>6, <2>2
    <3>3. r[1][1] = "RESOLVE_METADATA" /\ r[1][2] = m BY <3>2, Types
    <3>4. MediaOf(r[1]) = m BY <3>3 DEF MediaOf
    <3>5. now[m] \in Inputs BY <1>1
    <3>6. Queued(now[m], "NONE") \in Job BY <3>5, QueuedJob
    <3> QED BY <1>6, <2>2, <3>1, <3>3, <3>4, <3>6 DEF DiscoveryMove
  <2>3. ASSUME r # d, ~ \E m \in fresh : r = NextRow(Resolve(m))
        PROVE  jobs'[r] \in Job /\ DiscoveryMove(d, r, fresh, now)
    <3>1. jobs'[r] = js[r] /\ js[r] \in Job BY <1>2, <1>3, <1>5, <2>3
    <3> QED BY <1>3, <2>3, <3>1 DEF DiscoveryMove
  <2> QED BY <2>1, <2>2, <2>3
<1>8. jobs' \in [Rows -> Job] BY <1>2, <1>7
<1>9. workflow' = [m \in Media |-> IF m \in fresh THEN "METADATA_PENDING"
                                                  ELSE workflow[m]]
  BY <1>2, <1>5
<1> QED BY <1>1, <1>6, <1>7, <1>8, <1>9

\* What a worker that is not idle holds: a row, and the item of its job type.
LEMMA WorkingRow ==
  ASSUME ClaimInv, NEW w \in Workers, pc[w] # "idle"
  PROVE  /\ row[w] \in Rows /\ JobOf(w) \in JobTypes
         /\ JobOf(w)[1] = "RESOLVE_METADATA" =>
              JobOf(w)[2] \in Media /\ JobOf(w) = Resolve(JobOf(w)[2])
         /\ JobOf(w)[1] = "TORRENT_SEARCH" => JobOf(w)[3] \in Media
         /\ JobOf(w)[1] \in Kinds
         /\ JobOf(w)[1] = "DISCOVER_NEXTFIND" <=> JobOf(w) = Discover
         /\ JobOf(w) # Discover => MediaOf(JobOf(w)) \in Media
<1>1. row[w] \in Rows BY DEF ClaimInv
<1>2. JobOf(w) \in JobTypes BY <1>1, TypeOfRow DEF JobOf
<1> QED BY <1>1, <1>2, KindOfType, Types DEF MediaOf

\* confirm_identity: the first search takes a free row, for an item that has
\* not been confirmed has never been searched for.
ConfirmMove(js, r, m, v) ==
  \/ jobs'[r] = js[r]
  \/ /\ r[1][1] = "TORRENT_SEARCH" /\ r[1][3] = m /\ jobs[r].status = "NONE"
     /\ jobs'[r] = Queued(v, "PT_SEARCH_PENDING")

\* confirm_identity moves every row so, on top of the rows js.
LEMMA ConfirmedRows ==
  ASSUME TypeOK, RowInv, SettledInv, NEW m \in Media, m \notin confirmed,
         NEW js \in [Rows -> Job], NEW searches \in FirstSearches,
         NEW v \in Inputs \cup {NoInput}, Confirm(js, m, searches, v)
  PROVE  /\ jobs' \in [Rows -> Job]
         /\ \A r \in Rows : ConfirmMove(js, r, m, v)
         /\ searches # {} => \E r \in Rows : /\ r[1][1] = "TORRENT_SEARCH"
                                             /\ r[1][3] = m
                                             /\ jobs'[r] = Queued(v, "PT_SEARCH_PENDING")
<1>1. ASSUME NEW s \in Sites
      PROVE  /\ NextRow(Search(s, m)) \in Rows
             /\ NextRow(Search(s, m))[1] = Search(s, m)
             /\ jobs[NextRow(Search(s, m))].status = "NONE"
  <2> DEFINE first == <<Search(s, m), 1>>
  <2>1. Search(s, m) \in JobTypes /\ Search(s, m)[1] = "TORRENT_SEARCH" BY Types
  <2>2. first \in RowsOf(Search(s, m)) BY <2>1 DEF RowsOf
  <2>3. first \in Rows /\ first[1] = Search(s, m) BY <2>1, <2>2, RowOfType
  <2> HIDE DEF first
  <2>4. jobs[first].status = "NONE" BY <2>1, <2>3, Types DEF RowInv, SettledInv
  <2>5. first \in FreeRows(Search(s, m)) BY <2>2, <2>4 DEF FreeRows
  <2>6. NextRow(Search(s, m)) \in FreeRows(Search(s, m)) BY <2>1, <2>5, NextRowIsFree
  <2> QED BY <2>1, <2>6, RowOfType DEF FreeRows
<1>2. Queued(v, "PT_SEARCH_PENDING") \in Job BY QueuedJob, RunStatusSet
<1>3. jobs' = [r \in Rows |-> IF \E s \in searches : r = NextRow(Search(s, m))
                                THEN Queued(v, "PT_SEARCH_PENDING") ELSE js[r]]
  BY DEF Confirm
<1>4. searches \subseteq Sites BY DEF FirstSearches
<1>5. ASSUME NEW r \in Rows PROVE ConfirmMove(js, r, m, v)
  <2>1. ASSUME NEW s \in searches, r = NextRow(Search(s, m))
        PROVE  ConfirmMove(js, r, m, v)
    <3>1. s \in Sites BY <1>4
    <3>2. jobs'[r] = Queued(v, "PT_SEARCH_PENDING") BY <1>3, <2>1
    <3> QED BY <1>1, <2>1, <3>1, <3>2, Types DEF ConfirmMove
  <2> QED BY <1>3, <2>1 DEF ConfirmMove
<1>6. ASSUME NEW s \in searches
      PROVE  \E r \in Rows : /\ r[1][1] = "TORRENT_SEARCH" /\ r[1][3] = m
                             /\ jobs'[r] = Queued(v, "PT_SEARCH_PENDING")
  BY <1>1, <1>3, <1>4, Types
<1> QED BY <1>2, <1>3, <1>5, <1>6

\* confirm_identity keeps types.
LEMMA ConfirmTypes ==
  ASSUME TypeOK, NEW m \in Media, NEW js \in [Rows -> Job], NEW searches,
         NEW v \in Inputs \cup {NoInput}, Confirm(js, m, searches, v)
  PROVE  /\ jobs' \in [Rows -> Job] /\ workflow' \in [Media -> WorkflowStatuses]
         /\ confirmed' \in SUBSET Media /\ input' \in [Media -> Inputs \cup {NoInput}]
BY QueuedJob, RunStatusSet DEF Confirm, TypeOK

\* The completions of the three kinds of jobs keep types.
LEMMA CompletionTypes ==
  ASSUME TypeOK, ClaimInv, NEW w \in Workers,
         \/ PrepareResolution(w) \/ CompleteResolution(w) \/ CompleteSearch(w)
         \/ CompleteDiscovery(w)
  PROVE  TypeOK'
<1>1. ASSUME PrepareResolution(w) PROVE TypeOK'
  <2>1. row[w] \in Rows /\ JobOf(w)[2] \in Media
    BY <1>1, WorkingRow DEF PrepareResolution, ClaimInv
  <2>2. CASE Finalized(JobOf(w)[2])
    <3>1. jobs' = [jobs EXCEPT ![row[w]] = Ended(@, "CANCELLED")] /\ Drop(w)
          /\ UNCHANGED <<mediaVars, request>>
      BY <1>1, <2>2 DEF PrepareResolution
    <3> QED BY <2>1, <3>1, EndRow, DropTypes DEF TypeOK, mediaVars
  <2>3. CASE ~Finalized(JobOf(w)[2])
    BY <1>1, <2>1, <2>3 DEF PrepareResolution, TypeOK, mediaVars
  <2> QED BY <2>2, <2>3
<1>2. ASSUME CompleteResolution(w) PROVE TypeOK'
  <2> DEFINE m == JobOf(w)[2]
             done == [jobs EXCEPT ![row[w]] = Ended(@, "SUCCEEDED")]
  <2>1. row[w] \in Rows /\ m \in Media /\ Drop(w) /\ request' = request
    BY <1>2, WorkingRow DEF CompleteResolution
  <2>2. CASE Finalized(m)
    <3>1. jobs' = [jobs EXCEPT ![row[w]] = Ended(@, "CANCELLED")]
          /\ UNCHANGED mediaVars
      BY <1>2, <2>2 DEF CompleteResolution
    <3> QED BY <2>1, <3>1, EndRow, DropTypes DEF TypeOK, mediaVars
  <2>3. CASE ~Finalized(m)
    <3>1. matchedInput' \in [Media -> Inputs \cup {NoInput}]
      BY <1>2, <2>3 DEF CompleteResolution, TypeOK
    <3>2. done \in [Rows -> Job]
      <4>1. Ended(jobs[row[w]], "SUCCEEDED") \in Job BY <2>1, EndedJob, RowType
      <4> QED BY <4>1, RowType
    <3>3. CASE jobs' = done /\ workflow' = [workflow EXCEPT ![m] = "IDENTITY_REVIEW"]
               /\ UNCHANGED <<input, confirmed>>
      BY <2>1, <3>1, <3>2, <3>3, DropTypes DEF TypeOK
    <3>4. ASSUME NEW searches \in FirstSearches, Confirm(done, m, searches, input[m])
          PROVE  TypeOK'
      <4>1. input[m] \in Inputs \cup {NoInput} BY <2>1 DEF TypeOK
      <4> HIDE DEF done, m
      <4> QED BY <2>1, <3>1, <3>2, <3>4, <4>1, ConfirmTypes, DropTypes
    <3> QED BY <1>2, <2>3, <3>3, <3>4 DEF CompleteResolution
  <2> QED BY <2>2, <2>3
<1>3. ASSUME CompleteSearch(w) PROVE TypeOK'
  <2>1. row[w] \in Rows /\ JobOf(w)[3] \in Media /\ Drop(w) /\ request' = request
    BY <1>3, WorkingRow DEF CompleteSearch
  <2>2. PICK found \in {"TORRENT_REVIEW", "NO_CANDIDATE"} :
          jobs' = [jobs EXCEPT ![row[w]] = [Ended(@, "SUCCEEDED") EXCEPT !.run = found]]
    BY <1>3 DEF CompleteSearch
  <2>3. jobs' \in [Rows -> Job] BY <2>1, <2>2, EndSearchRow, RunStatusSet
  <2>4. SearchStatus(jobs', JobOf(w)[3], workflow[JobOf(w)[3]]) \in WorkflowStatuses
    BY <2>1, <2>3, RefreshedType
  <2> QED BY <1>3, <2>1, <2>3, <2>4, DropTypes DEF CompleteSearch, SetWorkflow, TypeOK
<1>4. ASSUME CompleteDiscovery(w) PROVE TypeOK'
  <2>1. row[w] \in Rows /\ row[w][1] = Discover /\ Drop(w) /\ request' = request
    BY <1>4, WorkingRow DEF CompleteDiscovery, JobOf
  <2>2. PICK found \in SUBSET Media : \E now \in [found -> Inputs] :
          StoreItems(row[w], found, now)
    BY <1>4 DEF CompleteDiscovery
  <2>3. PICK now \in [found -> Inputs] : StoreItems(row[w], found, now) BY <2>2
  <2>4. /\ jobs' \in [Rows -> Job]
        /\ \E fresh : workflow' = [m \in Media |-> IF m \in fresh
                         THEN "METADATA_PENDING" ELSE workflow[m]]
    BY <2>1, <2>3, DiscoveredRows
  <2> QED BY <2>1, <2>3, <2>4, DropTypes DEF StoreItems, TypeOK
<1> QED BY <1>1, <1>2, <1>3, <1>4

\* _fail, row by row.
LEMMA FailedRows ==
  ASSUME TypeOK, ClaimInv, NEW w \in Workers, FailWrites(w)
  PROVE  /\ jobs' \in [Rows -> Job] /\ row[w] \in Rows
         /\ jobs'[row[w]].status = FailStatus(w)
         /\ jobs'[row[w]].attempts = jobs[row[w]].attempts
         /\ jobs'[row[w]].run = FailedRun(jobs[row[w]].run, Retries(w))
         /\ \A q \in Rows \ {row[w]} : jobs'[q] = jobs[q]
<1> DEFINE r   == row[w]
           run == FailedRun(jobs[r].run, Retries(w))
<1>1. r \in Rows BY DEF FailWrites, ClaimInv
<1>2. jobs[r] \in Job BY <1>1, RowType
<1>3. FailStatus(w) \in JobStatuses BY DEF FailStatus
<1>4. run \in RunStatuses \cup {"NONE"} BY <1>2, RunStatusSet DEF FailedRun, Job
<1> DEFINE k == [Ended(jobs[r], FailStatus(w)) EXCEPT !.run = run]
<1>5. jobs' = [jobs EXCEPT ![r] = k] BY DEF FailWrites
<1> HIDE DEF run
<1>6. /\ k \in Job /\ k.status = FailStatus(w) /\ k.attempts = jobs[r].attempts
      /\ k.run = run
  <2> DEFINE old == jobs[r]
             s   == FailStatus(w)
  <2> HIDE DEF old, s
  <2>1. old \in Job /\ s \in JobStatuses BY <1>2, <1>3 DEF old, s
  <2>2. /\ [Ended(old, s) EXCEPT !.run = run] \in Job
        /\ [Ended(old, s) EXCEPT !.run = run].status = s
        /\ [Ended(old, s) EXCEPT !.run = run].attempts = old.attempts
        /\ [Ended(old, s) EXCEPT !.run = run].run = run
    BY <1>4, <2>1, SearchedJob
  <2> QED BY <2>2 DEF old, s
<1> HIDE DEF k
<1> QED BY <1>1, <1>5, <1>6, RowType DEF run

\* The failure path of a worker keeps types.
LEMMA FailTypes ==
  ASSUME TypeOK, ClaimInv, NEW w \in Workers,
         DiscardStaleResult(w) \/ StepFails(w) \/ FailWrites(w) \/ FailIsRefused(w)
  PROVE  TypeOK'
<1>1. ASSUME DiscardStaleResult(w) \/ StepFails(w) PROVE TypeOK'
  BY <1>1, GotoTypes DEF DiscardStaleResult, StepFails
<1>2. ASSUME FailIsRefused(w) PROVE TypeOK'
  <2>1. Drop(w) /\ UNCHANGED <<jobs, mediaVars, request>> BY <1>2 DEF FailIsRefused
  <2> QED BY <2>1, DropTypes, RowType DEF TypeOK, mediaVars
<1>3. ASSUME FailWrites(w) PROVE TypeOK'
  <2>1. jobs' \in [Rows -> Job] BY <1>3, FailedRows
  <2>2. Drop(w) /\ request' = request BY <1>3 DEF FailWrites
  <2>3. CASE UNCHANGED mediaVars
    BY <2>1, <2>2, <2>3, DropTypes DEF TypeOK, mediaVars
  <2>4. CASE ~ UNCHANGED mediaVars
    <3> DEFINE m == MediaOf(JobOf(w))
               s == FailedStatus(jobs', JobOf(w), Retries(w))
    <3>1. JobOf(w) # Discover /\ SetWorkflow(m, s)
      BY <1>3, <2>4 DEF FailWrites
    <3>2. m \in Media BY <1>3, <3>1, WorkingRow DEF FailWrites
    <3>3. SearchStatus(jobs', m, workflow[m]) \in WorkflowStatuses
      BY <2>1, <3>2, RefreshedType
    <3>4. s \in WorkflowStatuses BY <3>2, <3>3 DEF FailedStatus, TypeOK
    <3> HIDE DEF m, s
    <3> QED BY <2>1, <2>2, <3>1, <3>2, <3>4, DropTypes DEF SetWorkflow, TypeOK
  <2> QED BY <2>3, <2>4
<1> QED BY <1>1, <1>2, <1>3

\* Every step keeps types.
LEMMA TypeStep == TypeOK /\ ClaimInv /\ [Next]_vars => TypeOK'
<1> SUFFICES ASSUME TypeOK, ClaimInv, [Next]_vars PROVE TypeOK' OBVIOUS
<1>1. CASE UNCHANGED vars BY <1>1 DEF TypeOK, vars, mediaVars, workerVars
<1>2. CASE CreateDiscoveryRun \/ Operator BY <1>2, RequestTypes
<1>3. ASSUME NEW w \in Workers, Claiming(w) \/ Work(w) \/ RenewLease(w) \/ Crash(w)
      PROVE  TypeOK'
  BY <1>3, QueueTypes, CompletionTypes, FailTypes DEF Work
<1>4. ASSUME NEW r \in Rows, LeaseLapses(r) PROVE TypeOK'
  <2>1. jobs' \in [Rows -> Job] BY <1>4, LeaseRow DEF LeaseLapses
  <2> QED BY <1>4, <2>1 DEF LeaseLapses, TypeOK, Job, mediaVars, workerVars
<1> QED BY <1>1, <1>2, <1>3, <1>4 DEF Next

----------------------------------------------------------------------------
\* Rows and items. Most steps change one row, so each conjunct of DataInv is
\* argued for that row and for the item it belongs to.
LEMMA KeptData ==
  ASSUME DataInv, \A r \in Rows : Same(jobs[r], jobs'[r]),
         UNCHANGED <<workflow, confirmed>>
  PROVE  DataInv'
<1>1. RowInv' BY DEF DataInv, RowInv, Same
<1>2. SettledInv' BY DEF DataInv, SettledInv, Same
<1>3. ResolutionInv' BY DEF DataInv, ResolutionInv, Same
<1>4. PendingInv' BY DEF DataInv, PendingInv, Same
<1>5. ActiveRunHasJob' BY DEF DataInv, ActiveRunHasJob, Same
<1> QED BY <1>1, <1>2, <1>3, <1>4, <1>5 DEF DataInv

\* Nor does a step that leaves rows and items alone disturb it.
LEMMA UntouchedData ==
  ASSUME TypeOK, DataInv, UNCHANGED <<jobs, workflow, confirmed>>
  PROVE  DataInv'
<1>1. \A r \in Rows : Same(jobs[r], jobs'[r]) BY RowType DEF Same
<1> QED BY <1>1, KeptData

\* A row that ends without touching its item: it was not what the item's
\* status announced.
LEMMA EndedData ==
  ASSUME DataInv, NEW r \in Rows, jobs[r].status # "NONE",
         jobs'[r].status \in EndStatuses, jobs'[r].run = jobs[r].run,
         r[1][1] # "TORRENT_SEARCH",
         r[1][1] = "RESOLVE_METADATA" => workflow[r[1][2]] # "METADATA_PENDING",
         \A q \in Rows \ {r} : jobs'[q] = jobs[q],
         UNCHANGED <<workflow, confirmed>>
  PROVE  DataInv'
<1>1. RowInv' BY DEF DataInv, RowInv
<1>2. SettledInv' BY DEF DataInv, SettledInv
<1>3. ResolutionInv' BY DEF DataInv, ResolutionInv
<1>4. PendingInv'
  <2>1. ASSUME NEW m \in Media, NEW q \in Rows, q[1] = Resolve(m),
               workflow[m] = "METADATA_PENDING"
        PROVE  q # r
    BY <2>1, Types
  <2> QED BY <2>1 DEF DataInv, PendingInv
<1>5. ActiveRunHasJob' BY DEF DataInv, ActiveRunHasJob, RowInv
<1> QED BY <1>1, <1>2, <1>3, <1>4, <1>5 DEF DataInv

\* create_discovery_run queues a row that belongs to no item.
LEMMA DiscoveryRequestData ==
  ASSUME TypeOK, DataInv, CreateDiscoveryRun
  PROVE  DataInv'
<1> DEFINE r == NextRow(Discover)
<1>1. /\ r \in Rows /\ r[1] = Discover /\ jobs[r].status = "NONE"
      /\ jobs'[r] = Queued(NoInput, "NONE")
      /\ \A q \in Rows \ {r} : jobs'[q] = jobs[q]
  <2>1. /\ FreeRows(Discover) # {}
        /\ jobs' = [jobs EXCEPT ![r] = Queued(NoInput, "NONE")]
    BY DEF CreateDiscoveryRun
  <2>2. Discover \in JobTypes BY Types
  <2> QED BY <2>1, <2>2, QueueRow
<1>2. r[1][1] = "DISCOVER_NEXTFIND" BY <1>1, Types
<1>3. jobs'[r].status = "PENDING" /\ jobs'[r].run = "NONE" /\ jobs'[r].attempts = 0
  BY <1>1, QueuedJob
<1>4. UNCHANGED <<workflow, confirmed>> BY DEF CreateDiscoveryRun, mediaVars
<1> HIDE DEF r
<1>5. RowInv' BY <1>1, <1>2, <1>3 DEF DataInv, RowInv
<1>6. SettledInv' BY <1>1, <1>3, <1>4 DEF DataInv, SettledInv
<1>7. ResolutionInv' BY <1>1, <1>2, <1>4 DEF DataInv, ResolutionInv
<1>8. PendingInv' BY <1>1, <1>3, <1>4 DEF DataInv, PendingInv
<1>9. ActiveRunHasJob' BY <1>1, <1>3 DEF DataInv, ActiveRunHasJob
<1> QED BY <1>5, <1>6, <1>7, <1>8, <1>9 DEF DataInv

\* enqueue_metadata_resolution: the item is not settled and has no active
\* resolution, so that the new row is the only one.
LEMMA ResolutionRequestData ==
  ASSUME TypeOK, DataInv, RequestResolution
  PROVE  DataInv'
<1> DEFINE m == request.media
           r == NextRow(Resolve(m))
<1>1. m \in Media /\ request.input \in Inputs BY DEF RequestResolution, TypeOK
<1>2. /\ r \in Rows /\ r[1] = Resolve(m) /\ jobs[r].status = "NONE"
      /\ jobs'[r] = Queued(request.input, "NONE")
      /\ \A q \in Rows \ {r} : jobs'[q] = jobs[q]
  <2>1. /\ Resolve(m) \in JobTypes /\ FreeRows(Resolve(m)) # {}
        /\ jobs' = [jobs EXCEPT ![NextRow(Resolve(m))] = Queued(request.input, "NONE")]
    BY <1>1, Types DEF RequestResolution
  <2> QED BY <1>1, <2>1, QueueRow
<1>3. r[1][1] = "RESOLVE_METADATA" /\ r[1][2] = m BY <1>1, <1>2, Types
<1>4. jobs'[r].status = "PENDING" /\ jobs'[r].run = "NONE" /\ jobs'[r].attempts = 0
  BY <1>1, <1>2, QueuedJob
<1>5. m \notin confirmed
  BY <1>1, FinalizedMeansConfirmed DEF DataInv, RequestResolution
<1>6. ASSUME NEW q \in Rows, q[1] = r[1] PROVE jobs[q].status \notin ActiveStatuses
  BY <1>1, <1>2, <1>6, ActiveRowsOf, Types DEF RequestResolution, ActiveRows
<1>7. /\ confirmed' = confirmed
      /\ \/ workflow' = workflow
         \/ workflow' = [workflow EXCEPT ![m] = "METADATA_PENDING"]
  BY <1>1 DEF RequestResolution, SetWorkflow, Written, TypeOK
<1> HIDE DEF r, m
<1>8. RowInv' BY <1>2, <1>3, <1>4 DEF DataInv, RowInv
<1>9. SettledInv' BY <1>1, <1>2, <1>4, <1>5, <1>7 DEF DataInv, SettledInv, TypeOK
<1>10. ResolutionInv'
  BY <1>2, <1>3, <1>5, <1>6, <1>7 DEF DataInv, ResolutionInv
<1>11. PendingInv'
  <2>1. \A q \in Rows : jobs[q].status \in ActiveStatuses =>
                        jobs'[q].status \in ActiveStatuses
    BY <1>2, <1>4
  <2>2. \A n \in Media \ {m} : workflow'[n] = workflow[n] BY <1>1, <1>7 DEF TypeOK
  <2>3. workflow'[m] \in {workflow[m], "METADATA_PENDING"} BY <1>1, <1>7 DEF TypeOK
  <2>4. r[1] = Resolve(m) /\ jobs'[r].status \in ActiveStatuses BY <1>2, <1>4
  <2> QED BY <1>1, <1>2, <2>1, <2>2, <2>3, <2>4 DEF DataInv, PendingInv
<1>12. ActiveRunHasJob' BY <1>2, <1>4 DEF DataInv, ActiveRunHasJob
<1> QED BY <1>8, <1>9, <1>10, <1>11, <1>12 DEF DataInv

\* The item's status after refresh_media_search_workflow_status is that of one
\* of its search runs.
LEMMA RefreshedFromRun ==
  ASSUME jobs' \in [Rows -> Job], NEW m \in Media, NEW r \in Rows, NEW current,
         r[1][1] = "TORRENT_SEARCH", r[1][3] = m, jobs'[r].run # "NONE"
  PROVE  \E q \in Rows : /\ q[1][1] = "TORRENT_SEARCH" /\ q[1][3] = m
                         /\ jobs'[q].run = SearchStatus(jobs', m, current)
                         /\ jobs'[q].run \in RunStatuses
<1>1. Runs(jobs', m) \subseteq RunStatuses BY RunsOf DEF Job
<1>2. jobs'[r].run \in Runs(jobs', m) BY RunsOf
<1>3. SearchStatus(jobs', m, current) \in Runs(jobs', m)
  BY <1>1, <1>2, SearchStatusOfRun
<1> QED BY <1>1, <1>3, RunsOf

\* A search row r of a confirmed item m moves; the item shows a run of its own
\* afterwards, or what it showed before if that was of no active search of r.
LEMMA SearchedData ==
  ASSUME TypeOK, DataInv, jobs' \in [Rows -> Job], NEW r \in Rows, NEW m \in Media,
         r[1][1] = "TORRENT_SEARCH", r[1][3] = m, m \in confirmed,
         jobs'[r].status # "NONE", jobs'[r].run # "NONE",
         jobs'[r].run \in ActiveSearchStatuses => jobs'[r].status \in ActiveStatuses,
         \A q \in Rows \ {r} : jobs'[q] = jobs[q],
         confirmed' = confirmed, workflow' \in [Media -> WorkflowStatuses],
         \A n \in Media \ {m} : workflow'[n] = workflow[n],
         \/ \E q \in Rows : /\ q[1][1] = "TORRENT_SEARCH" /\ q[1][3] = m
                            /\ jobs'[q].run = workflow'[m]
                            /\ jobs'[q].run \in RunStatuses
         \/ jobs'[r].status \in ActiveStatuses /\ workflow'[m] = workflow[m]
  PROVE  DataInv'
<1>1. RowInv' BY DEF DataInv, RowInv
<1>2. SettledInv'
  <2>1. workflow'[m] \notin UnconfirmedStatuses
    BY RunStatusSet DEF DataInv, SettledInv
  <2> QED BY <2>1 DEF DataInv, SettledInv
<1>3. ResolutionInv' BY DEF DataInv, ResolutionInv
<1>4. ActiveRunHasJob' BY DEF DataInv, ActiveRunHasJob
<1>5. PendingInv'
  <2>1. ASSUME NEW n \in Media, workflow'[n] = "METADATA_PENDING"
        PROVE  \E q \in Rows : q[1] = Resolve(n) /\ jobs'[q].status \in ActiveStatuses
    <3>1. n # m BY <1>2, <2>1 DEF SettledInv
    <3>2. PICK q \in Rows : q[1] = Resolve(n) /\ jobs[q].status \in ActiveStatuses
      BY <2>1, <3>1 DEF DataInv, PendingInv
    <3>3. q # r BY <3>2, Types
    <3> QED BY <3>2, <3>3
  <2>2. ASSUME NEW n \in Media, workflow'[n] \in ActiveSearchStatuses
        PROVE  \E q \in Rows : /\ q[1][1] = "TORRENT_SEARCH" /\ q[1][3] = n
                               /\ jobs'[q].status \in ActiveStatuses
    <3>1. CASE n # m
      <4>1. PICK q \in Rows : /\ q[1][1] = "TORRENT_SEARCH" /\ q[1][3] = n
                              /\ jobs[q].status \in ActiveStatuses
        BY <2>2, <3>1 DEF DataInv, PendingInv
      <4> QED BY <3>1, <4>1
    <3>2. CASE n = m /\ jobs'[r].status \in ActiveStatuses
      BY <3>2
    <3>3. ASSUME n = m, NEW q \in Rows, q[1][1] = "TORRENT_SEARCH", q[1][3] = m,
                 jobs'[q].run = workflow'[m]
          PROVE  jobs'[q].status \in ActiveStatuses
      BY <1>4, <2>2, <3>3 DEF ActiveRunHasJob
    <3> QED BY <3>1, <3>2, <3>3
  <2> QED BY <2>1, <2>2 DEF PendingInv
<1> QED BY <1>1, <1>2, <1>3, <1>4, <1>5 DEF DataInv

\* enqueue_torrent_search: a confirmed item gets a row and its run together, and
\* shows one of its runs or, unsent, what it showed before.
LEMMA SearchRequestData ==
  ASSUME TypeOK, TypeOK', DataInv, NEW s \in Sites, RequestSearch(s)
  PROVE  DataInv'
<1> DEFINE m == request.media
           r == NextRow(Search(s, m))
           v == SearchStatus(jobs', m, request.workflow)
<1>1. m \in Media /\ request.input \in Inputs /\ request.workflow \in WorkflowStatuses
  BY DEF RequestSearch, TypeOK
<1>2. /\ jobs' \in [Rows -> Job]
      /\ r \in Rows /\ r[1] = Search(s, m) /\ jobs[r].status = "NONE"
      /\ jobs'[r] = Queued(request.input, "PT_SEARCH_PENDING")
      /\ \A q \in Rows \ {r} : jobs'[q] = jobs[q]
  <2>1. /\ Search(s, m) \in JobTypes /\ FreeRows(Search(s, m)) # {}
        /\ jobs' = [jobs EXCEPT ![NextRow(Search(s, m))]
                      = Queued(request.input, "PT_SEARCH_PENDING")]
    BY <1>1, Types DEF RequestSearch
  <2>2. "PT_SEARCH_PENDING" \in RunStatuses BY RunStatusSet
  <2> QED BY <1>1, <2>1, <2>2, QueueRow
<1>3. r[1][1] = "TORRENT_SEARCH" /\ r[1][3] = m BY <1>1, <1>2, Types
<1>4. jobs'[r].status = "PENDING" /\ jobs'[r].run = "PT_SEARCH_PENDING"
  BY <1>1, <1>2, QueuedJob, RunStatusSet
<1>5. PICK q \in Rows : /\ q[1][1] = "TORRENT_SEARCH" /\ q[1][3] = m
                        /\ jobs'[q].run = v /\ jobs'[q].run \in RunStatuses
  BY <1>1, <1>2, <1>3, <1>4, RefreshedFromRun
<1>6. /\ confirmed' = confirmed /\ m \in confirmed
      /\ workflow' = [workflow EXCEPT ![m] = Written(v, request.workflow, workflow[m])]
  BY DEF RequestSearch, SetWorkflow
<1> HIDE DEF m, r, v
<1>7. /\ \A n \in Media \ {m} : workflow'[n] = workflow[n]
      /\ workflow'[m] = v \/ workflow'[m] = workflow[m]
  BY <1>1, <1>6 DEF Written, TypeOK
<1>8. workflow' \in [Media -> WorkflowStatuses] BY DEF TypeOK
<1> QED BY <1>1, <1>2, <1>3, <1>4, <1>5, <1>6, <1>7, <1>8, SearchedData

\* confirm_identity on rows js in which the item's resolutions have ended.
LEMMA ConfirmedData ==
  ASSUME TypeOK, DataInv, NEW m \in Media, m \notin confirmed,
         NEW js \in [Rows -> Job], NEW searches \in FirstSearches,
         NEW v \in Inputs \cup {NoInput}, Confirm(js, m, searches, v),
         \A r \in Rows :
           \/ js[r] = jobs[r]
           \/ /\ r[1][1] = "RESOLVE_METADATA" /\ r[1][2] = m
              /\ jobs[r].status # "NONE" /\ js[r].status \in EndStatuses
              /\ js[r].run = jobs[r].run,
         \A r \in Rows : r[1][1] = "RESOLVE_METADATA" /\ r[1][2] = m =>
                           js[r].status \notin ActiveStatuses
  PROVE  DataInv'
<1>1. /\ jobs' \in [Rows -> Job]
      /\ \A r \in Rows : ConfirmMove(js, r, m, v)
      /\ searches # {} => \E r \in Rows : /\ r[1][1] = "TORRENT_SEARCH"
                                          /\ r[1][3] = m
                                          /\ jobs'[r] = Queued(v, "PT_SEARCH_PENDING")
  BY ConfirmedRows DEF DataInv
<1>2. /\ Queued(v, "PT_SEARCH_PENDING").status = "PENDING"
      /\ Queued(v, "PT_SEARCH_PENDING").run = "PT_SEARCH_PENDING"
      /\ Queued(v, "PT_SEARCH_PENDING").attempts = 0
  BY QueuedJob, RunStatusSet
<1>3. /\ confirmed' = confirmed \cup {m}
      /\ workflow' = [workflow EXCEPT ![m] = IF searches = {} THEN "IDENTITY_CONFIRMED"
                                                              ELSE "PT_SEARCH_PENDING"]
  BY DEF Confirm
<1>4. ASSUME NEW r \in Rows
      PROVE  \/ jobs'[r] = jobs[r] /\ (r[1][1] = "RESOLVE_METADATA" /\ r[1][2] = m =>
                                         jobs[r].status \notin ActiveStatuses)
             \/ /\ r[1][1] = "RESOLVE_METADATA" /\ r[1][2] = m
                /\ jobs[r].status # "NONE" /\ jobs'[r].status \in EndStatuses
                /\ jobs'[r].run = jobs[r].run
             \/ /\ r[1][1] = "TORRENT_SEARCH" /\ r[1][3] = m /\ jobs[r].status = "NONE"
                /\ jobs'[r].status = "PENDING" /\ jobs'[r].run = "PT_SEARCH_PENDING"
                /\ jobs'[r].attempts = 0
  BY <1>1, <1>2 DEF ConfirmMove
<1>5. RowInv' BY <1>4 DEF DataInv, RowInv
<1>6. SettledInv'
  <2>1. \A n \in Media : n \in confirmed' <=> workflow'[n] \notin UnconfirmedStatuses
    BY <1>3 DEF DataInv, SettledInv, TypeOK
  <2>2. \A r \in Rows : jobs'[r].run # "NONE" => r[1][3] \in confirmed'
    BY <1>3, <1>4 DEF DataInv, SettledInv, RowInv
  <2> QED BY <2>1, <2>2 DEF SettledInv
<1>7. ResolutionInv' BY <1>3, <1>4 DEF DataInv, ResolutionInv
<1>8. ActiveRunHasJob' BY <1>4 DEF DataInv, ActiveRunHasJob, RowInv
<1>9. PendingInv'
  <2>1. ASSUME NEW n \in Media, n # m PROVE workflow'[n] = workflow[n]
    BY <1>3, <2>1 DEF TypeOK
  <2>2. ASSUME NEW n \in Media, workflow'[n] = "METADATA_PENDING"
        PROVE  \E q \in Rows : q[1] = Resolve(n) /\ jobs'[q].status \in ActiveStatuses
    <3>1. n # m BY <1>3, <2>2 DEF TypeOK
    <3>2. PICK q \in Rows : q[1] = Resolve(n) /\ jobs[q].status \in ActiveStatuses
      BY <2>1, <2>2, <3>1 DEF DataInv, PendingInv
    <3>3. q[1][1] = "RESOLVE_METADATA" /\ q[1][2] = n BY <3>2, Types
    <3>4. jobs'[q] = jobs[q] BY <1>4, <3>1, <3>3
    <3> QED BY <3>2, <3>4
  <2>3. ASSUME NEW n \in Media, workflow'[n] \in ActiveSearchStatuses
        PROVE  \E q \in Rows : /\ q[1][1] = "TORRENT_SEARCH" /\ q[1][3] = n
                               /\ jobs'[q].status \in ActiveStatuses
    <3>1. CASE n = m
      <4>1. searches # {} BY <1>3, <2>3, <3>1 DEF TypeOK
      <4> QED BY <1>1, <1>2, <3>1, <4>1
    <3>2. CASE n # m
      <4>1. PICK q \in Rows : /\ q[1][1] = "TORRENT_SEARCH" /\ q[1][3] = n
                              /\ jobs[q].status \in ActiveStatuses
        BY <2>1, <2>3, <3>2 DEF DataInv, PendingInv
      <4> QED BY <1>4, <3>2, <4>1
    <3> QED BY <3>1, <3>2
  <2> QED BY <2>2, <2>3 DEF PendingInv
<1> QED BY <1>5, <1>6, <1>7, <1>8, <1>9 DEF DataInv

\* create_identity_confirmation: the resolutions it cancels are all there were.
LEMMA ConfirmRequestData ==
  ASSUME TypeOK, DataInv, ConfirmIdentity
  PROVE  DataInv'
<1> DEFINE m  == request.media
           js == Superseded({m})
<1>1. m \in Media /\ request.input \in Inputs BY DEF ConfirmIdentity, TypeOK
<1>2. m \notin confirmed BY <1>1, FinalizedMeansConfirmed DEF DataInv, ConfirmIdentity
<1>3. PICK searches \in FirstSearches : Confirm(js, m, searches, request.input)
  BY DEF ConfirmIdentity
<1>4. /\ js \in [Rows -> Job]
      /\ \A r \in Rows :
           IF /\ r[1][1] = "RESOLVE_METADATA" /\ r[1][2] \in {m}
              /\ jobs[r].status \in ActiveStatuses
           THEN /\ js[r].status = "CANCELLED" /\ js[r].attempts = jobs[r].attempts
                /\ js[r].run = jobs[r].run /\ js[r].input = jobs[r].input
           ELSE js[r] = jobs[r]
  <2>1. {m} \in SUBSET Media BY <1>1
  <2> QED BY <2>1, SupersededJobs, RowType
<1> HIDE DEF m, js
<1>5. ASSUME NEW r \in Rows
      PROVE  /\ \/ js[r] = jobs[r]
                \/ /\ r[1][1] = "RESOLVE_METADATA" /\ r[1][2] = m
                   /\ jobs[r].status # "NONE" /\ js[r].status \in EndStatuses
                   /\ js[r].run = jobs[r].run
             /\ r[1][1] = "RESOLVE_METADATA" /\ r[1][2] = m =>
                  js[r].status \notin ActiveStatuses
  BY <1>4
<1> QED BY <1>1, <1>2, <1>3, <1>4, <1>5, ConfirmedData

\* claim_job: the run of a search goes to PT_SEARCHING with its row, and the item
\* shows one of its runs.
LEMMA ClaimData ==
  ASSUME TypeOK, TypeOK', DataInv, NEW w \in Workers, NEW r \in Rows, ClaimJob(w, r)
  PROVE  DataInv'
<1>1. /\ jobs' \in [Rows -> Job]
      /\ jobs[r].status \in ActiveStatuses
      /\ jobs'[r].status = "RUNNING" /\ jobs'[r].attempts = jobs[r].attempts + 1
      /\ jobs'[r].run = IF jobs[r].run = "NONE" THEN "NONE" ELSE "PT_SEARCHING"
      /\ \A q \in Rows \ {r} : jobs'[q] = jobs[q]
  BY ClaimRow
<1>2. /\ confirmed' = confirmed
      /\ \A n \in Media : workflow'[n] = IF r \in SearchRows(n)
                             THEN SearchStatus(jobs', n, workflow[n]) ELSE workflow[n]
  BY DEF ClaimJob
<1>3. CASE r[1][1] = "TORRENT_SEARCH"
  <2> DEFINE m == r[1][3]
  <2>1. m \in Media BY <1>3, TypeOfRow, KindOfType
  <2>2. jobs[r].run # "NONE" BY <1>1, <1>3 DEF DataInv, RowInv
  <2>3. m \in confirmed BY <2>2 DEF DataInv, SettledInv
  <2>4. jobs'[r].run = "PT_SEARCHING" BY <1>1, <2>2
  <2>5. workflow'[m] = SearchStatus(jobs', m, workflow[m])
    BY <1>2, <1>3, <2>1, SearchRow
  <2>6. \A n \in Media \ {m} : workflow'[n] = workflow[n]
    BY <1>2, <1>3, SearchRow
  <2>7. PICK q \in Rows : /\ q[1][1] = "TORRENT_SEARCH" /\ q[1][3] = m
                          /\ jobs'[q].run = SearchStatus(jobs', m, workflow[m])
                          /\ jobs'[q].run \in RunStatuses
    BY <1>1, <1>3, <2>1, <2>4, RefreshedFromRun
  <2>8. workflow' \in [Media -> WorkflowStatuses] BY DEF TypeOK
  <2> HIDE DEF m
  <2> QED BY <1>1, <1>2, <1>3, <2>1, <2>3, <2>4, <2>5, <2>6, <2>7, <2>8,
             SearchedData DEF m
<1>4. CASE r[1][1] # "TORRENT_SEARCH"
  <2>1. \A n \in Media : workflow'[n] = workflow[n] BY <1>2, <1>4, SearchRow
  <2>2. jobs[r].run = "NONE" BY <1>4 DEF DataInv, RowInv
  <2>3. RowInv' BY <1>1, <1>4, <2>2 DEF DataInv, RowInv
  <2>4. SettledInv' BY <1>1, <1>2, <2>1, <2>2 DEF DataInv, SettledInv
  <2>5. ResolutionInv' BY <1>1, <1>2 DEF DataInv, ResolutionInv
  <2>6. PendingInv' BY <1>1, <2>1 DEF DataInv, PendingInv
  <2>7. ActiveRunHasJob' BY <1>1, <2>2 DEF DataInv, ActiveRunHasJob
  <2> QED BY <2>3, <2>4, <2>5, <2>6, <2>7 DEF DataInv
<1> QED BY <1>3, <1>4

\* A resolution that finds its item settled cancels itself.
LEMMA CancelData ==
  ASSUME TypeOK, DataInv, NEW r \in Rows, jobs[r].status = "RUNNING",
         r[1][1] # "TORRENT_SEARCH",
         r[1][1] = "RESOLVE_METADATA" => r[1][2] \in confirmed \cap Media,
         NEW s \in EndStatuses, jobs' = [jobs EXCEPT ![r] = Ended(@, s)],
         UNCHANGED <<workflow, confirmed>>
  PROVE  DataInv'
<1>1. /\ jobs'[r].status = s /\ jobs'[r].run = jobs[r].run
      /\ \A q \in Rows \ {r} : jobs'[q] = jobs[q]
  BY EndRow
<1>2. r[1][1] = "RESOLVE_METADATA" => workflow[r[1][2]] # "METADATA_PENDING"
  BY DEF DataInv, SettledInv
<1> QED BY <1>1, <1>2, EndedData

\* _prepare_metadata_resolution ends the row of a settled item, or changes nothing.
LEMMA PrepareData ==
  ASSUME TypeOK, DataInv, ClaimInv, NEW w \in Workers, PrepareResolution(w)
  PROVE  DataInv'
<1>1. /\ row[w] \in Rows /\ row[w][1][1] = "RESOLVE_METADATA" /\ JobOf(w)[2] \in Media
      /\ jobs[row[w]].status = "RUNNING" /\ UNCHANGED <<workflow, confirmed>>
  BY WorkingRow DEF PrepareResolution, ClaimInv, Owns, JobOf, mediaVars
<1>2. CASE Finalized(JobOf(w)[2])
  <2>1. jobs' = [jobs EXCEPT ![row[w]] = Ended(@, "CANCELLED")]
    BY <1>2 DEF PrepareResolution
  <2>2. row[w][1][2] \in confirmed
    BY <1>1, <1>2, FinalizedMeansConfirmed DEF DataInv, JobOf
  <2> QED BY <1>1, <2>1, <2>2, CancelData DEF JobOf
<1>3. CASE ~Finalized(JobOf(w)[2])
  BY <1>1, <1>3, UntouchedData DEF PrepareResolution
<1> QED BY <1>2, <1>3

\* _complete_metadata_resolution ends the row; the item goes to review or is
\* confirmed by the same transaction.
LEMMA ResolutionData ==
  ASSUME TypeOK, DataInv, ClaimInv, NEW w \in Workers, CompleteResolution(w)
  PROVE  DataInv'
<1> DEFINE r    == row[w]
           m    == r[1][2]
           done == [jobs EXCEPT ![r] = Ended(@, "SUCCEEDED")]
<1>1. /\ r \in Rows /\ r[1][1] = "RESOLVE_METADATA" /\ m \in Media
      /\ r[1] = Resolve(m) /\ jobs[r].status = "RUNNING"
  BY WorkingRow DEF CompleteResolution, Owns, JobOf
<1>2. CASE Finalized(m)
  <2>1. /\ jobs' = [jobs EXCEPT ![r] = Ended(@, "CANCELLED")]
        /\ UNCHANGED <<workflow, confirmed>>
    BY <1>2 DEF CompleteResolution, JobOf, mediaVars
  <2>2. m \in confirmed BY <1>1, <1>2, FinalizedMeansConfirmed DEF DataInv
  <2> QED BY <1>1, <2>1, <2>2, CancelData
<1>3. CASE ~Finalized(m)
  <2>1. m \notin confirmed BY <1>1, <1>3, FinalizedMeansConfirmed DEF DataInv
  <2>2. /\ done \in [Rows -> Job] /\ done[r].status = "SUCCEEDED"
        /\ done[r].run = jobs[r].run
        /\ \A q \in Rows \ {r} : done[q] = jobs[q]
    <3>1. jobs[r] \in Job BY <1>1, RowType
    <3>2. /\ Ended(jobs[r], "SUCCEEDED") \in Job
          /\ Ended(jobs[r], "SUCCEEDED").status = "SUCCEEDED"
          /\ Ended(jobs[r], "SUCCEEDED").run = jobs[r].run
      BY <3>1, EndedJob
    <3> QED BY <1>1, <3>2, RowType
  <2>3. \/ /\ jobs' = done
           /\ workflow' = [workflow EXCEPT ![m] = "IDENTITY_REVIEW"]
           /\ confirmed' = confirmed
        \/ \E searches \in FirstSearches : Confirm(done, m, searches, input[m])
    BY <1>3 DEF CompleteResolution, JobOf
  <2>4. jobs[r].run = "NONE" BY <1>1 DEF DataInv, RowInv
  <2>5. \A q \in Rows : q[1][1] = "RESOLVE_METADATA" /\ q[1][2] = m =>
                          done[q].status \notin ActiveStatuses
    <3>1. ASSUME NEW q \in Rows, q[1][1] = "RESOLVE_METADATA", q[1][2] = m, q # r
          PROVE  jobs[q].status \notin ActiveStatuses
      <4>1. q[1] = r[1] BY <1>1, <3>1, TypeOfRow, KindOfType
      <4> QED BY <1>1, <3>1, <4>1 DEF DataInv, ResolutionInv
    <3> QED BY <2>2, <3>1
  <2> HIDE DEF done, m, r
  <2>6. CASE /\ jobs' = done
             /\ workflow' = [workflow EXCEPT ![m] = "IDENTITY_REVIEW"]
             /\ confirmed' = confirmed
    <3>1. RowInv' BY <1>1, <2>2, <2>4, <2>6 DEF DataInv, RowInv
    <3>2. SettledInv' BY <1>1, <2>1, <2>2, <2>6 DEF DataInv, SettledInv, TypeOK
    <3>3. ResolutionInv' BY <2>2, <2>6 DEF DataInv, ResolutionInv
    <3>4. PendingInv'
      <4>1. \A n \in Media : workflow'[n] \in {"METADATA_PENDING"} \cup ActiveSearchStatuses
                               => n # m /\ workflow'[n] = workflow[n]
        BY <2>6 DEF TypeOK
      <4>2. ASSUME NEW n \in Media, n # m, NEW q \in Rows, q[1] = Resolve(n)
            PROVE  q # r
        BY <1>1, <4>2, Types
      <4>3. ASSUME NEW q \in Rows, q[1][1] = "TORRENT_SEARCH" PROVE q # r
        BY <1>1, <4>3
      <4> QED BY <2>2, <2>6, <4>1, <4>2, <4>3 DEF DataInv, PendingInv
    <3>5. ActiveRunHasJob' BY <2>2, <2>4, <2>6 DEF DataInv, ActiveRunHasJob
    <3> QED BY <3>1, <3>2, <3>3, <3>4, <3>5 DEF DataInv
  <2>7. ASSUME NEW searches \in FirstSearches, Confirm(done, m, searches, input[m])
        PROVE  DataInv'
    <3>1. input[m] \in Inputs \cup {NoInput} BY <1>1 DEF TypeOK, m
    <3>2. \A q \in Rows :
            \/ done[q] = jobs[q]
            \/ /\ q[1][1] = "RESOLVE_METADATA" /\ q[1][2] = m
               /\ jobs[q].status # "NONE" /\ done[q].status \in EndStatuses
               /\ done[q].run = jobs[q].run
      BY <1>1, <2>2 DEF m
    <3>3. m \in Media BY <1>1 DEF m
    <3> QED BY <2>1, <2>2, <2>5, <2>7, <3>1, <3>2, <3>3, ConfirmedData
  <2> QED BY <2>3, <2>6, <2>7
<1> QED BY <1>2, <1>3

\* _complete_torrent_search: the run ends with its row, and the item shows one of
\* its runs.
LEMMA SearchData ==
  ASSUME TypeOK, TypeOK', DataInv, ClaimInv, NEW w \in Workers, CompleteSearch(w)
  PROVE  DataInv'
<1> DEFINE r == row[w]
           m == r[1][3]
<1>1. /\ r \in Rows /\ r[1][1] = "TORRENT_SEARCH" /\ m \in Media /\ m \in confirmed
  BY WorkingRow DEF CompleteSearch, JobOf
<1>2. PICK found \in {"TORRENT_REVIEW", "NO_CANDIDATE"} :
        jobs' = [jobs EXCEPT ![r] = [Ended(@, "SUCCEEDED") EXCEPT !.run = found]]
  BY DEF CompleteSearch
<1>3. /\ jobs' \in [Rows -> Job] /\ jobs'[r].status = "SUCCEEDED" /\ jobs'[r].run = found
      /\ \A q \in Rows \ {r} : jobs'[q] = jobs[q]
  <2> DEFINE k == [Ended(jobs[r], "SUCCEEDED") EXCEPT !.run = found]
  <2>1. jobs[r] \in Job /\ found \in RunStatuses \cup {"NONE"}
    BY <1>1, RowType, RunStatusSet
  <2>2. k \in Job /\ k.status = "SUCCEEDED" /\ k.run = found BY <2>1, SearchedJob
  <2>3. jobs' = [jobs EXCEPT ![r] = k] BY <1>2
  <2> HIDE DEF k, r
  <2> QED BY <1>1, <2>2, <2>3, RowType
<1>4. /\ confirmed' = confirmed
      /\ workflow' = [workflow EXCEPT ![m] = SearchStatus(jobs', m, workflow[m])]
  BY DEF CompleteSearch, SetWorkflow, JobOf
<1> HIDE DEF m, r
<1>5. PICK q \in Rows : /\ q[1][1] = "TORRENT_SEARCH" /\ q[1][3] = m
                        /\ jobs'[q].run = SearchStatus(jobs', m, workflow[m])
                        /\ jobs'[q].run \in RunStatuses
  <2>1. r[1][3] = m BY DEF m
  <2> QED BY <1>1, <1>3, <2>1, RefreshedFromRun
<1>6. /\ workflow'[m] = jobs'[q].run
      /\ \A n \in Media \ {m} : workflow'[n] = workflow[n]
      /\ workflow' \in [Media -> WorkflowStatuses]
  BY <1>1, <1>4, <1>5 DEF TypeOK
<1>7. r[1][3] = m BY DEF m
<1> QED BY <1>1, <1>3, <1>4, <1>5, <1>6, <1>7, SearchedData

\* _complete_discovery: an item that goes to METADATA_PENDING gets a row in the
\* same transaction, and its earlier one is cancelled.
LEMMA DiscoveryData ==
  ASSUME TypeOK, DataInv, ClaimInv, NEW w \in Workers, CompleteDiscovery(w)
  PROVE  DataInv'
<1> DEFINE d == row[w]
<1>1. d \in Rows /\ d[1] = Discover /\ d[1][1] = "DISCOVER_NEXTFIND"
      /\ jobs[d].status = "RUNNING"
  BY WorkingRow, Types DEF CompleteDiscovery, JobOf, Owns
<1>2. PICK found \in SUBSET Media : \E now \in [found -> Inputs] :
        StoreItems(d, found, now)
  BY DEF CompleteDiscovery
<1>3. PICK now \in [found -> Inputs] : StoreItems(d, found, now) BY <1>2
<1> HIDE DEF d
<1>4. PICK fresh \in SUBSET Media :
        /\ \A m \in fresh : /\ now[m] \in Inputs /\ ~Finalized(m)
                            /\ NextRow(Resolve(m)) \in Rows
                            /\ NextRow(Resolve(m))[1] = Resolve(m)
                            /\ jobs[NextRow(Resolve(m))].status = "NONE"
        /\ \A r \in Rows : DiscoveryMove(d, r, fresh, now)
        /\ workflow' = [m \in Media |-> IF m \in fresh THEN "METADATA_PENDING"
                                                      ELSE workflow[m]]
  BY <1>1, <1>3, DiscoveredRows
<1>5. confirmed' = confirmed BY <1>3 DEF StoreItems
<1>6. \A m \in fresh : m \in Media /\ m \notin confirmed /\ now[m] \in Inputs
  BY <1>4, FinalizedMeansConfirmed DEF DataInv
<1>7. \A m \in fresh : /\ Queued(now[m], "NONE").status = "PENDING"
                       /\ Queued(now[m], "NONE").run = "NONE"
                       /\ Queued(now[m], "NONE").attempts = 0
  BY <1>6, QueuedJob
<1>8. ASSUME NEW r \in Rows
      PROVE  \/ /\ r = d /\ jobs'[r].status = "SUCCEEDED"
                /\ jobs'[r].run = jobs[r].run
             \/ /\ r # d /\ r[1][1] = "RESOLVE_METADATA" /\ r[1][2] \in fresh
                /\ jobs[r].status = "NONE" /\ r = NextRow(Resolve(r[1][2]))
                /\ jobs'[r].status = "PENDING" /\ jobs'[r].run = "NONE"
                /\ jobs'[r].attempts = 0
             \/ /\ r # d /\ r[1][1] = "RESOLVE_METADATA" /\ r[1][2] \in fresh
                /\ jobs[r].status # "NONE" /\ jobs'[r].status = "CANCELLED"
                /\ jobs'[r].run = jobs[r].run
             \/ /\ r # d /\ jobs'[r] = jobs[r]
                /\ r[1][1] = "RESOLVE_METADATA" /\ r[1][2] \in fresh =>
                     /\ jobs[r].status \notin ActiveStatuses
                     /\ r # NextRow(Resolve(r[1][2]))
  BY <1>4, <1>7 DEF DiscoveryMove
<1>9. RowInv' BY <1>1, <1>8 DEF DataInv, RowInv
<1>10. SettledInv'
  <2>1. \A m \in Media : m \in confirmed' <=> workflow'[m] \notin UnconfirmedStatuses
    BY <1>4, <1>5, <1>6 DEF DataInv, SettledInv
  <2>2. \A r \in Rows : jobs'[r].run # "NONE" => jobs[r].run # "NONE" BY <1>8
  <2> QED BY <1>5, <2>1, <2>2 DEF DataInv, SettledInv
<1>11. ResolutionInv'
  <2>1. ASSUME NEW r \in Rows, r[1][1] = "RESOLVE_METADATA",
               jobs'[r].status \in ActiveStatuses
        PROVE  IF r[1][2] \in fresh THEN r = NextRow(Resolve(r[1][2]))
                                    ELSE jobs'[r] = jobs[r]
    BY <1>8, <2>1
  <2>2. ASSUME NEW r \in Rows, r[1][1] = "RESOLVE_METADATA",
               jobs'[r].status \in ActiveStatuses
        PROVE  /\ r[1][2] \notin confirmed'
               /\ \A q \in Rows : q[1] = r[1] /\ jobs'[q].status \in ActiveStatuses
                                    => q = r
    BY <1>5, <1>6, <2>1, <2>2 DEF DataInv, ResolutionInv
  <2> QED BY <2>2 DEF ResolutionInv
<1>12. PendingInv'
  <2>1. ASSUME NEW m \in Media, workflow'[m] = "METADATA_PENDING"
        PROVE  \E q \in Rows : q[1] = Resolve(m) /\ jobs'[q].status \in ActiveStatuses
    <3>1. CASE m \in fresh
      <4> DEFINE r == NextRow(Resolve(m))
      <4>1. r \in Rows /\ r[1] = Resolve(m) /\ jobs[r].status = "NONE" BY <1>4, <3>1
      <4>2. r[1][1] = "RESOLVE_METADATA" /\ r[1][2] = m BY <4>1, Types
      <4>3. r # d BY <1>1, <4>2
      <4>4. r = NextRow(Resolve(r[1][2])) BY <4>2
      <4> HIDE DEF r
      <4>5. r[1][2] \in fresh BY <3>1, <4>2
      <4>6. jobs'[r].status = "PENDING" BY <1>8, <4>1, <4>2, <4>3, <4>4, <4>5
      <4> QED BY <4>1, <4>6
    <3>2. CASE m \notin fresh
      <4>1. PICK q \in Rows : q[1] = Resolve(m) /\ jobs[q].status \in ActiveStatuses
        BY <1>4, <2>1, <3>2 DEF DataInv, PendingInv
      <4>2. q[1][1] = "RESOLVE_METADATA" /\ q[1][2] = m BY <4>1, Types
      <4>3. q # d BY <1>1, <4>2
      <4>4. jobs'[q] = jobs[q] BY <1>8, <3>2, <4>2, <4>3
      <4> QED BY <4>1, <4>4
    <3> QED BY <3>1, <3>2
  <2>2. ASSUME NEW m \in Media, workflow'[m] \in ActiveSearchStatuses
        PROVE  \E q \in Rows : /\ q[1][1] = "TORRENT_SEARCH" /\ q[1][3] = m
                               /\ jobs'[q].status \in ActiveStatuses
    <3>1. workflow[m] \in ActiveSearchStatuses BY <1>4, <2>2
    <3>2. PICK q \in Rows : /\ q[1][1] = "TORRENT_SEARCH" /\ q[1][3] = m
                            /\ jobs[q].status \in ActiveStatuses
      BY <3>1 DEF DataInv, PendingInv
    <3>3. jobs'[q] = jobs[q] BY <1>1, <1>8, <3>2
    <3> QED BY <3>2, <3>3
  <2> QED BY <2>1, <2>2 DEF PendingInv
<1>13. ActiveRunHasJob'
  <2>1. \A r \in Rows : jobs'[r].run \in ActiveSearchStatuses => jobs'[r] = jobs[r]
    BY <1>1, <1>8 DEF DataInv, RowInv
  <2> QED BY <2>1 DEF DataInv, ActiveRunHasJob
<1> QED BY <1>9, <1>10, <1>11, <1>12, <1>13 DEF DataInv

\* _fail, from an outdated read included: a resolution of a settled item is
\* cancelled, an item leaves METADATA_PENDING with its row, and RETRY_WAIT is
\* refused by the unique index beside another active row.
LEMMA FailData ==
  ASSUME TypeOK, TypeOK', DataInv, ClaimInv, NEW w \in Workers, FailWrites(w)
  PROVE  DataInv'
<1> DEFINE r == row[w]
           m == MediaOf(r[1])
<1>1. /\ jobs' \in [Rows -> Job] /\ r \in Rows
      /\ jobs'[r].status = FailStatus(w)
      /\ jobs'[r].attempts = jobs[r].attempts
      /\ jobs'[r].run = FailedRun(jobs[r].run, Retries(w))
      /\ \A q \in Rows \ {r} : jobs'[q] = jobs[q]
  BY FailedRows
<1>2. jobs[r].status # "NONE"
  <2>1. pc[w] # "idle" BY DEF FailWrites
  <2>2. lease[w] \in 1..jobs[r].attempts BY <2>1 DEF ClaimInv
  <2>3. jobs[r].attempts # 0 BY <1>1, <2>2, RowType DEF Job
  <2> QED BY <1>1, <2>3 DEF DataInv, RowInv
<1>3. r[1] \in JobTypes /\ r[1] = JobOf(w) BY <1>1, TypeOfRow DEF JobOf
<1>4. IF r[1] = Discover \/ FailStatus(w) = "CANCELLED"
        THEN UNCHANGED <<workflow, confirmed>>
        ELSE /\ workflow' = [workflow EXCEPT ![m] = FailedStatus(jobs', r[1], Retries(w))]
             /\ confirmed' = confirmed
  BY <1>3 DEF FailWrites, SetWorkflow, mediaVars
<1>5. FailStatus(w) \in EndStatuses \cup {"RETRY_WAIT"} BY DEF FailStatus
<1>6. CASE r[1][1] = "TORRENT_SEARCH"
  <2>1. m = r[1][3] /\ m \in Media /\ r[1] # Discover /\ ~SettledMeanwhile(r[1])
    BY <1>3, <1>6, KindOfType, Types DEF MediaOf, SettledMeanwhile
  <2>2. FailStatus(w) = IF Retries(w) THEN "RETRY_WAIT" ELSE "FAILED"
    BY <1>3, <2>1 DEF FailStatus
  <2>3. jobs[r].run # "NONE" BY <1>1, <1>2, <1>6 DEF DataInv, RowInv
  <2>4. m \in confirmed BY <1>1, <2>1, <2>3 DEF DataInv, SettledInv
  <2>5. /\ jobs'[r].run # "NONE"
        /\ jobs'[r].run \in ActiveSearchStatuses => jobs'[r].status \in ActiveStatuses
    BY <1>1, <2>2, <2>3 DEF FailedRun
  <2>6. /\ workflow' = [workflow EXCEPT ![m] = SearchStatus(jobs', m, workflow[m])]
        /\ confirmed' = confirmed
    BY <1>4, <1>6, <2>1, <2>2 DEF FailedStatus
  <2> HIDE DEF m, r
  <2>7. PICK q \in Rows : /\ q[1][1] = "TORRENT_SEARCH" /\ q[1][3] = m
                          /\ jobs'[q].run = SearchStatus(jobs', m, workflow[m])
                          /\ jobs'[q].run \in RunStatuses
    BY <1>1, <1>6, <2>1, <2>5, RefreshedFromRun
  <2>8. /\ workflow'[m] = jobs'[q].run
        /\ \A n \in Media \ {m} : workflow'[n] = workflow[n]
        /\ workflow' \in [Media -> WorkflowStatuses]
    BY <2>1, <2>6, <2>7 DEF TypeOK
  <2>9. jobs'[r].status # "NONE" BY <1>1, <1>5
  <2> QED BY <1>1, <1>6, <2>1, <2>4, <2>5, <2>6, <2>7, <2>8, <2>9, SearchedData
<1>7. CASE r[1][1] # "TORRENT_SEARCH"
  <2>1. jobs[r].run = "NONE" BY <1>1, <1>7 DEF DataInv, RowInv
  <2>2. jobs'[r].run = "NONE" BY <1>1, <2>1 DEF FailedRun
  <2>3. r[1][1] = "RESOLVE_METADATA" => m \in Media /\ m = r[1][2] /\ r[1] = Resolve(m)
    BY <1>3, KindOfType DEF MediaOf
  <2>4. r[1][1] = "RESOLVE_METADATA" /\ FailStatus(w) # "CANCELLED" => m \notin confirmed
    BY <1>3, <2>3, FinalizedMeansConfirmed DEF FailStatus, SettledMeanwhile, DataInv
  <2>5. /\ confirmed' = confirmed
        /\ \A n \in Media : \/ workflow'[n] = workflow[n]
                            \/ /\ r[1][1] = "RESOLVE_METADATA" /\ n = m
                               /\ FailStatus(w) = "FAILED"
                               /\ workflow'[n] = "IDENTITY_REVIEW"
    <3>1. CASE r[1] = Discover \/ FailStatus(w) = "CANCELLED" BY <1>4, <3>1
    <3>2. CASE r[1] # Discover /\ FailStatus(w) # "CANCELLED"
      <4>1. r[1][1] = "RESOLVE_METADATA" BY <1>3, <1>7, <3>2, KindOfType
      <4>2. FailedStatus(jobs', r[1], Retries(w))
              = IF Retries(w) THEN workflow[m] ELSE "IDENTITY_REVIEW"
        BY <4>1 DEF FailedStatus
      <4>3. FailStatus(w) = IF Retries(w) THEN "RETRY_WAIT" ELSE "FAILED"
        BY <3>2 DEF FailStatus
      <4> QED BY <1>4, <2>3, <3>2, <4>1, <4>2, <4>3 DEF TypeOK
    <3> QED BY <3>1, <3>2
  <2>6. FailStatus(w) = "RETRY_WAIT" =>
          \A q \in Rows : q[1] = r[1] /\ jobs[q].status \in ActiveStatuses => q = r
    BY <1>3, ActiveRowsOf DEF FailWrites, FailAllowed, ActiveRows
  <2>7. FailStatus(w) = "CANCELLED" => r[1][1] = "RESOLVE_METADATA" /\ m \in confirmed
    BY <1>3, <2>3, FinalizedMeansConfirmed DEF FailStatus, SettledMeanwhile, DataInv
  <2> HIDE DEF m, r
  <2>8. RowInv' BY <1>1, <1>2, <1>5, <1>7, <2>2 DEF DataInv, RowInv
  <2>9. SettledInv'
    <3>1. \A n \in Media : n \in confirmed' <=> workflow'[n] \notin UnconfirmedStatuses
      BY <2>4, <2>5 DEF DataInv, SettledInv
    <3>2. \A q \in Rows : jobs'[q].run # "NONE" => jobs[q].run # "NONE"
      BY <1>1, <2>2
    <3> QED BY <2>5, <3>1, <3>2 DEF DataInv, SettledInv
  <2>10. ResolutionInv'
    BY <1>1, <1>5, <2>3, <2>4, <2>5, <2>6 DEF DataInv, ResolutionInv
  <2>11. PendingInv'
    <3>1. ASSUME NEW n \in Media, workflow'[n] = "METADATA_PENDING"
          PROVE  \E q \in Rows : q[1] = Resolve(n) /\ jobs'[q].status \in ActiveStatuses
      <4>1. workflow[n] = "METADATA_PENDING" BY <2>5, <3>1
      <4>2. PICK q \in Rows : q[1] = Resolve(n) /\ jobs[q].status \in ActiveStatuses
        BY <4>1 DEF DataInv, PendingInv
      <4>3. q = r => FailStatus(w) = "RETRY_WAIT"
        <5>1. SUFFICES ASSUME q = r PROVE FailStatus(w) = "RETRY_WAIT" OBVIOUS
        <5>2. r[1][1] = "RESOLVE_METADATA" /\ m = n BY <2>3, <4>2, <5>1, Types
        <5>3. FailStatus(w) # "CANCELLED"
          BY <2>7, <4>1, <5>2 DEF DataInv, SettledInv
        <5>4. FailStatus(w) # "FAILED"
          <6>1. SUFFICES ASSUME FailStatus(w) = "FAILED" PROVE FALSE OBVIOUS
          <6>2. ~Retries(w) /\ r[1] # Discover
            BY <1>3, <5>2, <6>1, Types DEF FailStatus
          <6>3. workflow'[m] = "IDENTITY_REVIEW"
            BY <1>4, <2>3, <5>2, <6>1, <6>2 DEF FailedStatus, TypeOK
          <6> QED BY <3>1, <5>2, <6>3
        <5> QED BY <5>3, <5>4 DEF FailStatus
      <4> QED BY <1>1, <4>2, <4>3
    <3>2. ASSUME NEW n \in Media, workflow'[n] \in ActiveSearchStatuses
          PROVE  \E q \in Rows : /\ q[1][1] = "TORRENT_SEARCH" /\ q[1][3] = n
                                 /\ jobs'[q].status \in ActiveStatuses
      <4>1. workflow[n] \in ActiveSearchStatuses BY <2>5, <3>2
      <4>2. PICK q \in Rows : /\ q[1][1] = "TORRENT_SEARCH" /\ q[1][3] = n
                              /\ jobs[q].status \in ActiveStatuses
        BY <4>1 DEF DataInv, PendingInv
      <4> QED BY <1>1, <1>7, <4>2
    <3> QED BY <3>1, <3>2 DEF PendingInv
  <2>12. ActiveRunHasJob' BY <1>1, <2>2 DEF DataInv, ActiveRunHasJob
  <2> QED BY <2>8, <2>9, <2>10, <2>11, <2>12 DEF DataInv
<1> QED BY <1>6, <1>7

\* Every step keeps what the rows and items promise each other.
LEMMA DataStep == TypeOK /\ TypeOK' /\ DataInv /\ ClaimInv /\ [Next]_vars => DataInv'
<1> SUFFICES ASSUME TypeOK, TypeOK', DataInv, ClaimInv, [Next]_vars PROVE DataInv'
  OBVIOUS
<1>1. CASE UNCHANGED vars BY <1>1, UntouchedData DEF vars, mediaVars
<1>2. CASE CreateDiscoveryRun BY <1>2, DiscoveryRequestData
<1>3. CASE Operator
  <2>1. ASSUME NEW m \in Media, LoadMedia(m) PROVE DataInv'
    BY <2>1, UntouchedData DEF LoadMedia, mediaVars
  <2>2. ASSUME AbandonRequest PROVE DataInv'
    BY <2>2, UntouchedData DEF AbandonRequest, mediaVars
  <2> QED BY <1>3, <2>1, <2>2, ResolutionRequestData, ConfirmRequestData,
             SearchRequestData DEF Operator
<1>4. ASSUME NEW w \in Workers, Claiming(w) \/ RenewLease(w) \/ Crash(w)
      PROVE  DataInv'
  <2>1. ASSUME RenewLease(w) PROVE DataInv'
    <3>1. row[w] \in Rows /\ UNCHANGED <<workflow, confirmed>>
      BY <2>1 DEF RenewLease, ClaimInv, mediaVars
    <3>2. \A q \in Rows : Same(jobs[q], jobs'[q])
      BY <2>1, <3>1, LeaseRow DEF RenewLease
    <3> QED BY <3>1, <3>2, KeptData
  <2>2. ASSUME Crash(w) PROVE DataInv' BY <2>2, UntouchedData DEF Crash, mediaVars
  <2> QED BY <1>4, <2>1, <2>2, ClaimData DEF Claiming
<1>5. ASSUME NEW w \in Workers, Work(w) PROVE DataInv'
  <2>1. ASSUME DiscardStaleResult(w) \/ StepFails(w) \/ FailIsRefused(w) \/ LoseLease(w)
        PROVE  DataInv'
    BY <2>1, UntouchedData
       DEF DiscardStaleResult, StepFails, FailIsRefused, LoseLease, mediaVars
  <2> QED BY <1>5, <2>1, PrepareData, ResolutionData, SearchData, DiscoveryData,
             FailData DEF Work
<1>6. ASSUME NEW r \in Rows, LeaseLapses(r) PROVE DataInv'
  <2>1. \A q \in Rows : Same(jobs[q], jobs'[q]) BY <1>6, LeaseRow DEF LeaseLapses
  <2> QED BY <1>6, <2>1, KeptData DEF LeaseLapses, mediaVars
<1> QED BY <1>1, <1>2, <1>3, <1>4, <1>5, <1>6 DEF Next

----------------------------------------------------------------------------
\* Workers. What the queue does to a claimed row: attempts only grow, and a row
\* that is RUNNING either was, or has just been claimed once more.
Advances(old, new) ==
  /\ new.attempts >= old.attempts
  /\ new.status = "RUNNING" => \/ old.status = "RUNNING" /\ old.attempts = new.attempts
                               \/ new.attempts > old.attempts

\* A row that stays as it is, or that ends or waits with its attempts, advances.
LEMMA StillAdvances ==
  ASSUME NEW j \in Job, NEW k, k.attempts = j.attempts,
         k.status = j.status \/ k.status # "RUNNING"
  PROVE  Advances(j, k)
<1>1. j.attempts \in Nat BY DEF Job
<1> QED BY <1>1 DEF Advances

\* A queued row was free, and so had never been claimed.
LEMMA QueuedAdvances ==
  ASSUME RowInv, NEW r \in Rows, jobs[r].status = "NONE",
         NEW v \in Inputs \cup {NoInput}, NEW run \in RunStatuses \cup {"NONE"}
  PROVE  Advances(jobs[r], Queued(v, run))
<1>1. jobs[r].attempts = 0 BY DEF RowInv
<1> QED BY <1>1, QueuedJob DEF Advances

\* Operators' requests queue free rows and cancel active ones.
LEMMA RequestAdvances ==
  ASSUME TypeOK, DataInv, CreateDiscoveryRun \/ Operator
  PROVE  \A r \in Rows : Advances(jobs[r], jobs'[r])
<1> USE DEF DataInv
<1>1. \A q \in Rows : jobs[q] \in Job BY RowType
<1>2. ASSUME NEW j \in JobTypes, FreeRows(j) # {}, NEW v \in Inputs \cup {NoInput},
             NEW run \in RunStatuses \cup {"NONE"},
             jobs' = [jobs EXCEPT ![NextRow(j)] = Queued(v, run)]
      PROVE  \A r \in Rows : Advances(jobs[r], jobs'[r])
  <2>1. /\ NextRow(j) \in Rows /\ jobs[NextRow(j)].status = "NONE"
        /\ jobs'[NextRow(j)] = Queued(v, run)
        /\ \A r \in Rows \ {NextRow(j)} : jobs'[r] = jobs[r]
    BY <1>2, QueueRow
  <2>2. Advances(jobs[NextRow(j)], jobs'[NextRow(j)]) BY <2>1, QueuedAdvances
  <2>3. \A r \in Rows \ {NextRow(j)} : Advances(jobs[r], jobs'[r])
    BY <1>1, <2>1, StillAdvances
  <2> QED BY <2>2, <2>3
<1>3. CASE UNCHANGED jobs BY <1>1, <1>3, StillAdvances
<1>4. CASE CreateDiscoveryRun
  BY <1>2, <1>4, Types DEF CreateDiscoveryRun
<1>5. CASE RequestResolution
  <2> DEFINE j == Resolve(request.media)
  <2>1. request.media \in Media /\ request.input \in Inputs
    BY <1>5 DEF RequestResolution, TypeOK
  <2>2. /\ FreeRows(j) # {}
        /\ jobs' = [jobs EXCEPT ![NextRow(j)] = Queued(request.input, "NONE")]
    BY <1>5 DEF RequestResolution
  <2>3. j \in JobTypes BY <2>1, Types
  <2> QED BY <1>2, <2>1, <2>2, <2>3
<1>6. ASSUME NEW s \in Sites, RequestSearch(s)
      PROVE  \A r \in Rows : Advances(jobs[r], jobs'[r])
  <2> DEFINE j == Search(s, request.media)
  <2>1. request.media \in Media /\ request.input \in Inputs
    BY <1>6 DEF RequestSearch, TypeOK
  <2>2. /\ FreeRows(j) # {}
        /\ jobs' = [jobs EXCEPT ![NextRow(j)] =
                      Queued(request.input, "PT_SEARCH_PENDING")]
    BY <1>6 DEF RequestSearch
  <2>3. j \in JobTypes /\ "PT_SEARCH_PENDING" \in RunStatuses
    BY <2>1, Types, RunStatusSet
  <2> QED BY <1>2, <2>1, <2>2, <2>3
<1>7. CASE ConfirmIdentity
  <2> DEFINE m  == request.media
             js == Superseded({m})
  <2>1. m \in Media /\ request.input \in Inputs BY <1>7 DEF ConfirmIdentity, TypeOK
  <2>2. m \notin confirmed BY <1>7, <2>1, FinalizedMeansConfirmed DEF ConfirmIdentity
  <2>3. /\ js \in [Rows -> Job]
        /\ \A r \in Rows : /\ js[r].attempts = jobs[r].attempts
                           /\ js[r].status = jobs[r].status \/ js[r].status # "RUNNING"
    <3>1. {m} \in SUBSET Media BY <2>1
    <3> QED BY <3>1, SupersededJobs, RowType
  <2>4. PICK searches \in FirstSearches : Confirm(js, m, searches, request.input)
    BY <1>7 DEF ConfirmIdentity
  <2> HIDE DEF m, js
  <2>5. \A r \in Rows : ConfirmMove(js, r, m, request.input)
    BY <2>1, <2>2, <2>3, <2>4, ConfirmedRows
  <2>6. "PT_SEARCH_PENDING" \in RunStatuses BY RunStatusSet
  <2> QED BY <1>1, <2>1, <2>3, <2>5, <2>6, QueuedAdvances, StillAdvances DEF ConfirmMove
<1> QED BY <1>3, <1>4, <1>5, <1>6, <1>7 DEF Operator, LoadMedia, AbandonRequest

\* The transaction that stores the result of a resolution (and may queue the
\* first search of its item).
LEMMA ResolutionAdvances ==
  ASSUME TypeOK, DataInv, ClaimInv, NEW w \in Workers, CompleteResolution(w)
  PROVE  \A r \in Rows : Advances(jobs[r], jobs'[r])
<1> USE DEF DataInv
<1> DEFINE q    == row[w]
           m    == JobOf(w)[2]
           done == [jobs EXCEPT ![q] = Ended(@, "SUCCEEDED")]
<1>1. \A r \in Rows : jobs[r] \in Job BY RowType
<1>2. q \in Rows /\ m \in Media BY WorkingRow DEF CompleteResolution
<1>3. CASE Finalized(m)
  BY <1>1, <1>2, <1>3, EndRow, StillAdvances DEF CompleteResolution
<1>4. CASE ~Finalized(m)
  <2>1. /\ done \in [Rows -> Job]
        /\ \A r \in Rows : /\ done[r].attempts = jobs[r].attempts
                           /\ done[r].status = jobs[r].status \/ done[r].status # "RUNNING"
    <3>1. /\ Ended(jobs[q], "SUCCEEDED") \in Job
          /\ Ended(jobs[q], "SUCCEEDED").status = "SUCCEEDED"
          /\ Ended(jobs[q], "SUCCEEDED").attempts = jobs[q].attempts
      BY <1>1, <1>2, EndedJob
    <3>2. done = [jobs EXCEPT ![q] = Ended(jobs[q], "SUCCEEDED")] OBVIOUS
    <3> HIDE DEF done
    <3> QED BY <1>2, <3>1, <3>2, RowType
  <2>2. \/ jobs' = done
        \/ \E searches \in FirstSearches : Confirm(done, m, searches, input[m])
    BY <1>4 DEF CompleteResolution
  <2> HIDE DEF done
  <2>3. CASE jobs' = done BY <1>1, <2>1, <2>3, StillAdvances
  <2>4. CASE \E searches \in FirstSearches : Confirm(done, m, searches, input[m])
    <3>1. m \notin confirmed BY <1>2, <1>4, FinalizedMeansConfirmed
    <3>2. input[m] \in Inputs \cup {NoInput} BY <1>2 DEF TypeOK
    <3>3. \A r \in Rows : ConfirmMove(done, r, m, input[m])
      BY <1>2, <2>1, <2>4, <3>1, <3>2, ConfirmedRows
    <3>4. "PT_SEARCH_PENDING" \in RunStatuses BY RunStatusSet
    <3> HIDE DEF m
    <3> QED BY <1>1, <2>1, <3>2, <3>3, <3>4, QueuedAdvances, StillAdvances DEF ConfirmMove
  <2> QED BY <2>2, <2>3, <2>4
<1> QED BY <1>3, <1>4

\* A discovery ends its own row, queues free ones, and cancels active ones.
LEMMA DiscoveryAdvances ==
  ASSUME TypeOK, DataInv, ClaimInv, NEW w \in Workers, CompleteDiscovery(w)
  PROVE  /\ \A r \in Rows : Advances(jobs[r], jobs'[r])
         /\ \A m \in Media : \/ input'[m] = input[m] \/ m \in confirmed
                             \/ \A r \in Rows : r[1] = Resolve(m) =>
                                                  jobs'[r].status # "RUNNING"
<1> USE DEF DataInv
<1> DEFINE d == row[w]
<1>1. d \in Rows /\ d[1] = Discover
  BY WorkingRow DEF CompleteDiscovery, JobOf
<1>2. PICK found \in SUBSET Media : \E now \in [found -> Inputs] :
        StoreItems(d, found, now)
  BY DEF CompleteDiscovery
<1>3. PICK now \in [found -> Inputs] : StoreItems(d, found, now) BY <1>2
<1> HIDE DEF d
<1>4. PICK fresh \in SUBSET Media :
        /\ \A m \in fresh : now[m] \in Inputs
        /\ \A m \in Media : input'[m] # input[m] => m \in fresh \/ Finalized(m)
        /\ \A r \in Rows : DiscoveryMove(d, r, fresh, now)
  BY <1>1, <1>3, DiscoveredRows
<1>5. \A r \in Rows : jobs[r] \in Job BY RowType
<1>6. \A r \in Rows : Advances(jobs[r], jobs'[r])
  BY <1>4, <1>5, QueuedAdvances, StillAdvances DEF DiscoveryMove
<1>7. ASSUME NEW m \in fresh, NEW r \in Rows, r[1] = Resolve(m)
      PROVE  jobs'[r].status # "RUNNING"
  <2>1. /\ r[1][1] = "RESOLVE_METADATA" /\ r[1][2] = m /\ r # d
        /\ Queued(now[m], "NONE").status = "PENDING"
    BY <1>1, <1>4, <1>7, Types, QueuedJob
  <2>2. DiscoveryMove(d, r, fresh, now) BY <1>4
  <2> QED BY <2>1, <2>2 DEF DiscoveryMove
<1>8. ASSUME NEW m \in Media, input'[m] # input[m], m \notin confirmed
      PROVE  \A r \in Rows : r[1] = Resolve(m) => jobs'[r].status # "RUNNING"
  <2>1. m \in fresh BY <1>4, <1>8, FinalizedMeansConfirmed
  <2> QED BY <1>7, <2>1
<1> QED BY <1>6, <1>8

\* Every step advances every row: only claim_job makes a row RUNNING, and it
\* counts the attempt. A late _fail puts back RETRY_WAIT, never RUNNING.
LEMMA RowsAdvance ==
  ASSUME TypeOK, DataInv, ClaimInv, [Next]_vars
  PROVE  \A r \in Rows : Advances(jobs[r], jobs'[r])
<1>1. \A r \in Rows : jobs[r] \in Job BY RowType
<1>2. CASE UNCHANGED jobs BY <1>1, <1>2, StillAdvances
<1>3. ASSUME NEW q \in Rows, NEW b \in BOOLEAN, jobs' = [jobs EXCEPT ![q].lapsed = b]
      PROVE  \A r \in Rows : Advances(jobs[r], jobs'[r])
  <2>1. \A r \in Rows : Same(jobs[r], jobs'[r]) BY <1>3, LeaseRow
  <2>2. \A r \in Rows : /\ jobs'[r].status = jobs[r].status
                        /\ jobs'[r].attempts = jobs[r].attempts
    BY <2>1 DEF Same
  <2> QED BY <1>1, <2>2, StillAdvances
<1>4. ASSUME NEW w \in Workers, NEW q \in Rows, ClaimJob(w, q)
      PROVE  \A r \in Rows : Advances(jobs[r], jobs'[r])
  <2>1. jobs[q].attempts \in Nat BY <1>1 DEF Job
  <2>2. Advances(jobs[q], jobs'[q]) BY <1>4, <2>1, ClaimRow DEF Advances
  <2> QED BY <1>1, <1>4, <2>2, ClaimRow, StillAdvances
<1>5. ASSUME NEW w \in Workers, Work(w)
      PROVE  \A r \in Rows : Advances(jobs[r], jobs'[r])
  <2>1. CASE DiscardStaleResult(w) \/ StepFails(w) \/ FailIsRefused(w) \/ LoseLease(w)
    BY <1>2, <2>1 DEF DiscardStaleResult, StepFails, FailIsRefused, LoseLease
  <2>2. CASE PrepareResolution(w)
    <3>1. row[w] \in Rows BY <2>2, WorkingRow DEF PrepareResolution
    <3> QED BY <1>1, <1>2, <2>2, <3>1, EndRow, StillAdvances DEF PrepareResolution
  <2>3. CASE CompleteSearch(w)
    <3>1. row[w] \in Rows BY <2>3, WorkingRow DEF CompleteSearch
    <3>2. PICK run \in {"TORRENT_REVIEW", "NO_CANDIDATE"} :
            jobs' = [jobs EXCEPT ![row[w]] = [Ended(@, "SUCCEEDED") EXCEPT !.run = run]]
      BY <2>3 DEF CompleteSearch
    <3>3. run \in RunStatuses \cup {"NONE"} BY RunStatusSet
    <3>4. /\ jobs'[row[w]].status = "SUCCEEDED"
          /\ jobs'[row[w]].attempts = jobs[row[w]].attempts
          /\ \A q \in Rows \ {row[w]} : jobs'[q] = jobs[q]
      BY <3>1, <3>2, <3>3, EndSearchRow
    <3> QED BY <1>1, <3>1, <3>4, StillAdvances
  <2>4. CASE FailWrites(w)
    <3>1. FailStatus(w) # "RUNNING" BY DEF FailStatus
    <3> QED BY <1>1, <2>4, <3>1, FailedRows, StillAdvances
  <2> QED BY <1>5, <2>1, <2>2, <2>3, <2>4, ResolutionAdvances, DiscoveryAdvances
          DEF Work
<1>6. CASE CreateDiscoveryRun \/ Operator BY <1>6, RequestAdvances
<1>7. ASSUME NEW w \in Workers, RenewLease(w) \/ Crash(w)
      PROVE  \A r \in Rows : Advances(jobs[r], jobs'[r])
  <2>1. RenewLease(w) => row[w] \in Rows BY WorkingRow DEF RenewLease
  <2> QED BY <1>2, <1>3, <1>7, <2>1 DEF RenewLease, Crash
<1> QED BY <1>2, <1>3, <1>4, <1>5, <1>6, <1>7
        DEF Next, vars, Claiming, LeaseLapses

\* The input of an item changes only where its active resolution is cancelled,
\* or where nothing asks for it any more.
LEMMA InputMoves ==
  ASSUME TypeOK, DataInv, ClaimInv, [Next]_vars
  PROVE  /\ confirmed \subseteq confirmed'
         /\ \A m \in Media : \/ input'[m] = input[m] \/ m \in confirmed
                             \/ \A r \in Rows : r[1] = Resolve(m) =>
                                                  jobs'[r].status # "RUNNING"
<1>1. ASSUME NEW w \in Workers, Work(w)
      PROVE  /\ confirmed \subseteq confirmed'
             /\ input' = input \/ CompleteDiscovery(w)
  <2>1. CASE CompleteResolution(w)
    BY <2>1 DEF CompleteResolution, Confirm, mediaVars
  <2>2. CASE FailWrites(w) BY <2>2 DEF FailWrites, SetWorkflow, mediaVars
  <2>3. CASE CompleteSearch(w) BY <2>3 DEF CompleteSearch, SetWorkflow
  <2>4. CASE CompleteDiscovery(w) BY <2>4 DEF CompleteDiscovery, StoreItems
  <2> QED BY <1>1, <2>1, <2>2, <2>3, <2>4
          DEF Work, PrepareResolution, DiscardStaleResult, StepFails, FailIsRefused,
              LoseLease, mediaVars
<1>2. CASE Operator
  BY <1>2 DEF Operator, LoadMedia, AbandonRequest, RequestResolution,
              ConfirmIdentity, Confirm, RequestSearch, SetWorkflow, mediaVars
<1>3. ASSUME NEW w \in Workers, Claiming(w) \/ RenewLease(w) \/ Crash(w)
      PROVE  UNCHANGED <<confirmed, input>>
  BY <1>3 DEF Claiming, ClaimJob, RenewLease, Crash, mediaVars
<1>4. CASE CreateDiscoveryRun BY <1>4 DEF CreateDiscoveryRun, mediaVars
<1>5. ASSUME NEW r \in Rows, LeaseLapses(r) PROVE UNCHANGED <<confirmed, input>>
  BY <1>5 DEF LeaseLapses, mediaVars
<1>6. CASE UNCHANGED vars BY <1>6 DEF vars, mediaVars
<1> QED BY <1>1, <1>2, <1>3, <1>4, <1>5, <1>6, DiscoveryAdvances DEF Next

\* What a step does to a worker: nothing, a claim, a query that takes the input
\* of the item, a failure, or the end of its run_once.
WorkerMove(w) ==
  \/ /\ pc'[w] = pc[w] /\ row'[w] = row[w] /\ lease'[w] = lease[w]
     /\ queriedInput'[w] = queriedInput[w]
  \/ pc'[w] = "idle"
  \/ /\ pc[w] # "idle" /\ row'[w] = row[w] /\ lease'[w] = lease[w]
     /\ pc'[w] \in {"failRetryable", "failFinal"}
  \/ /\ row'[w] \in Rows /\ lease'[w] = jobs'[row'[w]].attempts
     /\ lease'[w] \in Nat \ {0}
     /\ pc'[w] = IF row'[w][1][1] = "RESOLVE_METADATA" THEN "prepare" ELSE "work"
  \/ /\ pc[w] = "prepare" /\ pc'[w] = "work" /\ input' = input
     /\ row'[w] = row[w] /\ lease'[w] = lease[w]
     /\ queriedInput'[w] = input[row[w][1][2]]

\* A worker of claim_job takes the attempt number of its claim.
LEMMA ClaimMoves ==
  ASSUME TypeOK, NEW w \in Workers, NEW r \in Rows, ClaimJob(w, r)
  PROVE  WorkerMove(w)
<1>1. jobs[r] \in Job /\ jobs'[r].attempts = jobs[r].attempts + 1
  BY RowType, ClaimRow
<1>2. jobs'[r].attempts \in Nat \ {0} BY <1>1 DEF Job
<1>3. /\ row'[w] = r
      /\ pc'[w] = IF r[1][1] = "RESOLVE_METADATA" THEN "prepare" ELSE "work"
  BY DEF ClaimJob, TypeOK
<1>4. lease'[w] = jobs'[r].attempts
  <2>1. jobs' \in [Rows -> Job] BY ClaimRow
  <2> QED BY <1>1, <2>1, RowType DEF ClaimJob, TypeOK
<1> QED BY <1>2, <1>3, <1>4 DEF WorkerMove

\* The acting worker makes one of these moves; the others stay as they are.
LEMMA WorkersMove ==
  ASSUME TypeOK, [Next]_vars
  PROVE  \A w \in Workers : WorkerMove(w)
<1>1. ASSUME UNCHANGED workerVars PROVE \A w \in Workers : WorkerMove(w)
  BY <1>1 DEF WorkerMove, workerVars
<1>2. ASSUME NEW w \in Workers, Drop(w) PROVE \A v \in Workers : WorkerMove(v)
  <2>1. pc'[w] = "idle" BY <1>2 DEF Drop, TypeOK
  <2>2. \A v \in Workers \ {w} :
          /\ pc'[v] = pc[v] /\ row'[v] = row[v] /\ lease'[v] = lease[v]
          /\ queriedInput'[v] = queriedInput[v]
    BY <1>2 DEF Drop, TypeOK
  <2> QED BY <2>1, <2>2 DEF WorkerMove
<1>3. ASSUME NEW w \in Workers, NEW step \in {"failRetryable", "failFinal"},
             pc[w] # "idle", Goto(w, step)
      PROVE  \A v \in Workers : WorkerMove(v)
  BY <1>3 DEF Goto, WorkerMove, TypeOK
<1>4. ASSUME NEW w \in Workers, NEW r \in Rows, ClaimJob(w, r)
      PROVE  \A v \in Workers : WorkerMove(v)
  <2>1. \A v \in Workers \ {w} :
          /\ pc'[v] = pc[v] /\ row'[v] = row[v] /\ lease'[v] = lease[v]
          /\ queriedInput'[v] = queriedInput[v]
    BY <1>4 DEF ClaimJob, TypeOK
  <2> QED BY <1>4, <2>1, ClaimMoves DEF WorkerMove
<1>5. ASSUME NEW w \in Workers, PrepareResolution(w)
      PROVE  \A v \in Workers : WorkerMove(v)
  <2>1. CASE Finalized(JobOf(w)[2]) BY <1>2, <1>5, <2>1 DEF PrepareResolution
  <2>2. CASE ~Finalized(JobOf(w)[2])
    BY <1>5, <2>2 DEF PrepareResolution, WorkerMove, JobOf, TypeOK, mediaVars
  <2> QED BY <2>1, <2>2
<1>6. ASSUME NEW w \in Workers, Work(w) PROVE \A v \in Workers : WorkerMove(v)
  <2>1. CASE DiscardStaleResult(w) \/ StepFails(w)
    BY <1>3, <2>1 DEF DiscardStaleResult, StepFails
  <2>2. CASE CompleteResolution(w) \/ CompleteSearch(w) \/ CompleteDiscovery(w)
    BY <1>2, <2>2 DEF CompleteResolution, CompleteSearch, CompleteDiscovery
  <2>3. CASE FailWrites(w) \/ FailIsRefused(w) \/ LoseLease(w)
    BY <1>2, <2>3 DEF FailWrites, FailIsRefused, LoseLease
  <2> QED BY <1>5, <1>6, <2>1, <2>2, <2>3 DEF Work
<1>7. CASE CreateDiscoveryRun \/ Operator
  BY <1>1, <1>7 DEF CreateDiscoveryRun, Operator, LoadMedia, AbandonRequest,
                    RequestResolution, ConfirmIdentity, RequestSearch
<1>8. ASSUME NEW w \in Workers, Claiming(w) \/ RenewLease(w) \/ Crash(w)
      PROVE  \A v \in Workers : WorkerMove(v)
  BY <1>1, <1>2, <1>4, <1>8 DEF Claiming, RenewLease, Crash
<1>9. ASSUME NEW r \in Rows, LeaseLapses(r) PROVE \A v \in Workers : WorkerMove(v)
  BY <1>1, <1>9 DEF LeaseLapses
<1> QED BY <1>1, <1>6, <1>7, <1>8, <1>9 DEF Next, vars

\* A claim is at most overtaken: attempts only grow.
LEMMA ClaimStep ==
  ASSUME TypeOK, TypeOK', DataInv, ClaimInv, [Next]_vars
  PROVE  ClaimInv'
<1> SUFFICES ASSUME NEW w \in Workers, pc'[w] # "idle"
             PROVE  /\ row'[w] \in Rows /\ lease'[w] \in 1..jobs'[row'[w]].attempts
                    /\ pc'[w] = "prepare" => row'[w][1][1] = "RESOLVE_METADATA"
  BY DEF ClaimInv, JobOf
<1>1. WorkerMove(w) BY WorkersMove
<1>2. \A r \in Rows : Advances(jobs[r], jobs'[r]) BY RowsAdvance
<1>3. \A r \in Rows : jobs[r].attempts \in Nat /\ jobs'[r].attempts \in Nat
  BY DEF TypeOK
<1>4. CASE pc[w] # "idle" /\ row'[w] = row[w] /\ lease'[w] = lease[w]
  <2>1. row[w] \in Rows /\ lease[w] \in 1..jobs[row[w]].attempts
    BY <1>4 DEF ClaimInv
  <2>2. jobs'[row[w]].attempts >= jobs[row[w]].attempts BY <1>2, <2>1 DEF Advances
  <2>3. pc'[w] = "prepare" => row'[w][1][1] = "RESOLVE_METADATA"
    BY <1>1, <1>4 DEF WorkerMove, ClaimInv, JobOf
  <2> QED BY <1>3, <1>4, <2>1, <2>2, <2>3
<1>5. CASE /\ row'[w] \in Rows /\ lease'[w] = jobs'[row'[w]].attempts
           /\ lease'[w] \in Nat \ {0}
           /\ pc'[w] = IF row'[w][1][1] = "RESOLVE_METADATA" THEN "prepare" ELSE "work"
  BY <1>5
<1> QED BY <1>1, <1>4, <1>5 DEF WorkerMove

\* The input of a query that can still count is the item's. The worker still
\* owns its claim only if it owned it before; and where the input has changed,
\* its row is no longer RUNNING.
LEMMA QueryStep ==
  ASSUME TypeOK, TypeOK', DataInv, ClaimInv, QueryInv, [Next]_vars
  PROVE  QueryInv'
<1> SUFFICES ASSUME NEW w \in Workers, pc'[w] = "work",
                    row'[w][1][1] = "RESOLVE_METADATA",
                    jobs'[row'[w]].status = "RUNNING",
                    jobs'[row'[w]].attempts = lease'[w]
             PROVE  \/ row'[w][1][2] \in confirmed'
                    \/ queriedInput'[w] = input'[row'[w][1][2]]
  BY DEF QueryInv, JobOf, Owns
<1>1. \/ /\ pc[w] = "work" /\ row'[w] = row[w] /\ lease'[w] = lease[w]
         /\ queriedInput'[w] = queriedInput[w]
      \/ /\ row'[w] = row[w] /\ queriedInput'[w] = input[row[w][1][2]]
         /\ input' = input
  BY WorkersMove DEF WorkerMove
<1>2. CASE /\ pc[w] = "work" /\ row'[w] = row[w] /\ lease'[w] = lease[w]
           /\ queriedInput'[w] = queriedInput[w]
  <2> DEFINE r == row[w]
             m == r[1][2]
  <2>1. /\ r \in Rows /\ lease[w] \in 1..jobs[r].attempts
        /\ m \in Media /\ r[1] = Resolve(m)
    BY <1>2, WorkingRow DEF ClaimInv, JobOf
  <2>2. jobs[r].attempts \in Nat /\ Advances(jobs[r], jobs'[r])
    BY <2>1, RowsAdvance DEF TypeOK
  <2>3. jobs[r].status = "RUNNING" /\ jobs[r].attempts = lease[w]
    BY <1>2, <2>1, <2>2 DEF Advances
  <2>4. m \in confirmed \/ queriedInput[w] = input[m]
    BY <1>2, <2>3 DEF QueryInv, JobOf, Owns
  <2>5. confirmed \subseteq confirmed' /\ (input'[m] = input[m] \/ m \in confirmed)
    BY <1>2, <2>1, InputMoves
  <2> QED BY <1>2, <2>4, <2>5
<1> QED BY <1>1, <1>2

----------------------------------------------------------------------------
\* The invariant holds of the first state and is kept by every step.
LEMMA InitIInv == Init => IInv
<1> SUFFICES ASSUME Init PROVE IInv OBVIOUS
<1>1. TypeOK BY RunStatusSet DEF Init, TypeOK, NoJob
<1>2. \A r \in Rows : /\ jobs[r].run = "NONE" /\ jobs[r].status = "NONE"
                      /\ jobs[r].attempts = 0
  BY DEF Init, NoJob
<1>3. DataInv
  <2>1. \A m \in Media : m \notin confirmed /\ workflow[m] = "DISCOVERED"
    BY DEF Init
  <2>2. RowInv BY <1>2 DEF RowInv
  <2>3. SettledInv BY <1>2, <2>1 DEF SettledInv
  <2>4. ResolutionInv BY <1>2 DEF ResolutionInv
  <2>5. PendingInv BY <2>1 DEF PendingInv
  <2>6. ActiveRunHasJob BY <1>2 DEF ActiveRunHasJob
  <2> QED BY <2>2, <2>3, <2>4, <2>5, <2>6 DEF DataInv
<1>4. ClaimInv /\ QueryInv BY DEF Init, ClaimInv, QueryInv
<1> QED BY <1>1, <1>3, <1>4 DEF IInv

\* The parts together are inductive.
LEMMA NextIInv == IInv /\ [Next]_vars => IInv'
BY TypeStep, DataStep, ClaimStep, QueryStep DEF IInv

\* The inductive invariant is an invariant: rows, items and claims of the job
\* queue fit together after any number of steps of workers and operators.
THEOREM Invariance == Spec => []IInv
<1>1. Init => IInv BY InitIInv
<1>2. IInv /\ [Next]_vars => IInv' BY NextIInv
<1> QED BY <1>1, <1>2, PTL DEF Spec

\* Rows, items, requests and workers keep their types; in particular claim_job
\* gives no row more than max_attempts attempts.
THEOREM TypeCorrect == Spec => []TypeOK
<1>1. IInv => TypeOK BY DEF IInv
<1> QED BY <1>1, Invariance, PTL

\* Once an identity is confirmed, no RESOLVE_METADATA row of the item is active:
\* confirm_identity cancels them, and neither a late _fail, a discovery nor a
\* request brings one back.
THEOREM NoLateResolution == Spec => []NoResolutionOnceConfirmed
<1>1. IInv => NoResolutionOnceConfirmed
  <2> SUFFICES ASSUME IInv, NEW m \in confirmed, NEW r \in ActiveRows(Resolve(m))
               PROVE  FALSE
    BY DEF NoResolutionOnceConfirmed
  <2>1. m \in Media BY DEF IInv, TypeOK
  <2>2. r \in Rows /\ r[1] = Resolve(m) /\ jobs[r].status \in ActiveStatuses
    BY <2>1, ActiveRowsOf, Types DEF ActiveRows
  <2>3. r[1][1] = "RESOLVE_METADATA" /\ r[1][2] = m BY <2>1, <2>2, Types
  <2> QED BY <2>2, <2>3 DEF IInv, DataInv, ResolutionInv
<1> QED BY <1>1, Invariance, PTL

\* An item that waits for its metadata or for a search has an active job that
\* will take it on: enqueue_*, confirm_identity, _complete_discovery and _fail
\* never leave one without the other.
THEOREM PendingWork == Spec => []PendingWorkIsQueued
<1>1. IInv => PendingWorkIsQueued
  <2> SUFFICES ASSUME IInv, NEW m \in Media
               PROVE  /\ workflow[m] = "METADATA_PENDING" => ActiveRows(Resolve(m)) # {}
                      /\ workflow[m] \in ActiveSearchStatuses =>
                           \E s \in Sites : ActiveRows(Search(s, m)) # {}
    BY DEF PendingWorkIsQueued
  <2>1. workflow[m] = "METADATA_PENDING" => ActiveRows(Resolve(m)) # {}
    BY ActiveRowsOf, Types DEF IInv, DataInv, PendingInv, ActiveRows
  <2>2. ASSUME workflow[m] \in ActiveSearchStatuses
        PROVE  \E s \in Sites : ActiveRows(Search(s, m)) # {}
    <3>1. PICK r \in Rows : /\ r[1][1] = "TORRENT_SEARCH" /\ r[1][3] = m
                            /\ jobs[r].status \in ActiveStatuses
      BY <2>2 DEF IInv, DataInv, PendingInv
    <3>2. PICK s \in Sites : r[1] = Search(s, m) BY <3>1, TypeOfRow, KindOfType
    <3>3. r \in ActiveRows(Search(s, m))
      BY <3>1, <3>2, ActiveRowsOf, Types DEF ActiveRows
    <3> QED BY <3>3
  <2> QED BY <2>1, <2>2
<1> QED BY <1>1, Invariance, PTL

\* A torrent_search_runs row is PENDING or SEARCHING only while its job is
\* active: no run is left searching by a failure or a takeover.
THEOREM RunsHaveJobs == Spec => []ActiveRunHasJob
<1>1. IInv => ActiveRunHasJob BY DEF IInv, DataInv
<1> QED BY <1>1, Invariance, PTL

\* A confirmed item stays confirmed, and no late worker or operator's request
\* sends it back to discovery, resolution or identity review.
THEOREM ConfirmedKept == Spec => ConfirmedIsKept
<1>1. IInv /\ [Next]_vars =>
        [\A m \in confirmed : /\ m \in confirmed'
                              /\ workflow'[m] \notin UnconfirmedStatuses]_vars
  <2> SUFFICES ASSUME IInv, [Next]_vars, NEW m \in confirmed
               PROVE  m \in confirmed' /\ workflow'[m] \notin UnconfirmedStatuses
    OBVIOUS
  <2>1. m \in Media /\ m \in confirmed' BY InputMoves DEF IInv, TypeOK
  <2>2. SettledInv' BY NextIInv DEF IInv, DataInv
  <2> QED BY <2>1, <2>2 DEF SettledInv
<1> QED BY <1>1, Invariance, PTL DEF Spec, ConfirmedIsKept

\* The matches of an item change only to the answer for the input it has at that
\* moment: a discovery that changes the input while TMDB is asked cancels the
\* resolution, whose worker then no longer owns it.
THEOREM MatchesFit == Spec => MatchesFitInput
<1>1. IInv /\ [Next]_vars =>
        [\A m \in Media : matchedInput'[m] # matchedInput[m] =>
                            matchedInput'[m] = input[m]]_vars
  <2> SUFFICES ASSUME IInv, Next, NEW m \in Media, matchedInput'[m] # matchedInput[m]
               PROVE  matchedInput'[m] = input[m]
    BY DEF vars, mediaVars
  <2>1. ASSUME matchedInput' = matchedInput PROVE FALSE BY <2>1
  <2>2. \E w \in Workers : CompleteResolution(w)
    <3>1. CASE CreateDiscoveryRun \/ Operator
      BY <2>1, <3>1 DEF CreateDiscoveryRun, Operator, LoadMedia, AbandonRequest,
             RequestResolution, ConfirmIdentity, RequestSearch, SetWorkflow, mediaVars
    <3>2. ASSUME NEW w \in Workers, Claiming(w) \/ RenewLease(w) \/ Crash(w)
          PROVE  FALSE
      BY <2>1, <3>2 DEF Claiming, ClaimJob, RenewLease, Crash, mediaVars
    <3>3. ASSUME NEW w \in Workers, Work(w), ~CompleteResolution(w) PROVE FALSE
      <4>1. CASE CompleteSearch(w) \/ CompleteDiscovery(w)
        BY <2>1, <4>1 DEF CompleteSearch, SetWorkflow, CompleteDiscovery, StoreItems
      <4>2. CASE FailWrites(w)
        BY <2>1, <4>2 DEF FailWrites, SetWorkflow, mediaVars
      <4> QED BY <2>1, <3>3, <4>1, <4>2
              DEF Work, PrepareResolution, DiscardStaleResult, StepFails,
                  FailIsRefused, LoseLease, mediaVars
    <3>4. ASSUME NEW r \in Rows, LeaseLapses(r) PROVE FALSE
      BY <2>1, <3>4 DEF LeaseLapses, mediaVars
    <3> QED BY <3>1, <3>2, <3>3, <3>4 DEF Next
  <2>3. PICK w \in Workers : CompleteResolution(w) BY <2>2
  <2>4. /\ pc[w] = "work" /\ JobOf(w)[1] = "RESOLVE_METADATA" /\ Owns(w)
        /\ JobOf(w)[2] \in Media
    BY <2>3, WorkingRow DEF CompleteResolution, IInv
  <2>5. ~Finalized(JobOf(w)[2]) BY <2>1, <2>3 DEF CompleteResolution, mediaVars
  <2>6. /\ m = JobOf(w)[2] /\ matchedInput'[m] = queriedInput[w]
    BY <2>3, <2>4, <2>5 DEF CompleteResolution, IInv, TypeOK
  <2>7. m \notin confirmed
    BY <2>5, <2>6, FinalizedMeansConfirmed DEF IInv, DataInv
  <2> QED BY <2>4, <2>6, <2>7 DEF IInv, QueryInv
<1> QED BY <1>1, Invariance, PTL DEF Spec, MatchesFitInput
=============================================================================
