-------------------------- MODULE SubmissionOutcome --------------------------
(***************************************************************************)
(* What the download execution pipeline promises an operator, without      *)
(* workers, leases, retries or approvals: each execution request is        *)
(* written to qBittorrent at most once, a request reported as closed was   *)
(* never written, and a request whose outcome is uncertain stays so until  *)
(* a human reconciles it outside the program.                              *)
(***************************************************************************)

EXTENDS Naturals

CONSTANT Executions

VARIABLES
  phase,      \* what the database says about each request
  writes      \* torrents/add requests that have left for qBittorrent

Phases == {"absent", "queued", "reserved", "confirmed", "uncertain", "closed"}

Init == /\ phase  = [e \in Executions |-> "absent"]
        /\ writes = [e \in Executions |-> 0]

(***************************************************************************)
(* The moves of one request, from its phase and its writes p, w to q, v.   *)
(* The write may still leave while the database already says "uncertain":  *)
(* recovery does not wait for a slow worker.                               *)
(***************************************************************************)
Queue(p, w, q, v)   == p = "absent"   /\ q = "queued"    /\ v = w
Reserve(p, w, q, v) == p = "queued"   /\ q = "reserved"  /\ v = w
Write(p, w, q, v)   == p \in {"reserved", "uncertain"} /\ w = 0 /\ q = p /\ v = 1
Confirm(p, w, q, v) == p = "reserved" /\ q = "confirmed" /\ v = w
Suspend(p, w, q, v) == p = "reserved" /\ q = "uncertain" /\ v = w
Close(p, w, q, v)   == p \in {"queued", "reserved"} /\ w = 0 /\ q = "closed" /\ v = 0

Move(p, w, q, v) ==
  \/ Queue(p, w, q, v)   \/ Reserve(p, w, q, v) \/ Write(p, w, q, v)
  \/ Confirm(p, w, q, v) \/ Suspend(p, w, q, v) \/ Close(p, w, q, v)

\* Requests are independent, and one transaction of the code (the recovery of
\* stale leases) moves several of them at once.
Next ==
  /\ phase'  \in [Executions -> Phases]
  /\ writes' \in [Executions -> Nat]
  /\ \A e \in Executions :
       \/ phase'[e] = phase[e] /\ writes'[e] = writes[e]
       \/ Move(phase[e], writes[e], phase'[e], writes'[e])

Spec == Init /\ [][Next]_<<phase, writes>>
=============================================================================
