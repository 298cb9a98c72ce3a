---------------------------- MODULE MCLocalRecovery ----------------------------
(***************************************************************************)
(* Small instances of LocalSetup and DownloadMonitor for TLC.  The two     *)
(* share no state, so they are not interleaved: one of them moves, and the *)
(* other stays as it is.                                                   *)
(***************************************************************************)
EXTENDS LocalSetup, DownloadMonitor

VARIABLE part  \* the one that moves

OneView == {[state |-> "downloading", full |-> FALSE, stamped |-> FALSE, fits |-> TRUE]}

RecoveryInit ==
  /\ part \in {"setup", "monitor"}
  /\ SetupInit /\ MonitorInit
  \* A first installation, whose .env may be there already.
  /\ \A f \in Files : fs.live[f] = Gone \/ (part = "setup" /\ f = Env)
  /\ part /= "monitor" => qb = [j \in Jobs |-> Absent]

SetupMoves == part = "setup" /\ SetupNext /\ UNCHANGED <<monitoringVars, part>>
MonitorMoves == part = "monitor" /\ MonitorNext /\ UNCHANGED <<setupVars, part>>

RecoveryNext == SetupMoves \/ MonitorMoves

\* SetupFairness, of a wizard that may move; a monitor without rows has nothing
\* to do anyway.
RecoverySpec == /\ RecoveryInit
                /\ [][RecoveryNext]_<<setupVars, monitoringVars, part>>
                /\ WF_setupVars(part = "setup" /\ Wizard)
                /\ MonitorFairness
================================================================================
