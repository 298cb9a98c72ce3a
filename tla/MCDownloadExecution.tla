------------------------- MODULE MCDownloadExecution -------------------------
(* Small instances of DownloadExecution for TLC. *)
EXTENDS DownloadExecution, TLC

CONSTANTS e1, e2, w1, w2, t1

OneExecution  == {e1}
TwoExecutions == {e1, e2}
OneWorker     == {w1}
TwoWorkers    == {w1, w2}
OneTorrent    == {t1}

\* Both plans select the same torrent: the executions meet in qBittorrent.
SameTorrent == [e \in Executions |-> t1]

WorkerSymmetry == Permutations(Workers)
FullSymmetry   == Permutations(Workers) \cup Permutations(Executions)
=============================================================================
