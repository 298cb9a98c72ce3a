--------------------------- MODULE MCMediaWorkflow ---------------------------
(* Small instances of MediaWorkflow for TLC. *)
EXTENDS MediaWorkflow, TLC

CONSTANTS m1, s1, s2, w1, w2, i1, i2

OneMedia   == {m1}
OneSite    == {s1}
TwoSites   == {s1, s2}
OneWorker  == {w1}
TwoWorkers == {w1, w2}
OneInput   == {i1}
TwoInputs  == {i1, i2}

RowBounds(discover, resolve, search) ==
  [DISCOVER_NEXTFIND |-> discover, RESOLVE_METADATA |-> resolve,
   TORRENT_SEARCH |-> search]

Rows122 == RowBounds(1, 2, 2)
Rows332 == RowBounds(3, 3, 2)
Rows111 == RowBounds(1, 1, 1)
Rows112 == RowBounds(1, 1, 2)

WorkflowSymmetry == Permutations(Workers) \cup Permutations(Sites)
                    \cup Permutations(Inputs)
=============================================================================
