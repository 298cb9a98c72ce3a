--------------------------- MODULE MCApprovalReview ---------------------------
(* Small instances of ApprovalReview for TLC. *)
EXTENDS ApprovalReview

CONSTANTS a1, a2

\* Two requests of one candidate.
SameCandidate == [a \in Approvals |-> 1]
OneCandidate  == {1}

Automated == [selection |-> "AUTO_IF_ELIGIBLE", approval |-> "AUTO_IF_ELIGIBLE",
              execution |-> "AUTO_IF_ELIGIBLE"]
Stopped   == [selection |-> "MANUAL", approval |-> "DISABLED", execution |-> "DISABLED"]
\* A result that passes, one an operator may accept, one nobody may.
SomeVerdicts == {"PASS", "WARNING", "BLOCKED"}
TwoRuns == [a \in Approvals |-> IF a = a1 THEN 2 ELSE 0]
JobsOfFirst == [a \in Approvals |-> IF a = a1 THEN 2 ELSE 0]
SomePolicies == {Automated, Stopped}
==============================================================================
