-------------------------- MODULE MCCandidateEvidence --------------------------
(* Small instances of CandidateEvidence for TLC. *)
EXTENDS CandidateEvidence, TLC

CONSTANTS r1, r2, x1, x2, d1, d2

\* Settings that let a small download pass, or any, and one with a missing path.
TheSettings ==
  {[limit |-> 1, category |-> TRUE, rules |-> TRUE, path |-> "allowed"],
   [limit |-> 2, category |-> TRUE, rules |-> TRUE, path |-> "allowed"]}
     \cup {[limit |-> Unknown, category |-> FALSE, rules |-> FALSE, path |-> p] :
             p \in {"outside", "missing"}}

\* All is well in qBittorrent, or one of the answers is not good.
WellAnswered == [version |-> "permitted", webApi |-> "read", hash |-> "clear",
                 recent |-> "read", seeding |-> "active", categories |-> "exists"]
TheAnswers == {a \in Answers :
  Cardinality({f \in DOMAIN a : a[f] /= WellAnswered[f]}) <= 1}

EvidenceSymmetry == Permutations(Titles) \cup Permutations(Hashes) \cup Permutations(Ids)
================================================================================
