---------------------------- MODULE MCControlPlane ----------------------------
(***************************************************************************)
(* Small instances of ExecutionIntents, RuntimeConfiguration,              *)
(* CandidateEvidence and MediaImport for TLC.  The four share no state, so *)
(* they are not interleaved: one of them moves, and the others stay as     *)
(* they are.                                                               *)
(***************************************************************************)
EXTENDS ExecutionIntents, RuntimeConfiguration, MCCandidateEvidence, MCMediaImport

CONSTANTS a1, a2, k1, k2, t1, t2, c1, c2, p0, p1, h1, u0, u1

VARIABLE part  \* the one that moves

\* The parts that stand still: without settings, title or target, so that names
\* that are exchanged leave them as they are.
IntentsStandStill ==
  /\ stageOpen = TRUE /\ qbTarget = NoRequest /\ intents = <<>> /\ executions = {} /\ answers = {}
  /\ approvals = Nothing /\ confirming = Nothing
EvidenceStandsStill ==
  /\ stage = "found" /\ site = Nothing /\ found = Nothing /\ media = Nothing
  /\ requester = "NOBODY" /\ launcher = "NOBODY" /\ preflight = Nothing /\ plan = Nothing
  /\ settings = Nothing /\ executor = Nothing /\ listing = Nothing /\ torrent = Nothing
  /\ changes = 0
ImportsStandStill ==
  /\ MonitorInit /\ qb = [j \in Jobs |-> Absent]
  /\ requests = [r \in Requests |-> NoImport] /\ config = Nothing /\ title = Nothing

ControlInit ==
  /\ part \in {"intents", "configuration", "evidence", "imports"}
  /\ IF part = "intents" THEN IntentsInit ELSE IntentsStandStill
  /\ IF part = "configuration"
     THEN ConfigInit /\ environment \in {{}, {"nextfind", "qbittorrent", "avistaz"}}
     ELSE environment = {} /\ file = EmptyFile(0)
  \* One title, hash and id may be named first: nothing tells them apart.
  /\ IF part = "evidence"
     THEN /\ EvidenceInit
          /\ found.title = r1 /\ {found.hash} \subseteq {x1, Unknown}
          /\ {media} \subseteq {d1, Unknown}
     ELSE EvidenceStandsStill
  /\ IF part = "imports" THEN Init ELSE ImportsStandStill

IntentsMove == /\ part = "intents" /\ IntentsNext
               /\ UNCHANGED <<configVars, evidenceVars, vars, part>>
ConfigMoves == /\ part = "configuration" /\ ConfigNext
               /\ UNCHANGED <<intentVars, evidenceVars, vars, part>>
EvidenceMoves == /\ part = "evidence" /\ EvidenceNext
                 /\ UNCHANGED <<intentVars, configVars, vars, part>>
\* Of what is shown of the one download, AddJob looks at any value to begin
\* with, then only AskQb does, and no property: a change may as well come right
\* before.
ImportsMove == /\ part = "imports" /\ Next
               /\ qb' /= qb => todo /= <<>> /\ ~asked
               /\ UNCHANGED <<intentVars, configVars, evidenceVars, part>>

ControlNext == IntentsMove \/ ConfigMoves \/ EvidenceMoves \/ ImportsMove
ControlSpec ==
  ControlInit /\ [][ControlNext]_<<intentVars, configVars, evidenceVars, vars, part>>

\* Exchanges the first two and the last two: elements of two parts that never
\* move together may be exchanged together.
Exchange(x, y, u, v) ==
  [z \in {x, y, u, v} |-> IF z = x THEN y ELSE IF z = y THEN x
                          ELSE IF z = u THEN v ELSE u]
ControlSymmetry == {Exchange(a1, a2, i1, i2), Exchange(k1, k2, g1, g2),
                    Exchange(c1, c2, n1, n2)} \cup Permutations(Targets)
===============================================================================
