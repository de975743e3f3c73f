---------------------------- MODULE EdgeAgentProofs ----------------------------
(***************************************************************************)
(* Proofs about EdgeAgent, for every set of signed manifests.              *)
(***************************************************************************)
EXTENDS EdgeAgent, TLAPS

(* StateLoads is not inductive: what makes commit and the next stage safe   *)
(* is that an absent state file has nothing in it and that the pending      *)
(* candidate still has the lineage it was staged with.                      *)
PendingLineage ==
  agent.pending # Bootstrap => LineageOK(agent.pending, agent.active)

AbsentIsEmpty == agent.highest = 0 => agent = NoAgentState

AgentInv == AgentTypeOK /\ StateLoads /\ PendingLineage /\ AbsentIsEmpty

(* Seq0 is a natural number for every release, 0 only for the bootstrap.    *)
LEMMA Seq0Type ==
  ASSUME NEW r \in Release
  PROVE  Seq0(r) \in Nat /\ (r # Bootstrap => Seq0(r) = SeqOf[r] /\ Seq0(r) > 0)
  BY ManifestConstants DEF Seq0, Release

LEMMA InitInv == AgentInit => AgentInv
  BY ManifestConstants
  DEF AgentInit, AgentInv, AgentTypeOK, StateLoads, Loads, PendingLineage,
      AbsentIsEmpty, NoAgentState, AgentState, Release

(* verify_and_stage keeps the invariant.                                    *)
LEMMA StageInv ==
  ASSUME AgentInv, NEW c \in Candidate, Stage(c), UNCHANGED proven
  PROVE  AgentInv'
  <1> DEFINE new == [highest |-> SeqOf[c], active |-> agent.active,
                     pending |-> c, aborted |-> agent.aborted]
  <1>1. agent \in AgentState
    BY DEF AgentInv, AgentTypeOK
  <1>2. agent' = new
    BY <1>1 DEF Stage, AgentState
  <1>3. /\ c \in Release /\ c # Bootstrap
        /\ SeqOf[c] \in Nat /\ SeqOf[c] > 0
        /\ Seq0(c) = SeqOf[c]
    BY ManifestConstants DEF Release, Seq0
  <1>4. agent.highest \in Nat /\ agent.active \in Release
          /\ agent.aborted \in Release
    BY <1>1 DEF AgentState
  <1>5. SeqOf[c] > agent.highest /\ LineageOK(c, agent.active)
    BY DEF Stage, CanStage
  <1>6. Seq0(agent.active) <= agent.highest /\ Seq0(agent.aborted) <= agent.highest
    <2>1. CASE agent.highest > 0
      BY <2>1 DEF AgentInv, StateLoads, Loads
    <2>2. CASE agent.highest = 0
      BY <2>2 DEF AgentInv, AbsentIsEmpty, NoAgentState, Seq0
    <2> QED BY <1>4, <2>1, <2>2
  <1>7. agent.aborted # Bootstrap => Seq0(agent.aborted) # Seq0(agent.active)
    <2>1. CASE agent.highest > 0
      BY <2>1 DEF AgentInv, StateLoads, Loads
    <2>2. CASE agent.highest = 0
      BY <2>2 DEF AgentInv, AbsentIsEmpty, NoAgentState
    <2> QED BY <1>4, <2>1, <2>2
  <1>8. Seq0(agent.active) \in Nat /\ Seq0(agent.aborted) \in Nat
    BY <1>4, Seq0Type
  <1>9. AgentTypeOK'
    BY <1>2, <1>3, <1>4 DEF AgentInv, AgentTypeOK, AgentState
  <1>10. StateLoads'
    <2>1. /\ Seq0(agent.active) < SeqOf[c] /\ Seq0(agent.aborted) < SeqOf[c]
      BY <1>3, <1>4, <1>5, <1>6, <1>8
    <2>2. \E r \in {new.active, new.pending, new.aborted} : Seq0(r) = new.highest
      BY <1>3
    <2> QED BY <1>2, <1>3, <1>7, <1>8, <2>1, <2>2 DEF StateLoads, Loads
  <1>11. PendingLineage'
    BY <1>2, <1>5 DEF PendingLineage
  <1>12. AbsentIsEmpty'
    BY <1>2, <1>3 DEF AbsentIsEmpty
  <1> QED BY <1>9, <1>10, <1>11, <1>12 DEF AgentInv

(* What the invariant says of a candidate that is exactly pending.          *)
LEMMA PendingFacts ==
  ASSUME AgentInv, NEW c \in Candidate, ExactPending(c)
  PROVE  /\ c # Bootstrap /\ Seq0(c) = SeqOf[c] /\ SeqOf[c] \in Nat
         /\ agent.highest > 0 /\ SeqOf[c] = agent.highest
         /\ agent.active \in Release /\ agent.aborted \in Release
         /\ Seq0(agent.active) \in Nat /\ Seq0(agent.aborted) \in Nat
         /\ SeqOf[c] > Seq0(agent.active) /\ SeqOf[c] > Seq0(agent.aborted)
         /\ LineageOK(c, agent.active)
  <1>1. c # Bootstrap /\ Seq0(c) = SeqOf[c] /\ SeqOf[c] \in Nat
    BY ManifestConstants DEF Seq0
  <1>2. agent.active \in Release /\ agent.aborted \in Release
    BY DEF AgentInv, AgentTypeOK, AgentState
  <1> QED BY <1>1, <1>2, Seq0Type
          DEF ExactPending, AgentInv, StateLoads, Loads, PendingLineage

(* commit_pending_after_health keeps the invariant.                         *)
LEMMA CommitInv ==
  ASSUME AgentInv, NEW c \in Candidate, CommitPending(c), UNCHANGED proven
  PROVE  AgentInv'
  <1> DEFINE new == [highest |-> agent.highest, active |-> c,
                     pending |-> Bootstrap, aborted |-> agent.aborted]
  <1>1. agent \in AgentState
    BY DEF AgentInv, AgentTypeOK
  <1>2. agent' = new
    BY <1>1 DEF CommitPending, AgentState
  <1>3. ExactPending(c)
    BY DEF CommitPending
  <1>4. AgentTypeOK'
    BY <1>1, <1>2 DEF AgentInv, AgentTypeOK, AgentState, Release
  <1>5. StateLoads'
    <2>1. \E r \in {new.active, new.pending, new.aborted} : Seq0(r) = new.highest
      BY <1>3, PendingFacts
    <2> QED BY <1>2, <1>3, <2>1, PendingFacts DEF StateLoads, Loads
  <1>6. PendingLineage' /\ AbsentIsEmpty'
    BY <1>2, <1>3, PendingFacts DEF PendingLineage, AbsentIsEmpty
  <1> QED BY <1>4, <1>5, <1>6 DEF AgentInv

(* abort_pending keeps the invariant.                                       *)
LEMMA AbortInv ==
  ASSUME AgentInv, NEW c \in Candidate, AbortPending(c), UNCHANGED proven
  PROVE  AgentInv'
  <1> DEFINE new == [highest |-> agent.highest, active |-> agent.active,
                     pending |-> Bootstrap, aborted |-> c]
  <1>1. agent \in AgentState
    BY DEF AgentInv, AgentTypeOK
  <1>2. agent' = new
    BY <1>1 DEF AbortPending, AgentState
  <1>3. ExactPending(c)
    BY DEF AbortPending
  <1>4. AgentTypeOK'
    BY <1>1, <1>2 DEF AgentInv, AgentTypeOK, AgentState, Release
  <1>5. StateLoads'
    <2>1. \E r \in {new.active, new.pending, new.aborted} : Seq0(r) = new.highest
      BY <1>3, PendingFacts
    <2> QED BY <1>2, <1>3, <2>1, PendingFacts DEF StateLoads, Loads
  <1>6. PendingLineage' /\ AbsentIsEmpty'
    BY <1>2, <1>3, PendingFacts DEF PendingLineage, AbsentIsEmpty
  <1> QED BY <1>4, <1>5, <1>6 DEF AgentInv

(* Every step of the agent keeps the invariant.                             *)
LEMMA NextInv ==
  ASSUME AgentInv, [AgentNext]_agentVars
  PROVE  AgentInv'
  <1>1. CASE UNCHANGED agentVars
    BY <1>1 DEF agentVars, AgentInv, AgentTypeOK, StateLoads, Loads, PendingLineage,
                AbsentIsEmpty
  <1>2. ASSUME NEW c \in Candidate, EvidenceAppears(c)
        PROVE  AgentInv'
    BY <1>2 DEF EvidenceAppears, AgentInv, AgentTypeOK, StateLoads, Loads,
                PendingLineage, AbsentIsEmpty
  <1> QED BY <1>1, <1>2, StageInv, CommitInv, AbortInv DEF AgentNext

(* The agent's protected state is well typed whatever order of commands,    *)
(* repeated, lost or interrupted, its callers issue.                        *)
THEOREM AgentTypeCorrect == AgentSpec => []AgentTypeOK
  <1>1. AgentInv => AgentTypeOK
    BY DEF AgentInv
  <1> QED BY <1>1, InitInv, NextInv, PTL DEF AgentSpec

(* Every state the agent writes passes StateStore's own validation.         *)
THEOREM AgentStateLoads == AgentSpec => []StateLoads
  <1>1. AgentInv => StateLoads
    BY DEF AgentInv
  <1> QED BY <1>1, InitInv, NextInv, PTL DEF AgentSpec

(* The agent's replay floor never falls, and only a sequence above it is    *)
(* ever staged.                                                             *)
THEOREM AgentFloorNeverFalls == AgentSpec => AgentFloorMonotone
  <1> DEFINE Goes == /\ agent'.highest >= agent.highest
                     /\ agent'.pending \notin {agent.pending, Bootstrap} =>
                          SeqOf[agent'.pending] > agent.highest
  <1>1. AgentInv /\ [AgentNext]_agentVars => [Goes]_agentVars
    <2> SUFFICES ASSUME AgentInv, AgentNext PROVE Goes
      OBVIOUS
    <2>1. agent \in AgentState /\ agent.highest \in Nat
      BY DEF AgentInv, AgentTypeOK, AgentState
    <2>2. ASSUME NEW c \in Candidate, Stage(c) PROVE Goes
      BY <2>1, <2>2, ManifestConstants DEF Stage, CanStage, AgentState
    <2>3. ASSUME NEW c \in Candidate, CommitPending(c) PROVE Goes
      BY <2>1, <2>3 DEF CommitPending, AgentState
    <2>4. ASSUME NEW c \in Candidate, AbortPending(c) PROVE Goes
      BY <2>1, <2>4 DEF AbortPending, AgentState
    <2>5. ASSUME NEW c \in Candidate, EvidenceAppears(c) PROVE Goes
      BY <2>1, <2>5 DEF EvidenceAppears
    <2> QED BY <2>2, <2>3, <2>4, <2>5 DEF AgentNext
  <1> QED BY <1>1, InitInv, NextInv, PTL DEF AgentSpec, AgentFloorMonotone

(* The last-known-good history is one unbroken chain of parents.            *)
THEOREM LkgIsChained == AgentSpec => LkgChain
  <1> DEFINE Goes == agent'.active # agent.active =>
                       /\ Parent[agent'.active] = agent.active
                       /\ Seq0(agent'.active) > Seq0(agent.active)
  <1>1. AgentInv /\ [AgentNext]_agentVars => [Goes]_agentVars
    <2> SUFFICES ASSUME AgentInv, AgentNext PROVE Goes
      OBVIOUS
    <2>1. agent \in AgentState
      BY DEF AgentInv, AgentTypeOK
    <2>2. ASSUME NEW c \in Candidate, Stage(c) PROVE Goes
      BY <2>1, <2>2 DEF Stage, AgentState
    <2>3. ASSUME NEW c \in Candidate, CommitPending(c) PROVE Goes
      <3>1. agent'.active = c /\ ExactPending(c)
        BY <2>1, <2>3 DEF CommitPending, AgentState
      <3> QED BY <3>1, PendingFacts DEF LineageOK
    <2>4. ASSUME NEW c \in Candidate, AbortPending(c) PROVE Goes
      BY <2>1, <2>4 DEF AbortPending, AgentState
    <2>5. ASSUME NEW c \in Candidate, EvidenceAppears(c) PROVE Goes
      BY <2>5 DEF EvidenceAppears
    <2> QED BY <2>2, <2>3, <2>4, <2>5 DEF AgentNext
  <1> QED BY <1>1, InitInv, NextInv, PTL DEF AgentSpec, LkgChain

(* After the abort of a first-ever candidate the agent can take no further  *)
(* candidate.                                                               *)
THEOREM FirstAbortEndsEnrollment == AgentSpec => FirstAbortIsTerminal
  <1> DEFINE Goes == agent.highest > 0 /\ agent.active = Bootstrap
                       /\ agent.pending = Bootstrap => agent' = agent
  <1>1. AgentInv /\ [AgentNext]_agentVars => [Goes]_agentVars
    <2> SUFFICES ASSUME AgentInv, AgentNext, agent.highest > 0,
                        agent.active = Bootstrap, agent.pending = Bootstrap
                 PROVE  agent' = agent
      OBVIOUS
    <2>1. agent.highest \in Nat
      BY DEF AgentInv, AgentTypeOK, AgentState
    <2>2. ASSUME NEW c \in Candidate, Stage(c) PROVE FALSE
      <3>1. SeqOf[c] = 1 /\ SeqOf[c] > agent.highest
        BY <2>2 DEF Stage, CanStage, LineageOK
      <3> QED BY <2>1, <3>1
    <2>3. ASSUME NEW c \in Candidate, ExactPending(c) PROVE FALSE
      BY <2>3, ManifestConstants DEF ExactPending
    <2> QED BY <2>2, <2>3
            DEF AgentNext, CommitPending, AbortPending, EvidenceAppears
  <1> QED BY <1>1, InitInv, NextInv, PTL DEF AgentSpec, FirstAbortIsTerminal

(* Every command moves the protected state forward.                         *)
THEOREM AgentAlwaysMovesForward == AgentSpec => AgentMovesForward
  BY AgentFloorNeverFalls, LkgIsChained, FirstAbortEndsEnrollment DEF AgentMovesForward
=============================================================================
