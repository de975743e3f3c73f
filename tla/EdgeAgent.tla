------------------------------- MODULE EdgeAgent -------------------------------
(***************************************************************************)
(* The unprivileged Edge agent, edge/agent/security_core.py.               *)
(*                                                                         *)
(* The agent keeps one protected state file: the replay floor, the pending *)
(* candidate, the active last-known-good candidate (LKG) and a tombstone   *)
(* of the last aborted one.  Every command takes an exclusive lock, loads  *)
(* and validates the file, and ends in at most one atomic replacement of   *)
(* it, so a command is one action; a crash falls before or after it, and   *)
(* callers may repeat, reorder or lose any command.                        *)
(***************************************************************************)
EXTENDS Manifest

VARIABLES
  agent,    \* the protected state; an absent file has highest = 0
  proven    \* candidates with immutable RUNTIME_APPLIED_HEALTHY evidence

agentVars == <<agent, proven>>

(* Bootstrap in a candidate position is the file's null.                    *)
AgentState == [highest : Nat, active : Release, pending : Release,
               aborted : Release]

NoAgentState == [highest |-> 0, active |-> Bootstrap, pending |-> Bootstrap,
                 aborted |-> Bootstrap]

AgentInit == agent = NoAgentState /\ proven = {}

-----------------------------------------------------------------------------
(* load_locked and _validate_state_value: what every command requires of    *)
(* the file before it does anything; an absent file is nothing to validate. *)
Loads ==
  agent.highest > 0 =>
    /\ Seq0(agent.active) <= agent.highest
    /\ Seq0(agent.aborted) <= agent.highest
    /\ agent.aborted # Bootstrap =>
         Seq0(agent.aborted) # Seq0(agent.active)
    /\ agent.pending # Bootstrap =>
         /\ SeqOf[agent.pending] = agent.highest
         /\ SeqOf[agent.pending] > Seq0(agent.active)
         /\ SeqOf[agent.pending] > Seq0(agent.aborted)
    /\ \E r \in {agent.active, agent.pending, agent.aborted} :
         Seq0(r) = agent.highest

(* verify_and_stage: the sequence clears the replay floor, nothing is       *)
(* pending and the lineage is the LKG's; the floor and the pending          *)
(* candidate are then written together.                                     *)
CanStage(c) ==
  /\ Loads
  /\ SeqOf[c] > agent.highest
  /\ agent.pending = Bootstrap
  /\ LineageOK(c, agent.active)

Stage(c) ==
  /\ CanStage(c)
  /\ agent' = [agent EXCEPT !.highest = SeqOf[c], !.pending = c]

(* _require_exact_pending: both identity arguments name the pending one.    *)
ExactPending(c) == Loads /\ agent.highest > 0 /\ agent.pending = c

(* _read_runtime_evidence and _validate_runtime_success_evidence: the named *)
(* immutable file is the candidate's own success evidence.                  *)
SuccessProven(c) == c \in proven

(* Mutant: commit promotes the requested candidate, pending or not.         *)
CommitAny(c) ==
  /\ agent.highest > 0 /\ SuccessProven(c)
  /\ agent' = [agent EXCEPT !.active = c, !.pending = Bootstrap]

(* commit_pending_after_health: the caller names an evidence digest and the *)
(* agent reopens that immutable file and requires the candidate's own       *)
(* success evidence.                                                        *)
CommitPending(c) ==
  /\ ExactPending(c)
  /\ SuccessProven(c)
  /\ agent' = [agent EXCEPT !.active = c, !.pending = Bootstrap]

(* Mutants: abort gives the sequence back; abort leaves no tombstone; the   *)
(* tombstone is a bare sequence.                                            *)
AbortLowersFloor(c) ==
  /\ ExactPending(c)
  /\ agent' = [agent EXCEPT !.highest = Seq0(agent.active), !.aborted = c,
                            !.pending = Bootstrap]

AbortForgets(c) ==
  /\ ExactPending(c)
  /\ agent' = [agent EXCEPT !.pending = Bootstrap]

AbortRecordsSequence(c) ==
  /\ ExactPending(c)
  /\ agent' = [agent EXCEPT !.aborted = SeqOf[c], !.pending = Bootstrap]

(* abort_pending: no evidence is asked for.                                 *)
AbortPending(c) ==
  /\ ExactPending(c)
  /\ agent' = [agent EXCEPT !.aborted = c, !.pending = Bootstrap]

(* The runtime, outside the agent, writes success evidence of a candidate.  *)
EvidenceAppears(c) == proven' = proven \cup {c} /\ UNCHANGED agent

AgentNext ==
  \E c \in Candidate :
    \/ Stage(c) /\ UNCHANGED proven
    \/ CommitPending(c) /\ UNCHANGED proven
    \/ AbortPending(c) /\ UNCHANGED proven
    \/ EvidenceAppears(c)

AgentSpec == AgentInit /\ [][AgentNext]_agentVars

-----------------------------------------------------------------------------
(* Properties.                                                              *)

(* The type invariant of the protected state.                               *)
AgentTypeOK == agent \in AgentState /\ proven \subseteq Candidate

(* StateStore._validate_state_value accepts every state the agent writes:   *)
(* each command reloads what the last one left, in any order of stage,      *)
(* commit and abort, and never finds its own file corrupt.                  *)
StateLoads == Loads

(* The replay floor never falls, and a candidate becomes pending only above *)
(* every sequence ever staged, aborted ones included.                       *)
AgentFloorMonotone ==
  [][/\ agent'.highest >= agent.highest
     /\ agent'.pending \notin {agent.pending, Bootstrap} =>
          SeqOf[agent'.pending] > agent.highest]_agentVars

(* The LKG history is one unbroken chain: each new LKG names the replaced   *)
(* one as its parent, although the lineage was checked when it was staged   *)
(* and the LKG is replaced by a later command.                              *)
LkgChain ==
  [][agent'.active # agent.active =>
       /\ Parent[agent'.active] = agent.active
       /\ Seq0(agent'.active) > Seq0(agent.active)]_agentVars

(* After a first-ever candidate is aborted no manifest can be staged any    *)
(* more: a null lineage needs sequence 1, which the floor has burned.  The  *)
(* node needs reviewed re-enrollment (agent test                            *)
(* test_first_ever_abort_requires_reviewed_reenrollment_before_retry).      *)
FirstAbortIsTerminal ==
  [][agent.highest > 0 /\ agent.active = Bootstrap
       /\ agent.pending = Bootstrap => agent' = agent]_agentVars

(* Every command moves the protected state forward: floor, LKG chain and    *)
(* the end of a first abort, as stated above.                               *)
AgentMovesForward == AgentFloorMonotone /\ LkgChain /\ FirstAbortIsTerminal
=============================================================================
