---------------------------- MODULE EdgeActivation ----------------------------
(***************************************************************************)
(* One Edge node under the controller's activation playbooks:              *)
(* deploy/playbooks/activate-edge.yml stages a candidate with the agent,   *)
(* activates it with the runtime and then commits or aborts it with the    *)
(* agent; deploy/playbooks/recover-edge-activation.yml reconciles whatever *)
(* an interrupted activation left behind.  A play can die between any two  *)
(* tasks while the command it started on the node runs on; the node can    *)
(* lose a process or its power at any step of the runtime.                 *)
(***************************************************************************)
EXTENDS EdgeRuntime

(* What may disturb an activation: the helper process is killed, the node   *)
(* loses power, a start job outlives its caller, the play dies, an operator *)
(* runs `runtime rollback`.                                                 *)
CONSTANT Disturbances

ASSUME DisturbancesKnown ==
  Disturbances \subseteq {"kill", "power", "queue", "play", "rollback"}

VARIABLES
  agent,    \* the agent's protected state
  play,     \* the play the controller runs against this node
  debris    \* candidates whose workspace or inbox exists on the node

A == INSTANCE EdgeAgent WITH
       proven <- {c \in Candidate : SuccessEvidence(c) \in evidence}

allVars == <<vars, agent, play, debris>>

Outcomes == {"COMMIT", "ABORT", "PRE_STAGE_CLEANUP", "ALREADY_COMMITTED",
             "ALREADY_ABORTED", "INVALID"}

NoPlay == [kind |-> "none", cand |-> Nil, step |-> "none",
           outcome |-> "INVALID", recovery |-> "NO_RECOVERY"]

PlayRecords ==
  [kind : {"none", "activate", "recover"}, cand : Candidate \cup {Nil},
   step : {"none", "stage", "runtime", "await", "inspect", "reconcile", "verify"},
   outcome : Outcomes,
   recovery : {"NO_RECOVERY", "COMMITTED_FINALIZED", "RECOVERED_TO_PRIOR"}]

ActivationInit ==
  /\ Init
  /\ agent = A!NoAgentState
  /\ play = NoPlay
  /\ debris = {}

Idle == play.kind = "none"
In(kind, step) == play.kind = kind /\ play.step = step
PlayFails == play' = NoPlay

-----------------------------------------------------------------------------
(* activate-edge.yml.                                                       *)

(* The play insists on a brand-new workspace and inbox and creates them.    *)
StartActivation(c) ==
  /\ Idle /\ c \notin debris
  /\ play' = [NoPlay EXCEPT !.kind = "activate", !.cand = c, !.step = "stage"]
  /\ debris' = debris \cup {c}
  /\ UNCHANGED <<vars, agent>>

StageCandidate ==
  /\ In("activate", "stage")
  /\ IF A!CanStage(play.cand)
     THEN /\ A!Stage(play.cand)
          /\ play' = [play EXCEPT !.step = "runtime"]
     ELSE PlayFails /\ UNCHANGED agent
  /\ UNCHANGED <<vars, debris>>

(* Compilation and the root handoff, then the runtime's activate.           *)
InvokeRuntime ==
  /\ In("activate", "runtime")
  /\ Activate(play.cand)
  /\ play' = [play EXCEPT !.step = "await"]
  /\ UNCHANGED <<agent, debris>>

(* Mutants: everything but a healthy apply is taken for an abort; the       *)
(* runtime's status is kept as the outcome.                                 *)
AbortUnlessHealthy(r) ==
  [play EXCEPT !.step = "reconcile",
     !.outcome = IF r.status = "APPLIED_HEALTHY" THEN "COMMIT" ELSE "ABORT"]

ClassifyByStatus(r) ==
  IF r.release # play.cand THEN NoPlay
  ELSE [play EXCEPT !.step = "reconcile", !.outcome = r.status]

(* Only an exact healthy apply or an exact safe abort of this candidate is  *)
(* acted on; anything else preserves the pending state.                     *)
ClassifyActivation(r) ==
  IF r.release # play.cand THEN NoPlay
  ELSE IF r.status = "APPLIED_HEALTHY"
       THEN [play EXCEPT !.step = "reconcile", !.outcome = "COMMIT"]
  ELSE IF r.status \in {"PREFLIGHT_FAILED", "ROLLED_BACK"}
       THEN [play EXCEPT !.step = "reconcile", !.outcome = "ABORT"]
  ELSE NoPlay

ReconcileActivation ==
  /\ In("activate", "reconcile")
  /\ \/ play.outcome = "COMMIT" /\ A!CommitPending(play.cand)
     \/ play.outcome = "ABORT" /\ A!AbortPending(play.cand)
  /\ play' = NoPlay
  /\ UNCHANGED <<vars, debris>>

-----------------------------------------------------------------------------
(* recover-edge-activation.yml.                                             *)

StartRecovery(c) ==
  /\ Idle
  /\ play' = [NoPlay EXCEPT !.kind = "recover", !.cand = c, !.step = "runtime"]
  /\ UNCHANGED <<vars, agent, debris>>

InvokeRecover ==
  /\ In("recover", "runtime")
  /\ Recover
  /\ play' = [play EXCEPT !.step = "await"]
  /\ UNCHANGED <<agent, debris>>

ClassifyRecovery(r) ==
  IF \/ r.status = "NO_RECOVERY"
     \/ r.status \in {"COMMITTED_FINALIZED", "RECOVERED_TO_PRIOR"}
        /\ r.release = play.cand
  THEN [play EXCEPT !.step = "inspect", !.recovery = r.status]
  ELSE NoPlay

(* The node side of a play: the command it started ends.                    *)
Captured ==
  IF play.step # "await" \/ proc'.pc # "idle" THEN play
  ELSE IF play.kind = "activate" THEN ClassifyActivation(result')
  ELSE ClassifyRecovery(result')

RuntimeMatchesLkg == state.active = agent.active
NoRecovery == play.recovery = "NO_RECOVERY"
Target == SeqOf[play.cand]

(* Mutant: the runtime must have burned the candidate's sequence.           *)
RuntimeReachedTarget ==
  /\ journal = Nil
  /\ state.highest = Target

RuntimeStatusOK ==
  /\ journal = Nil
  /\ Seq0(state.active) <= state.highest
  /\ state.highest <= Target
  /\ NoRecovery \/ state.highest = Target

AgentStatusOK ==
  IF agent.highest = 0
  THEN NoRecovery /\ state.highest = 0 /\ state.active = Bootstrap
  ELSE /\ agent.highest <= Target
       /\ agent.pending # Bootstrap =>
            agent.highest = Target /\ agent.pending = play.cand

(* Mutant: an agent without a state file is not thought of.                 *)
PreStageAfterFirst ==
  /\ NoRecovery
  /\ state.highest < Target
  /\ RuntimeMatchesLkg
  /\ agent.pending = Bootstrap
  /\ agent.highest < Target
  /\ 0 < agent.highest
  /\ state.highest = agent.highest

PreStageDebris ==
  /\ NoRecovery
  /\ state.highest < Target
  /\ RuntimeMatchesLkg
  /\ \/ agent.highest = 0
     \/ /\ agent.pending = Bootstrap
        /\ agent.highest < Target
        /\ state.highest = agent.highest

Outcome ==
  IF PreStageDebris THEN "PRE_STAGE_CLEANUP"
  ELSE IF agent.pending = play.cand /\ state.active = play.cand THEN "COMMIT"
  ELSE IF agent.pending = play.cand /\ RuntimeMatchesLkg THEN "ABORT"
  ELSE IF /\ agent.pending = Bootstrap /\ agent.active = play.cand
          /\ state.active = play.cand
       THEN "ALREADY_COMMITTED"
  ELSE IF /\ agent.highest = Target /\ agent.pending = Bootstrap
          /\ agent.aborted = play.cand /\ agent.active # play.cand
          /\ RuntimeMatchesLkg
       THEN "ALREADY_ABORTED"
  ELSE "INVALID"

AgreesWithRecovery(outcome) ==
  /\ play.recovery = "COMMITTED_FINALIZED" =>
       outcome \in {"COMMIT", "ALREADY_COMMITTED"}
  /\ play.recovery = "RECOVERED_TO_PRIOR" =>
       outcome \in {"ABORT", "ALREADY_ABORTED"}

(* Runtime status and health and agent status are read by separate tasks;   *)
(* nothing else changes them while this play holds the node, except a       *)
(* manual rollback, so they are one action here.                            *)
Inspect ==
  /\ In("recover", "inspect") /\ At("idle")
  /\ IF RuntimeStatusOK /\ BaselineHealthy(state.active) /\ AgentStatusOK
     THEN play' = [play EXCEPT !.step = "reconcile",
                     !.outcome = IF AgreesWithRecovery(Outcome) THEN Outcome
                                 ELSE "INVALID"]
     ELSE PlayFails
  /\ UNCHANGED <<vars, agent, debris>>

(* The commit names the protected state's last evidence digest.             *)
CommitFromStatus ==
  /\ play.outcome = "COMMIT"
  /\ state.last = SuccessEvidence(play.cand)
  /\ A!CommitPending(play.cand)

ReconcileRecovery ==
  /\ In("recover", "reconcile")
  /\ \/ CommitFromStatus
     \/ play.outcome = "ABORT" /\ A!AbortPending(play.cand)
     \/ play.outcome \in {"PRE_STAGE_CLEANUP", "ALREADY_COMMITTED",
                          "ALREADY_ABORTED"} /\ UNCHANGED agent
  /\ play' = [play EXCEPT !.step = "verify"]
  /\ UNCHANGED <<vars, debris>>

(* The agent refuses the transition, or the outcome was INVALID.            *)
ReconcileFails ==
  /\ play.step = "reconcile"
  /\ \/ play.outcome = "INVALID"
     \/ play.outcome \in {"COMMIT", "ABORT"} /\ ~A!ExactPending(play.cand)
     \/ /\ play.kind = "recover" /\ play.outcome = "COMMIT"
        /\ state.last # SuccessEvidence(play.cand)
  /\ PlayFails
  /\ UNCHANGED <<vars, agent, debris>>

Terminal ==
  /\ agent.pending = Bootstrap
  /\ play.outcome # "PRE_STAGE_CLEANUP" => agent.highest = Target
  /\ BaselineHealthy(state.active)
  /\ RuntimeMatchesLkg
  /\ (play.outcome \in {"COMMIT", "ALREADY_COMMITTED"}) =>
       agent.active = play.cand
  /\ (play.outcome \in {"ABORT", "ALREADY_ABORTED"}) =>
       agent.aborted = play.cand

(* Postconditions are reread before the candidate's paths are removed.      *)
VerifyAndClean ==
  /\ In("recover", "verify") /\ At("idle")
  /\ debris' = IF Terminal /\ journal = Nil THEN debris \ {play.cand} ELSE debris
  /\ play' = NoPlay
  /\ UNCHANGED <<vars, agent>>

-----------------------------------------------------------------------------
(* The node and the operator.                                               *)

(* A step of the node, whose command the play may be waiting for.           *)
OnNode(step) ==
  /\ step
  /\ play' = Captured
  /\ UNCHANGED <<agent, debris>>

HelperStep == OnNode(Steps)
BootUnit == OnNode(BootRecover)
StartJob(s) == OnNode(RunStartJob(s))

NodeStep ==
  \/ HelperStep \/ BootUnit
  \/ "kill" \in Disturbances /\ OnNode(Crash)
  \/ \E s \in Services :
       \/ StartJob(s)
       \/ "queue" \in Disturbances /\ OnNode(QueueStart(s))

(* Power loss makes the host unreachable, which ends the play.              *)
NodeReboots ==
  /\ "power" \in Disturbances
  /\ Reboot
  /\ play' = NoPlay
  /\ UNCHANGED <<agent, debris>>

NodeStabilises == Stabilise /\ UNCHANGED <<agent, play, debris>>

(* SSH or the controller is lost; a command already started runs on.        *)
PlayDies ==
  /\ "play" \in Disturbances
  /\ ~Idle /\ ~calm
  /\ play' = NoPlay
  /\ UNCHANGED <<vars, agent, debris>>

OperatorRollback(c) ==
  /\ "rollback" \in Disturbances
  /\ Rollback(c)
  /\ UNCHANGED <<agent, play, debris>>

PlayStep ==
  \/ StageCandidate \/ InvokeRuntime \/ ReconcileActivation \/ InvokeRecover
  \/ Inspect \/ ReconcileRecovery \/ ReconcileFails \/ VerifyAndClean

ActivationNext ==
  \/ \E c \in Candidate : \/ StartActivation(c)
                          \/ StartRecovery(c)
                          \/ OperatorRollback(c)
  \/ PlayStep \/ NodeStep \/ NodeReboots \/ PlayDies

ActivationSpec == ActivationInit /\ [][ActivationNext]_allVars

(* Commands and plays that started go on, and a boot unit that waits for the *)
(* blocking file lock gets it between two commands.  An operator who       *)
(* finds a candidate pending runs the recovery playbook for it, again when  *)
(* it fails, though other plays may come first.                             *)
RecoverPending == \E c \in Candidate : agent.pending = c /\ StartRecovery(c)

ActivationFairness ==
  /\ WF_allVars(HelperStep)
  /\ SF_allVars(BootUnit)
  /\ \A s \in Services : WF_allVars(StartJob(s))
  /\ WF_allVars(PlayStep)
  /\ SF_allVars(RecoverPending)

FairActivationSpec ==
  ActivationInit /\ [][ActivationNext \/ NodeStabilises]_allVars
    /\ ActivationFairness

-----------------------------------------------------------------------------
(* Properties.                                                              *)

ActivationTypeOK ==
  /\ TypeOK
  /\ agent \in A!AgentState
  /\ play \in PlayRecords
  /\ debris \subseteq Candidate

(* Through every crash, power loss and dead play, the release the runtime   *)
(* protects is the agent's LKG, or the agent's pending candidate while one  *)
(* is pending: no candidate is committed that recovery rolled back (its     *)
(* success evidence may still be on disk), none is aborted while it is      *)
(* live, and the runtime's floor never passes the agent's.                  *)
AgentAndRuntimeAgree ==
  /\ state.active \in {agent.active} \cup ({agent.pending} \ {Bootstrap})
  /\ state.highest <= agent.highest

(* The recovery playbook finds a legal outcome wherever an activation of    *)
(* its candidate stopped.  The two exceptions are candidates that never     *)
(* were staged: one that follows a candidate aborted before it reached the  *)
(* runtime, which leaves the two replay floors apart, and one whose         *)
(* sequence another candidate has used up.                                  *)
RecoveryOutcomeLegal ==
  In("recover", "reconcile") /\ play.outcome = "INVALID" =>
    \/ agent.highest < Target /\ state.highest < agent.highest
    \/ \E r \in {agent.active, agent.aborted} \ {play.cand} : Seq0(r) = Target

(* A recovery commits only what its commit can prove: whenever the outcome  *)
(* is COMMIT the digest it takes from runtime status names the candidate's  *)
(* success evidence.                                                        *)
CommitNamesOriginalEvidence ==
  In("recover", "reconcile") /\ play.outcome = "COMMIT" =>
    state.last = SuccessEvidence(play.cand)

(* An apply transaction in progress is always the agent's pending candidate *)
(* replacing the agent's LKG, even when operators roll the runtime back by  *)
(* hand between, or during, plays: a node whose runtime left the agent's    *)
(* LKG cannot start another apply.                                          *)
ApplyMatchesAgent ==
  journal # Nil /\ journal.operation = "APPLY" /\ ~Committed =>
    journal.prior = agent.active /\ journal.target = agent.pending

(* A node without a way back: nothing is running or queued and a service is *)
(* down.                                                                    *)
DataPlaneDown ==
  /\ At("idle") /\ ~boot /\ jobs = {}
  /\ \E s \in Services : svc[s] = Down

(* Once failures stop, a candidate left pending is committed or aborted,    *)
(* unless the data plane stayed down, which the playbook's health gate      *)
(* refuses.                                                                 *)
PendingIsReconciled ==
  (calm /\ agent.pending # Bootstrap) ~>
    (agent.pending = Bootstrap \/ DataPlaneDown)

(* The recovery play decides on true grounds: it finds a legal outcome, and *)
(* the outcome COMMIT names the evidence of the candidate it commits.       *)
RecoveryIsTrue == RecoveryOutcomeLegal /\ CommitNamesOriginalEvidence
=============================================================================
