-------------------------- MODULE EdgeActivationProofs --------------------------
(***************************************************************************)
(* Proofs about EdgeActivation, for every set of signed manifests: that    *)
(* the composition implements the agent's and the runtime's own            *)
(* specifications, and with their invariants that plays, reboots and dead  *)
(* processes never part the agent from the runtime.                        *)
(***************************************************************************)
EXTENDS EdgeActivation, EdgeRuntimeProofs

(* The agent's protected state, with the evidence files as what is proven.  *)
P == INSTANCE EdgeAgentProofs WITH
       proven <- {c \in Candidate : SuccessEvidence(c) \in evidence}

(* A play is in a step of its kind and works on a candidate.                *)
PlayOK ==
  /\ play \in PlayRecords
  /\ debris \subseteq Candidate
  /\ play.kind = "none" <=> play.step = "none"
  /\ play.kind # "none" => play.cand \in Candidate
  /\ play.step = "stage" => play.kind = "activate"
  /\ play.step \in {"inspect", "verify"} => play.kind = "recover"

(* A step of a play keeps its record well formed.                           *)
LEMMA PlayStepsTyped ==
  ASSUME PlayOK, PlayStep
  PROVE  PlayOK'
  <1> USE DEF PlayOK, PlayRecords, In, Outcomes, NoPlay, PlayFails
  <1>1. CASE StageCandidate
    BY <1>1 DEF StageCandidate
  <1>2. CASE InvokeRuntime
    BY <1>2 DEF InvokeRuntime
  <1>3. CASE ReconcileActivation
    BY <1>3 DEF ReconcileActivation
  <1>4. CASE InvokeRecover
    BY <1>4 DEF InvokeRecover
  <1>5. CASE Inspect
    <2>1. Outcome \in Outcomes
      BY DEF Outcome
    <2>2. CASE PlayFails
      BY <1>5, <2>2 DEF Inspect
    <2>3. ASSUME NEW o \in Outcomes,
                 play' = [play EXCEPT !.step = "reconcile", !.outcome = o]
          PROVE  PlayOK'
      BY <1>5, <2>3 DEF Inspect
    <2> QED BY <1>5, <2>1, <2>2, <2>3 DEF Inspect
  <1>6. CASE ReconcileRecovery
    BY <1>6 DEF ReconcileRecovery
  <1>7. CASE ReconcileFails
    BY <1>7 DEF ReconcileFails
  <1>8. CASE VerifyAndClean
    BY <1>8 DEF VerifyAndClean
  <1> QED BY <1>1, <1>2, <1>3, <1>4, <1>5, <1>6, <1>7, <1>8 DEF PlayStep

(* So does the capture of a command's result.                               *)
LEMMA CapturedTyped ==
  ASSUME PlayOK, play' = Captured, debris' = debris
  PROVE  PlayOK'
  BY DEF PlayOK, PlayRecords, Captured, ClassifyActivation, ClassifyRecovery, NoPlay,
     Outcomes

(* No step of the node makes a play's record ill formed.                    *)
LEMMA PlayTyped ==
  ASSUME PlayOK, [ActivationNext]_allVars
  PROVE  PlayOK'
  <1>1. ASSUME NEW c \in Candidate,
                          StartActivation(c) \/ StartRecovery(c) \/ OperatorRollback(c)
        PROVE PlayOK'
    BY <1>1 DEF StartActivation, StartRecovery, OperatorRollback, Idle, PlayOK, PlayRecords,
       NoPlay, Outcomes
  <1>2. CASE PlayStep
    BY <1>2, PlayStepsTyped
  <1>3. CASE NodeStep
    BY <1>3, CapturedTyped DEF NodeStep, HelperStep, BootUnit, StartJob, OnNode
  <1>4. CASE NodeReboots \/ PlayDies
    BY <1>4 DEF NodeReboots, PlayDies, PlayOK, PlayRecords, NoPlay, Outcomes
  <1>5. CASE UNCHANGED allVars
    BY <1>5 DEF allVars, PlayOK
  <1> QED BY <1>1, <1>2, <1>3, <1>4, <1>5 DEF ActivationNext

(* The plays' records are well formed.                                      *)
LEMMA PlayOKHolds == ActivationSpec => []PlayOK
  <1>1. ActivationInit => PlayOK
    BY DEF ActivationInit, PlayOK, PlayRecords, NoPlay, Outcomes
  <1> QED BY <1>1, PlayTyped, PTL DEF ActivationSpec

(* A step of the node is a step of the runtime helper or leaves it alone.   *)
LEMMA RuntimeStep ==
  ASSUME PlayOK, [ActivationNext]_allVars
  PROVE  [Next]_vars
  <1>1. ASSUME NEW c \in Candidate,
                          StartActivation(c) \/ StartRecovery(c) \/ OperatorRollback(c)
        PROVE [Next]_vars
    BY <1>1 DEF StartActivation, StartRecovery, OperatorRollback, Next
  <1>2. CASE PlayStep
    <2>1. CASE InvokeRuntime
      BY <2>1 DEF InvokeRuntime, In, PlayOK, Next
    <2>2. CASE InvokeRecover
      BY <2>2 DEF InvokeRecover, Next
    <2> QED BY <1>2, <2>1, <2>2
        DEF PlayStep, StageCandidate, ReconcileActivation, Inspect, ReconcileRecovery,
            ReconcileFails, VerifyAndClean
  <1>3. CASE NodeStep
    BY <1>3 DEF NodeStep, HelperStep, BootUnit, StartJob, OnNode, Next, Environment
  <1>4. CASE NodeReboots \/ PlayDies
    BY <1>4 DEF NodeReboots, PlayDies, Next, Environment
  <1>5. CASE UNCHANGED allVars
    BY <1>5 DEF allVars, vars
  <1> QED BY <1>1, <1>2, <1>3, <1>4, <1>5 DEF ActivationNext

(* The node's runtime is the runtime helper: plays invoke it only as it may *)
(* be invoked, so that all that is proved of it holds here.                 *)
THEOREM NodeRunsTheRuntime == ActivationSpec => Spec
  <1>1. ActivationInit => Init
    BY DEF ActivationInit
  <1> QED BY <1>1, RuntimeStep, PlayOKHolds, PTL DEF ActivationSpec, Spec

-----------------------------------------------------------------------------
(* The helper adds at most one evidence file in a step and removes none.    *)
LEMMA EvidenceGrows ==
  ASSUME [Next]_vars
  PROVE  evidence' = evidence \/ \E e : evidence' = evidence \cup {e}
  <1>1. ASSUME NEW c \in Candidate, Activate(c) \/ Rollback(c) PROVE evidence' = evidence
    BY <1>1 DEF Activate, Rollback, Begin, durable
  <1>2. CASE Recover \/ Environment
    BY <1>2 DEF Recover, Environment, Crash, Reboot, BootRecover, Begin, QueueStart,
       RunStartJob, durable
  <1>3. CASE PreflightEvidence \/ WriteSuccessEvidence \/ RestoredEvidence
    BY <1>3 DEF PreflightEvidence, WriteSuccessEvidence, RestoredEvidence, WriteEvidence
  <1>4. CASE Steps /\ ~(PreflightEvidence \/ WriteSuccessEvidence \/ RestoredEvidence)
    BY <1>4 DEF Steps, durable, Initialize, RecoverFinalize, RecoverToPrior, FinalHealth,
       FinalUnlink, CheckAccept, CheckReject, MakeReleaseDir, FillReleaseDir,
       OfflineValidate, PreflightFails, PreflightState, CheckTarget, WriteJournal,
       StopOpensips, StopRtpengine, PointActive, ApplyActiveFirewall, StartRtpengine,
       StartOpensips, HealthPasses, SwitchFails, RestoreFails, CommitState, CommitUnlink,
       RestoredUnlink, RestoredState, FailedEvidence
  <1> QED BY <1>1, <1>2, <1>3, <1>4 DEF Next, vars

(* What the helper writes is, for the agent, an evidence that appears or    *)
(* nothing.                                                                 *)
LEMMA ProvenGrows ==
  ASSUME [Next]_vars, UNCHANGED agent
  PROVE  [A!AgentNext]_(A!agentVars)
  <1> DEFINE S == {c \in Candidate : SuccessEvidence(c) \in evidence}
  <1>1. CASE evidence' = evidence
    BY <1>1 DEF A!agentVars
  <1>2. ASSUME NEW e, evidence' = evidence \cup {e}
        PROVE  [A!AgentNext]_(A!agentVars)
    <2>1. ASSUME NEW c \in Candidate, e = SuccessEvidence(c)
          PROVE  A!EvidenceAppears(c)
      <3>1. \A d \in Candidate : SuccessEvidence(d) = e => d = c
        BY <2>1 DEF SuccessEvidence
      <3>2. S' = S \cup {c}
        BY <1>2, <2>1, <3>1 DEF SuccessEvidence
      <3> QED BY <3>2 DEF A!EvidenceAppears
    <2>2. CASE \A c \in Candidate : e # SuccessEvidence(c)
      <3>1. S' = S
        BY <1>2, <2>2 DEF SuccessEvidence
      <3> QED BY <3>1 DEF A!agentVars
    <2> QED BY <2>1, <2>2 DEF A!AgentNext
  <1> QED BY <1>1, <1>2, EvidenceGrows

(* A step of the node is a step of the agent's protected state or leaves it *)
(* alone.                                                                   *)
LEMMA AgentStep ==
  ASSUME PlayOK, [ActivationNext]_allVars
  PROVE  [A!AgentNext]_(A!agentVars)
  <1>1. CASE UNCHANGED agent
    BY <1>1, RuntimeStep, ProvenGrows
  <1>2. ASSUME UNCHANGED vars, NEW c \in Candidate,
               A!Stage(c) \/ A!CommitPending(c) \/ A!AbortPending(c)
        PROVE  [A!AgentNext]_(A!agentVars)
    BY <1>2 DEF vars, A!AgentNext
  <1>3. CASE StageCandidate
    BY <1>1, <1>2, <1>3 DEF StageCandidate, In, PlayOK
  <1>4. CASE ReconcileActivation
    BY <1>1, <1>2, <1>4 DEF ReconcileActivation, In, PlayOK
  <1>5. CASE ReconcileRecovery
    BY <1>1, <1>2, <1>5 DEF ReconcileRecovery, CommitFromStatus, In, PlayOK
  <1> QED BY <1>1, <1>3, <1>4, <1>5
      DEF ActivationNext, PlayStep, NodeStep, StartActivation, StartRecovery,
              OperatorRollback, InvokeRuntime, InvokeRecover, Inspect, ReconcileFails,
              VerifyAndClean, HelperStep, BootUnit, StartJob, OnNode, NodeReboots, PlayDies,
              allVars

(* The plays drive the agent as its own specification allows, the runtime's *)
(* success evidence being what is proven: the composition implements it.    *)
THEOREM AgentActsUnderPlays == ActivationSpec => A!AgentSpec
  <1>1. ActivationInit => A!AgentInit
    BY DEF ActivationInit, Init, A!AgentInit
  <1> QED BY <1>1, AgentStep, PlayOKHolds, PTL DEF ActivationSpec, A!AgentSpec

(* The two instances of the agent's specification are the same.             *)
LEMMA AgentDefs ==
  /\ A!AgentInit => P!AgentInit
  /\ [A!AgentNext]_(A!agentVars) => [P!AgentNext]_(P!agentVars)
  BY DEF A!AgentInit, P!AgentInit, A!AgentNext, P!AgentNext, A!agentVars, P!agentVars,
     A!Stage, P!Stage, A!CanStage, P!CanStage, A!CommitPending, P!CommitPending,
     A!AbortPending, P!AbortPending, A!ExactPending, P!ExactPending, A!SuccessProven,
     P!SuccessProven, A!EvidenceAppears, P!EvidenceAppears, A!Loads, P!Loads, A!LineageOK,
     P!LineageOK, A!Seq0, P!Seq0, A!NoAgentState, P!NoAgentState

(* The agent's own invariant holds under the plays.                         *)
LEMMA AgentInvHolds == ActivationSpec => []P!AgentInv
  <1>1. ActivationInit => P!AgentInv
    <2>1. ActivationInit => A!AgentInit
      BY DEF ActivationInit, Init, A!AgentInit
    <2> QED BY <2>1, AgentDefs, P!InitInv, ManifestConstants DEF P!Release, Release
  <1>2. ASSUME P!AgentInv, PlayOK, [ActivationNext]_allVars
        PROVE P!AgentInv'
    <2>1. [P!AgentNext]_(P!agentVars)
      BY <1>2, AgentStep, AgentDefs
    <2> QED BY <1>2, <2>1, P!NextInv, ManifestConstants DEF P!Release, Release
  <1> QED BY <1>1, <1>2, PlayOKHolds, PTL DEF ActivationSpec

-----------------------------------------------------------------------------
(* A running activation builds on the release it replaces, its journal says *)
(* the same, and a running command has printed nothing yet.                 *)
LineageInv ==
  /\ proc.op = "activate" /\ ~proc.recovering /\ proc.pc \in Building \cup Switching =>
       proc.target = proc.cand /\ Parent[proc.cand] = proc.prior
  /\ journal # Nil /\ journal.operation = "APPLY" =>
       journal.target \in Candidate /\ Parent[journal.target] = journal.prior
  /\ proc.pc # "idle" => result.status = "RUNNING"

(* An activation that is not committed yet.                                 *)
OpenApply ==
  journal # Nil /\ journal.operation = "APPLY" /\ state.active # journal.target

(* The request a step works on.                                             *)
RequestMoves ==
  /\ proc.pc # "idle"
  /\ \/ proc'.pc = "idle" /\ proc'.op = Nil
     \/ proc'.pc # "idle" /\ proc'.op = proc.op /\ proc'.cand = proc.cand
  /\ proc'.pc # "idle" => result' = result

(* What a step may do to an activation that is not committed, and to the    *)
(* target of a switch.                                                      *)
ApplyMoves ==
  /\ OpenApply' => \/ OpenApply /\ journal'.target = journal.target
                   \/ proc.op = "activate" /\ journal'.target = proc.cand
  /\ journal' # Nil /\ journal'.operation # "APPLY" =>
       proc.op = "rollback" \/ (journal # Nil /\ journal.operation # "APPLY")
  /\ proc'.pc \in Switching \cup Restoring =>
       \/ proc.pc \in Switching \cup Restoring /\ proc'.target = proc.target
       \/ proc.op = "activate" /\ proc'.target = proc.cand
       \/ proc.op = "rollback"
       \/ journal # Nil /\ journal.operation # "APPLY"
       \/ OpenApply /\ proc'.target = journal.target

(* What a step may do to the protected state.                               *)
StateMoves ==
  /\ state'.active # state.active =>
       proc.op = "rollback" \/ (proc.op = "activate" /\ state'.active = proc.cand)
  /\ state'.highest # state.highest =>
       proc.op = "activate" /\ proc.cand \in Candidate /\ state'.highest = SeqOf[proc.cand]
  /\ \/ state'.last = state.last /\ state'.active = state.active
     \/ state'.last = SuccessEvidence(state'.active)
     \/ proc.op = "rollback"
     \/ proc.op = "activate" /\ proc.cand # state'.active
     \/ proc.pc \in Restoring /\ proc.target # state'.active

(* A command that found nothing to recover, or failed its preflight, leaves *)
(* no journal.                                                              *)
EndsQuietly ==
  proc'.pc = "idle" =>
    /\ result'.status = "NO_RECOVERY" => journal' = Nil
    /\ result'.status = "PREFLIGHT_FAILED" =>
         journal' = Nil /\ result'.release # state'.active

(* Without a journal, recover and the boot unit do nothing.                 *)
Quiet ==
  journal = Nil /\ proc.pc = "initialize" /\ proc.op \notin {"activate", "rollback"} =>
    journal' = Nil /\ state' = state /\ proc'.pc = "idle"

(* What a step of a running command, or its death, may do.                  *)
NodeMoves == RequestMoves /\ ApplyMoves /\ StateMoves /\ Quiet /\ EndsQuietly

(* A process that leaves recovery ends, or starts its command afresh.       *)
LEMMA RecoveredMoves ==
  ASSUME NEW st, NEW r, Recovered(st, r)
  PROVE  \/ /\ proc' = IdleProcess /\ proc'.pc = "idle" /\ proc'.op = Nil
            /\ result'.status = st
         \/ /\ proc'.pc \in {"check", "check_target"} /\ proc'.op = proc.op
            /\ proc'.cand = proc.cand /\ result' = result
  <1>1. CASE Body = "idle"
    BY <1>1 DEF Recovered, Finish, Printed, IdleProcess
  <1>2. CASE Body # "idle"
    BY <1>2 DEF Recovered, IdleProcess, Body
  <1> QED BY <1>1, <1>2

(* A rollback refused, or on its way.                                       *)
LEMMA CheckTargetMoves ==
  ASSUME RuntimeInv, TargetInv, LineageInv, CheckTarget
  PROVE  LineageInv' /\ NodeMoves
  <1>1. LineageInv'
    BY RecoveredFields, FieldTypes, FieldValues, MoreFields, RuntimeConstants,
       ManifestConstants, CheckTargetFields DEF CheckTarget, Raise, Finish, durable,
       RuntimeInv, Building, Switching, SwitchSteps, At, IdleProcess, LineageInv
  <1>2. RequestMoves
    <2>1. CASE Raise
      BY <2>1 DEF CheckTarget, At, Raise, Finish, IdleProcess, RequestMoves
    <2>2. CASE ~Raise
      BY <2>2 DEF CheckTarget, At, RequestMoves, RuntimeInv, TypeOK, Process
    <2> QED BY <2>1, <2>2
  <1>3. ApplyMoves
    BY DEF CheckTarget, durable, RuntimeInv, RequestOK, At, ApplyMoves, OpenApply
  <1>4. StateMoves /\ Quiet
    BY DEF CheckTarget, durable, At, StateMoves, Quiet
  <1>5. EndsQuietly
    <2>1. CASE Raise
      BY <2>1 DEF Raise, Finish, Printed, EndsQuietly
    <2>2. CASE ~Raise
      BY <2>2 DEF CheckTarget, RuntimeInv, TypeOK, Process, EndsQuietly
    <2> QED BY <2>1, <2>2
  <1> QED BY <1>1, <1>2, <1>3, <1>4, <1>5 DEF NodeMoves

(* The running switch writes its journal.                                   *)
LEMMA WriteJournalMoves ==
  ASSUME RuntimeInv, TargetInv, LineageInv, WriteJournal
  PROVE  LineageInv' /\ NodeMoves
  <1>1. LineageInv'
    <2>1. proc.pc = "journal" /\ proc.mode = "switch" /\ result' = result
      BY DEF WriteJournal, At, RuntimeInv, ProgressOK
    <2>2. proc.op \in {"activate", "rollback"} /\ ~proc.recovering
      BY <2>1 DEF TargetInv, TargetStepOK, Switching, SwitchSteps
    <2>3. proc.op = "activate" =>
            /\ proc.cand \in Candidate /\ proc.target = proc.cand
            /\ Parent[proc.cand] = proc.prior
      BY <2>1, <2>2 DEF LineageInv, Switching, SwitchSteps, RuntimeInv, RequestOK
    <2> QED BY <2>1, <2>2, <2>3, WriteJournalFields DEF LineageInv
  <1>2. RequestMoves
    BY FieldTypes, FieldValues DEF WriteJournal, AfterJournal, Phases, RuntimeInv,
       ProgressOK, At, RequestMoves
  <1>3. ApplyMoves
    <2>1. proc.pc = "journal" /\ proc.mode = "switch"
      BY DEF WriteJournal, At, RuntimeInv, ProgressOK
    <2>2. proc.op \in {"activate", "rollback"} /\ ~proc.recovering
      BY <2>1 DEF TargetInv, TargetStepOK, Switching, SwitchSteps
    <2>3. proc.op = "activate" => proc.target = proc.cand
      BY <2>1, <2>2 DEF LineageInv, Switching, SwitchSteps
    <2> QED BY <2>1, <2>2, <2>3, WriteJournalFields
        DEF ApplyMoves, OpenApply, Switching, SwitchSteps
  <1>4. StateMoves /\ Quiet /\ EndsQuietly
    BY WriteJournalFields DEF WriteJournal, At, StateMoves, Quiet, EndsQuietly
  <1> QED BY <1>1, <1>2, <1>3, <1>4 DEF NodeMoves

(* A committed journal is unlinked.                                         *)
LEMMA FinalUnlinkMoves ==
  ASSUME RuntimeInv, TargetInv, LineageInv, FinalUnlink
  PROVE  LineageInv' /\ NodeMoves
  <1>1. LineageInv' /\ RequestMoves
    BY RecoveredMoves DEF FinalUnlink, At, LineageInv, RequestMoves, Building, Switching,
       SwitchSteps
  <1>2. ApplyMoves
    BY RecoveredFields, FieldTypes DEF FinalUnlink, RuntimeInv, Switching, SwitchSteps, At,
       Restoring, ApplyMoves, OpenApply
  <1>3. StateMoves /\ Quiet
    BY DEF FinalUnlink, At, StateMoves, Quiet
  <1>4. EndsQuietly
    BY RecoveredMoves DEF FinalUnlink, EndsQuietly
  <1> QED BY <1>1, <1>2, <1>3, <1>4 DEF NodeMoves

(* A restore ends, inside a recovery or on its own.                         *)
LEMMA RestoredStateMoves ==
  ASSUME RuntimeInv, TargetInv, LineageInv, RestoredState
  PROVE  LineageInv' /\ NodeMoves
  <1>1. journal = Nil /\ journal' = Nil
    BY DEF RestoredState, At, RuntimeInv, ProgressOK
  <1>2. LineageInv' /\ RequestMoves
    <2>1. CASE Recovered(RestoredStatus, proc.target)
      BY <1>1, <2>1, RecoveredMoves DEF RestoredState, At, LineageInv, RequestMoves,
         Building, Switching, SwitchSteps
    <2>2. CASE Finish(RestoredStatus, proc.target)
      BY <1>1, <2>2 DEF RestoredState, At, Finish, IdleProcess, LineageInv, RequestMoves,
         Building, Switching, SwitchSteps
    <2> QED BY <2>1, <2>2 DEF RestoredState
  <1>3. ApplyMoves
    BY RecoveredFields, FieldTypes, FieldValues DEF RestoredState, RecordLast, EvidenceFor,
       Finish, RuntimeInv, Switching, SwitchSteps, At, IdleProcess, Restoring, ApplyMoves,
       OpenApply
  <1>4. StateMoves /\ Quiet
    BY DEF RestoredState, RecordLast, EvidenceFor, RuntimeInv, At, TargetInv, TargetStepOK,
       Restoring, StateMoves, Quiet
  <1>5. EndsQuietly
    <2>1. RestoredStatus \notin {"NO_RECOVERY", "PREFLIGHT_FAILED"}
      BY DEF RestoredStatus
    <2>2. CASE Recovered(RestoredStatus, proc.target)
      BY <2>1, <2>2, RecoveredMoves DEF EndsQuietly
    <2>3. CASE Finish(RestoredStatus, proc.target)
      BY <2>1, <2>3 DEF Finish, Printed, EndsQuietly
    <2> QED BY <2>2, <2>3 DEF RestoredState
  <1> QED BY <1>2, <1>3, <1>4, <1>5 DEF NodeMoves

(* _initialize and the two ways out of recovery.                          *)
LEMMA RecoveryMoves ==
  ASSUME RuntimeInv, TargetInv, LineageInv,
         \/ Initialize \/ RecoverFinalize \/ RecoverToPrior \/ FinalHealth \/ FinalUnlink
  PROVE  LineageInv' /\ NodeMoves
  <1>1. CASE Initialize
    BY <1>1, RecoveredFields, FieldTypes, FieldValues, MoreFields, RuntimeConstants,
       ManifestConstants DEF Initialize, Body, Raise, Finish, durable, RuntimeInv, Building,
       Switching, SwitchSteps, At, IdleProcess, TargetInv, TargetOK, TargetStepOK,
       Restoring, LineageInv, Printed, NodeMoves, RequestMoves, ApplyMoves, OpenApply,
       StateMoves, Quiet, EndsQuietly
  <1>2. CASE RecoverFinalize
    BY <1>2, RecoveredFields, FieldTypes, FieldValues, MoreFields, RuntimeConstants,
       ManifestConstants DEF RecoverFinalize, Raise, Finish, durable, RuntimeInv, Building,
       Switching, SwitchSteps, At, IdleProcess, TargetInv, TargetOK, TargetStepOK,
       Restoring, LineageInv, Printed, NodeMoves, RequestMoves, ApplyMoves, OpenApply,
       StateMoves, Quiet, EndsQuietly
  <1>3. CASE RecoverToPrior
    BY <1>3, RecoveredFields, FieldTypes, FieldValues, MoreFields, RuntimeConstants,
       ManifestConstants DEF RecoverToPrior, Committed, durable, RuntimeInv, JournalOK,
       ProgressOK, Building, Switching, SwitchSteps, At, TargetInv, TargetOK, TargetStepOK,
       LineageInv, NodeMoves, RequestMoves, ApplyMoves, OpenApply, StateMoves, Quiet,
       EndsQuietly
  <1>4. CASE FinalHealth
    BY <1>4, RecoveredFields, FieldTypes, FieldValues, MoreFields, RuntimeConstants,
       ManifestConstants DEF FinalHealth, Raise, Finish, BaselineHealthy, durable,
       RuntimeInv, Building, Switching, SwitchSteps, At, IdleProcess, TargetInv, TargetOK,
       TargetStepOK, Restoring, LineageInv, Printed, NodeMoves, RequestMoves, ApplyMoves,
       OpenApply, StateMoves, Quiet, EndsQuietly
  <1>5. CASE FinalUnlink
    BY <1>5, FinalUnlinkMoves
  <1> QED BY <1>1, <1>2, <1>3, <1>4, <1>5

(* The preparation of a candidate or of a manual rollback.                *)
LEMMA PrepareMoves ==
  ASSUME RuntimeInv, TargetInv, LineageInv,
         \/ CheckAccept \/ CheckReject \/ MakeReleaseDir \/ FillReleaseDir
         \/ OfflineValidate \/ PreflightFails \/ PreflightEvidence \/ PreflightState
         \/ CheckTarget
  PROVE  LineageInv' /\ NodeMoves
  <1>1. CASE CheckAccept
    BY <1>1, CheckAcceptFields DEF CheckAccept, CandidateAcceptable, LineageOK, RuntimeInv,
       At, LineageInv, NodeMoves, RequestMoves, ApplyMoves, OpenApply, StateMoves, Quiet,
       EndsQuietly
  <1>2. CASE CheckReject
    BY <1>2, RecoveredFields, FieldTypes, FieldValues, MoreFields, RuntimeConstants,
       ManifestConstants DEF CheckReject, Raise, Finish, durable, RuntimeInv, Building,
       Switching, SwitchSteps, At, IdleProcess, TargetInv, TargetOK, TargetStepOK,
       Restoring, LineageInv, Printed, NodeMoves, RequestMoves, ApplyMoves, OpenApply,
       StateMoves, Quiet, EndsQuietly
  <1>3. CASE MakeReleaseDir
    BY <1>3, FieldValues DEF MakeReleaseDir, RuntimeInv, Building, At, TargetInv,
       TargetStepOK, LineageInv, NodeMoves, RequestMoves, ApplyMoves, OpenApply, StateMoves,
       Quiet, EndsQuietly
  <1>4. CASE FillReleaseDir
    BY <1>4, FieldValues DEF FillReleaseDir, RuntimeInv, Building, At, TargetInv,
       TargetStepOK, LineageInv, NodeMoves, RequestMoves, ApplyMoves, OpenApply, StateMoves,
       Quiet, EndsQuietly
  <1>5. CASE OfflineValidate
    BY <1>5 DEF OfflineValidate, durable, RuntimeInv, Building, At, TargetInv, TargetStepOK,
       LineageInv, NodeMoves, RequestMoves, ApplyMoves, OpenApply, StateMoves, Quiet,
       EndsQuietly
  <1>6. CASE PreflightFails
    BY <1>6, RecoveredFields, FieldTypes, FieldValues DEF PreflightFails, durable,
       RuntimeInv, Building, TargetInv, TargetStepOK, LineageInv, NodeMoves, RequestMoves,
       ApplyMoves, OpenApply, StateMoves, Quiet, EndsQuietly
  <1>7. CASE PreflightEvidence
    BY <1>7, FieldValues DEF PreflightEvidence, WriteEvidence, EvidenceFor, ActionOf,
       RuntimeInv, Building, At, TargetInv, TargetStepOK, LineageInv, NodeMoves,
       RequestMoves, ApplyMoves, OpenApply, StateMoves, Quiet, EndsQuietly
  <1>8. CASE PreflightState
    BY <1>8, RecoveredFields, FieldTypes, FieldValues, MoreFields, RuntimeConstants,
       ManifestConstants DEF PreflightState, RecordLast, EvidenceFor, Finish, RuntimeInv,
       ProgressOK, Building, Switching, SwitchSteps, At, IdleProcess, TargetInv, TargetOK,
       TargetStepOK, Restoring, LineageInv, Printed, NodeMoves, RequestMoves, ApplyMoves,
       OpenApply, StateMoves, Quiet, EndsQuietly
  <1>9. CASE CheckTarget
    BY <1>9, CheckTargetMoves
  <1> QED BY <1>1, <1>2, <1>3, <1>4, <1>5, <1>6, <1>7, <1>8, <1>9

(* The live steps of a switch or a restore, and their failures.           *)
LEMMA SwitchMoves ==
  ASSUME RuntimeInv, TargetInv, LineageInv,
         \/ WriteJournal \/ StopOpensips \/ StopRtpengine \/ PointActive
         \/ ApplyActiveFirewall \/ StartRtpengine \/ StartOpensips \/ HealthPasses
         \/ SwitchFails \/ RestoreFails
  PROVE  LineageInv' /\ NodeMoves
  <1>1. CASE WriteJournal
    BY <1>1, WriteJournalMoves
  <1>2. CASE StopOpensips
    BY <1>2, RecoveredFields, FieldTypes, FieldValues, MoreFields DEF StopOpensips,
       Services, durable, RuntimeInv, Switching, SwitchSteps, At, LineageInv, NodeMoves,
       RequestMoves, ApplyMoves, OpenApply, StateMoves, Quiet, EndsQuietly
  <1>3. CASE StopRtpengine
    BY <1>3, RecoveredFields, FieldTypes, FieldValues, MoreFields DEF StopRtpengine, Then,
       Services, durable, RuntimeInv, Switching, SwitchSteps, At, LineageInv, NodeMoves,
       RequestMoves, ApplyMoves, OpenApply, StateMoves, Quiet, EndsQuietly
  <1>4. CASE PointActive
    BY <1>4, RecoveredFields, FieldTypes, FieldValues, MoreFields DEF PointActive, Then,
       RuntimeInv, Switching, SwitchSteps, At, LineageInv, NodeMoves, RequestMoves,
       ApplyMoves, OpenApply, StateMoves, Quiet, EndsQuietly
  <1>5. CASE ApplyActiveFirewall
    BY <1>5, RecoveredFields, FieldTypes, FieldValues, MoreFields DEF ApplyActiveFirewall,
       Then, durable, RuntimeInv, Switching, SwitchSteps, At, LineageInv, NodeMoves,
       RequestMoves, ApplyMoves, OpenApply, StateMoves, Quiet, EndsQuietly
  <1>6. CASE StartRtpengine
    BY <1>6, RecoveredFields, FieldTypes, FieldValues, MoreFields DEF StartRtpengine,
       Started, Services, durable, RuntimeInv, Switching, SwitchSteps, At, LineageInv,
       NodeMoves, RequestMoves, ApplyMoves, OpenApply, StateMoves, Quiet, EndsQuietly
  <1>7. CASE StartOpensips
    BY <1>7, RecoveredFields, FieldTypes, FieldValues, MoreFields DEF StartOpensips, Then,
       Started, Services, durable, RuntimeInv, Switching, SwitchSteps, At, LineageInv,
       NodeMoves, RequestMoves, ApplyMoves, OpenApply, StateMoves, Quiet, EndsQuietly
  <1>8. CASE HealthPasses
    BY <1>8, RecoveredFields, FieldTypes, FieldValues, MoreFields DEF HealthPasses, Healthy,
       BaselineHealthy, durable, RuntimeInv, Switching, SwitchSteps, At, LineageInv,
       NodeMoves, RequestMoves, ApplyMoves, OpenApply, StateMoves, Quiet, EndsQuietly
  <1>9. CASE SwitchFails
    BY <1>9 DEF SwitchFails, durable, RuntimeInv, Switching, SwitchSteps, LineageInv,
       NodeMoves, RequestMoves, ApplyMoves, OpenApply, StateMoves, Quiet, EndsQuietly
  <1>10. CASE RestoreFails
    BY <1>10, RecoveredFields, FieldTypes, FieldValues, MoreFields, RuntimeConstants,
       ManifestConstants DEF RestoreFails, Raise, Finish, durable, RuntimeInv, Building,
       Switching, SwitchSteps, IdleProcess, TargetInv, TargetOK, TargetStepOK, Restoring,
       LineageInv, Printed, NodeMoves, RequestMoves, ApplyMoves, OpenApply, StateMoves,
       Quiet, EndsQuietly
  <1> QED BY <1>1, <1>2, <1>3, <1>4, <1>5, <1>6, <1>7, <1>8, <1>9, <1>10

(* The writes that end a transaction.                                     *)
LEMMA OutcomeMoves ==
  ASSUME RuntimeInv, TargetInv, LineageInv,
         \/ WriteSuccessEvidence \/ CommitState \/ CommitUnlink \/ RestoredUnlink
         \/ RestoredEvidence \/ RestoredState \/ FailedEvidence \/ Crash
  PROVE  LineageInv' /\ NodeMoves
  <1>1. CASE WriteSuccessEvidence
    BY <1>1, RecoveredFields, FieldTypes, FieldValues, MoreFields DEF WriteSuccessEvidence,
       WriteEvidence, EvidenceFor, ActionOf, RuntimeInv, Switching, At, LineageInv,
       NodeMoves, RequestMoves, ApplyMoves, OpenApply, StateMoves, Quiet, EndsQuietly
  <1>2. CASE CommitState
    BY <1>2, RecoveredFields, FieldTypes, FieldValues, MoreFields, RuntimeConstants,
       ManifestConstants DEF CommitState, EvidenceFor, SuccessStatus, ActionOf, RuntimeInv,
       OwnJournal, Switching, At, TargetInv, TargetOK, TargetStepOK, LineageInv, NodeMoves,
       RequestMoves, ApplyMoves, OpenApply, StateMoves, SuccessEvidence, Quiet, EndsQuietly
  <1>3. CASE CommitUnlink
    BY <1>3, RecoveredFields, FieldTypes, FieldValues, MoreFields, RuntimeConstants,
       ManifestConstants DEF CommitUnlink, Finish, RuntimeInv, Building, Switching,
       SwitchSteps, At, IdleProcess, TargetInv, TargetOK, TargetStepOK, Restoring,
       LineageInv, Printed, NodeMoves, RequestMoves, ApplyMoves, OpenApply, StateMoves,
       Quiet, EndsQuietly, SuccessStatus
  <1>4. CASE RestoredUnlink
    BY <1>4, RecoveredFields, FieldTypes, FieldValues DEF RestoredUnlink, RuntimeInv,
       Building, Switching, SwitchSteps, At, Restoring, LineageInv, NodeMoves, RequestMoves,
       ApplyMoves, OpenApply, StateMoves, Quiet, EndsQuietly
  <1>5. CASE RestoredEvidence
    BY <1>5, RecoveredFields, FieldTypes, FieldValues DEF RestoredEvidence, WriteEvidence,
       EvidenceFor, ActionOf, RuntimeInv, Building, Switching, SwitchSteps, At, Restoring,
       LineageInv, NodeMoves, RequestMoves, ApplyMoves, OpenApply, StateMoves, Quiet,
       EndsQuietly
  <1>6. CASE RestoredState
    BY <1>6, RestoredStateMoves
  <1>7. CASE FailedEvidence
    BY <1>7, RecoveredFields, FieldTypes, FieldValues, MoreFields, RuntimeConstants,
       ManifestConstants DEF FailedEvidence, Finish, durable, RuntimeInv, Building,
       Switching, SwitchSteps, At, IdleProcess, TargetInv, TargetOK, TargetStepOK,
       Restoring, LineageInv, Printed, NodeMoves, RequestMoves, ApplyMoves, OpenApply,
       StateMoves, Quiet, EndsQuietly, FailedStatus
  <1>8. CASE Crash
    BY <1>8, RecoveredFields, FieldTypes, FieldValues, MoreFields, RuntimeConstants,
       ManifestConstants DEF Crash, durable, RuntimeInv, Building, Switching, SwitchSteps,
       At, IdleProcess, TargetInv, TargetOK, TargetStepOK, Restoring, LineageInv, Printed,
       NodeMoves, RequestMoves, ApplyMoves, OpenApply, StateMoves, Quiet, EndsQuietly
  <1> QED BY <1>1, <1>2, <1>3, <1>4, <1>5, <1>6, <1>7, <1>8

(* Every step of a running command moves only what it may.                  *)
LEMMA StepsMove ==
  ASSUME RuntimeInv, TargetInv, LineageInv, Steps \/ Crash
  PROVE  LineageInv' /\ NodeMoves
  BY RecoveryMoves, PrepareMoves, SwitchMoves, OutcomeMoves DEF Steps

(* LineageInv is inductive together with the invariants of the runtime.     *)
LEMMA LineageKept ==
  ASSUME RuntimeInv, TargetInv, LineageInv, [Next]_vars
  PROVE  LineageInv'
  <1>1. ASSUME NEW op, NEW c, Begin(op, c)
        PROVE  LineageInv'
    BY <1>1 DEF Begin, Printed, durable, LineageInv, Building, Switching, SwitchSteps
  <1>2. CASE Reboot
    BY <1>2 DEF Reboot, IdleProcess, durable, LineageInv, Building, Switching, SwitchSteps
  <1>3. ASSUME UNCHANGED <<journal, proc, result>>
        PROVE  LineageInv'
    BY <1>3 DEF LineageInv
  <1>4. ASSUME NEW s \in Services, QueueStart(s) \/ RunStartJob(s)
        PROVE  LineageInv'
    BY <1>3, <1>4 DEF QueueStart, RunStartJob, durable
  <1> QED BY <1>1, <1>2, <1>3, <1>4, StepsMove
      DEF Next, Environment, Activate, Rollback, Recover, BootRecover, vars

(* All that is known of the node's runtime.                                 *)
NodeRuntime == RuntimeInv /\ FloorOK /\ RuntimeSafety /\ LineageInv

(* It holds under the plays.                                                *)
LEMMA NodeRuntimeHolds == ActivationSpec => []NodeRuntime
  <1>1. Init => LineageInv
    BY DEF Init, IdleProcess, LineageInv, Building, Switching, SwitchSteps
  <1>2. RuntimeInv /\ RuntimeSafety /\ LineageInv /\ [Next]_vars => LineageInv'
    BY LineageKept DEF RuntimeSafety
  <1>3. Spec => []LineageInv
    BY <1>1, <1>2, RuntimeInvHolds, RuntimeSafetyHolds, PTL DEF Spec
  <1> QED BY <1>3, NodeRunsTheRuntime, RuntimeInvHolds, FloorHolds, RuntimeSafetyHolds, PTL
      DEF NodeRuntime

-----------------------------------------------------------------------------
(* What the agent's invariant says in the terms of the node: a pending      *)
(* candidate carries the floor and replaces the LKG, and the floor is the   *)
(* sequence of the active, the pending or the aborted release.              *)
AgentFacts ==
  /\ agent \in A!AgentState
  /\ agent.highest \in Nat /\ agent.active \in Release /\ agent.pending \in Release
  /\ agent.aborted \in Release
  /\ Seq0(agent.active) <= agent.highest
  /\ agent.pending # Bootstrap =>
       /\ agent.pending \in Candidate
       /\ SeqOf[agent.pending] = agent.highest
       /\ Parent[agent.pending] = agent.active
       /\ agent.highest > 0
  /\ agent.highest = 0 => agent = A!NoAgentState
  /\ agent.highest > 0 =>
       \E r \in {agent.active, agent.pending, agent.aborted} : Seq0(r) = agent.highest

(* Who runs the helper: a play that waits for it, and nobody else while one *)
(* does; an activate is of the agent's pending candidate.                   *)
OwnershipOK ==
  /\ proc.op = "activate" =>
       /\ agent.pending = proc.cand
       /\ play.step \notin {"inspect", "reconcile", "verify"}
       /\ ~In("activate", "runtime")
  /\ play.step = "await" =>
       /\ proc.pc # "idle"
       /\ play.kind = "activate" => proc.op = "activate" /\ proc.cand = play.cand
       /\ play.kind = "recover" => proc.op = "recover"
  /\ In("activate", "runtime") => agent.pending = play.cand

(* An open activation is the agent's pending candidate replacing its LKG.   *)
ApplyOK ==
  /\ OpenApply => journal.target = agent.pending
  /\ play.step = "reconcile" => ~OpenApply

(* What is known of the plays, the agent and the activation in progress.    *)
NodeInv == PlayOK /\ AgentFacts /\ OwnershipOK /\ ApplyOK

(* The agent's invariant gives these facts.                                 *)
LEMMA AgentInvFacts ==
  ASSUME P!AgentInv
  PROVE  AgentFacts
  <1>1. agent \in A!AgentState
    BY DEF P!AgentInv, P!AgentTypeOK, P!AgentState, A!AgentState, P!Release, A!Release
  <1>2. /\ agent.highest \in Nat /\ agent.active \in Release /\ agent.pending \in Release
        /\ agent.aborted \in Release
    BY <1>1 DEF A!AgentState, A!Release, Release
  <1>3. agent.highest = 0 => agent = A!NoAgentState
    BY DEF P!AgentInv, P!AbsentIsEmpty, P!NoAgentState, A!NoAgentState
  <1>4. agent.highest = 0 \/ agent.highest > 0
    BY <1>2
  <1>5. Seq0(agent.active) <= agent.highest
    BY <1>2, <1>3, <1>4 DEF P!AgentInv, P!StateLoads, P!Loads, P!Seq0, Seq0, A!NoAgentState
  <1>6. agent.pending # Bootstrap =>
         /\ agent.pending \in Candidate
         /\ SeqOf[agent.pending] = agent.highest
         /\ Parent[agent.pending] = agent.active
         /\ agent.highest > 0
    BY <1>2, <1>3, <1>4 DEF P!AgentInv, P!StateLoads, P!Loads, P!PendingLineage,
       P!LineageOK, A!NoAgentState, Release
  <1>7. agent.highest > 0 =>
         \E r \in {agent.active, agent.pending, agent.aborted} : Seq0(r) = agent.highest
    BY DEF P!AgentInv, P!StateLoads, P!Loads, P!Seq0, Seq0
  <1> QED BY <1>1, <1>2, <1>3, <1>5, <1>6, <1>7 DEF AgentFacts

(* What a play makes of a command that has ended.                           *)
LEMMA CapturedCases ==
  ASSUME PlayOK, play' = Captured
  PROVE  \/ play' = play /\ (play.step # "await" \/ proc'.pc # "idle")
         \/ play' = NoPlay
         \/ /\ play.step = "await" /\ play.kind = "activate" /\ proc'.pc = "idle"
            /\ play'.kind = "activate" /\ play'.step = "reconcile" /\ play'.cand = play.cand
            /\ result'.release = play.cand
            /\ \/ play'.outcome = "COMMIT" /\ result'.status = "APPLIED_HEALTHY"
               \/ play'.outcome = "ABORT" /\ result'.status \in {"PREFLIGHT_FAILED",
                                        "ROLLED_BACK"}
         \/ /\ play.step = "await" /\ play.kind = "recover" /\ proc'.pc = "idle"
            /\ play'.kind = "recover" /\ play'.step = "inspect" /\ play'.cand = play.cand
            /\ play'.recovery = result'.status
            /\ \/ result'.status = "NO_RECOVERY"
               \/ /\ result'.status \in {"COMMITTED_FINALIZED", "RECOVERED_TO_PRIOR"}
                  /\ result'.release = play.cand
  BY DEF PlayOK, PlayRecords, Captured, ClassifyActivation, ClassifyRecovery, NoPlay

(* Steps and deaths of the helper.                                          *)
LEMMA MovesKeepNodeInv ==
  ASSUME NodeRuntime, NodeInv, NodeMoves, PrintedOutcomeIsTrue', play' = Captured,
          UNCHANGED agent
  PROVE  OwnershipOK' /\ ApplyOK'
  <1>1. Nil \notin Ops
    BY RuntimeConstants
  <1>2. /\ proc.pc # "idle"
        /\ proc'.op = "activate" => proc.op = "activate" /\ proc'.cand = proc.cand
        /\ proc'.op = "activate" => proc'.pc # "idle"
        /\ proc'.pc # "idle" => proc'.op = proc.op /\ proc'.cand = proc.cand
    BY <1>1 DEF NodeMoves, RequestMoves, Ops
  <1>3. PlayOK /\ OwnershipOK /\ ApplyOK
    BY DEF NodeInv
  <1>4. OpenApply' => journal'.target = agent.pending
    BY <1>3 DEF NodeMoves, ApplyMoves, OwnershipOK, ApplyOK
  <1>5. OpenApply' /\ play.step = "reconcile" => FALSE
    BY <1>3 DEF NodeMoves, ApplyMoves, OwnershipOK, ApplyOK
  <1>6. CASE play' = play /\ (play.step # "await" \/ proc'.pc # "idle")
    <2>2. OwnershipOK'
      BY <1>2, <1>3, <1>6 DEF OwnershipOK, In, PlayOK, PlayRecords
    <2> QED BY <1>4, <1>5, <1>6, <2>2 DEF ApplyOK
  <1>7. CASE play' = NoPlay
    BY <1>2, <1>3, <1>4, <1>7 DEF NoPlay, OwnershipOK, ApplyOK, In
  <1>8. CASE /\ play.step = "await" /\ proc'.pc = "idle"
             /\ play'.step \in {"reconcile", "inspect"}
             /\ play'.step = "reconcile" => journal' = Nil
    BY <1>2, <1>4, <1>8 DEF OwnershipOK, ApplyOK, OpenApply, In
  <1>9. proc'.pc = "idle" /\ result'.status \in {"APPLIED_HEALTHY", "PREFLIGHT_FAILED",
                                        "ROLLED_BACK"} => journal' = Nil
    BY DEF NodeMoves, EndsQuietly, PrintedOutcomeIsTrue, At
  <1> QED BY <1>3, <1>6, <1>7, <1>8, <1>9, CapturedCases

(* Start jobs leave commands, plays and the agent alone.                    *)
LEMMA JobsKeepNodeInv ==
  ASSUME NodeInv, UNCHANGED <<proc, journal, state, agent>>, play' = Captured
  PROVE  OwnershipOK' /\ ApplyOK'
  <1>1. PlayOK /\ OwnershipOK /\ ApplyOK
    BY DEF NodeInv
  <1>2. play' = play
    BY <1>1 DEF Captured, OwnershipOK
  <1> QED BY <1>1, <1>2 DEF OwnershipOK, ApplyOK, OpenApply, In

(* Commands that begin.                                                     *)
LEMMA BeginsKeepNodeInv ==
  ASSUME NodeRuntime, NodeInv, UNCHANGED agent,
         \/ InvokeRuntime \/ InvokeRecover \/ BootUnit
         \/ \E c \in Candidate : OperatorRollback(c)
  PROVE  OwnershipOK' /\ ApplyOK'
  <1>1. PlayOK /\ OwnershipOK /\ ApplyOK
    BY DEF NodeInv
  <1>2. /\ proc.pc = "idle"
        /\ UNCHANGED <<journal, state>>
        /\ \/ proc'.op = "activate" /\ proc'.cand = play.cand /\ In("activate", "runtime")
              /\ play'.step = "await" /\ play'.kind = "activate" /\ play'.cand = play.cand
           \/ proc'.op = "recover" /\ In("recover", "runtime")
              /\ play'.step = "await" /\ play'.kind = "recover" /\ play'.cand = play.cand
           \/ proc'.op \in {"rollback", "boot"} /\ (play.step # "await" => play' = play)
        /\ proc'.pc # "idle"
    <2>1. CASE InvokeRuntime
      BY <1>1, <2>1 DEF InvokeRuntime, Activate, Begin, At, durable, In
    <2>2. CASE InvokeRecover
      BY <1>1, <2>2 DEF InvokeRecover, Recover, Begin, At, durable, In
    <2>3. CASE BootUnit
      BY <1>1, <2>3 DEF BootUnit, OnNode, BootRecover, Begin, At, durable, Captured
    <2>4. ASSUME NEW c \in Candidate, OperatorRollback(c) PROVE <1>2
      BY <1>1, <2>4 DEF OperatorRollback, Rollback, Begin, At, IdleProcess, durable
    <2> QED BY <2>1, <2>2, <2>3, <2>4
  <1> QED BY <1>1, <1>2 DEF OwnershipOK, ApplyOK, OpenApply, In

(* Steps of a play that leave the agent alone, and its death.               *)
LEMMA PlaysKeepNodeInv ==
  ASSUME NodeRuntime, NodeInv, UNCHANGED agent,
         \/ Inspect \/ ReconcileFails \/ VerifyAndClean \/ PlayDies \/ NodeReboots
         \/ \E c \in Candidate : StartActivation(c) \/ StartRecovery(c)
  PROVE  OwnershipOK' /\ ApplyOK'
  <1>1. PlayOK /\ OwnershipOK /\ ApplyOK
    BY DEF NodeInv
  <1>2. CASE NodeReboots
    <2>1. Nil # "activate"
      BY RuntimeConstants DEF Ops
    <2> QED BY <1>1, <1>2, <2>1 DEF NodeReboots, Reboot, durable, IdleProcess, NoPlay,
               OwnershipOK, ApplyOK, OpenApply, In
  <1>3. ASSUME UNCHANGED vars,
               \/ play' = NoPlay
               \/ play'.step \in {"stage"}
               \/ play'.step = "runtime" /\ play'.kind = "recover"
        PROVE OwnershipOK' /\ ApplyOK'
    BY <1>1, <1>3 DEF vars, NoPlay, OwnershipOK, ApplyOK, OpenApply, In
  <1>4. CASE Inspect /\ ~PlayFails
    <2>1. UNCHANGED vars /\ journal = Nil /\ play'.step = "reconcile" /\ proc.op # "activate"
      BY <1>1, <1>4 DEF Inspect, RuntimeStatusOK, OwnershipOK, In, PlayOK, PlayRecords
    <2> QED BY <1>1, <2>1 DEF vars, OwnershipOK, ApplyOK, OpenApply, In
  <1>5. ASSUME NEW c \in Candidate, StartActivation(c) \/ StartRecovery(c)
        PROVE OwnershipOK' /\ ApplyOK'
    BY <1>3, <1>5 DEF StartActivation, StartRecovery, NoPlay
  <1> QED BY <1>2, <1>3, <1>4, <1>5
      DEF Inspect, ReconcileFails, VerifyAndClean, PlayDies, PlayFails

(* Steps of a play that move the agent.                                     *)
LEMMA AgentKeepsNodeInv ==
  ASSUME NodeRuntime, NodeInv, StageCandidate \/ ReconcileActivation \/ ReconcileRecovery
  PROVE  OwnershipOK' /\ ApplyOK'
  <1>1. PlayOK /\ OwnershipOK /\ ApplyOK /\ AgentFacts
    BY DEF NodeInv
  <1>2. proc.op = "activate" => proc.cand \in Candidate
    BY DEF NodeRuntime, RuntimeInv, RequestOK
  <1>3. OpenApply => journal.target \in Candidate
    BY DEF NodeRuntime, LineageInv, OpenApply
  <1>4. Bootstrap \notin Candidate
    BY ManifestConstants
  <1>5. CASE StageCandidate
    <2>1. CASE A!CanStage(play.cand)
      <3>1. /\ agent.pending = Bootstrap /\ play'.step = "runtime"
            /\ play'.cand = play.cand /\ play'.kind = "activate"
        BY <1>1, <1>5, <2>1 DEF StageCandidate, A!CanStage, PlayOK, PlayRecords, In
      <3>2. agent'.pending = play.cand
        BY <1>1, <1>5, <2>1 DEF StageCandidate, A!Stage, AgentFacts, A!AgentState
      <3>3. proc.op # "activate" /\ ~OpenApply
        BY <1>1, <1>2, <1>3, <1>4, <3>1 DEF OwnershipOK, ApplyOK
      <3> QED BY <1>1, <1>5, <3>1, <3>2, <3>3 DEF StageCandidate, vars, OwnershipOK, ApplyOK,
                 OpenApply, In
    <2>2. CASE ~A!CanStage(play.cand)
      BY <1>1, <1>5, <2>2 DEF StageCandidate, PlayFails, NoPlay, vars, OwnershipOK, ApplyOK,
         OpenApply, In
    <2> QED BY <2>1, <2>2
  <1>6. CASE ReconcileActivation \/ ReconcileRecovery
    <2>1. play.step = "reconcile" /\ play'.step \in {"none", "verify"} /\ UNCHANGED vars
      BY <1>1, <1>6 DEF ReconcileActivation, ReconcileRecovery, NoPlay, In, PlayOK,
         PlayRecords
    <2>2. proc.op # "activate" /\ ~OpenApply
      BY <1>1, <2>1 DEF OwnershipOK, ApplyOK
    <2> QED BY <2>1, <2>2 DEF vars, OwnershipOK, ApplyOK, OpenApply, In
  <1> QED BY <1>5, <1>6

(* Every step of the node.                                                  *)
LEMMA NodeInvKept ==
  ASSUME NodeRuntime, NodeInv, Steps \/ Crash => NodeMoves, PrintedOutcomeIsTrue',
          [ActivationNext]_allVars
  PROVE  OwnershipOK' /\ ApplyOK'
  <1>1. PlayOK /\ OwnershipOK /\ ApplyOK
    BY DEF NodeInv
  <1>2. CASE NodeStep
    <2>1. CASE HelperStep \/ OnNode(Crash)
      BY <2>1, MovesKeepNodeInv DEF HelperStep, OnNode
    <2>2. ASSUME NEW s \in Services, StartJob(s) \/ OnNode(QueueStart(s))
          PROVE OwnershipOK' /\ ApplyOK'
      BY <2>2, JobsKeepNodeInv DEF StartJob, OnNode, RunStartJob, QueueStart, durable
    <2>3. CASE BootUnit
      BY <2>3, BeginsKeepNodeInv DEF BootUnit, OnNode
    <2> QED BY <1>2, <2>1, <2>2, <2>3 DEF NodeStep
  <1>3. CASE UNCHANGED allVars
    BY <1>1, <1>3 DEF allVars, vars, OwnershipOK, ApplyOK, OpenApply, In
  <1>4. ASSUME NEW c \in Candidate,
                          StartActivation(c) \/ StartRecovery(c) \/ OperatorRollback(c)
        PROVE  OwnershipOK' /\ ApplyOK'
    BY <1>4, PlaysKeepNodeInv, BeginsKeepNodeInv DEF StartActivation, StartRecovery,
       OperatorRollback
  <1>5. CASE PlayStep \/ NodeReboots \/ PlayDies
    BY <1>5, PlaysKeepNodeInv, BeginsKeepNodeInv, AgentKeepsNodeInv DEF PlayStep,
       NodeReboots, PlayDies, InvokeRuntime, InvokeRecover, Inspect, ReconcileFails,
       VerifyAndClean
  <1> QED BY <1>2, <1>3, <1>4, <1>5 DEF ActivationNext

(* The invariants of the node hold.                                         *)
LEMMA NodeInvHolds == ActivationSpec => []NodeInv
  <1>1. P!AgentInv => AgentFacts
    BY AgentInvFacts
  <1>2. ActivationInit => OwnershipOK /\ ApplyOK
    <2>1. Nil # "activate"
      BY RuntimeConstants DEF Ops
    <2> QED BY <2>1 DEF ActivationInit, Init, IdleProcess, NoPlay, OwnershipOK, ApplyOK,
               OpenApply, In
  <1>3. ASSUME NodeRuntime, NodeRuntime', NodeInv, [ActivationNext]_allVars
        PROVE  OwnershipOK' /\ ApplyOK'
    <2>1. Steps \/ Crash => NodeMoves
      BY <1>3, StepsMove DEF NodeRuntime, RuntimeSafety
    <2>2. PrintedOutcomeIsTrue'
      BY <1>3 DEF NodeRuntime, RuntimeSafety
    <2> QED BY <1>3, <2>1, <2>2, NodeInvKept
  <1> QED BY <1>1, <1>2, <1>3, PlayOKHolds, AgentInvHolds, NodeRuntimeHolds, PTL
      DEF ActivationSpec, NodeInv

(* Every variable of a node keeps its type under every disturbance.         *)
THEOREM ActivationTypesHold == ActivationSpec => []ActivationTypeOK
  <1>1. NodeRuntime /\ NodeInv => ActivationTypeOK
    BY DEF NodeRuntime, RuntimeInv, NodeInv, PlayOK, AgentFacts, ActivationTypeOK
  <1> QED BY <1>1, NodeRuntimeHolds, NodeInvHolds, PTL

(* Whatever kills plays and processes, and whatever operators roll back, an *)
(* apply transaction in progress is the agent's pending candidate replacing *)
(* the agent's LKG.                                                         *)
THEOREM AppliesMatchTheAgent == ActivationSpec => []ApplyMatchesAgent
  <1>1. NodeRuntime /\ NodeInv => ApplyMatchesAgent
    <2> SUFFICES ASSUME NodeRuntime, NodeInv, journal # Nil,
                        journal.operation = "APPLY", ~Committed
                 PROVE  journal.prior = agent.active /\ journal.target = agent.pending
      BY DEF ApplyMatchesAgent
    <2>1. OpenApply
      BY DEF NodeRuntime, RuntimeInv, JournalOK, RuntimeSafety, TargetInv, TargetOK,
         Committed, OpenApply
    <2>2. journal.target \in Candidate /\ Parent[journal.target] = journal.prior
      BY DEF NodeRuntime, LineageInv
    <2>3. journal.target = agent.pending
      BY <2>1 DEF NodeInv, ApplyOK
    <2> QED BY <2>2, <2>3, ManifestConstants DEF NodeInv, AgentFacts
  <1> QED BY <1>1, NodeRuntimeHolds, NodeInvHolds, PTL

-----------------------------------------------------------------------------
(* The agreement with what it rests on: only activations are journaled, and *)
(* a play that reconciles knows where the runtime stands.                   *)
AgreeOK ==
  /\ AgentAndRuntimeAgree
  /\ proc.op # "rollback"
  /\ journal # Nil => journal.operation = "APPLY"
  /\ play.step = "reconcile" =>
       /\ journal = Nil /\ proc.pc \in {"idle", "initialize"}
       /\ play.outcome = "COMMIT" => state.active = play.cand
       /\ play.outcome = "ABORT" => state.active = agent.active

(* What is true of a recovery, and of the helper while it switches.         *)
TruthOK ==
  /\ proc.pc \in Switching \cup Restoring =>
       proc.target = agent.pending /\ agent.pending \in Candidate
  /\ state.active = agent.pending /\ state.active # Bootstrap =>
       state.last = SuccessEvidence(state.active)
  /\ In("recover", "inspect") =>
       /\ play.recovery = "COMMITTED_FINALIZED" => state.active = play.cand
       /\ play.recovery = "RECOVERED_TO_PRIOR" => state.active # play.cand
  /\ RecoveryIsTrue

(* The inductive invariant of the node without manual rollbacks.            *)
AgreementInv == AgreeOK /\ TruthOK

(* Steps and deaths of the helper keep the agreement ...                    *)
LEMMA NodeMovesAgree ==
  ASSUME NodeRuntime, NodeInv, AgreementInv, NodeMoves, PrintedOutcomeIsTrue',
          play' = Captured, UNCHANGED agent
  PROVE  AgreeOK'
  <1>1. PlayOK /\ AgentFacts /\ OwnershipOK /\ ApplyOK /\ AgreeOK /\ TruthOK
    BY DEF NodeInv, AgreementInv
  <1>2. proc.op = "activate" =>
          /\ proc.cand = agent.pending /\ agent.pending # Bootstrap
          /\ SeqOf[proc.cand] = agent.highest
    BY <1>1, ManifestConstants DEF NodeRuntime, RuntimeInv, RequestOK, OwnershipOK,
       AgentFacts
  <1>3. AgentAndRuntimeAgree'
    <2>1. state'.active \in {agent.active} \cup ({agent.pending} \ {Bootstrap})
      BY <1>1, <1>2 DEF NodeMoves, StateMoves, AgreeOK, AgentAndRuntimeAgree
    <2>2. agent.highest \in Nat
      BY <1>1 DEF AgentFacts
    <2>3. state'.highest <= agent.highest
      BY <1>1, <1>2, <2>2 DEF NodeMoves, StateMoves, AgreeOK, AgentAndRuntimeAgree
    <2> QED BY <2>1, <2>3 DEF AgentAndRuntimeAgree
  <1>4. proc'.op # "rollback"
    BY <1>1, RuntimeConstants DEF NodeMoves, RequestMoves, AgreeOK, Ops
  <1>5. journal' # Nil => journal'.operation = "APPLY"
    BY <1>1 DEF NodeMoves, ApplyMoves, AgreeOK
  <1>6. ASSUME play'.step = "reconcile"
        PROVE /\ journal' = Nil /\ proc'.pc \in {"idle", "initialize"}
              /\ play'.outcome = "COMMIT" => state'.active = play'.cand
              /\ play'.outcome = "ABORT" => state'.active = agent.active
    <2>1. CASE play' = play
      <3>1. journal = Nil /\ proc.pc = "initialize" /\ proc.op \notin {"activate", "rollback"}
        BY <1>1, <1>6, <2>1 DEF AgreeOK, OwnershipOK, NodeMoves, RequestMoves
      <3>2. journal' = Nil /\ state' = state /\ proc'.pc = "idle"
        BY <3>1 DEF NodeMoves, Quiet
      <3> QED BY <1>1, <1>6, <2>1, <3>2 DEF AgreeOK
    <2>2. CASE play' = NoPlay
      BY <1>6, <2>2 DEF NoPlay
    <2>3. CASE /\ play.step = "await" /\ play.kind = "activate" /\ proc'.pc = "idle"
               /\ play'.cand = play.cand /\ result'.release = play.cand
               /\ \/ play'.outcome = "COMMIT" /\ result'.status = "APPLIED_HEALTHY"
                  \/ play'.outcome = "ABORT" /\ result'.status \in {"PREFLIGHT_FAILED",
                                        "ROLLED_BACK"}
      <3>1. journal' = Nil
        BY <2>3 DEF NodeMoves, EndsQuietly, PrintedOutcomeIsTrue, At
      <3>2. result'.status = "APPLIED_HEALTHY" <=> result'.release = state'.active
        BY <2>3 DEF NodeMoves, EndsQuietly, PrintedOutcomeIsTrue, At
      <3>3. play.cand = agent.pending
        BY <1>1, <2>3 DEF OwnershipOK
      <3> QED BY <1>3, <2>3, <3>1, <3>2, <3>3 DEF AgentAndRuntimeAgree
    <2> QED BY <1>1, <1>6, <2>1, <2>2, <2>3, CapturedCases
  <1> QED BY <1>3, <1>4, <1>5, <1>6 DEF AgreeOK

(* ... and what recoveries rest on.                                         *)
LEMMA NodeMovesTrue ==
  ASSUME NodeRuntime, NodeInv, AgreementInv, NodeMoves, PrintedOutcomeIsTrue',
          play' = Captured, UNCHANGED agent
  PROVE  TruthOK'
  <1>1. PlayOK /\ AgentFacts /\ OwnershipOK /\ ApplyOK /\ AgreeOK /\ TruthOK
    BY DEF NodeInv, AgreementInv
  <1>2. proc.op = "activate" => proc.cand = agent.pending /\ agent.pending \in Candidate
    BY <1>1 DEF NodeRuntime, RuntimeInv, RequestOK, OwnershipOK
  <1>3. proc'.pc \in Switching \cup Restoring =>
          proc'.target = agent.pending /\ agent.pending \in Candidate
    <2>1. OpenApply => journal.target = agent.pending /\ agent.pending \in Candidate
      BY <1>1 DEF NodeRuntime, LineageInv, OpenApply, ApplyOK
    <2> QED BY <1>1, <1>2, <2>1 DEF NodeMoves, ApplyMoves, AgreeOK, TruthOK
  <1>4. state'.active = agent.pending /\ state'.active # Bootstrap =>
          state'.last = SuccessEvidence(state'.active)
    BY <1>1, <1>2 DEF NodeMoves, StateMoves, AgreeOK, TruthOK
  <1>5. ASSUME play' = play, play.kind = "recover"
        PROVE  /\ play.step = "inspect" => state'.active = state.active
               /\ play.step = "reconcile" => state' = state
    <2>1. play.step = "inspect" => proc.op \notin {"activate", "rollback"}
      BY <1>1 DEF OwnershipOK, AgreeOK
    <2>2. CASE play.step = "reconcile"
      <3>1. journal = Nil /\ proc.pc = "initialize" /\ proc.op \notin {"activate", "rollback"}
        BY <1>1, <2>2 DEF AgreeOK, OwnershipOK, NodeMoves, RequestMoves
      <3> QED BY <2>2, <3>1 DEF NodeMoves, Quiet
    <2> QED BY <2>1, <2>2 DEF NodeMoves, StateMoves
  <1>6. In("recover", "inspect")' =>
         /\ play'.recovery = "COMMITTED_FINALIZED" => state'.active = play'.cand
         /\ play'.recovery = "RECOVERED_TO_PRIOR" => state'.active # play'.cand
    <2>1. CASE play' = play
      BY <1>1, <1>5, <2>1 DEF In, TruthOK
    <2>2. CASE play' = NoPlay
      BY <2>2 DEF In, NoPlay
    <2>3. CASE play'.kind = "activate"
      BY <2>3 DEF In
    <2>4. CASE /\ proc'.pc = "idle" /\ play'.cand = play.cand
               /\ play'.recovery = result'.status
               /\ \/ result'.status = "NO_RECOVERY"
                  \/ /\ result'.status \in {"COMMITTED_FINALIZED", "RECOVERED_TO_PRIOR"}
                     /\ result'.release = play.cand
      BY <2>4 DEF PrintedOutcomeIsTrue, At
    <2> QED BY <1>1, <2>1, <2>2, <2>3, <2>4, CapturedCases
  <1>7. RecoveryIsTrue'
    <2>1. CASE play' = play
      BY <1>1, <1>5, <2>1 DEF In, TruthOK, RecoveryIsTrue, RecoveryOutcomeLegal,
         CommitNamesOriginalEvidence, Target
    <2>2. CASE ~In("recover", "reconcile")'
      BY <2>2 DEF In, RecoveryIsTrue, RecoveryOutcomeLegal, CommitNamesOriginalEvidence
    <2>3. CASE play' = NoPlay
      BY <2>2, <2>3 DEF In, NoPlay
    <2> QED BY <1>1, <2>1, <2>2, <2>3, CapturedCases DEF In
  <1> QED BY <1>3, <1>4, <1>6, <1>7 DEF TruthOK

(* The classification of an inspected node: it is legal, and names the      *)
(* outcome that happened, unless another candidate used up the sequence.    *)
LEMMA OutcomeIsLegal ==
  ASSUME TypeOK, NodeInv, AgreementInv, In("recover", "inspect"), RuntimeStatusOK, AgentStatusOK
  PROVE  /\ Outcome = "INVALID" \/ ~AgreesWithRecovery(Outcome) =>
              \/ agent.highest < Target /\ state.highest < agent.highest
              \/ \E r \in {agent.active, agent.aborted} \ {play.cand} : Seq0(r) = Target
         /\ Outcome = "COMMIT" =>
              state.active = play.cand /\ state.last = SuccessEvidence(play.cand)
         /\ Outcome = "ABORT" => state.active = agent.active
  <1>1. PlayOK /\ AgentFacts /\ AgreeOK /\ TruthOK
    BY DEF NodeInv, AgreementInv
  <1>2. /\ play.cand \in Candidate /\ play.cand # Bootstrap
        /\ Target \in Nat /\ Target > 0 /\ agent.highest \in Nat
    BY <1>1, ManifestConstants DEF In, PlayOK, AgentFacts, Target
  <1>3. /\ state.active \in {agent.active, agent.pending}
        /\ agent.pending = Bootstrap => state.active = agent.active
        /\ state.highest <= agent.highest
    BY <1>1 DEF AgreeOK, AgentAndRuntimeAgree
  <1>4. /\ play.recovery = "COMMITTED_FINALIZED" => state.active = play.cand
        /\ play.recovery = "RECOVERED_TO_PRIOR" => state.active # play.cand
        /\ play.recovery \in {"NO_RECOVERY", "COMMITTED_FINALIZED", "RECOVERED_TO_PRIOR"}
    BY <1>1 DEF TruthOK, In, PlayOK, PlayRecords
  <1>5. CASE agent.highest = 0
    <2>1. agent.active = Bootstrap /\ NoRecovery /\ state.highest = 0 /\ state.active = Bootstrap
      BY <1>1, <1>5 DEF AgentStatusOK, AgentFacts, A!NoAgentState
    <2>2. Outcome = "PRE_STAGE_CLEANUP"
      BY <1>2, <1>5, <2>1 DEF Outcome, PreStageDebris, RuntimeMatchesLkg
    <2> QED BY <2>1, <2>2 DEF AgreesWithRecovery, NoRecovery
  <1>6. CASE agent.highest > 0 /\ agent.pending # Bootstrap
    <2>1. agent.highest = Target /\ agent.pending = play.cand
      BY <1>2, <1>6 DEF AgentStatusOK
    <2>2. ~PreStageDebris
      BY <1>6 DEF PreStageDebris
    <2>3. CASE state.active = play.cand
      <3>1. Outcome = "COMMIT" /\ state.last = SuccessEvidence(play.cand)
        BY <1>1, <1>2, <2>1, <2>2, <2>3 DEF Outcome, TruthOK
      <3> QED BY <1>4, <2>3, <3>1 DEF AgreesWithRecovery
    <2>4. CASE state.active # play.cand
      <3>1. Outcome = "ABORT" /\ state.active = agent.active
        BY <1>3, <2>1, <2>2, <2>4 DEF Outcome, RuntimeMatchesLkg
      <3> QED BY <1>4, <2>4, <3>1 DEF AgreesWithRecovery
    <2> QED BY <2>3, <2>4
  <1>7. CASE agent.highest > 0 /\ agent.pending = Bootstrap /\ agent.highest < Target
    <2>1. RuntimeMatchesLkg /\ state.highest < Target /\ NoRecovery
      BY <1>1, <1>2, <1>3, <1>7, FieldTypes DEF RuntimeMatchesLkg, RuntimeStatusOK
    <2>2. CASE state.highest = agent.highest
      <3>1. Outcome = "PRE_STAGE_CLEANUP"
        BY <1>7, <2>1, <2>2 DEF Outcome, PreStageDebris
      <3> QED BY <2>1, <3>1 DEF AgreesWithRecovery, NoRecovery
    <2>3. CASE state.highest # agent.highest
      <3>1. state.highest < agent.highest
        BY <1>2, <1>3, <2>3, FieldTypes
      <3>2. Outcome \notin {"COMMIT", "ABORT"}
        BY <1>2, <1>7 DEF Outcome
      <3> QED BY <1>7, <3>1, <3>2
    <2> QED BY <2>2, <2>3
  <1>8. CASE agent.highest > 0 /\ agent.pending = Bootstrap /\ agent.highest = Target
    <2>1. RuntimeMatchesLkg /\ ~PreStageDebris /\ Outcome \notin {"COMMIT", "ABORT"}
      BY <1>2, <1>3, <1>8 DEF RuntimeMatchesLkg, PreStageDebris, Outcome
    <2>2. \E r \in {agent.active, agent.aborted} : Seq0(r) = Target
      BY <1>1, <1>2, <1>8 DEF AgentFacts, Seq0
    <2>3. CASE agent.active = play.cand
      <3>1. Outcome = "ALREADY_COMMITTED"
        BY <1>2, <1>8, <2>1, <2>3 DEF Outcome, RuntimeMatchesLkg
      <3>2. play.recovery # "RECOVERED_TO_PRIOR"
        BY <1>4, <2>1, <2>3 DEF RuntimeMatchesLkg
      <3> QED BY <3>1, <3>2 DEF AgreesWithRecovery
    <2>4. CASE agent.active # play.cand /\ agent.aborted = play.cand
      <3>1. Outcome = "ALREADY_ABORTED"
        BY <1>2, <1>8, <2>1, <2>4 DEF Outcome, RuntimeMatchesLkg
      <3>2. play.recovery # "COMMITTED_FINALIZED"
        BY <1>4, <2>1, <2>4 DEF RuntimeMatchesLkg
      <3> QED BY <3>1, <3>2 DEF AgreesWithRecovery
    <2>5. CASE agent.active # play.cand /\ agent.aborted # play.cand
      BY <2>1, <2>2, <2>5
    <2> QED BY <2>3, <2>4, <2>5
  <1>9. agent.highest <= Target
    BY <1>2 DEF AgentStatusOK
  <1> QED BY <1>2, <1>5, <1>6, <1>7, <1>8, <1>9

(* The inspection of a recovery.                                            *)
LEMMA InspectKeepsAgreement ==
  ASSUME NodeRuntime, NodeInv, AgreementInv, Inspect
  PROVE  AgreementInv'
  <1>1. PlayOK /\ AgreeOK /\ TruthOK
    BY DEF NodeInv, AgreementInv
  <1>2. CASE PlayFails
    BY <1>1, <1>2 DEF Inspect, PlayFails, NoPlay, vars, AgreementInv, AgreeOK, TruthOK,
       AgentAndRuntimeAgree, In, RecoveryIsTrue, RecoveryOutcomeLegal,
       CommitNamesOriginalEvidence
  <1>3. CASE ~PlayFails
    <2> DEFINE o == IF AgreesWithRecovery(Outcome) THEN Outcome ELSE "INVALID"
    <2>1. RuntimeStatusOK /\ AgentStatusOK /\ play' = [play EXCEPT !.step = "reconcile",
            !.outcome = o]
      BY <1>3 DEF Inspect
    <2>2. /\ play'.step = "reconcile" /\ play'.outcome = o /\ play'.cand = play.cand
      BY <1>1, <2>1 DEF PlayOK, PlayRecords
    <2>3. UNCHANGED <<state, journal, proc, agent>> /\ journal = Nil /\ proc.pc = "idle"
      BY <2>1 DEF Inspect, vars, RuntimeStatusOK, At
    <2>4. Target' = Target
      BY <2>2 DEF Target
    <2>5. AgreeOK'
      BY <1>1, <2>1, <2>2, <2>3, OutcomeIsLegal DEF AgreeOK, AgentAndRuntimeAgree, Inspect,
         NodeRuntime, RuntimeInv
    <2>6. RecoveryIsTrue'
      BY <1>1, <2>1, <2>2, <2>3, <2>4, OutcomeIsLegal DEF RecoveryIsTrue,
         RecoveryOutcomeLegal, CommitNamesOriginalEvidence, Inspect, NodeRuntime, RuntimeInv
    <2>7. TruthOK'
      BY <1>1, <2>2, <2>3, <2>6 DEF TruthOK, In
    <2> QED BY <2>5, <2>7 DEF AgreementInv
  <1> QED BY <1>2, <1>3

(* Commands that begin: none of them is a manual rollback.                  *)
LEMMA BeginsKeepAgreement ==
  ASSUME "rollback" \notin Disturbances, NodeRuntime, NodeInv, AgreementInv, UNCHANGED agent,
         \/ InvokeRuntime \/ InvokeRecover \/ BootUnit
         \/ \E c \in Candidate : OperatorRollback(c)
  PROVE  AgreementInv'
  <1>1. PlayOK /\ OwnershipOK /\ AgreeOK /\ TruthOK
    BY DEF NodeInv, AgreementInv
  <1>2. /\ UNCHANGED <<journal, state>>
        /\ proc'.op # "rollback" /\ proc'.pc = "initialize"
        /\ play' = play \/ play'.step = "await"
    <2>1. CASE InvokeRuntime
      BY <1>1, <2>1 DEF InvokeRuntime, Activate, Begin, durable
    <2>2. CASE InvokeRecover
      BY <1>1, <2>2 DEF InvokeRecover, Recover, Begin, durable
    <2>3. CASE BootUnit
      BY <1>1, <2>3 DEF BootUnit, OnNode, BootRecover, Begin, durable, Captured
    <2> QED BY <2>1, <2>2, <2>3 DEF OperatorRollback
  <1> QED BY <1>1, <1>2
      DEF AgreementInv, AgreeOK, TruthOK, AgentAndRuntimeAgree, In, RecoveryIsTrue,
          RecoveryOutcomeLegal, CommitNamesOriginalEvidence, Target,
          Switching, SwitchSteps, Restoring

(* Steps of a play that change neither the agent nor the outcome.           *)
LEMMA PlaysKeepAgreement ==
  ASSUME NodeInv, AgreementInv, UNCHANGED agent,
         \/ ReconcileFails \/ VerifyAndClean \/ PlayDies \/ NodeReboots
         \/ \E c \in Candidate : StartActivation(c) \/ StartRecovery(c)
  PROVE  AgreementInv'
  <1>1. AgreeOK /\ TruthOK
    BY DEF AgreementInv
  <1>2. play'.step \in {"none", "stage", "runtime"}
    <2>1. CASE ReconcileFails \/ VerifyAndClean \/ PlayDies \/ NodeReboots
      BY <2>1 DEF ReconcileFails, VerifyAndClean, PlayDies, NodeReboots, PlayFails, NoPlay
    <2>2. ASSUME NEW c \in Candidate, StartActivation(c) \/ StartRecovery(c)
          PROVE  play'.step \in {"stage", "runtime"}
      BY <2>2 DEF StartActivation, StartRecovery, NoPlay
    <2> QED BY <2>1, <2>2
  <1>3. UNCHANGED <<journal, state>> /\ (proc' = proc \/ proc' = IdleProcess)
    BY DEF ReconcileFails, VerifyAndClean, PlayDies, NodeReboots, StartActivation,
       StartRecovery, vars, Reboot, durable
  <1>4. IdleProcess.op # "rollback" /\ IdleProcess.pc = "idle"
    BY RuntimeConstants DEF IdleProcess, Ops
  <1> QED BY <1>1, <1>2, <1>3, <1>4
      DEF AgreementInv, AgreeOK, TruthOK, AgentAndRuntimeAgree, In, RecoveryIsTrue,
          RecoveryOutcomeLegal, CommitNamesOriginalEvidence,
          Switching, SwitchSteps, Restoring

(* A candidate is staged over a settled one.                                *)
LEMMA StageKeepsAgreement ==
  ASSUME NodeRuntime, NodeInv, AgreementInv, StageCandidate
  PROVE  AgreementInv'
  <1>1. PlayOK /\ AgentFacts /\ AgreeOK /\ TruthOK
    BY DEF NodeInv, AgreementInv
  <1>2. UNCHANGED <<journal, state, proc>> /\ play'.step \in {"none", "runtime"}
    BY <1>1 DEF StageCandidate, vars, PlayFails, NoPlay, PlayOK, PlayRecords
  <1>3. CASE A!CanStage(play.cand)
    <2>1. /\ agent'.pending = play.cand /\ agent'.active = agent.active
          /\ agent'.highest = SeqOf[play.cand] /\ SeqOf[play.cand] > agent.highest
          /\ agent.pending = Bootstrap /\ play.cand \in Candidate /\ play.cand # Bootstrap
          /\ SeqOf[play.cand] \in Nat /\ agent.highest \in Nat
      BY <1>1, <1>3, ManifestConstants DEF StageCandidate, A!Stage, A!CanStage, AgentFacts,
         A!AgentState, In, PlayOK
    <2>2. state.active = agent.active /\ state.highest <= agent.highest
      BY <1>1, <2>1 DEF AgreeOK, AgentAndRuntimeAgree
    <2>3. state.active # play.cand
      BY <1>1, <2>1, <2>2 DEF AgentFacts, Seq0
    <2>4. proc.pc \notin Switching \cup Restoring
      BY <1>1, <2>1, ManifestConstants DEF TruthOK
    <2>5. AgentAndRuntimeAgree'
      BY <1>2, <2>1, <2>2, FieldTypes DEF AgentAndRuntimeAgree, NodeRuntime, RuntimeInv
    <2>6. AgreeOK'
      BY <1>1, <1>2, <2>5 DEF AgreeOK
    <2>7. TruthOK'
      BY <1>2, <2>1, <2>3, <2>4 DEF TruthOK, In, RecoveryIsTrue, RecoveryOutcomeLegal,
         CommitNamesOriginalEvidence
    <2> QED BY <2>6, <2>7 DEF AgreementInv
  <1>4. CASE ~A!CanStage(play.cand)
    <2>1. UNCHANGED agent
      BY <1>4 DEF StageCandidate
    <2> QED BY <1>1, <1>2, <2>1
        DEF AgreementInv, AgreeOK, TruthOK, AgentAndRuntimeAgree, In, RecoveryIsTrue,
            RecoveryOutcomeLegal, CommitNamesOriginalEvidence
  <1> QED BY <1>3, <1>4

(* The agent commits or aborts what the runtime did.                        *)
LEMMA ReconcileKeepsAgreement ==
  ASSUME NodeRuntime, NodeInv, AgreementInv, ReconcileActivation \/ ReconcileRecovery
  PROVE  AgreementInv'
  <1>1. PlayOK /\ AgentFacts /\ AgreeOK /\ TruthOK
    BY DEF NodeInv, AgreementInv
  <1>2. /\ UNCHANGED <<journal, state, proc>> /\ play'.step \in {"none", "verify"}
        /\ play.step = "reconcile"
    BY <1>1 DEF ReconcileActivation, ReconcileRecovery, In, vars, NoPlay, PlayOK,
       PlayRecords
  <1>3. journal = Nil /\ proc.pc \in {"idle", "initialize"} /\ proc.op # "rollback"
    BY <1>1, <1>2 DEF AgreeOK
  <1>4. \/ UNCHANGED agent
        \/ agent'.pending = Bootstrap /\ agent'.highest = agent.highest /\ agent'.active = state.active
    <2>1. CASE play.outcome = "COMMIT" /\ A!CommitPending(play.cand)
      BY <1>1, <1>2, <2>1 DEF A!CommitPending, AgreeOK, AgentFacts, A!AgentState
    <2>2. CASE play.outcome = "ABORT" /\ A!AbortPending(play.cand)
      BY <1>1, <1>2, <2>2 DEF A!AbortPending, AgreeOK, AgentFacts, A!AgentState
    <2> QED BY <2>1, <2>2 DEF ReconcileActivation, ReconcileRecovery, CommitFromStatus
  <1>5. AgentAndRuntimeAgree'
    BY <1>1, <1>2, <1>4 DEF AgentAndRuntimeAgree, AgreeOK
  <1>6. AgreeOK'
    BY <1>1, <1>2, <1>3, <1>5 DEF AgreeOK
  <1>7. TruthOK'
    BY <1>1, <1>2, <1>3, <1>4 DEF TruthOK, In, RecoveryIsTrue, RecoveryOutcomeLegal,
       CommitNamesOriginalEvidence, Switching, SwitchSteps, Restoring
  <1> QED BY <1>6, <1>7 DEF AgreementInv

(* Start jobs.                                                              *)
LEMMA JobsKeepAgreement ==
  ASSUME NodeInv, AgreementInv, UNCHANGED <<proc, journal, state, agent>>,
          play' = Captured \/ play' = play
  PROVE  AgreementInv'
  <1>1. PlayOK /\ OwnershipOK /\ AgreeOK /\ TruthOK
    BY DEF NodeInv, AgreementInv
  <1>2. play' = play
    BY <1>1 DEF Captured, OwnershipOK
  <1> QED BY <1>1, <1>2 DEF AgreementInv, AgreeOK, TruthOK, AgentAndRuntimeAgree, In,
             RecoveryIsTrue,
          RecoveryOutcomeLegal, CommitNamesOriginalEvidence, Target

(* Every step of the node.                                                  *)
LEMMA AgreementKept ==
  ASSUME "rollback" \notin Disturbances, NodeRuntime, NodeInv, AgreementInv,
         Steps \/ Crash => NodeMoves, PrintedOutcomeIsTrue', [ActivationNext]_allVars
  PROVE  AgreementInv'
  <1>1. CASE NodeStep
    <2>1. CASE HelperStep \/ OnNode(Crash)
      BY <2>1, NodeMovesAgree, NodeMovesTrue DEF HelperStep, OnNode, AgreementInv
    <2>2. ASSUME NEW s \in Services, StartJob(s) \/ OnNode(QueueStart(s))
          PROVE AgreementInv'
      BY <2>2, JobsKeepAgreement DEF StartJob, OnNode, RunStartJob, QueueStart, durable
    <2>3. CASE BootUnit
      BY <2>3, BeginsKeepAgreement DEF BootUnit, OnNode
    <2> QED BY <1>1, <2>1, <2>2, <2>3 DEF NodeStep
  <1>2. CASE UNCHANGED allVars
    BY <1>2, JobsKeepAgreement DEF allVars, vars
  <1>3. ASSUME NEW c \in Candidate,
                          StartActivation(c) \/ StartRecovery(c) \/ OperatorRollback(c)
        PROVE  AgreementInv'
    BY <1>3, PlaysKeepAgreement, BeginsKeepAgreement DEF StartActivation, StartRecovery,
       OperatorRollback
  <1>4. CASE PlayStep \/ NodeReboots \/ PlayDies
    BY <1>4, PlaysKeepAgreement, BeginsKeepAgreement, InspectKeepsAgreement,
       StageKeepsAgreement, ReconcileKeepsAgreement DEF PlayStep, NodeReboots, PlayDies,
       InvokeRuntime, InvokeRecover, ReconcileFails, VerifyAndClean
  <1> QED BY <1>1, <1>2, <1>3, <1>4 DEF ActivationNext

(* The agreement holds where no operator rolls the runtime back by hand.    *)
LEMMA AgreementHolds ==
  ASSUME "rollback" \notin Disturbances
  PROVE  ActivationSpec => []AgreementInv
  <1>1. ActivationInit => AgreementInv
    <2>1. Nil # "rollback" /\ Nil \notin Evidence
      BY RuntimeConstants DEF Ops
    <2> QED BY <2>1
        DEF ActivationInit, Init, IdleProcess, NoPlay, A!NoAgentState, AgreementInv, AgreeOK,
            TruthOK, AgentAndRuntimeAgree, In, RecoveryIsTrue, RecoveryOutcomeLegal,
            CommitNamesOriginalEvidence, Switching, SwitchSteps, Restoring
  <1>2. ASSUME NodeRuntime, NodeRuntime', NodeInv, AgreementInv, [ActivationNext]_allVars
        PROVE  AgreementInv'
    <2>1. Steps \/ Crash => NodeMoves
      BY <1>2, StepsMove DEF NodeRuntime, RuntimeSafety
    <2>2. PrintedOutcomeIsTrue'
      BY <1>2 DEF NodeRuntime, RuntimeSafety
    <2> QED BY <1>2, <2>1, <2>2, AgreementKept
  <1> QED BY <1>1, <1>2, NodeRuntimeHolds, NodeInvHolds, PTL DEF ActivationSpec

(* Unless an operator rolls the runtime back by hand, no crash, power loss, *)
(* stale start job or dead play parts the agent from the runtime: the       *)
(* release the runtime protects is the agent's LKG or its pending candidate,*)
(* and the runtime's replay floor never passes the agent's.                 *)
THEOREM AgentAndRuntimeStayTogether ==
  ASSUME "rollback" \notin Disturbances
  PROVE  ActivationSpec => []AgentAndRuntimeAgree
  <1>1. AgreementInv => AgentAndRuntimeAgree
    BY DEF AgreementInv, AgreeOK
  <1> QED BY <1>1, AgreementHolds, PTL

(* Under the same disturbances the recovery playbook finds a legal outcome  *)
(* wherever an activation stopped, and its commits name the candidate's     *)
(* success evidence.                                                        *)
THEOREM RecoveriesAreTrue ==
  ASSUME "rollback" \notin Disturbances
  PROVE  ActivationSpec => []RecoveryIsTrue
  <1>1. AgreementInv => RecoveryIsTrue
    BY DEF AgreementInv, TruthOK
  <1> QED BY <1>1, AgreementHolds, PTL
=============================================================================
