--------------------------- MODULE EdgeRuntimeProofs ---------------------------
(***************************************************************************)
(* Proofs about EdgeRuntime, for every set of signed manifests: the types, *)
(* that no interruption ever locks the helper out of its own disk, the     *)
(* replay floor, and on them what the node serves, what the protected      *)
(* releases are worth, and what the commands print.                        *)
(***************************************************************************)
EXTENDS EdgeRuntime, TLAPS

(* Every release the disk refers to is a complete directory.                *)
DiskOK ==
  /\ Complete(state.active)
  /\ state.previous # Nil => Complete(state.previous)
  /\ journal # Nil => Complete(journal.prior) /\ Complete(journal.target)

(* A journal explains the pointer: the switch is not committed and may have *)
(* moved it, or it is committed and has.                                    *)
JournalOK ==
  /\ journal = Nil => pointer = state.active
  /\ journal # Nil =>
       \/ /\ state.active = journal.prior
          /\ pointer \in {journal.prior, journal.target}
       \/ state.active = journal.target /\ pointer = journal.target

Building == {"make_dir", "fill_dir", "offline", "preflight_evidence",
             "preflight_state"}

Switching == SwitchSteps \cup {"success_evidence", "commit_state"}

(* What the running process knows: its request, the release it replaces and *)
(* the journal it wrote.                                                    *)
RequestOK ==
  /\ proc.op \in {"activate", "rollback"} => proc.cand \in Candidate
  /\ proc.pc \in {"check"} \cup Building => proc.op = "activate"
  /\ proc.pc = "check_target" => proc.op = "rollback"

ReplacesOK ==
  /\ proc.pc \in Building \cup Switching =>
       proc.prior = state.active /\ proc.target \in Release
  /\ proc.pc \in Building => proc.target = proc.cand
  /\ proc.pc \in {"offline"} \cup Switching => Complete(proc.target)
  /\ proc.pc \in {"restored_unlink", "restored_evidence", "restored_state",
                  "commit_unlink", "failed_evidence"} => proc.target \in Release

OwnJournal ==
  /\ journal # Nil
  /\ journal.prior = proc.prior
  /\ journal.target = proc.target

ProgressOK ==
  /\ proc.pc \in {"check", "check_target", "restored_evidence",
                  "restored_state"} \cup Building => journal = Nil
  /\ proc.pc = "journal" =>
       /\ proc.mode = "switch"
       /\ IF proc.phase = "STAGED" THEN journal = Nil ELSE OwnJournal
  /\ proc.pc \in Switching \ {"journal"} /\ proc.mode = "switch" => OwnJournal
  /\ proc.pc \in {"success_evidence", "commit_state"} =>
       OwnJournal /\ pointer = proc.target
  /\ proc.pc \in {"commit_unlink", "restored_unlink"} => pointer = state.active
  /\ proc.pc = "recover" => journal # Nil
  /\ proc.pc \in {"final_health", "final_unlink"} =>
       journal # Nil /\ pointer = state.active

RuntimeInv ==
  TypeOK /\ DiskOK /\ JournalOK /\ RequestOK /\ ReplacesOK /\ ProgressOK

-----------------------------------------------------------------------------
(* Types of the records.                                                    *)

(* A process record stays one when a field is given a value of its type.    *)
LEMMA FieldUpdates ==
  /\ IdleProcess \in Process
  /\ \A p \in Process, x \in Ops : [p EXCEPT !.op = x] \in Process
  /\ \A p \in Process, x \in Candidate \cup {Nil} : [p EXCEPT !.cand = x] \in Process
  /\ \A p \in Process, x \in Pcs : [p EXCEPT !.pc = x] \in Process
  /\ \A p \in Process, x \in Phases : [p EXCEPT !.phase = x] \in Process
  /\ \A p \in Process, x \in {"switch", "restore"} : [p EXCEPT !.mode = x] \in Process
  /\ \A p \in Process, x \in Release \cup {Nil} : [p EXCEPT !.prior = x] \in Process
  /\ \A p \in Process, x \in Release \cup {Nil} : [p EXCEPT !.target = x] \in Process
  /\ \A p \in Process, x \in BOOLEAN : [p EXCEPT !.recovering = x] \in Process
  /\ \A p \in Process, x \in Operations : [p EXCEPT !.undo = x] \in Process
  <1>1. IdleProcess \in Process
    BY DEF IdleProcess, Process, Pcs, Phases, Operations
  <1>2. /\ \A p \in Process, x \in Ops : [p EXCEPT !.op = x] \in Process
        /\ \A p \in Process, x \in Candidate \cup {Nil} : [p EXCEPT !.cand = x] \in Process
        /\ \A p \in Process, x \in Pcs : [p EXCEPT !.pc = x] \in Process
        /\ \A p \in Process, x \in Phases : [p EXCEPT !.phase = x] \in Process
    BY DEF Process
  <1>3. /\ \A p \in Process, x \in {"switch", "restore"} : [p EXCEPT !.mode = x] \in Process
        /\ \A p \in Process, x \in Release \cup {Nil} : [p EXCEPT !.prior = x] \in Process
        /\ \A p \in Process, x \in Release \cup {Nil} : [p EXCEPT !.target = x] \in Process
    BY DEF Process
  <1>4. /\ \A p \in Process, x \in BOOLEAN : [p EXCEPT !.recovering = x] \in Process
        /\ \A p \in Process, x \in Operations : [p EXCEPT !.undo = x] \in Process
    BY DEF Process
  <1> QED BY <1>1, <1>2, <1>3, <1>4

(* A fresh process record at any point of the code.                         *)
LEMMA StartTypes ==
  ASSUME NEW op \in Ops, NEW pc \in Pcs, NEW c \in Candidate \cup {Nil}
  PROVE  [IdleProcess EXCEPT !.op = op, !.pc = pc, !.cand = c] \in Process
  <1>1. [IdleProcess EXCEPT !.op = op] \in Process
    BY FieldUpdates
  <1>2. [IdleProcess EXCEPT !.op = op, !.pc = pc] \in Process
    BY <1>1, FieldUpdates
  <1> QED BY <1>2, FieldUpdates

(* The types of the fields the steps read.                                  *)
LEMMA FieldTypes ==
  ASSUME TypeOK
  PROVE  /\ state.highest \in Nat /\ state.active \in Release
         /\ state.previous \in Release \cup {Nil}
         /\ state.last \in Evidence \cup {Nil}
         /\ journal # Nil =>
              /\ journal.prior \in Release /\ journal.target \in Release
              /\ journal.operation \in Operations /\ journal.phase \in Phases
         /\ proc.op \in Ops \cup {Nil} /\ proc.cand \in Candidate \cup {Nil}
         /\ proc.pc \in Pcs /\ proc.phase \in Phases
         /\ proc.prior \in Release \cup {Nil} /\ proc.target \in Release \cup {Nil}
         /\ proc.mode \in {"switch", "restore"}
  <1>1. /\ state.highest \in Nat /\ state.active \in Release
        /\ state.previous \in Release \cup {Nil}
        /\ state.last \in Evidence \cup {Nil}
    BY DEF TypeOK, State
  <1>2. journal # Nil =>
          /\ journal.prior \in Release /\ journal.target \in Release
          /\ journal.operation \in Operations /\ journal.phase \in Phases
    BY DEF TypeOK, Transaction
  <1>3. /\ proc.op \in Ops \cup {Nil} /\ proc.cand \in Candidate \cup {Nil}
        /\ proc.pc \in Pcs /\ proc.phase \in Phases
        /\ proc.prior \in Release \cup {Nil} /\ proc.target \in Release \cup {Nil}
        /\ proc.mode \in {"switch", "restore"}
    BY DEF TypeOK, Process
  <1> QED BY <1>1, <1>2, <1>3

(* Every status a step reports is an evidence status, and each of those has *)
(* an agent action.                                                         *)
LEMMA StatusTypes ==
  /\ {"APPLIED_HEALTHY", "MANUAL_HEALTHY", "PREFLIGHT_FAILED", "ROLLED_BACK",
      "RECOVERED_TO_PRIOR", "MANUAL_RECOVERED", "MANUAL_RESTORED",
      "ROLLBACK_FAILED", "MANUAL_RESTORE_FAILED"} \subseteq EvidenceStatus
  /\ SuccessStatus \in EvidenceStatus
  /\ RestoredStatus \in EvidenceStatus
  /\ FailedStatus \in EvidenceStatus
  /\ \A e \in EvidenceStatus : ActionOf[e] \in Actions /\ e \in ResultStatus
  <1>1. {"APPLIED_HEALTHY", "MANUAL_HEALTHY", "PREFLIGHT_FAILED", "ROLLED_BACK",
         "RECOVERED_TO_PRIOR", "MANUAL_RECOVERED", "MANUAL_RESTORED",
         "ROLLBACK_FAILED", "MANUAL_RESTORE_FAILED"} \subseteq EvidenceStatus
    BY DEF EvidenceStatus, ActionOf
  <1>2. \A e \in EvidenceStatus : ActionOf[e] \in Actions /\ e \in ResultStatus
    BY DEF Actions, ResultStatus
  <1> QED BY <1>1, <1>2 DEF SuccessStatus, RestoredStatus, FailedStatus

(* The end of a helper process.                                             *)
LEMMA FinishTypes ==
  ASSUME TypeOK, NEW st \in ResultStatus, NEW r \in Release \cup {Nil},
         Finish(st, r)
  PROVE  proc' \in Process /\ result' \in Result /\ jobs' \subseteq Services
  <1>1. proc' \in Process
    BY FieldUpdates DEF Finish
  <1>2. result' \in Result
    BY FieldTypes DEF Finish, Printed, Result
  <1>3. jobs' \subseteq Services
    BY DEF Finish, TypeOK
  <1> QED BY <1>1, <1>2, <1>3

(* So does one that leaves recovery.                                        *)
LEMMA RecoveredTypes ==
  ASSUME TypeOK, NEW st \in ResultStatus, NEW r \in Release \cup {Nil},
         Recovered(st, r)
  PROVE  proc' \in Process /\ result' \in Result /\ jobs' \subseteq Services
  <1>1. CASE Body = "idle"
    BY <1>1, FinishTypes DEF Recovered
  <1>2. CASE Body # "idle"
    <2>1. proc.op \in Ops /\ Body \in Pcs
      BY <1>2 DEF Body, Ops, Pcs
    <2>2. proc.cand \in Candidate \cup {Nil}
      BY FieldTypes
    <2>3. proc' \in Process
      BY <1>2, <2>1, <2>2, StartTypes DEF Recovered
    <2> QED BY <1>2, <2>3 DEF Recovered, TypeOK
  <1> QED BY <1>1, <1>2

(* The evidence a step writes names its target.                             *)
LEMMA EvidenceTypes ==
  ASSUME TypeOK, NEW st \in EvidenceStatus, proc.target \in Release
  PROVE  EvidenceFor(st) \in Evidence
  BY StatusTypes DEF EvidenceFor, Evidence

(* Writing evidence keeps the types.                                        *)
LEMMA WriteEvidenceTypes ==
  ASSUME TypeOK, NEW st \in EvidenceStatus, NEW next \in Pcs,
         proc.target \in Release, WriteEvidence(st, next)
  PROVE  TypeOK'
  <1>1. evidence' \subseteq Evidence
    BY EvidenceTypes DEF WriteEvidence, TypeOK
  <1>2. proc' \in Process
    BY FieldUpdates DEF WriteEvidence, Goto, TypeOK
  <1> QED BY <1>1, <1>2 DEF WriteEvidence, TypeOK, live

(* Recording evidence in the state keeps the types.                         *)
LEMMA RecordLastTypes ==
  ASSUME TypeOK, NEW st \in EvidenceStatus, proc.target \in Release,
         RecordLast(st)
  PROVE  state' \in State
  BY EvidenceTypes DEF RecordLast, TypeOK, State

-----------------------------------------------------------------------------
(* Each step keeps the types.                                               *)

(* A command that begins keeps the types.                                   *)
LEMMA BeginTypes ==
  ASSUME TypeOK, NEW op \in Ops, NEW c \in Candidate \cup {Nil}, Begin(op, c),
         boot' \in BOOLEAN
  PROVE  TypeOK'
  <1>1. proc' \in Process
    BY StartTypes DEF Begin, Pcs
  <1>2. result' \in Result
    BY DEF Begin, Printed, Result, ResultStatus
  <1> QED BY <1>1, <1>2 DEF Begin, TypeOK, durable, live

(* The commands and the boot unit keep the types.                           *)
LEMMA CommandTypes ==
  ASSUME TypeOK,
         \/ Recover \/ BootRecover
         \/ \E c \in Candidate : Activate(c) \/ Rollback(c)
  PROVE  TypeOK'
  <1>1. CASE Recover
    BY <1>1, BeginTypes DEF Recover, TypeOK, Ops
  <1>2. CASE BootRecover
    BY <1>2, BeginTypes DEF BootRecover, Ops
  <1>3. ASSUME NEW c \in Candidate, Activate(c) \/ Rollback(c) PROVE TypeOK'
    BY <1>3, BeginTypes DEF Activate, Rollback, TypeOK, Ops
  <1> QED BY <1>1, <1>2, <1>3

(* The steps of _initialize and _recover_locked keep the types.             *)
LEMMA RecoveryTypes ==
  ASSUME TypeOK,
         \/ Initialize \/ RecoverFinalize \/ (RecoverToPrior /\ journal # Nil)
         \/ FinalHealth \/ FinalUnlink
  PROVE  TypeOK'
  <1> USE FieldTypes
  <1>1. {"NO_RECOVERY", "REJECTED", "COMMITTED_FINALIZED", "MANUAL_FINALIZED"}
          \subseteq ResultStatus
    BY DEF ResultStatus
  <1>2. CASE Initialize
    <2>1. proc' \in Process /\ result' \in Result /\ jobs' \subseteq Services
      <3>1. CASE Finish("REJECTED", Nil) \/ Finish("NO_RECOVERY", Nil)
        BY <1>1, <3>1, FinishTypes
      <3>2. CASE UNCHANGED <<jobs, result>> /\ \E x \in Pcs : proc' = Goto(x)
        BY <3>2, FieldUpdates DEF TypeOK, Goto
      <3> QED BY <1>2, <3>1, <3>2 DEF Initialize, Raise, Body, Pcs
    <2> QED BY <1>2, <2>1 DEF Initialize, TypeOK, durable
  <1>3. CASE RecoverFinalize \/ FinalHealth
    <2>1. proc' \in Process /\ result' \in Result /\ jobs' \subseteq Services
      <3>1. CASE Finish("REJECTED", Nil)
        BY <1>1, <3>1, FinishTypes
      <3>2. CASE UNCHANGED <<jobs, result>> /\ \E x \in Pcs : proc' = Goto(x)
        BY <3>2, FieldUpdates DEF TypeOK, Goto
      <3> QED BY <1>3, <3>1, <3>2 DEF RecoverFinalize, FinalHealth, Raise, Pcs
    <2> QED BY <1>3, <2>1 DEF RecoverFinalize, FinalHealth, TypeOK, durable
  <1>4. CASE RecoverToPrior /\ journal # Nil
    <2> DEFINE next == IF pointer = journal.target \/ journal.phase # "STAGED"
                       THEN "stop_opensips" ELSE "start_rtpengine"
    <2>1. [proc EXCEPT !.mode = "restore"] \in Process
      BY FieldUpdates DEF TypeOK
    <2>2. [proc EXCEPT !.mode = "restore", !.recovering = TRUE] \in Process
      BY <2>1, FieldUpdates
    <2>3. [proc EXCEPT !.mode = "restore", !.recovering = TRUE,
                       !.prior = journal.prior] \in Process
      BY <1>4, <2>2, FieldUpdates
    <2>4. [proc EXCEPT !.mode = "restore", !.recovering = TRUE,
                       !.prior = journal.prior, !.target = journal.target]
            \in Process
      BY <1>4, <2>3, FieldUpdates
    <2>5. [proc EXCEPT !.mode = "restore", !.recovering = TRUE,
                       !.prior = journal.prior, !.target = journal.target,
                       !.undo = journal.operation] \in Process
      BY <1>4, <2>4, FieldUpdates
    <2>6. next \in Pcs
      BY DEF Pcs
    <2>7. proc' \in Process
      BY <1>4, <2>5, <2>6, FieldUpdates DEF RecoverToPrior
    <2> QED BY <1>4, <2>7 DEF RecoverToPrior, TypeOK, durable, live
  <1>5. CASE FinalUnlink
    <2>1. proc' \in Process /\ result' \in Result /\ jobs' \subseteq Services
      BY <1>1, <1>5, RecoveredTypes DEF FinalUnlink
    <2> QED BY <1>5, <2>1 DEF FinalUnlink, TypeOK
  <1> QED BY <1>2, <1>3, <1>4, <1>5

(* The preparation of activate and rollback keeps the types.                *)
LEMMA ActivateTypes ==
  ASSUME TypeOK, RequestOK, ReplacesOK,
         \/ CheckAccept \/ CheckReject \/ MakeReleaseDir \/ FillReleaseDir
         \/ OfflineValidate \/ PreflightFails \/ PreflightEvidence
         \/ PreflightState \/ CheckTarget
  PROVE  TypeOK'
  <1> USE FieldTypes
  <1>1. CASE CheckAccept
    <2>1. proc.cand \in Candidate
      BY <1>1 DEF CheckAccept, At, RequestOK
    <2>2. SeqOf[proc.cand] \in Nat
      BY <2>1, ManifestConstants
    <2>3. state' \in State
      BY <1>1, <2>2 DEF CheckAccept, TypeOK, State
    <2>4. [proc EXCEPT !.pc = "make_dir"] \in Process
      BY FieldUpdates DEF TypeOK, Pcs
    <2>5. [proc EXCEPT !.pc = "make_dir", !.prior = state.active] \in Process
      BY <2>4, FieldUpdates
    <2>6. proc' \in Process
      BY <1>1, <2>1, <2>5, FieldUpdates DEF CheckAccept, Release
    <2> QED BY <1>1, <2>3, <2>6 DEF CheckAccept, TypeOK, live
  <1>2. CASE CheckReject
    BY <1>2, FinishTypes DEF CheckReject, Raise, ResultStatus, TypeOK, durable
  <1>3. CASE MakeReleaseDir \/ FillReleaseDir
    <2>1. \E x \in Pcs : proc' = Goto(x)
      BY <1>3 DEF MakeReleaseDir, FillReleaseDir, Pcs
    <2>2. proc' \in Process
      BY <2>1, FieldUpdates DEF TypeOK, Goto
    <2> QED BY <1>3, <2>2 DEF MakeReleaseDir, FillReleaseDir, TypeOK, live
  <1>4. CASE OfflineValidate
    <2>1. [proc EXCEPT !.pc = "journal"] \in Process
      BY FieldUpdates DEF TypeOK, Pcs
    <2>2. [proc EXCEPT !.pc = "journal", !.phase = "STAGED"] \in Process
      BY <2>1, FieldUpdates DEF Phases
    <2>3. proc' \in Process
      BY <1>4, <2>2, FieldUpdates DEF OfflineValidate
    <2> QED BY <1>4, <2>3 DEF OfflineValidate, TypeOK, durable, live
  <1>5. CASE PreflightFails
    <2>1. proc' \in Process
      BY <1>5, FieldUpdates DEF PreflightFails, Goto, Pcs, TypeOK
    <2> QED BY <1>5, <2>1 DEF PreflightFails, TypeOK, durable, live
  <1>6. CASE PreflightEvidence
    BY <1>6, WriteEvidenceTypes, StatusTypes
    DEF PreflightEvidence, At, ReplacesOK, Building, Pcs
  <1>7. CASE PreflightState
    <2>1. proc.target \in Release
      BY <1>7 DEF PreflightState, At, ReplacesOK, Building
    <2>2. state' \in State
      BY <1>7, <2>1, RecordLastTypes, StatusTypes DEF PreflightState
    <2>3. proc' \in Process /\ result' \in Result /\ jobs' \subseteq Services
      BY <1>7, FinishTypes, StatusTypes DEF PreflightState
    <2> QED BY <1>7, <2>2, <2>3 DEF PreflightState, TypeOK
  <1>8. CASE CheckTarget
    <2>1. proc' \in Process /\ result' \in Result /\ jobs' \subseteq Services
      <3>1. CASE Raise
        BY <3>1, FinishTypes DEF Raise, ResultStatus
      <3>2. CASE /\ proc' = [proc EXCEPT !.pc = "journal", !.phase = "STAGED",
                               !.mode = "switch", !.prior = state.active,
                               !.target = proc.cand]
                 /\ UNCHANGED <<jobs, result>>
        <4>1. [proc EXCEPT !.pc = "journal"] \in Process
          BY FieldUpdates DEF TypeOK, Pcs
        <4>2. [proc EXCEPT !.pc = "journal", !.phase = "STAGED"] \in Process
          BY <4>1, FieldUpdates DEF Phases
        <4>3. [proc EXCEPT !.pc = "journal", !.phase = "STAGED",
                           !.mode = "switch"] \in Process
          BY <4>2, FieldUpdates
        <4>4. [proc EXCEPT !.pc = "journal", !.phase = "STAGED",
                           !.mode = "switch", !.prior = state.active] \in Process
          BY <4>3, FieldUpdates
        <4>5. proc.cand \in Release \cup {Nil}
          BY DEF Release
        <4> QED BY <3>2, <4>4, <4>5, FieldUpdates DEF TypeOK
      <3> QED BY <1>8, <3>1, <3>2 DEF CheckTarget
    <2> QED BY <1>8, <2>1 DEF CheckTarget, TypeOK, durable
  <1> QED BY <1>1, <1>2, <1>3, <1>4, <1>5, <1>6, <1>7, <1>8

(* The next step of a switch or a restore.                                  *)
LEMMA ThenTypes ==
  ASSUME TypeOK, NEW next \in Pcs, NEW phase \in Phases
  PROVE  Then(next, phase) \in Process
  <1>1. [proc EXCEPT !.pc = "journal"] \in Process
    BY FieldUpdates DEF TypeOK, Pcs
  <1>2. [proc EXCEPT !.pc = "journal", !.phase = phase] \in Process
    BY <1>1, FieldUpdates
  <1>3. Goto(next) \in Process
    BY FieldUpdates DEF TypeOK, Goto
  <1> QED BY <1>2, <1>3 DEF Then

(* A service that starts loads a release.                                   *)
LEMMA StartedTypes ==
  ASSUME TypeOK, NEW s \in Services
  PROVE  Started(s) \in [Services -> Release \cup {Down}]
  BY DEF TypeOK, Started

(* The live steps keep the types.                                           *)
LEMMA SwitchTypes ==
  ASSUME TypeOK, ReplacesOK,
         \/ WriteJournal \/ StopOpensips \/ StopRtpengine \/ PointActive
         \/ ApplyActiveFirewall \/ StartRtpengine \/ StartOpensips
         \/ HealthPasses \/ SwitchFails \/ RestoreFails
  PROVE  TypeOK'
  <1> USE FieldTypes
  <1>1. CASE WriteJournal
    <2>1. proc.prior \in Release /\ proc.target \in Release
      BY <1>1 DEF WriteJournal, At, ReplacesOK, Switching, SwitchSteps
    <2>2. journal' \in Transaction
      BY <1>1, <2>1 DEF WriteJournal, Transaction, Operations
    <2>3. AfterJournal[proc.phase] \in Pcs
      BY DEF AfterJournal, Phases, Pcs
    <2>4. proc' \in Process
      BY <1>1, <2>3, FieldUpdates DEF WriteJournal, Goto, TypeOK
    <2> QED BY <1>1, <2>2, <2>4 DEF WriteJournal, TypeOK, live
  <1>2. CASE StopOpensips
    <2>1. proc' \in Process
      BY <1>2, FieldUpdates DEF StopOpensips, Goto, Pcs, TypeOK
    <2> QED BY <1>2, <2>1 DEF StopOpensips, TypeOK, durable
  <1>3. CASE StopRtpengine
    <2>1. proc' \in Process
      BY <1>3, ThenTypes DEF StopRtpengine, Pcs, Phases
    <2> QED BY <1>3, <2>1 DEF StopRtpengine, TypeOK, durable
  <1>4. CASE PointActive
    <2>1. Goal \in Release
      BY <1>4 DEF PointActive, At, Goal, ReplacesOK, Switching, SwitchSteps
    <2>2. proc' \in Process
      BY <1>4, ThenTypes DEF PointActive, Pcs, Phases
    <2> QED BY <1>4, <2>1, <2>2 DEF PointActive, TypeOK, live
  <1>5. CASE ApplyActiveFirewall
    <2>1. proc' \in Process
      BY <1>5, ThenTypes DEF ApplyActiveFirewall, Pcs, Phases
    <2> QED BY <1>5, <2>1 DEF ApplyActiveFirewall, TypeOK, durable
  <1>6. CASE StartRtpengine
    <2>1. proc' \in Process
      BY <1>6, FieldUpdates DEF StartRtpengine, Goto, Pcs, TypeOK
    <2>2. svc' \in [Services -> Release \cup {Down}]
      BY <1>6, StartedTypes DEF StartRtpengine, Services
    <2> QED BY <1>6, <2>1, <2>2 DEF StartRtpengine, TypeOK, durable
  <1>7. CASE StartOpensips
    <2>1. proc' \in Process
      BY <1>7, ThenTypes DEF StartOpensips, Pcs, Phases
    <2>2. svc' \in [Services -> Release \cup {Down}]
      BY <1>7, StartedTypes DEF StartOpensips, Services
    <2> QED BY <1>7, <2>1, <2>2 DEF StartOpensips, TypeOK, durable
  <1>8. CASE HealthPasses
    <2>1. \E x \in Pcs : proc' = Goto(x)
      BY <1>8 DEF HealthPasses, Pcs
    <2>2. proc' \in Process
      BY <2>1, FieldUpdates DEF TypeOK, Goto
    <2> QED BY <1>8, <2>2 DEF HealthPasses, TypeOK, durable, live
  <1>9. CASE SwitchFails
    <2>1. [proc EXCEPT !.mode = "restore"] \in Process
      BY FieldUpdates DEF TypeOK
    <2>2. proc' \in Process
      BY <1>9, <2>1, FieldUpdates DEF SwitchFails, Pcs
    <2> QED BY <1>9, <2>2 DEF SwitchFails, TypeOK, durable, live
  <1>10. CASE RestoreFails
    <2>1. proc' \in Process /\ result' \in Result /\ jobs' \subseteq Services
      <3>1. CASE Raise
        BY <3>1, FinishTypes DEF Raise, ResultStatus
      <3>2. CASE proc' = Goto("failed_evidence") /\ UNCHANGED <<jobs, result>>
        BY <3>2, FieldUpdates DEF Goto, Pcs, TypeOK
      <3> QED BY <1>10, <3>1, <3>2 DEF RestoreFails
    <2> QED BY <1>10, <2>1 DEF RestoreFails, TypeOK, durable
  <1> QED BY <1>1, <1>2, <1>3, <1>4, <1>5, <1>6, <1>7, <1>8, <1>9, <1>10

(* The writes that end a transaction keep the types.                        *)
LEMMA OutcomeTypes ==
  ASSUME TypeOK, ReplacesOK,
         \/ WriteSuccessEvidence \/ CommitState \/ CommitUnlink
         \/ RestoredUnlink \/ RestoredEvidence \/ RestoredState
         \/ FailedEvidence
  PROVE  TypeOK'
  <1> USE FieldTypes, StatusTypes
  <1>1. CASE WriteSuccessEvidence
    BY <1>1, WriteEvidenceTypes
    DEF WriteSuccessEvidence, At, ReplacesOK, Switching, Pcs
  <1>2. CASE CommitState
    <2>1. proc.target \in Release
      BY <1>2 DEF CommitState, At, ReplacesOK, Switching
    <2>2. EvidenceFor(SuccessStatus) \in Evidence
      BY <2>1, EvidenceTypes
    <2>3. state' \in State
      BY <1>2, <2>1, <2>2 DEF CommitState, State
    <2>4. proc' \in Process
      BY <1>2, FieldUpdates DEF CommitState, Goto, Pcs, TypeOK
    <2> QED BY <1>2, <2>3, <2>4 DEF CommitState, TypeOK, live
  <1>3. CASE CommitUnlink
    <2>1. proc' \in Process /\ result' \in Result /\ jobs' \subseteq Services
      BY <1>3, FinishTypes DEF CommitUnlink
    <2> QED BY <1>3, <2>1 DEF CommitUnlink, TypeOK
  <1>4. CASE RestoredUnlink
    <2>1. proc' \in Process
      BY <1>4, FieldUpdates DEF RestoredUnlink, Goto, Pcs, TypeOK
    <2> QED BY <1>4, <2>1 DEF RestoredUnlink, TypeOK, live
  <1>5. CASE RestoredEvidence
    BY <1>5, WriteEvidenceTypes DEF RestoredEvidence, At, ReplacesOK, Pcs
  <1>6. CASE RestoredState
    <2>1. state' \in State
      BY <1>6, RecordLastTypes DEF RestoredState, At, ReplacesOK
    <2>2. proc' \in Process /\ result' \in Result /\ jobs' \subseteq Services
      BY <1>6, FinishTypes, RecoveredTypes DEF RestoredState
    <2> QED BY <1>6, <2>1, <2>2 DEF RestoredState, TypeOK
  <1>7. CASE FailedEvidence
    <2>1. proc' \in Process /\ result' \in Result /\ jobs' \subseteq Services
      BY <1>7, FinishTypes DEF FailedEvidence
    <2> QED BY <1>7, <2>1 DEF FailedEvidence, TypeOK, durable
  <1> QED BY <1>1, <1>2, <1>3, <1>4, <1>5, <1>6, <1>7

(* Crashes, power loss and systemd keep the types.                          *)
LEMMA EnvironmentTypes ==
  ASSUME TypeOK,
         \/ Crash \/ Reboot
         \/ \E s \in Services : QueueStart(s) \/ RunStartJob(s)
  PROVE  TypeOK'
  <1>1. CASE Crash \/ Reboot
    <2>1. proc' \in Process
      BY <1>1, FieldUpdates DEF Crash, Reboot
    <2>2. result' \in Result
      BY <1>1, FieldTypes DEF Crash, Reboot, Printed, Result, ResultStatus
    <2> QED BY <1>1, <2>1, <2>2 DEF Crash, Reboot, TypeOK, durable, live
  <1>2. ASSUME NEW s \in Services, QueueStart(s) PROVE TypeOK'
    BY <1>2 DEF QueueStart, TypeOK, durable
  <1>3. ASSUME NEW s \in Services, RunStartJob(s) PROVE TypeOK'
    BY <1>3, StartedTypes DEF RunStartJob, TypeOK, durable
  <1> QED BY <1>1, <1>2, <1>3

-----------------------------------------------------------------------------
(* The invariant is kept.                                                   *)

ProcessOK == RequestOK /\ ReplacesOK /\ ProgressOK

(* A process that ends asks for nothing and owns nothing.                   *)
LEMMA IdleIsOK ==
  ASSUME proc' = IdleProcess
  PROVE  ProcessOK'
  <1>1. /\ IdleProcess.pc = "idle" /\ IdleProcess.op = Nil
    BY DEF IdleProcess
  <1>2. Nil \notin {"activate", "rollback"}
    BY RuntimeConstants DEF Ops
  <1>3. RequestOK'
    BY <1>1, <1>2 DEF RequestOK, Building
  <1>4. ReplacesOK'
    BY <1>1 DEF ReplacesOK, Building, Switching, SwitchSteps
  <1>5. ProgressOK'
    BY <1>1 DEF ProgressOK, Building, Switching, SwitchSteps
  <1> QED BY <1>3, <1>4, <1>5 DEF ProcessOK

(* A process goes to its command once _initialize or recovery is done.      *)
LEMMA BodyIsOK ==
  ASSUME RuntimeInv, Body # "idle", journal' = Nil,
         proc'.pc = Body, proc'.op = proc.op, proc'.cand = proc.cand
  PROVE  ProcessOK'
  <1>1. \/ proc.op = "activate" /\ Body = "check"
        \/ proc.op = "rollback" /\ Body = "check_target"
    BY DEF Body
  <1>2. RequestOK'
    BY <1>1 DEF RequestOK, Building, RuntimeInv
  <1>3. ReplacesOK'
    BY <1>1 DEF ReplacesOK, Building, Switching, SwitchSteps
  <1>4. ProgressOK'
    BY <1>1 DEF ProgressOK, Building, Switching, SwitchSteps
  <1> QED BY <1>2, <1>3, <1>4 DEF ProcessOK

(* ... so does a command that goes on after its recovery.                   *)
LEMMA RecoveredIsOK ==
  ASSUME RuntimeInv, journal' = Nil, NEW st, NEW r, Recovered(st, r)
  PROVE  ProcessOK'
  <1>1. CASE Body = "idle"
    BY <1>1, IdleIsOK DEF Recovered, Finish
  <1>2. CASE Body # "idle"
    <2>1. proc' = [IdleProcess EXCEPT !.op = proc.op, !.pc = Body, !.cand = proc.cand]
      BY <1>2 DEF Recovered
    <2>2. proc'.pc = Body /\ proc'.op = proc.op /\ proc'.cand = proc.cand
      BY <2>1 DEF IdleProcess
    <2> QED BY <1>2, <2>2, BodyIsOK
  <1> QED BY <1>1, <1>2

(* Moving to another point of the code changes nothing else.                *)
LEMMA FieldValues ==
  ASSUME TypeOK, NEW x
  PROVE  LET p == Goto(x) IN
         /\ p.pc = x /\ p.op = proc.op /\ p.cand = proc.cand /\ p.mode = proc.mode
         /\ p.prior = proc.prior /\ p.target = proc.target /\ p.phase = proc.phase
  BY DEF TypeOK, Process, Goto

(* What every step keeps beside the types.                                  *)
Kept == DiskOK' /\ JournalOK' /\ ProcessOK'

(* A step that leaves the disk alone, or only records evidence or a floor   *)
(* in the state, keeps what is said of the disk.                            *)
LEMMA DiskKept ==
  ASSUME RuntimeInv, state'.active = state.active,
         state'.previous = state.previous,
         journal' = journal, pointer' = pointer, dirs' = dirs
  PROVE  DiskOK' /\ JournalOK'
  BY DEF RuntimeInv, DiskOK, JournalOK, Complete

(* A command begins.                                                        *)
LEMMA BeginKeeps ==
  ASSUME RuntimeInv, NEW op, NEW c, Begin(op, c),
         op \in {"activate", "rollback"} => c \in Candidate
  PROVE  Kept
  BY DiskKept
  DEF Kept, Begin, IdleProcess, durable, ProcessOK, RequestOK, ReplacesOK,
      ProgressOK, OwnJournal, Building, Switching, SwitchSteps, At, Complete,
      RuntimeInv

(* _initialize goes to recovery, to the command, or ends.                   *)
LEMMA InitializeKeeps ==
  ASSUME RuntimeInv, Initialize
  PROVE  Kept
  <1> USE DEF Kept
  <1>1. DiskOK' /\ JournalOK'
    BY DEF RuntimeInv, Initialize, durable, DiskOK, JournalOK, Complete
  <1>2. CASE proc' = IdleProcess
    BY <1>1, <1>2, IdleIsOK
  <1>3. CASE journal # Nil /\ proc' = Goto("recover")
    BY <1>1, <1>3, FieldValues
    DEF RuntimeInv, ProcessOK, RequestOK, ReplacesOK, ProgressOK, Building,
      Switching, SwitchSteps, Initialize, durable
  <1>4. CASE journal = Nil /\ Body # "idle" /\ proc' = Goto(Body)
    BY <1>1, <1>4, FieldValues, BodyIsOK DEF RuntimeInv, Initialize, durable
  <1> QED BY <1>1, <1>2, <1>3, <1>4 DEF Initialize, Raise, Finish

(* The two ways out of recovery.                                            *)
LEMMA RecoveryKeeps ==
  ASSUME RuntimeInv,
         \/ RecoverFinalize \/ RecoverToPrior \/ FinalHealth
  PROVE  Kept
  <1> USE DEF Kept
  <1>1. CASE RecoverFinalize
    BY <1>1, IdleIsOK, DiskKept, FieldValues, FieldTypes
    DEF RecoverFinalize, durable, Committed, Raise, Finish, ProcessOK,
      RequestOK, ReplacesOK, ProgressOK, OwnJournal, Building, Switching,
      SwitchSteps, At, Complete, RuntimeInv, JournalOK
  <1>2. CASE RecoverToPrior
    BY <1>2, DiskKept, FieldTypes
    DEF RecoverToPrior, durable, Committed, ProcessOK, RequestOK, ReplacesOK,
      ProgressOK, OwnJournal, Building, Switching, SwitchSteps, At, Complete,
      RuntimeInv, TypeOK, Process, DiskOK, JournalOK
  <1>3. CASE FinalHealth
    BY <1>3, IdleIsOK, DiskKept, FieldValues
    DEF FinalHealth, durable, Raise, Finish, ProcessOK, RequestOK, ReplacesOK,
      ProgressOK, OwnJournal, Building, Switching, SwitchSteps, At, Complete,
      RuntimeInv
  <1> QED BY <1>1, <1>2, <1>3

(* A finalised journal is removed.                                          *)
LEMMA FinalUnlinkKeeps ==
  ASSUME RuntimeInv, FinalUnlink
  PROVE  Kept
  <1> USE DEF Kept
  <1>1. DiskOK' /\ JournalOK'
    BY DEF RuntimeInv, FinalUnlink, DiskOK, JournalOK, ProgressOK, Complete,
      At
  <1> QED BY <1>1, RecoveredIsOK DEF FinalUnlink

(* The preparation of a candidate.                                          *)
LEMMA ActivateKeeps ==
  ASSUME RuntimeInv,
         \/ CheckAccept \/ CheckReject \/ MakeReleaseDir \/ FillReleaseDir
         \/ OfflineValidate \/ PreflightFails \/ PreflightEvidence
         \/ PreflightState
  PROVE  Kept
  <1> USE DEF Kept
  <1>1. CASE CheckAccept
    BY <1>1, DiskKept, FieldTypes
    DEF CheckAccept, CandidateAcceptable, ProcessOK, RequestOK, ReplacesOK,
      ProgressOK, OwnJournal, Building, Switching, SwitchSteps, At, Complete,
      RuntimeInv, TypeOK, Process, State, Release
  <1>2. CASE CheckReject
    BY <1>2, IdleIsOK, DiskKept
    DEF CheckReject, durable, Raise, Finish, RuntimeInv
  <1>3. CASE MakeReleaseDir
    BY <1>3, FieldValues, FieldTypes, RuntimeConstants
    DEF MakeReleaseDir, ProcessOK, RequestOK, ReplacesOK, ProgressOK,
      OwnJournal, Building, Switching, SwitchSteps, At, Complete, RuntimeInv,
      DiskOK, JournalOK, TypeOK, Release
  <1>4. CASE FillReleaseDir
    BY <1>4, FieldValues, FieldTypes, RuntimeConstants
    DEF FillReleaseDir, ProcessOK, RequestOK, ReplacesOK, ProgressOK,
      OwnJournal, Building, Switching, SwitchSteps, At, Complete, RuntimeInv,
      DiskOK, JournalOK, TypeOK, Release
  <1>5. CASE OfflineValidate
    BY <1>5, DiskKept
    DEF OfflineValidate, durable, ProcessOK, RequestOK, ReplacesOK,
      ProgressOK, OwnJournal, Building, Switching, SwitchSteps, At, Complete,
      RuntimeInv, TypeOK, Process
  <1>6. CASE PreflightFails
    BY <1>6, DiskKept, FieldValues
    DEF PreflightFails, durable, ProcessOK, RequestOK, ReplacesOK, ProgressOK,
      OwnJournal, Building, Switching, SwitchSteps, At, Complete, RuntimeInv
  <1>7. CASE PreflightEvidence
    BY <1>7, DiskKept, FieldValues
    DEF PreflightEvidence, WriteEvidence, ProcessOK, RequestOK, ReplacesOK,
      ProgressOK, OwnJournal, Building, Switching, SwitchSteps, At, Complete,
      RuntimeInv
  <1>8. CASE PreflightState
    BY <1>8, DiskKept, IdleIsOK
    DEF PreflightState, RecordLast, Finish, RuntimeInv, TypeOK, State
  <1> QED BY <1>1, <1>2, <1>3, <1>4, <1>5, <1>6, <1>7, <1>8

(* A manual rollback accepts its target or raises.                          *)
LEMMA CheckTargetKeeps ==
  ASSUME RuntimeInv, CheckTarget
  PROVE  Kept
  <1> USE DEF Kept
  <1>1. DiskOK' /\ JournalOK'
    BY DEF RuntimeInv, CheckTarget, durable, DiskOK, JournalOK, Complete
  <1>2. CASE proc' = IdleProcess
    BY <1>1, <1>2, IdleIsOK
  <1>3. CASE ~Raise
    <2>1. /\ Complete(proc.cand)
          /\ proc' = [proc EXCEPT !.pc = "journal", !.phase = "STAGED",
                                !.mode = "switch", !.prior = state.active,
                                !.target = proc.cand]
      BY <1>3 DEF CheckTarget
    <2>2. /\ proc'.pc = "journal" /\ proc'.phase = "STAGED" /\ proc'.mode = "switch"
          /\ proc'.prior = state.active /\ proc'.target = proc.cand
          /\ proc'.op = proc.op /\ proc'.cand = proc.cand
      BY <2>1 DEF RuntimeInv, TypeOK, Process
    <2>3. proc.op = "rollback" /\ proc.cand \in Candidate
      BY DEF RuntimeInv, RequestOK, CheckTarget, At
    <2>4. state' = state /\ journal' = journal /\ dirs' = dirs
      BY DEF CheckTarget, durable
    <2>5. journal = Nil
      BY DEF RuntimeInv, ProgressOK, CheckTarget, At
    <2>6. RequestOK'
      BY <2>2, <2>3 DEF RequestOK, Building
    <2>7. ReplacesOK'
      BY <2>1, <2>2, <2>3, <2>4
      DEF ReplacesOK, Building, Switching, SwitchSteps, Complete, Release
    <2>8. ProgressOK'
      BY <2>2, <2>4, <2>5 DEF ProgressOK, Building, Switching, SwitchSteps
    <2> QED BY <1>1, <2>6, <2>7, <2>8 DEF ProcessOK
  <1> QED BY <1>1, <1>2, <1>3 DEF Raise, Finish

(* The journal names the two releases of the running switch.                *)
LEMMA WriteJournalKeeps ==
  ASSUME RuntimeInv, WriteJournal
  PROVE  Kept
  <1> USE DEF Kept
  <1>1. /\ journal'.prior = proc.prior /\ journal'.target = proc.target
        /\ journal'.phase = proc.phase /\ journal' # Nil
    <2>1. proc.prior \in Release /\ proc.target \in Release /\ proc.phase \in Phases
      BY FieldTypes
      DEF RuntimeInv, WriteJournal, At, ReplacesOK, Switching, SwitchSteps
    <2>2. journal' \in Transaction
      BY <2>1 DEF WriteJournal, Transaction, Operations
    <2> QED BY <2>2, RuntimeConstants DEF WriteJournal
  <1>2. DiskOK' /\ JournalOK'
    BY <1>1
    DEF RuntimeInv, WriteJournal, At, DiskOK, JournalOK, Complete, ReplacesOK,
      ProgressOK, OwnJournal, Switching, SwitchSteps
  <1>3. proc.phase \in Phases
    BY FieldTypes DEF RuntimeInv
  <1>4. AfterJournal[proc.phase] \in {"stop_opensips", "point", "firewall", "start_rtpengine",
                                      "health"}
    BY <1>3 DEF AfterJournal, Phases
  <1> DEFINE next == AfterJournal[proc.phase]
  <1>5. /\ proc'.pc = next /\ proc'.op = proc.op /\ proc'.cand = proc.cand /\ proc'.mode = proc.mode
        /\ proc'.prior = proc.prior /\ proc'.target = proc.target
    BY FieldValues DEF WriteJournal, RuntimeInv
  <1>6. next \in {"stop_opensips", "point", "firewall", "start_rtpengine", "health"}
    BY <1>4
  <1> HIDE DEF next
  <1>7. RequestOK' /\ ReplacesOK'
    BY <1>5, <1>6
    DEF WriteJournal, At, RuntimeInv, RequestOK, ReplacesOK, Building,
      Switching, SwitchSteps, Complete
  <1>8. ProgressOK'
    BY <1>1, <1>5, <1>6
    DEF ProgressOK, OwnJournal, Building, Switching, SwitchSteps
  <1> QED BY <1>2, <1>7, <1>8 DEF ProcessOK

(* The live steps of a switch or a restore, and their failures.             *)
LEMMA SwitchKeeps ==
  ASSUME RuntimeInv,
         \/ StopOpensips \/ StopRtpengine \/ PointActive
         \/ ApplyActiveFirewall \/ StartRtpengine \/ StartOpensips
         \/ HealthPasses \/ SwitchFails \/ RestoreFails
  PROVE  Kept
  <1> USE DEF Kept
  <1>1. CASE StopOpensips
    BY <1>1, DiskKept, FieldValues
    DEF StopOpensips, durable, ProcessOK, RequestOK, ReplacesOK, ProgressOK,
      OwnJournal, Building, Switching, SwitchSteps, At, Complete, RuntimeInv
  <1>2. CASE StopRtpengine
    BY <1>2, DiskKept, FieldValues
    DEF StopRtpengine, durable, Then, ProcessOK, RequestOK, ReplacesOK,
      ProgressOK, OwnJournal, Building, Switching, SwitchSteps, At, Complete,
      RuntimeInv, TypeOK, Process
  <1>3. CASE PointActive
    BY <1>3, FieldValues, FieldTypes
    DEF PointActive, Then, Goal, ProcessOK, RequestOK, ReplacesOK, ProgressOK,
      OwnJournal, Building, Switching, SwitchSteps, At, Complete, RuntimeInv,
      DiskOK, JournalOK, TypeOK, Process
  <1>4. CASE ApplyActiveFirewall
    BY <1>4, DiskKept, FieldValues
    DEF ApplyActiveFirewall, durable, Then, ProcessOK, RequestOK, ReplacesOK,
      ProgressOK, OwnJournal, Building, Switching, SwitchSteps, At, Complete,
      RuntimeInv, TypeOK, Process
  <1>5. CASE StartRtpengine
    BY <1>5, DiskKept, FieldValues
    DEF StartRtpengine, durable, ProcessOK, RequestOK, ReplacesOK, ProgressOK,
      OwnJournal, Building, Switching, SwitchSteps, At, Complete, RuntimeInv
  <1>6. CASE StartOpensips
    BY <1>6, DiskKept, FieldValues
    DEF StartOpensips, durable, Then, ProcessOK, RequestOK, ReplacesOK,
      ProgressOK, OwnJournal, Building, Switching, SwitchSteps, At, Complete,
      RuntimeInv, TypeOK, Process
  <1>7. CASE HealthPasses
    BY <1>7, DiskKept, FieldValues, FieldTypes
    DEF HealthPasses, durable, Healthy, BaselineHealthy, Goal, ProcessOK,
      RequestOK, ReplacesOK, ProgressOK, OwnJournal, Building, Switching,
      SwitchSteps, At, Complete, RuntimeInv
  <1>8. CASE SwitchFails
    BY <1>8, DiskKept
    DEF SwitchFails, durable, ProcessOK, RequestOK, ReplacesOK, ProgressOK,
      OwnJournal, Building, Switching, SwitchSteps, At, Complete, RuntimeInv,
      TypeOK, Process
  <1>9. CASE RestoreFails
    BY <1>9, IdleIsOK, DiskKept, FieldValues
    DEF RestoreFails, durable, Raise, Finish, ProcessOK, RequestOK,
      ReplacesOK, ProgressOK, OwnJournal, Building, Switching, SwitchSteps,
      At, Complete, RuntimeInv
  <1> QED BY <1>1, <1>2, <1>3, <1>4, <1>5, <1>6, <1>7, <1>8, <1>9

(* The writes that end a transaction.                                       *)
LEMMA OutcomeKeeps ==
  ASSUME RuntimeInv,
         \/ WriteSuccessEvidence \/ CommitState \/ CommitUnlink
         \/ RestoredUnlink \/ RestoredEvidence \/ FailedEvidence
  PROVE  Kept
  <1> USE DEF Kept
  <1>1. CASE WriteSuccessEvidence
    BY <1>1, DiskKept, FieldValues
    DEF WriteSuccessEvidence, WriteEvidence, ProcessOK, RequestOK, ReplacesOK,
      ProgressOK, OwnJournal, Building, Switching, SwitchSteps, At, Complete,
      RuntimeInv
  <1>2. CASE CommitState
    BY <1>2, FieldValues, FieldTypes
    DEF CommitState, ProcessOK, RequestOK, ReplacesOK, ProgressOK, OwnJournal,
      Building, Switching, SwitchSteps, At, Complete, RuntimeInv, DiskOK,
      JournalOK
  <1>3. CASE CommitUnlink
    BY <1>3, IdleIsOK
    DEF CommitUnlink, Finish, ProcessOK, RequestOK, ReplacesOK, ProgressOK,
      OwnJournal, Building, Switching, SwitchSteps, At, Complete, RuntimeInv,
      DiskOK, JournalOK
  <1>4. CASE RestoredUnlink
    BY <1>4, FieldValues
    DEF RestoredUnlink, ProcessOK, RequestOK, ReplacesOK, ProgressOK,
      OwnJournal, Building, Switching, SwitchSteps, At, Complete, RuntimeInv,
      DiskOK, JournalOK
  <1>5. CASE RestoredEvidence
    BY <1>5, DiskKept, FieldValues
    DEF RestoredEvidence, WriteEvidence, ProcessOK, RequestOK, ReplacesOK,
      ProgressOK, OwnJournal, Building, Switching, SwitchSteps, At, Complete,
      RuntimeInv
  <1>6. CASE FailedEvidence
    BY <1>6, IdleIsOK, DiskKept
    DEF FailedEvidence, durable, Finish, RuntimeInv
  <1> QED BY <1>1, <1>2, <1>3, <1>4, <1>5, <1>6

(* The last write of a restore.                                             *)
LEMMA RestoredStateKeeps ==
  ASSUME RuntimeInv, RestoredState
  PROVE  Kept
  <1> USE DEF Kept
  <1>0. state'.active = state.active /\ state'.previous = state.previous
    BY DEF RestoredState, RecordLast, RuntimeInv, TypeOK, State
  <1>1. DiskOK' /\ JournalOK'
    BY <1>0 DEF RuntimeInv, RestoredState, DiskOK, JournalOK, Complete
  <1>2. journal' = Nil
    BY DEF RuntimeInv, RestoredState, ProgressOK, At
  <1> QED BY <1>1, <1>2, RecoveredIsOK, IdleIsOK DEF RestoredState, Finish

-----------------------------------------------------------------------------
(* The invariant.                                                           *)

(* Every step keeps the types.                                              *)
LEMMA NextTypes ==
  ASSUME RuntimeInv, Next
  PROVE  TypeOK'
  <1> USE DEF RuntimeInv
  <1>1. CASE \E c \in Candidate : Activate(c) \/ Rollback(c)
    BY <1>1, CommandTypes
  <1>2. CASE Recover
    BY <1>2, CommandTypes
  <1>3. CASE Steps
    <2>1. RecoverToPrior => journal # Nil
      BY DEF RecoverToPrior, At, ProgressOK
    <2> QED BY <1>3, <2>1, RecoveryTypes, ActivateTypes, SwitchTypes, OutcomeTypes
            DEF Steps
  <1>4. CASE Environment
    BY <1>4, EnvironmentTypes, CommandTypes DEF Environment
  <1> QED BY <1>1, <1>2, <1>3, <1>4 DEF Next

(* Every step keeps the rest of the invariant.                              *)
LEMMA NextKeeps ==
  ASSUME RuntimeInv, Next
  PROVE  Kept
  <1>1. CASE \E c \in Candidate : Activate(c) \/ Rollback(c)
    BY <1>1, BeginKeeps DEF Activate, Rollback
  <1>2. CASE Recover \/ BootRecover
    BY <1>2, BeginKeeps DEF Recover, BootRecover
  <1>3. CASE Steps
    BY <1>3, InitializeKeeps, RecoveryKeeps, FinalUnlinkKeeps, ActivateKeeps,
       CheckTargetKeeps, WriteJournalKeeps, SwitchKeeps, OutcomeKeeps,
       RestoredStateKeeps
    DEF Steps
  <1>4. CASE Crash \/ Reboot
    BY <1>4, IdleIsOK, DiskKept DEF Crash, Reboot, durable, Kept
  <1>5. CASE \E s \in Services : QueueStart(s) \/ RunStartJob(s)
    <2>1. UNCHANGED <<durable, proc>>
      BY <1>5 DEF QueueStart, RunStartJob
    <2> QED BY <2>1, DiskKept
        DEF durable, Kept, RuntimeInv, ProcessOK, RequestOK, ReplacesOK,
            ProgressOK, OwnJournal, Complete
  <1> QED BY <1>1, <1>2, <1>3, <1>4, <1>5 DEF Next, Environment

(* RuntimeInv is an inductive invariant of the specification.               *)
LEMMA RuntimeInvHolds == Spec => []RuntimeInv
  <1>1. Init => RuntimeInv
    <2> SUFFICES ASSUME Init PROVE RuntimeInv
      OBVIOUS
    <2>1. TypeOK
      <3>1. state \in State /\ result \in Result
        BY DEF Init, State, Release, Printed, Result, ResultStatus, Ops
      <3>2. journal \in Transaction \cup {Nil} /\ pointer \in Release /\ nft \in Release
        BY DEF Init, Release
      <3> QED BY <3>1, <3>2, FieldUpdates DEF Init, TypeOK, Release
    <2>2. DiskOK /\ JournalOK
      BY ManifestConstants DEF Init, DiskOK, JournalOK, Complete
    <2>3. RequestOK /\ ReplacesOK /\ ProgressOK
      BY RuntimeConstants
      DEF Init, IdleProcess, Ops, RequestOK, ReplacesOK, ProgressOK, Building,
          Switching, SwitchSteps
    <2> QED BY <2>1, <2>2, <2>3 DEF RuntimeInv
  <1>2. RuntimeInv /\ [Next]_vars => RuntimeInv'
    <2>1. CASE Next
      BY <2>1, NextTypes, NextKeeps DEF RuntimeInv, Kept, ProcessOK
    <2>2. CASE UNCHANGED vars
      BY <2>2
      DEF vars, RuntimeInv, TypeOK, DiskOK, JournalOK, RequestOK, ReplacesOK,
          ProgressOK, OwnJournal, Complete, Result, Process, State
    <2> QED BY <2>1, <2>2
  <1> QED BY <1>1, <1>2, PTL DEF Spec

(* Every record the helper keeps, on disk and in memory, has its type.      *)
THEOREM RuntimeTypeCorrect == Spec => []TypeOK
  <1>1. RuntimeInv => TypeOK
    BY DEF RuntimeInv
  <1> QED BY <1>1, RuntimeInvHolds, PTL

(* Whatever step a crash, a failed write or a power loss interrupts, the    *)
(* disk passes _initialize: no interruption locks the helper out.           *)
THEOREM HelperNeverLockedOut == Spec => []InitializeNeverRefuses
  <1>1. RuntimeInv => InitializeNeverRefuses
    BY DEF RuntimeInv, DiskOK, JournalOK, InitializeNeverRefuses, InitializeOK,
           PointerExplained
  <1> QED BY <1>1, RuntimeInvHolds, PTL

-----------------------------------------------------------------------------
(* Neither the protected releases nor the target of a running or journaled  *)
(* switch lies above the floor.                                             *)
FloorOK ==
  /\ Seq0(state.active) <= state.highest
  /\ state.previous # Nil => Seq0(state.previous) <= state.highest
  /\ journal # Nil => Seq0(journal.target) <= state.highest
  /\ proc.pc \in Building \cup Switching => Seq0(proc.target) <= state.highest

(* Sequences are numbers.                                                   *)
LEMMA SeqTypes == \A r \in Release : Seq0(r) \in Nat
  BY ManifestConstants DEF Seq0, Release

(* The protected part of the state, and at most the end of the journal.     *)
FloorState ==
  /\ state'.active = state.active /\ state'.previous = state.previous
  /\ state'.highest = state.highest
  /\ journal' = journal \/ journal' = Nil

(* A process outside a transaction has no target to compare.                *)
LEMMA FloorElsewhere ==
  ASSUME FloorOK, FloorState, proc'.pc \notin Building \cup Switching
  PROVE  FloorOK'
  BY DEF FloorOK, FloorState

(* A process inside one that keeps its target.                              *)
LEMMA FloorSameTarget ==
  ASSUME FloorOK, FloorState, proc'.target = proc.target,
         proc.pc \in Building \cup Switching
  PROVE  FloorOK'
  BY DEF FloorOK, FloorState

(* A process that ends.                                                     *)
LEMMA FloorIdle ==
  ASSUME FloorOK, FloorState, proc' = IdleProcess
  PROVE  FloorOK'
  BY FloorElsewhere DEF IdleProcess, Building, Switching, SwitchSteps

(* A process that leaves recovery.                                          *)
LEMMA FloorRecovered ==
  ASSUME FloorOK, FloorState, NEW st, NEW r, Recovered(st, r)
  PROVE  FloorOK'
  <1>1. CASE Body = "idle"
    BY <1>1, FloorIdle DEF Recovered, Finish
  <1>2. CASE Body # "idle"
    <2>1. proc'.pc = Body
      BY <1>2 DEF Recovered, IdleProcess
    <2> QED BY <1>2, <2>1, FloorElsewhere
        DEF Body, Building, Switching, SwitchSteps
  <1> QED BY <1>1, <1>2

(* The floor rises to the sequence of the candidate it accepts.             *)
LEMMA CheckAcceptKeepsFloor ==
  ASSUME RuntimeInv, FloorOK, CheckAccept
  PROVE  FloorOK'
  <1>1. proc.cand \in Candidate /\ journal = Nil
    BY DEF CheckAccept, At, RuntimeInv, RequestOK, ProgressOK
  <1>2. /\ state'.highest = SeqOf[proc.cand]
        /\ state'.active = state.active /\ state'.previous = state.previous
    BY DEF CheckAccept, RuntimeInv, TypeOK, State
  <1>3. proc'.target = proc.cand
    BY DEF CheckAccept, RuntimeInv, TypeOK, Process
  <1>4. /\ Seq0(proc.cand) = SeqOf[proc.cand] /\ SeqOf[proc.cand] \in Nat
    BY <1>1, ManifestConstants DEF Seq0
  <1>5. state.highest < SeqOf[proc.cand]
    BY DEF CheckAccept, CandidateAcceptable
  <1>6. /\ state.highest \in Nat /\ Seq0(state.active) \in Nat
        /\ state.previous # Nil => Seq0(state.previous) \in Nat
    BY SeqTypes, FieldTypes DEF RuntimeInv
  <1> QED BY <1>1, <1>2, <1>3, <1>4, <1>5, <1>6 DEF FloorOK, CheckAccept

(* A manual rollback returns to a release below the floor.                  *)
LEMMA CheckTargetKeepsFloor ==
  ASSUME RuntimeInv, FloorOK, CheckTarget
  PROVE  FloorOK'
  <1>1. FloorState
    BY DEF CheckTarget, durable, FloorState
  <1>2. CASE Raise
    BY <1>1, <1>2, FloorIdle DEF Raise, Finish
  <1>3. CASE ~Raise
    <2>1. proc.cand \in Candidate
      BY DEF CheckTarget, At, RuntimeInv, RequestOK
    <2>2. state.previous = proc.cand /\ proc.cand # Nil
      BY <1>3, <2>1, RuntimeConstants DEF CheckTarget, Release
    <2>3. proc'.target = proc.cand
      BY <1>3 DEF CheckTarget, RuntimeInv, TypeOK, Process
    <2> QED BY <1>1, <2>2, <2>3 DEF FloorOK, FloorState
  <1> QED BY <1>2, <1>3

(* A restore records its evidence and ends or goes on.                      *)
LEMMA RestoredStateKeepsFloor ==
  ASSUME RuntimeInv, FloorOK, RestoredState
  PROVE  FloorOK'
  <1>1. FloorState
    BY DEF RestoredState, RecordLast, RuntimeInv, TypeOK, State, FloorState
  <1> QED BY <1>1, FloorRecovered, FloorIdle DEF RestoredState, Finish

(* Steps that may end the process.                                          *)
LEMMA EndsKeepFloor ==
  ASSUME RuntimeInv, FloorOK,
         \/ Initialize \/ RecoverFinalize \/ FinalHealth \/ CheckReject
         \/ PreflightState \/ RestoreFails \/ CommitUnlink \/ FailedEvidence
         \/ FinalUnlink
  PROVE  FloorOK'
  <1>1. CASE Initialize
    BY <1>1, FloorIdle, FloorElsewhere, FloorSameTarget, FieldValues
    DEF Initialize, Body, Raise, Finish, durable, FloorState, RuntimeInv,
      Building, Switching, SwitchSteps, At, TypeOK, Process
  <1>2. CASE RecoverFinalize
    BY <1>2, FloorIdle, FloorElsewhere, FloorSameTarget, FieldValues
    DEF RecoverFinalize, Raise, Finish, durable, FloorState, RuntimeInv,
      Building, Switching, SwitchSteps, At
  <1>3. CASE FinalHealth
    BY <1>3, FloorIdle, FloorElsewhere, FloorSameTarget, FieldValues
    DEF FinalHealth, Raise, Finish, durable, FloorState, RuntimeInv, Building,
      Switching, SwitchSteps, At
  <1>4. CASE CheckReject
    BY <1>4, FloorIdle, FloorElsewhere, FloorSameTarget, FieldValues
    DEF CheckReject, Raise, Finish, durable, FloorState, RuntimeInv, Building,
      Switching, SwitchSteps, At
  <1>5. CASE PreflightState
    BY <1>5, FloorIdle, FloorElsewhere, FloorSameTarget, FieldValues
    DEF PreflightState, RecordLast, Finish, FloorState, RuntimeInv, Building,
      Switching, SwitchSteps, At, TypeOK, State
  <1>6. CASE RestoreFails
    BY <1>6, FloorIdle, FloorElsewhere, FloorSameTarget, FieldValues
    DEF RestoreFails, Raise, Finish, durable, FloorState, RuntimeInv,
      Building, Switching, SwitchSteps, At
  <1>7. CASE CommitUnlink
    BY <1>7, FloorIdle, FloorElsewhere, FloorSameTarget, FieldValues
    DEF CommitUnlink, Finish, FloorState, RuntimeInv, Building, Switching,
      SwitchSteps, At
  <1>8. CASE FailedEvidence
    BY <1>8, FloorIdle, FloorElsewhere, FloorSameTarget, FieldValues
    DEF FailedEvidence, Finish, durable, FloorState, RuntimeInv, Building,
      Switching, SwitchSteps, At
  <1>9. CASE FinalUnlink
    BY <1>9, FloorRecovered
    DEF FinalUnlink, FloorState
  <1> QED BY <1>1, <1>2, <1>3, <1>4, <1>5, <1>6, <1>7, <1>8, <1>9

(* Steps of a process that keeps its target.                                *)
LEMMA StepsKeepFloor ==
  ASSUME RuntimeInv, FloorOK,
         \/ MakeReleaseDir \/ FillReleaseDir \/ OfflineValidate
         \/ PreflightFails \/ PreflightEvidence \/ StopOpensips
         \/ StopRtpengine \/ PointActive \/ ApplyActiveFirewall
         \/ StartRtpengine \/ StartOpensips \/ HealthPasses \/ SwitchFails
         \/ WriteSuccessEvidence \/ RestoredUnlink \/ RestoredEvidence
  PROVE  FloorOK'
  <1>1. CASE MakeReleaseDir
    BY <1>1, FloorElsewhere, FloorSameTarget, FieldValues
    DEF MakeReleaseDir, FloorState, RuntimeInv, Building, Switching,
      SwitchSteps, At
  <1>2. CASE FillReleaseDir
    BY <1>2, FloorElsewhere, FloorSameTarget, FieldValues
    DEF FillReleaseDir, FloorState, RuntimeInv, Building, Switching,
      SwitchSteps, At
  <1>3. CASE OfflineValidate
    BY <1>3, FloorElsewhere, FloorSameTarget, FieldValues
    DEF OfflineValidate, durable, FloorState, RuntimeInv, Building, Switching,
      SwitchSteps, At, TypeOK, Process
  <1>4. CASE PreflightFails
    BY <1>4, FloorElsewhere, FloorSameTarget, FieldValues
    DEF PreflightFails, durable, FloorState, RuntimeInv, Building, Switching,
      SwitchSteps, At
  <1>5. CASE PreflightEvidence
    BY <1>5, FloorElsewhere, FloorSameTarget, FieldValues
    DEF PreflightEvidence, WriteEvidence, FloorState, RuntimeInv, Building,
      Switching, SwitchSteps, At
  <1>6. CASE StopOpensips
    BY <1>6, FloorElsewhere, FloorSameTarget, FieldValues
    DEF StopOpensips, durable, FloorState, RuntimeInv, Building, Switching,
      SwitchSteps, At
  <1>7. CASE StopRtpengine
    BY <1>7, FloorElsewhere, FloorSameTarget, FieldValues
    DEF StopRtpengine, Then, durable, FloorState, RuntimeInv, Building,
      Switching, SwitchSteps, At, TypeOK, Process
  <1>8. CASE PointActive
    BY <1>8, FloorElsewhere, FloorSameTarget, FieldValues
    DEF PointActive, Then, FloorState, RuntimeInv, Building, Switching,
      SwitchSteps, At, TypeOK, Process
  <1>9. CASE ApplyActiveFirewall
    BY <1>9, FloorElsewhere, FloorSameTarget, FieldValues
    DEF ApplyActiveFirewall, Then, durable, FloorState, RuntimeInv, Building,
      Switching, SwitchSteps, At, TypeOK, Process
  <1>10. CASE StartRtpengine
    BY <1>10, FloorElsewhere, FloorSameTarget, FieldValues
    DEF StartRtpengine, durable, FloorState, RuntimeInv, Building, Switching,
      SwitchSteps, At
  <1>11. CASE StartOpensips
    BY <1>11, FloorElsewhere, FloorSameTarget, FieldValues
    DEF StartOpensips, Then, durable, FloorState, RuntimeInv, Building,
      Switching, SwitchSteps, At, TypeOK, Process
  <1>12. CASE HealthPasses
    BY <1>12, FloorElsewhere, FloorSameTarget, FieldValues
    DEF HealthPasses, durable, FloorState, RuntimeInv, Building, Switching,
      SwitchSteps, At
  <1>13. CASE SwitchFails
    BY <1>13, FloorElsewhere, FloorSameTarget, FieldValues
    DEF SwitchFails, durable, FloorState, RuntimeInv, Building, Switching,
      SwitchSteps, At, TypeOK, Process
  <1>14. CASE WriteSuccessEvidence
    BY <1>14, FloorElsewhere, FloorSameTarget, FieldValues
    DEF WriteSuccessEvidence, WriteEvidence, FloorState, RuntimeInv, Building,
      Switching, SwitchSteps, At
  <1>15. CASE RestoredUnlink
    BY <1>15, FloorElsewhere, FloorSameTarget, FieldValues
    DEF RestoredUnlink, FloorState, RuntimeInv, Building, Switching,
      SwitchSteps, At
  <1>16. CASE RestoredEvidence
    BY <1>16, FloorElsewhere, FloorSameTarget, FieldValues
    DEF RestoredEvidence, WriteEvidence, FloorState, RuntimeInv, Building,
      Switching, SwitchSteps, At
  <1> QED BY <1>1, <1>2, <1>3, <1>4, <1>5, <1>6, <1>7, <1>8, <1>9, <1>10,
    <1>11, <1>12, <1>13, <1>14, <1>15, <1>16

(* Steps that move a target: into the journal, the process or the state.    *)
LEMMA MovesKeepFloor ==
  ASSUME RuntimeInv, FloorOK,
         \/ RecoverToPrior \/ WriteJournal \/ CommitState
  PROVE  FloorOK'
  <1>1. CASE RecoverToPrior
    BY <1>1, FieldTypes, FieldValues, RuntimeConstants
    DEF RecoverToPrior, durable, ProgressOK, FloorOK, RuntimeInv, TypeOK,
      Process, State, Building, Switching, SwitchSteps, At
  <1>2. CASE WriteJournal
    BY <1>2, FieldTypes, FieldValues, RuntimeConstants
    DEF WriteJournal, FloorOK, RuntimeInv, TypeOK, Process, State, Building,
      Switching, SwitchSteps, At
  <1>3. CASE CommitState
    BY <1>3, FieldTypes, FieldValues, RuntimeConstants
    DEF CommitState, ReplacesOK, FloorOK, RuntimeInv, TypeOK, Process, State,
      Building, Switching, SwitchSteps, At
  <1> QED BY <1>1, <1>2, <1>3

(* The floor invariant is kept by every step.                               *)
LEMMA NextKeepsFloor ==
  ASSUME RuntimeInv, FloorOK, Next
  PROVE  FloorOK'
  <1>1. CASE \/ \E c \in Candidate : Activate(c) \/ Rollback(c)
             \/ Recover \/ BootRecover
    <2>1. UNCHANGED durable /\ proc'.pc = "initialize"
      BY <1>1 DEF Activate, Rollback, Recover, BootRecover, Begin, IdleProcess
    <2> QED BY <2>1, FloorElsewhere
        DEF durable, FloorState, Building, Switching, SwitchSteps
  <1>2. CASE Steps
    BY <1>2, CheckAcceptKeepsFloor, CheckTargetKeepsFloor,
       RestoredStateKeepsFloor, EndsKeepFloor, StepsKeepFloor, MovesKeepFloor
    DEF Steps
  <1>3. CASE Crash \/ Reboot
    BY <1>3, FloorIdle DEF Crash, Reboot, durable, FloorState
  <1>4. CASE \E s \in Services : QueueStart(s) \/ RunStartJob(s)
    <2>1. UNCHANGED <<durable, proc>>
      BY <1>4 DEF QueueStart, RunStartJob
    <2> QED BY <2>1 DEF durable, FloorOK
  <1> QED BY <1>1, <1>2, <1>3, <1>4 DEF Next, Environment

(* The floor itself: only an accepted candidate changes it, upwards.        *)
LEMMA NextRaisesFloor ==
  ASSUME RuntimeInv, Next
  PROVE  state'.highest >= state.highest
  <1>1. state.highest \in Nat
    BY FieldTypes DEF RuntimeInv
  <1>2. CASE CheckAccept
    <2>1. proc.cand \in Candidate
      BY <1>2 DEF CheckAccept, At, RuntimeInv, RequestOK
    <2>2. SeqOf[proc.cand] \in Nat
      BY <2>1, ManifestConstants
    <2>3. state'.highest = SeqOf[proc.cand]
      BY <1>2 DEF CheckAccept, RuntimeInv, TypeOK, State
    <2> QED BY <1>1, <1>2, <2>2, <2>3 DEF CheckAccept, CandidateAcceptable
  <1>3. CASE CommitState
    BY <1>1, <1>3 DEF CommitState
  <1>4. CASE PreflightState \/ RestoredState
    <2>1. state'.highest = state.highest
      BY <1>4 DEF PreflightState, RestoredState, RecordLast, RuntimeInv,
                  TypeOK, State
    <2> QED BY <1>1, <2>1
  <1>5. CASE ~(CheckAccept \/ CommitState \/ PreflightState \/ RestoredState)
    <2>1. state' = state
      <3>1. CASE \/ \E c \in Candidate : Activate(c) \/ Rollback(c)
                 \/ Recover \/ Environment
        BY <3>1 DEF Activate, Rollback, Recover, Environment, BootRecover, Begin,
                    Crash, Reboot, QueueStart, RunStartJob, durable
      <3>2. CASE Initialize \/ RecoverFinalize \/ RecoverToPrior \/ FinalHealth
                 \/ FinalUnlink \/ CheckReject \/ MakeReleaseDir
                 \/ FillReleaseDir \/ OfflineValidate \/ PreflightFails
                 \/ PreflightEvidence \/ CheckTarget
        BY <3>2 DEF Initialize, RecoverFinalize, RecoverToPrior, FinalHealth,
                    FinalUnlink, CheckReject, MakeReleaseDir, FillReleaseDir,
                    OfflineValidate, PreflightFails, PreflightEvidence,
                    CheckTarget, WriteEvidence, durable
      <3>3. CASE WriteJournal \/ StopOpensips \/ StopRtpengine \/ PointActive
                 \/ ApplyActiveFirewall \/ StartRtpengine \/ StartOpensips
                 \/ HealthPasses \/ SwitchFails \/ RestoreFails
                 \/ WriteSuccessEvidence \/ CommitUnlink \/ RestoredUnlink
                 \/ RestoredEvidence \/ FailedEvidence
        BY <3>3 DEF WriteJournal, StopOpensips, StopRtpengine, PointActive,
                    ApplyActiveFirewall, StartRtpengine, StartOpensips,
                    HealthPasses, SwitchFails, RestoreFails,
                    WriteSuccessEvidence, CommitUnlink, RestoredUnlink,
                    RestoredEvidence, FailedEvidence, WriteEvidence, durable
      <3> QED BY <1>5, <3>1, <3>2, <3>3 DEF Next, Steps
    <2> QED BY <1>1, <2>1
  <1> QED BY <1>2, <1>3, <1>4, <1>5

(* FloorOK is an invariant.                                                 *)
LEMMA FloorHolds == Spec => []FloorOK
  <1>1. Init => FloorOK
    BY RuntimeConstants
    DEF Init, FloorOK, Seq0, IdleProcess, Building, Switching, SwitchSteps
  <1>2. RuntimeInv /\ FloorOK /\ [Next]_vars => FloorOK'
    <2>1. CASE UNCHANGED vars
      BY <2>1 DEF vars, FloorOK
    <2> QED BY <2>1, NextKeepsFloor
  <1> QED BY <1>1, <1>2, RuntimeInvHolds, PTL DEF Spec

(* The replay floor never falls, whatever is interrupted, restored, rolled  *)
(* back or recovered, and no release above the floor becomes active: a      *)
(* manifest the runtime has once refused by its sequence stays refused.     *)
THEOREM RuntimeFloorNeverFalls == Spec => ReplayFloorMonotone
  <1>1. RuntimeInv /\ FloorOK' /\ [Next]_vars =>
          [/\ state'.highest >= state.highest
           /\ Seq0(state'.active) <= state'.highest]_vars
    BY NextRaisesFloor DEF FloorOK
  <1> QED BY <1>1, FloorHolds, RuntimeInvHolds, PTL DEF Spec, ReplayFloorMonotone

-----------------------------------------------------------------------------
(* What the live data plane and the protected releases promise needs more: *)
(* where a switch stands, which release it may still abort, and what runs.  *)

(* The writes that end a restore.                                           *)
Restoring == {"restored_unlink", "restored_evidence", "restored_state"}

(* Both services were found running and nothing has stopped them since.     *)
Restarted == {"success_evidence", "commit_state", "commit_unlink", "final_unlink"}
               \cup Restoring

(* The evidence a failed activation of r leaves for the agent.              *)
AbortEvidence(r) == [action |-> "ABORT_PENDING", release |-> r]

(* The running restore undoes an activation, not a manual rollback.         *)
Undoing == IF proc.recovering THEN proc.undo = "APPLY" ELSE proc.op = "activate"

(* A switch never goes from a release to itself, and an activation never    *)
(* goes to the previous release: an abort of its target harms nothing.      *)
TargetOK ==
  /\ state.previous # state.active
  /\ journal # Nil =>
       /\ journal.prior # journal.target
       /\ state.active = journal.prior /\ journal.operation = "APPLY" =>
            journal.target # state.previous

(* The same of the running process, until its journal is gone.              *)
TargetStepOK ==
  /\ proc.pc \in Building \cup Switching \cup Restoring =>
       /\ proc.target # state.active
       /\ Undoing => proc.target # state.previous
  /\ proc.pc \in Switching \cup {"restored_unlink"} =>
       /\ proc.prior = state.active
       /\ journal # Nil => OwnJournal
       /\ journal # Nil /\ ~proc.recovering =>
            journal.operation = IF proc.op = "activate" THEN "APPLY" ELSE "MANUAL_ROLLBACK"
  /\ proc.pc \in Building \/ (proc.pc \in Switching /\ proc.mode = "switch") =>
       ~proc.recovering /\ proc.op \in {"activate", "rollback"}
  /\ proc.pc \in Switching /\ proc.mode = "switch" /\ proc.op = "rollback" =>
       proc.target = state.previous
  /\ proc.pc \in {"success_evidence", "commit_state", "commit_unlink"} =>
       proc.mode = "switch"
  /\ proc.pc = "commit_unlink" => proc.target = state.active /\ OwnJournal
  /\ proc.pc \in {"final_health", "final_unlink"} => Committed
  /\ proc.recovering => proc.pc \in SwitchSteps \cup Restoring
  /\ proc.pc = "point" /\ proc.mode = "switch" => journal.phase = "STOPPED"
  /\ proc.pc \in {"health", "success_evidence", "commit_state"} /\ proc.mode = "switch" =>
       journal.phase = "SERVICES_STARTED"

TargetInv == TargetOK /\ TargetStepOK

(* The firewall and every running service are of the release the pointer    *)
(* names.                                                                   *)
ServesPointer == nft = pointer /\ \A s \in Services : svc[s] \in {pointer, Down}

(* Nothing runs and systemd has nothing left to start.                      *)
Stopped == jobs = {} /\ \A s \in Services : svc[s] = Down

(* The process is at one of pcs, or about to journal the phase before it.   *)
Reached(pcs, phases) ==
  proc.pc \in pcs \/ (proc.pc = "journal" /\ proc.phase \in phases)

(* What runs is what the pointer names: without a journal, while a journal  *)
(* is only staged, and once its switch is committed.                        *)
LiveOK ==
  /\ journal = Nil => ServesPointer
  /\ journal # Nil /\ journal.phase = "STAGED" => ServesPointer /\ pointer = journal.prior
  /\ journal # Nil /\ state.active = journal.target => ServesPointer

(* What a switch or a restore has stopped, moved, loaded and started so far.*)
LiveStepOK ==
  /\ proc.pc = "stop_rtpengine" => svc["opensips"] = Down /\ "opensips" \notin jobs
  /\ Reached({"point", "firewall"}, {"STOPPED", "POINTER_ACTIVATED"}) => Stopped
  /\ Reached({"firewall"}, {"POINTER_ACTIVATED"}) => pointer = Goal
  /\ Reached({"start_rtpengine", "start_opensips", "health", "success_evidence",
              "commit_state", "restored_unlink"}, {"NFT_APPLIED", "SERVICES_STARTED"}) =>
       pointer = Goal /\ ServesPointer
  /\ proc.pc \in Restarted => \A s \in Services : svc[s] # Down

LiveInv == LiveOK /\ LiveStepOK

(* An abort names a release at or below the floor, so no later candidate.   *)
EvidenceOK ==
  /\ ProtectedReleasesAreSound
  /\ \A e \in evidence : e.action = "ABORT_PENDING" => Seq0(e.release) <= state.highest

(* The candidate of a running activation is not aborted yet, and is proved  *)
(* healthy before the state names it.                                       *)
EvidenceStepOK ==
  /\ \/ proc.pc \in Building \ {"preflight_state"}
     \/ proc.pc \in Switching /\ proc.mode = "switch" /\ proc.op = "activate"
     => AbortEvidence(proc.target) \notin evidence
  /\ proc.pc = "commit_state" /\ proc.op = "activate" =>
       SuccessEvidence(proc.target) \in evidence
  /\ proc.pc \in Restoring => Seq0(proc.target) <= state.highest

EvidenceInv == EvidenceOK /\ EvidenceStepOK

-----------------------------------------------------------------------------
(* What single steps leave behind.                                          *)

(* Moving on leaves the recovery a process runs alone.                      *)
LEMMA MoreFields ==
  ASSUME TypeOK, NEW x
  PROVE  /\ Goto(x).recovering = proc.recovering /\ Goto(x).undo = proc.undo
         /\ proc.recovering \in BOOLEAN /\ proc.undo \in Operations
  BY DEF TypeOK, Process, Goto

(* A process that leaves recovery ends or starts on its command.            *)
LEMMA RecoveredFields ==
  ASSUME NEW st, NEW r, Recovered(st, r)
  PROVE  /\ proc'.pc \in {"idle", "check", "check_target"}
         /\ proc'.pc = "check" => proc'.op = "activate"
         /\ proc'.pc = "check_target" => proc'.op = "rollback"
         /\ ~proc'.recovering
  <1>1. CASE Body = "idle"
    BY <1>1 DEF Recovered, Finish, IdleProcess
  <1>2. CASE Body # "idle"
    <2>1. proc'.pc = Body /\ proc'.op = proc.op /\ ~proc'.recovering
      BY <1>2 DEF Recovered, IdleProcess
    <2> QED BY <1>2, <2>1 DEF Body
  <1> QED BY <1>1, <1>2

(* A rollback refused, or on its way to the previous release.               *)
LEMMA CheckTargetFields ==
  ASSUME RuntimeInv, CheckTarget
  PROVE  \/ proc' = IdleProcess
         \/ /\ proc'.pc = "journal" /\ proc'.phase = "STAGED" /\ proc'.mode = "switch"
            /\ proc'.op = "rollback" /\ proc'.recovering = proc.recovering
            /\ proc'.prior = state.active /\ proc'.target = state.previous
            /\ proc.cand \in Candidate /\ proc.cand = state.previous
  <1>1. proc.op = "rollback" /\ proc.cand \in Candidate
    BY DEF CheckTarget, At, RuntimeInv, RequestOK
  <1>2. CASE Raise
    BY <1>2 DEF Raise, Finish
  <1>3. CASE ~Raise
    BY <1>1, <1>3 DEF CheckTarget, RuntimeInv, TypeOK, Process
  <1> QED BY <1>2, <1>3

(* An accepted candidate is above the floor and becomes it.                 *)
LEMMA CheckAcceptFields ==
  ASSUME RuntimeInv, CheckAccept
  PROVE  /\ proc.cand \in Candidate /\ proc.op = "activate"
         /\ proc'.pc = "make_dir" /\ proc'.op = "activate"
         /\ proc'.prior = state.active /\ proc'.target = proc.cand
         /\ proc'.recovering = proc.recovering /\ proc'.undo = proc.undo
         /\ state'.highest = SeqOf[proc.cand] /\ state'.active = state.active
         /\ state'.previous = state.previous /\ state'.last = state.last
         /\ state.highest \in Nat /\ SeqOf[proc.cand] \in Nat
         /\ state.highest < SeqOf[proc.cand] /\ Seq0(proc.cand) = SeqOf[proc.cand]
         /\ journal = Nil
  <1>1. proc.op = "activate" /\ proc.cand \in Candidate /\ journal = Nil
    BY DEF CheckAccept, At, RuntimeInv, RequestOK, ProgressOK
  <1>2. /\ proc'.pc = "make_dir" /\ proc'.op = "activate"
         /\ proc'.prior = state.active /\ proc'.target = proc.cand
         /\ proc'.recovering = proc.recovering /\ proc'.undo = proc.undo
    BY <1>1 DEF CheckAccept
  <1>3. /\ state'.highest = SeqOf[proc.cand] /\ state'.active = state.active
         /\ state'.previous = state.previous /\ state'.last = state.last
    BY <1>1 DEF CheckAccept
  <1>4. state.highest \in Nat /\ SeqOf[proc.cand] \in Nat /\ Seq0(proc.cand) = SeqOf[proc.cand]
    BY <1>1, FieldTypes, ManifestConstants DEF Seq0, RuntimeInv
  <1>5. state.highest < SeqOf[proc.cand]
    BY <1>4 DEF CheckAccept, CandidateAcceptable
  <1> QED BY <1>1, <1>2, <1>3, <1>4, <1>5

(* The journal a switch writes before its next step.                        *)
LEMMA WriteJournalFields ==
  ASSUME RuntimeInv, WriteJournal
  PROVE  /\ journal' # Nil /\ journal'.prior = proc.prior /\ journal'.target = proc.target
         /\ journal'.phase = proc.phase
         /\ journal'.operation = (IF proc.op = "activate" THEN "APPLY" ELSE "MANUAL_ROLLBACK")
         /\ proc'.pc = AfterJournal[proc.phase]
         /\ proc'.pc \in {"stop_opensips", "point", "firewall", "start_rtpengine", "health"}
         /\ proc'.pc = "point" <=> proc.phase = "STOPPED"
         /\ proc'.pc = "health" <=> proc.phase = "SERVICES_STARTED"
         /\ proc'.op = proc.op /\ proc'.cand = proc.cand /\ proc'.mode = proc.mode
         /\ proc'.prior = proc.prior /\ proc'.target = proc.target
         /\ proc'.recovering = proc.recovering /\ proc'.undo = proc.undo
         /\ proc'.phase = proc.phase
  <1>1. /\ proc.prior \in Release /\ proc.target \in Release /\ proc.phase \in Phases
    BY FieldTypes DEF RuntimeInv, WriteJournal, At, ReplacesOK, Switching, SwitchSteps
  <1>2. journal' \in Transaction
    BY <1>1 DEF WriteJournal, Transaction, Operations
  <1>3. /\ journal' # Nil /\ journal'.prior = proc.prior /\ journal'.target = proc.target
        /\ journal'.phase = proc.phase
        /\ journal'.operation = (IF proc.op = "activate" THEN "APPLY" ELSE "MANUAL_ROLLBACK")
    BY <1>2, RuntimeConstants DEF WriteJournal
  <1>4. /\ proc'.pc = AfterJournal[proc.phase]
        /\ proc'.op = proc.op /\ proc'.cand = proc.cand /\ proc'.mode = proc.mode
        /\ proc'.prior = proc.prior /\ proc'.target = proc.target
        /\ proc'.recovering = proc.recovering /\ proc'.undo = proc.undo
         /\ proc'.phase = proc.phase
    BY FieldValues, MoreFields DEF WriteJournal, RuntimeInv
  <1>5. /\ AfterJournal[proc.phase] \in {"stop_opensips", "point", "firewall",
                                        "start_rtpengine", "health"}
        /\ AfterJournal[proc.phase] = "point" <=> proc.phase = "STOPPED"
        /\ AfterJournal[proc.phase] = "health" <=> proc.phase = "SERVICES_STARTED"
    BY <1>1 DEF AfterJournal, Phases
  <1> QED BY <1>3, <1>4, <1>5

-----------------------------------------------------------------------------
(* The targets of switches.                                                 *)
(* A manual rollback goes to the previous release, which is not the active one. *)
LEMMA CheckTargetKeepsTarget ==
  ASSUME RuntimeInv, FloorOK, TargetInv, CheckTarget
  PROVE  TargetInv'
  BY CheckTargetFields DEF CheckTarget, RuntimeInv, ProgressOK, At, durable, IdleProcess,
     Building, Switching, SwitchSteps, TargetInv, TargetOK, TargetStepOK, Undoing, Restoring

(* A candidate above the floor is neither of the protected releases.        *)
LEMMA CheckAcceptKeepsTarget ==
  ASSUME RuntimeInv, FloorOK, TargetInv, CheckAccept
  PROVE  TargetInv'
  <1>1. proc.cand # state.active /\ proc.cand # state.previous
    <2>1. proc.cand # Nil
      BY CheckAcceptFields, RuntimeConstants DEF Release
    <2>2. state.active \in Release /\ (state.previous # Nil => state.previous \in Release)
      BY FieldTypes DEF RuntimeInv
    <2>3. Seq0(state.active) < Seq0(proc.cand)
      BY <2>2, CheckAcceptFields, SeqTypes DEF FloorOK
    <2>4. state.previous # Nil => Seq0(state.previous) < Seq0(proc.cand)
      BY <2>2, CheckAcceptFields, SeqTypes DEF FloorOK
    <2>5. Seq0(proc.cand) \in Nat
      BY CheckAcceptFields
    <2> QED BY <2>1, <2>3, <2>4, <2>5
  <1> QED BY <1>1, CheckAcceptFields DEF CheckAccept, Building, Switching, SwitchSteps,
             TargetInv, TargetOK, TargetStepOK, Undoing, Restoring, At

(* The journal is the running switch.                                       *)
LEMMA WriteJournalKeepsTarget ==
  ASSUME RuntimeInv, FloorOK, TargetInv, WriteJournal
  PROVE  TargetInv'
  BY WriteJournalFields DEF WriteJournal, RuntimeInv, ProgressOK, At, Switching,
     SwitchSteps, TargetInv, TargetOK, TargetStepOK, Undoing, OwnJournal

(* _initialize and the two ways out of recovery.                            *)
LEMMA RecoveryKeepsTarget ==
  ASSUME RuntimeInv, FloorOK, TargetInv,
         \/ Initialize \/ RecoverFinalize \/ RecoverToPrior \/ FinalHealth \/ FinalUnlink
  PROVE  TargetInv'
  <1>1. CASE Initialize
    BY <1>1, FieldValues, MoreFields DEF Initialize, Body, Raise, Finish, durable,
       RuntimeInv, Building, Switching, SwitchSteps, At, IdleProcess, TargetInv, TargetOK,
       TargetStepOK, Restoring
  <1>2. CASE RecoverFinalize
    BY <1>2, FieldValues, MoreFields DEF RecoverFinalize, Raise, Finish, durable,
       RuntimeInv, Building, Switching, SwitchSteps, At, IdleProcess, TargetInv, TargetOK,
       TargetStepOK, Restoring, Committed
  <1>3. CASE RecoverToPrior
    BY <1>3 DEF RecoverToPrior, Committed, durable, RuntimeInv, JournalOK, ProgressOK,
       OwnJournal, Building, Switching, SwitchSteps, At, TargetInv, TargetOK, TargetStepOK,
       Undoing, Committed
  <1>4. CASE FinalHealth
    BY <1>4, FieldValues, MoreFields DEF FinalHealth, Raise, Finish, BaselineHealthy,
       durable, RuntimeInv, Building, Switching, SwitchSteps, At, IdleProcess, TargetInv,
       TargetOK, TargetStepOK, Restoring, Committed
  <1>5. CASE FinalUnlink
    BY <1>5, RecoveredFields DEF FinalUnlink, Building, Switching, SwitchSteps, TargetInv,
       TargetOK, TargetStepOK, Restoring
  <1> QED BY <1>1, <1>2, <1>3, <1>4, <1>5

(* The preparation of a candidate or of a manual rollback.                  *)
LEMMA PrepareKeepsTarget ==
  ASSUME RuntimeInv, FloorOK, TargetInv,
         \/ CheckAccept \/ CheckReject \/ MakeReleaseDir \/ FillReleaseDir
         \/ OfflineValidate \/ PreflightFails \/ PreflightEvidence \/ PreflightState
         \/ CheckTarget
  PROVE  TargetInv'
  <1>1. CASE CheckReject
    BY <1>1 DEF CheckReject, Raise, Finish, durable, RuntimeInv, Building, Switching,
       SwitchSteps, At, IdleProcess, TargetInv, TargetOK, TargetStepOK, Restoring
  <1>2. CASE MakeReleaseDir
    BY <1>2, FieldValues, MoreFields DEF MakeReleaseDir, RuntimeInv, Building, Switching,
       SwitchSteps, At, TargetInv, TargetOK, TargetStepOK, Undoing
  <1>3. CASE FillReleaseDir
    BY <1>3, FieldValues, MoreFields DEF FillReleaseDir, RuntimeInv, Building, Switching,
       SwitchSteps, At, TargetInv, TargetOK, TargetStepOK, Undoing
  <1>4. CASE OfflineValidate
    BY <1>4 DEF OfflineValidate, durable, RuntimeInv, RequestOK, ReplacesOK, ProgressOK,
       Building, At, TargetInv, TargetOK, TargetStepOK, Undoing
  <1>5. CASE PreflightFails
    BY <1>5, FieldValues, MoreFields DEF PreflightFails, durable, RuntimeInv, Building,
       Switching, SwitchSteps, TargetInv, TargetOK, TargetStepOK, Undoing
  <1>6. CASE PreflightEvidence
    BY <1>6, FieldValues, MoreFields DEF PreflightEvidence, WriteEvidence, EvidenceFor,
       ActionOf, RuntimeInv, Building, Switching, SwitchSteps, At, TargetInv, TargetOK,
       TargetStepOK, Undoing
  <1>7. CASE PreflightState
    BY <1>7 DEF PreflightState, RecordLast, Finish, RuntimeInv, Building, Switching,
       SwitchSteps, At, IdleProcess, TargetInv, TargetOK, TargetStepOK, Restoring
  <1> QED BY <1>1, <1>2, <1>3, <1>4, <1>5, <1>6, <1>7, CheckAcceptKeepsTarget,
             CheckTargetKeepsTarget

(* The live steps of a switch or a restore, and their failures.             *)
LEMMA SwitchKeepsTarget ==
  ASSUME RuntimeInv, FloorOK, TargetInv,
         \/ WriteJournal \/ StopOpensips \/ StopRtpengine \/ PointActive
         \/ ApplyActiveFirewall \/ StartRtpengine \/ StartOpensips \/ HealthPasses
         \/ SwitchFails \/ RestoreFails
  PROVE  TargetInv'
  <1>1. CASE StopOpensips
    BY <1>1, FieldValues, MoreFields DEF StopOpensips, Services, durable, RuntimeInv,
       OwnJournal, Building, Switching, SwitchSteps, At, TargetInv, TargetOK, TargetStepOK,
       Undoing
  <1>2. CASE StopRtpengine
    BY <1>2, FieldValues, MoreFields DEF StopRtpengine, Then, Services, durable, RuntimeInv,
       OwnJournal, Building, Switching, SwitchSteps, At, TargetInv, TargetOK, TargetStepOK,
       Undoing
  <1>3. CASE PointActive
    BY <1>3, FieldValues, MoreFields DEF PointActive, Then, RuntimeInv, OwnJournal,
       Building, Switching, SwitchSteps, At, TargetInv, TargetOK, TargetStepOK, Undoing
  <1>4. CASE ApplyActiveFirewall
    BY <1>4, FieldValues, MoreFields DEF ApplyActiveFirewall, Then, durable, RuntimeInv,
       OwnJournal, Building, Switching, SwitchSteps, At, TargetInv, TargetOK, TargetStepOK,
       Undoing
  <1>5. CASE StartRtpengine
    BY <1>5, FieldValues, MoreFields DEF StartRtpengine, Started, Services, durable,
       RuntimeInv, OwnJournal, Building, Switching, SwitchSteps, At, TargetInv, TargetOK,
       TargetStepOK, Undoing
  <1>6. CASE StartOpensips
    BY <1>6, FieldValues, MoreFields DEF StartOpensips, Then, Started, Services, durable,
       RuntimeInv, OwnJournal, Building, Switching, SwitchSteps, At, TargetInv, TargetOK,
       TargetStepOK, Undoing
  <1>7. CASE HealthPasses
    BY <1>7, FieldValues, MoreFields DEF HealthPasses, Healthy, BaselineHealthy, durable,
       RuntimeInv, OwnJournal, Building, Switching, SwitchSteps, At, TargetInv, TargetOK,
       TargetStepOK, Undoing, Restoring
  <1>8. CASE SwitchFails
    BY <1>8 DEF SwitchFails, durable, RuntimeInv, OwnJournal, Switching, TargetInv,
       TargetOK, TargetStepOK, Undoing
  <1>9. CASE RestoreFails
    BY <1>9, FieldValues, MoreFields DEF RestoreFails, Raise, Finish, durable, RuntimeInv,
       Building, Switching, SwitchSteps, IdleProcess, TargetInv, TargetOK, TargetStepOK,
       Restoring
  <1> QED BY <1>1, <1>2, <1>3, <1>4, <1>5, <1>6, <1>7, <1>8, <1>9, WriteJournalKeepsTarget

(* The writes that end a transaction.                                       *)
LEMMA OutcomeKeepsTarget ==
  ASSUME RuntimeInv, FloorOK, TargetInv,
         \/ WriteSuccessEvidence \/ CommitState \/ CommitUnlink \/ RestoredUnlink
         \/ RestoredEvidence \/ RestoredState \/ FailedEvidence
  PROVE  TargetInv'
  <1>1. CASE WriteSuccessEvidence
    BY <1>1, FieldValues, MoreFields DEF WriteSuccessEvidence, WriteEvidence, EvidenceFor,
       ActionOf, RuntimeInv, OwnJournal, Switching, SwitchSteps, At, TargetInv, TargetOK,
       TargetStepOK, Undoing
  <1>2. CASE CommitState
    BY <1>2, FieldValues, MoreFields DEF CommitState, RuntimeInv, ProgressOK, OwnJournal,
       Building, Switching, SwitchSteps, At, TargetInv, TargetOK, TargetStepOK, Restoring
  <1>3. CASE CommitUnlink
    BY <1>3 DEF CommitUnlink, Finish, Building, Switching, SwitchSteps, At, IdleProcess,
       TargetInv, TargetOK, TargetStepOK, Restoring
  <1>4. CASE RestoredUnlink
    BY <1>4, FieldValues, MoreFields DEF RestoredUnlink, RuntimeInv, Building, Switching,
       SwitchSteps, At, TargetInv, TargetOK, TargetStepOK, Undoing, Restoring
  <1>5. CASE RestoredEvidence
    BY <1>5, FieldValues, MoreFields DEF RestoredEvidence, WriteEvidence, EvidenceFor,
       ActionOf, RuntimeInv, Building, Switching, SwitchSteps, At, TargetInv, TargetOK,
       TargetStepOK, Undoing, Restoring
  <1>6. CASE RestoredState
    BY <1>6, RecoveredFields DEF RestoredState, RecordLast, EvidenceFor, Finish, RuntimeInv,
       Building, Switching, SwitchSteps, At, IdleProcess, TargetInv, TargetOK, TargetStepOK,
       Restoring
  <1>7. CASE FailedEvidence
    BY <1>7 DEF FailedEvidence, Finish, durable, RuntimeInv, Building, Switching,
       SwitchSteps, At, IdleProcess, TargetInv, TargetOK, TargetStepOK, Restoring
  <1> QED BY <1>1, <1>2, <1>3, <1>4, <1>5, <1>6, <1>7

(* Commands that begin, crashes, reboots and queued start jobs.             *)
LEMMA EnvironmentKeepsTarget ==
  ASSUME RuntimeInv, FloorOK, TargetInv,
         \/ Environment \/ Recover
         \/ \E c \in Candidate : Activate(c) \/ Rollback(c)
  PROVE  TargetInv'
  <1>1. ASSUME NEW op, NEW c, Begin(op, c)
        PROVE  TargetInv'
    BY <1>1 DEF Begin, durable, RuntimeInv, Building, Switching, SwitchSteps, At,
       IdleProcess, TargetInv, TargetOK, TargetStepOK, Restoring
  <1>2. CASE Crash
    BY <1>2 DEF Crash, durable, RuntimeInv, Building, Switching, SwitchSteps, At,
       IdleProcess, TargetInv, TargetOK, TargetStepOK, Restoring
  <1>3. CASE Reboot
    BY <1>3 DEF Reboot, durable, Building, Switching, SwitchSteps, IdleProcess, TargetInv,
       TargetOK, TargetStepOK, Restoring
  <1>4. ASSUME NEW s \in Services, QueueStart(s) \/ RunStartJob(s)
        PROVE  TargetInv'
    BY <1>4 DEF QueueStart, RunStartJob, Services, durable, RuntimeInv, OwnJournal,
       TargetInv, TargetOK, TargetStepOK, Undoing, Committed
  <1>5. CASE \E c \in Candidate : Activate(c) \/ Rollback(c)
    BY <1>1, <1>5 DEF Activate, Rollback
  <1>6. CASE Recover \/ BootRecover
    BY <1>1, <1>6 DEF Recover, BootRecover
  <1> QED BY <1>2, <1>3, <1>4, <1>5, <1>6 DEF Environment

-----------------------------------------------------------------------------
(* The live data plane.                                                     *)
(* ... and has stopped nothing yet.                                         *)
LEMMA CheckTargetKeepsLive ==
  ASSUME RuntimeInv, FloorOK, TargetInv, LiveInv, CheckTarget
  PROVE  LiveInv'
  BY CheckTargetFields DEF CheckTarget, durable, IdleProcess, LiveInv, LiveOK, LiveStepOK,
     ServesPointer, Reached, Restoring, Restarted

(* _initialize and the two ways out of recovery.                            *)
LEMMA RecoveryKeepsLive ==
  ASSUME RuntimeInv, FloorOK, TargetInv, LiveInv,
         \/ Initialize \/ RecoverFinalize \/ RecoverToPrior \/ FinalHealth \/ FinalUnlink
  PROVE  LiveInv'
  <1>1. CASE Initialize
    BY <1>1, FieldValues DEF Initialize, Body, Raise, Finish, durable, RuntimeInv, At,
       IdleProcess, LiveInv, LiveOK, LiveStepOK, ServesPointer, Reached, Restoring,
       Restarted
  <1>2. CASE RecoverFinalize
    BY <1>2, FieldValues DEF RecoverFinalize, Raise, Finish, durable, RuntimeInv, At,
       IdleProcess, LiveInv, LiveOK, LiveStepOK, ServesPointer, Reached, Restoring,
       Restarted
  <1>3. CASE RecoverToPrior
    BY <1>3 DEF RecoverToPrior, durable, live, RuntimeInv, ProgressOK, At, LiveInv, LiveOK,
       LiveStepOK, ServesPointer, Reached, Restoring, Restarted, Goal
  <1>4. CASE FinalHealth
    BY <1>4, FieldValues DEF FinalHealth, Raise, Finish, BaselineHealthy, durable,
       RuntimeInv, At, IdleProcess, LiveInv, LiveOK, LiveStepOK, ServesPointer, Reached,
       Restoring, Restarted
  <1>5. CASE FinalUnlink
    BY <1>5, RecoveredFields DEF FinalUnlink, Committed, RuntimeInv, At, LiveInv, LiveOK,
       LiveStepOK, ServesPointer, Stopped, Reached, Restarted, TargetInv, TargetStepOK
  <1> QED BY <1>1, <1>2, <1>3, <1>4, <1>5

(* The preparation of a candidate or of a manual rollback.                  *)
LEMMA PrepareKeepsLive ==
  ASSUME RuntimeInv, FloorOK, TargetInv, LiveInv,
         \/ CheckAccept \/ CheckReject \/ MakeReleaseDir \/ FillReleaseDir
         \/ OfflineValidate \/ PreflightFails \/ PreflightEvidence \/ PreflightState
         \/ CheckTarget
  PROVE  LiveInv'
  <1>1. CASE CheckAccept
    BY <1>1 DEF CheckAccept, live, RuntimeInv, At, LiveInv, LiveOK, LiveStepOK,
       ServesPointer, Reached, Restoring, Restarted
  <1>2. CASE CheckReject
    BY <1>2 DEF CheckReject, Raise, Finish, durable, RuntimeInv, At, IdleProcess, LiveInv,
       LiveOK, LiveStepOK, ServesPointer, Reached, Restoring, Restarted
  <1>3. CASE MakeReleaseDir
    BY <1>3, FieldValues DEF MakeReleaseDir, live, RuntimeInv, At, LiveInv, LiveOK,
       LiveStepOK, ServesPointer, Reached, Restoring, Restarted
  <1>4. CASE FillReleaseDir
    BY <1>4, FieldValues DEF FillReleaseDir, live, RuntimeInv, At, LiveInv, LiveOK,
       LiveStepOK, ServesPointer, Reached, Restoring, Restarted
  <1>5. CASE OfflineValidate
    BY <1>5 DEF OfflineValidate, durable, live, RuntimeInv, At, LiveInv, LiveOK, LiveStepOK,
       ServesPointer, Reached, Restoring, Restarted
  <1>6. CASE PreflightFails
    BY <1>6, FieldValues DEF PreflightFails, durable, live, RuntimeInv, LiveInv, LiveOK,
       LiveStepOK, ServesPointer, Reached, Restoring, Restarted
  <1>7. CASE PreflightEvidence
    BY <1>7, FieldValues DEF PreflightEvidence, WriteEvidence, EvidenceFor, ActionOf, live,
       RuntimeInv, At, LiveInv, LiveOK, LiveStepOK, ServesPointer, Reached, Restoring,
       Restarted
  <1>8. CASE PreflightState
    BY <1>8 DEF PreflightState, Finish, RuntimeInv, ProgressOK, Building, At, IdleProcess,
       LiveInv, LiveOK, LiveStepOK, ServesPointer, Reached, Restoring, Restarted
  <1> QED BY <1>1, <1>2, <1>3, <1>4, <1>5, <1>6, <1>7, <1>8, CheckTargetKeepsLive

(* The live steps of a switch or a restore, and their failures.             *)
LEMMA SwitchKeepsLive ==
  ASSUME RuntimeInv, FloorOK, TargetInv, LiveInv,
         \/ WriteJournal \/ StopOpensips \/ StopRtpengine \/ PointActive
         \/ ApplyActiveFirewall \/ StartRtpengine \/ StartOpensips \/ HealthPasses
         \/ SwitchFails \/ RestoreFails
  PROVE  LiveInv'
  <1>1. CASE WriteJournal
    <2>1. UNCHANGED <<state, pointer, svc, jobs, nft>> /\ proc.pc = "journal" /\ proc.mode = "switch"
      BY <1>1 DEF WriteJournal, At, RuntimeInv, ProgressOK, live
    <2>2. proc.prior = state.active /\ proc.target # state.active
      BY <2>1 DEF TargetInv, TargetStepOK, Switching, SwitchSteps
    <2>3. LiveOK'
      BY <1>1, <2>1, <2>2, WriteJournalFields DEF LiveInv, LiveOK, ServesPointer,
         RuntimeInv, ProgressOK, JournalOK
    <2>4. LiveStepOK'
      BY <1>1, <2>1, <2>2, WriteJournalFields, FieldTypes DEF RuntimeInv, AfterJournal,
         Phases, LiveInv, LiveStepOK, Reached, Stopped, ServesPointer, Goal, Restarted,
         Restoring
    <2> QED BY <2>3, <2>4 DEF LiveInv
  <1>2. CASE StopOpensips
    BY <1>2, FieldValues DEF StopOpensips, Services, durable, RuntimeInv, TypeOK, At,
       LiveInv, LiveOK, LiveStepOK, ServesPointer, Reached, Restoring, Restarted
  <1>3. CASE StopRtpengine
    BY <1>3, FieldValues DEF StopRtpengine, Then, Services, durable, RuntimeInv, TypeOK, At,
       LiveInv, LiveOK, LiveStepOK, ServesPointer, Stopped, Reached, Restoring, Restarted
  <1>4. CASE PointActive
    BY <1>4, FieldValues DEF PointActive, Then, live, RuntimeInv, JournalOK, ProgressOK,
       OwnJournal, Building, Switching, SwitchSteps, At, LiveInv, LiveOK, LiveStepOK,
       ServesPointer, Stopped, Reached, Restoring, Restarted, Goal, TargetInv, TargetStepOK
  <1>5. CASE ApplyActiveFirewall
    BY <1>5, FieldValues DEF ApplyActiveFirewall, Then, durable, RuntimeInv, At, LiveInv,
       LiveOK, LiveStepOK, ServesPointer, Stopped, Reached, Restoring, Restarted, Goal
  <1>6. CASE StartRtpengine
    BY <1>6, FieldValues DEF StartRtpengine, Started, Services, durable, RuntimeInv, At,
       LiveInv, LiveOK, LiveStepOK, ServesPointer, Reached, Restoring, Restarted, Goal
  <1>7. CASE StartOpensips
    BY <1>7, FieldValues DEF StartOpensips, Then, Started, Services, durable, RuntimeInv,
       At, LiveInv, LiveOK, LiveStepOK, ServesPointer, Reached, Restoring, Restarted, Goal
  <1>8. CASE HealthPasses
    BY <1>8, FieldValues DEF HealthPasses, Healthy, BaselineHealthy, durable, live,
       RuntimeInv, At, LiveInv, LiveOK, LiveStepOK, ServesPointer, Reached, Goal
  <1>9. CASE SwitchFails
    BY <1>9 DEF SwitchFails, durable, live, RuntimeInv, LiveInv, LiveOK, LiveStepOK,
       ServesPointer, Reached, Restoring, Restarted
  <1>10. CASE RestoreFails
    BY <1>10, FieldValues DEF RestoreFails, Raise, Finish, durable, RuntimeInv, IdleProcess,
       LiveInv, LiveOK, LiveStepOK, ServesPointer, Reached, Restoring, Restarted
  <1> QED BY <1>1, <1>2, <1>3, <1>4, <1>5, <1>6, <1>7, <1>8, <1>9, <1>10

(* The writes that end a transaction.                                       *)
LEMMA OutcomeKeepsLive ==
  ASSUME RuntimeInv, FloorOK, TargetInv, LiveInv,
         \/ WriteSuccessEvidence \/ CommitState \/ CommitUnlink \/ RestoredUnlink
         \/ RestoredEvidence \/ RestoredState \/ FailedEvidence
  PROVE  LiveInv'
  <1>1. CASE WriteSuccessEvidence
    BY <1>1, FieldValues DEF WriteSuccessEvidence, WriteEvidence, EvidenceFor, ActionOf,
       live, RuntimeInv, At, LiveInv, LiveOK, LiveStepOK, ServesPointer, Reached, Restarted,
       Goal
  <1>2. CASE CommitState
    BY <1>2, FieldValues DEF CommitState, live, RuntimeInv, At, LiveInv, LiveOK, LiveStepOK,
       ServesPointer, Reached, Restarted
  <1>3. CASE CommitUnlink
    BY <1>3 DEF CommitUnlink, Finish, OwnJournal, At, IdleProcess, LiveInv, LiveOK,
       LiveStepOK, ServesPointer, Stopped, Reached, Restarted, TargetInv, TargetStepOK
  <1>4. CASE RestoredUnlink
    BY <1>4, FieldValues DEF RestoredUnlink, live, RuntimeInv, At, LiveInv, LiveOK,
       LiveStepOK, ServesPointer, Reached, Restoring, Restarted
  <1>5. CASE RestoredEvidence
    BY <1>5, FieldValues DEF RestoredEvidence, WriteEvidence, EvidenceFor, ActionOf, live,
       RuntimeInv, At, LiveInv, LiveOK, LiveStepOK, ServesPointer, Reached, Restoring,
       Restarted
  <1>6. CASE RestoredState
    BY <1>6, RecoveredFields DEF RestoredState, Finish, RuntimeInv, ProgressOK, At,
       IdleProcess, LiveInv, LiveOK, LiveStepOK, ServesPointer, Reached, Restoring,
       Restarted
  <1>7. CASE FailedEvidence
    BY <1>7 DEF FailedEvidence, Finish, durable, RuntimeInv, At, IdleProcess, LiveInv,
       LiveOK, LiveStepOK, ServesPointer, Reached, Restoring, Restarted
  <1> QED BY <1>1, <1>2, <1>3, <1>4, <1>5, <1>6, <1>7

(* Commands that begin, crashes, reboots and queued start jobs.             *)
LEMMA EnvironmentKeepsLive ==
  ASSUME RuntimeInv, FloorOK, TargetInv, LiveInv,
         \/ Environment \/ Recover
         \/ \E c \in Candidate : Activate(c) \/ Rollback(c)
  PROVE  LiveInv'
  <1>1. ASSUME NEW op, NEW c, Begin(op, c)
        PROVE  LiveInv'
    BY <1>1 DEF Begin, durable, live, RuntimeInv, At, LiveInv, LiveOK, LiveStepOK,
       ServesPointer, Reached, Restoring, Restarted
  <1>2. CASE Crash
    BY <1>2 DEF Crash, durable, live, RuntimeInv, At, IdleProcess, LiveInv, LiveOK,
       LiveStepOK, ServesPointer, Reached, Restoring, Restarted
  <1>3. CASE Reboot
    BY <1>3 DEF Reboot, durable, IdleProcess, LiveInv, LiveOK, LiveStepOK, ServesPointer,
       Reached, Restoring, Restarted
  <1>4. ASSUME NEW s \in Services, QueueStart(s) \/ RunStartJob(s)
        PROVE  LiveInv'
    BY <1>4 DEF QueueStart, RunStartJob, Started, Services, durable, RuntimeInv, TypeOK, At,
       LiveInv, LiveOK, LiveStepOK, ServesPointer, Stopped, Reached, Goal
  <1>5. CASE \E c \in Candidate : Activate(c) \/ Rollback(c)
    BY <1>1, <1>5 DEF Activate, Rollback
  <1>6. CASE Recover \/ BootRecover
    BY <1>1, <1>6 DEF Recover, BootRecover
  <1> QED BY <1>2, <1>3, <1>4, <1>5, <1>6 DEF Environment

-----------------------------------------------------------------------------
(* The evidence.                                                            *)
(* ... and has aborted nothing yet.                                         *)
LEMMA CheckTargetKeepsEvidence ==
  ASSUME RuntimeInv, FloorOK, TargetInv, EvidenceInv, CheckTarget
  PROVE  EvidenceInv'
  BY CheckTargetFields DEF CheckTarget, durable, IdleProcess, Building, Switching,
     SwitchSteps, EvidenceInv, EvidenceOK, EvidenceStepOK, ProtectedReleasesAreSound,
     CommittedJournalProvable, ProtectedReleasesWereHealthy, AbortIsFinal, Committed,
     CommittedConsistent, Restoring

(* ... and no abort names it.                                               *)
LEMMA CheckAcceptKeepsEvidence ==
  ASSUME RuntimeInv, FloorOK, TargetInv, EvidenceInv, CheckAccept
  PROVE  EvidenceInv'
  <1>1. \A e \in evidence : e.action = "ABORT_PENDING" => Seq0(e.release) < SeqOf[proc.cand]
    BY CheckAcceptFields, SeqTypes DEF EvidenceInv, EvidenceOK, RuntimeInv, TypeOK, Evidence
  <1>2. AbortEvidence(proc.cand) \notin evidence
    BY <1>1, CheckAcceptFields DEF AbortEvidence
  <1>3. EvidenceStepOK'
    BY <1>2 DEF CheckAccept, EvidenceStepOK, Restoring
  <1>4. EvidenceOK'
    BY <1>1, CheckAcceptFields, SeqTypes DEF CheckAccept, EvidenceInv, EvidenceOK,
       ProtectedReleasesAreSound, CommittedJournalProvable, ProtectedReleasesWereHealthy,
       AbortIsFinal, RuntimeInv, TypeOK, Evidence
  <1> QED BY <1>3, <1>4 DEF EvidenceInv

(* The commit makes a healthy candidate active, and its journal proves it.  *)
LEMMA CommitStateKeepsEvidence ==
  ASSUME RuntimeInv, FloorOK, TargetInv, EvidenceInv, CommitState
  PROVE  EvidenceInv'
  <1>1. /\ state'.highest = state.highest /\ state'.active = proc.target
        /\ state'.previous = state.active
        /\ state'.last = EvidenceFor(SuccessStatus)
    BY DEF CommitState
  <1>2. /\ journal # Nil /\ journal.target = proc.target /\ journal.prior = state.active
        /\ journal.phase = "SERVICES_STARTED"
        /\ journal.operation = "APPLY" => proc.op = "activate"
        /\ pointer = proc.target /\ proc.target # state.active
        /\ proc.mode = "switch"  /\ proc.op \in {"activate", "rollback"}
    BY DEF CommitState, At, RuntimeInv, ProgressOK, OwnJournal, TargetInv, TargetStepOK,
       Switching
  <1>3. /\ state'.last # Nil
        /\ proc.op = "activate" => state'.last = SuccessEvidence(proc.target)
    BY <1>1, <1>2, EvidenceTypes, StatusTypes, RuntimeConstants DEF EvidenceFor,
       SuccessStatus, ActionOf, SuccessEvidence, CommitState, At, RuntimeInv, ReplacesOK,
       Switching
  <1>4. CommittedJournalProvable'
    BY <1>1, <1>2, <1>3 DEF CommitState, At, EvidenceInv, EvidenceStepOK,
       CommittedJournalProvable, CommittedConsistent
  <1>5. ProtectedReleasesWereHealthy'
    BY <1>1, <1>2 DEF CommitState, At, EvidenceInv, EvidenceStepOK, EvidenceOK,
       ProtectedReleasesAreSound, ProtectedReleasesWereHealthy, TargetInv, TargetStepOK,
       Switching
  <1>6. AbortIsFinal'
    BY <1>1, <1>2 DEF CommitState, At, EvidenceInv, EvidenceStepOK, EvidenceOK,
       ProtectedReleasesAreSound, AbortIsFinal, AbortEvidence, TargetInv, TargetStepOK,
       Switching, RuntimeInv, TypeOK, Evidence
  <1>7. EvidenceStepOK'
    BY FieldValues DEF CommitState, RuntimeInv, EvidenceStepOK, Building, Switching,
       SwitchSteps, Restoring
  <1> QED BY <1>1, <1>4, <1>5, <1>6, <1>7 DEF EvidenceInv, EvidenceOK,
             ProtectedReleasesAreSound, CommitState

(* _initialize and the two ways out of recovery.                            *)
LEMMA RecoveryKeepsEvidence ==
  ASSUME RuntimeInv, FloorOK, TargetInv, EvidenceInv,
         \/ Initialize \/ RecoverFinalize \/ RecoverToPrior \/ FinalHealth \/ FinalUnlink
  PROVE  EvidenceInv'
  <1>1. CASE Initialize
    BY <1>1, FieldValues DEF Initialize, Body, Raise, Finish, durable, RuntimeInv, Building,
       Switching, SwitchSteps, At, IdleProcess, EvidenceInv, EvidenceOK, EvidenceStepOK,
       ProtectedReleasesAreSound, CommittedJournalProvable, ProtectedReleasesWereHealthy,
       AbortIsFinal, Committed, CommittedConsistent, Restoring
  <1>2. CASE RecoverFinalize
    BY <1>2, FieldValues DEF RecoverFinalize, durable, RuntimeInv, ProgressOK, Building,
       Switching, SwitchSteps, At, EvidenceInv, EvidenceOK, EvidenceStepOK,
       ProtectedReleasesAreSound, CommittedJournalProvable, ProtectedReleasesWereHealthy,
       AbortIsFinal, CommittedConsistent, Restoring
  <1>3. CASE RecoverToPrior
    BY <1>3 DEF RecoverToPrior, Committed, durable, RuntimeInv, ProgressOK, FloorOK,
       Building, Switching, SwitchSteps, At, EvidenceInv, EvidenceOK, EvidenceStepOK,
       ProtectedReleasesAreSound, CommittedJournalProvable, ProtectedReleasesWereHealthy,
       AbortIsFinal, Committed
  <1>4. CASE FinalHealth
    BY <1>4, FieldValues DEF FinalHealth, Raise, Finish, BaselineHealthy, durable,
       RuntimeInv, Building, Switching, SwitchSteps, At, IdleProcess, EvidenceInv,
       EvidenceOK, EvidenceStepOK, ProtectedReleasesAreSound, CommittedJournalProvable,
       ProtectedReleasesWereHealthy, AbortIsFinal, Committed, CommittedConsistent, Restoring
  <1>5. CASE FinalUnlink
    BY <1>5, RecoveredFields DEF FinalUnlink, Building, Switching, SwitchSteps, At,
       EvidenceInv, EvidenceOK, EvidenceStepOK, ProtectedReleasesAreSound,
       CommittedJournalProvable, ProtectedReleasesWereHealthy, AbortIsFinal, Restoring
  <1> QED BY <1>1, <1>2, <1>3, <1>4, <1>5

(* The preparation of a candidate or of a manual rollback.                  *)
LEMMA PrepareKeepsEvidence ==
  ASSUME RuntimeInv, FloorOK, TargetInv, EvidenceInv,
         \/ CheckAccept \/ CheckReject \/ MakeReleaseDir \/ FillReleaseDir
         \/ OfflineValidate \/ PreflightFails \/ PreflightEvidence \/ PreflightState
         \/ CheckTarget
  PROVE  EvidenceInv'
  <1>1. CASE CheckReject
    BY <1>1 DEF CheckReject, Raise, Finish, durable, RuntimeInv, ProgressOK, Building,
       Switching, SwitchSteps, At, IdleProcess, EvidenceInv, EvidenceOK, EvidenceStepOK,
       ProtectedReleasesAreSound, CommittedJournalProvable, ProtectedReleasesWereHealthy,
       AbortIsFinal, Restoring
  <1>2. CASE MakeReleaseDir
    BY <1>2, FieldValues DEF MakeReleaseDir, RuntimeInv, ProgressOK, FloorOK, Building, At,
       EvidenceInv, EvidenceOK, EvidenceStepOK, ProtectedReleasesAreSound,
       CommittedJournalProvable, ProtectedReleasesWereHealthy, AbortIsFinal
  <1>3. CASE FillReleaseDir
    BY <1>3, FieldValues DEF FillReleaseDir, RuntimeInv, ProgressOK, FloorOK, Building, At,
       EvidenceInv, EvidenceOK, EvidenceStepOK, ProtectedReleasesAreSound,
       CommittedJournalProvable, ProtectedReleasesWereHealthy, AbortIsFinal
  <1>4. CASE OfflineValidate
    BY <1>4 DEF OfflineValidate, durable, RuntimeInv, ProgressOK, FloorOK, Building,
       Switching, SwitchSteps, At, EvidenceInv, EvidenceOK, EvidenceStepOK,
       ProtectedReleasesAreSound, CommittedJournalProvable, ProtectedReleasesWereHealthy,
       AbortIsFinal
  <1>5. CASE PreflightFails
    BY <1>5, FieldValues DEF PreflightFails, durable, RuntimeInv, ProgressOK, FloorOK,
       Building, Switching, SwitchSteps, EvidenceInv, EvidenceOK, EvidenceStepOK,
       ProtectedReleasesAreSound, CommittedJournalProvable, ProtectedReleasesWereHealthy,
       AbortIsFinal
  <1>6. CASE PreflightEvidence
    BY <1>6, FieldValues DEF PreflightEvidence, WriteEvidence, EvidenceFor, ActionOf,
       RuntimeInv, RequestOK, FloorOK, Building, Switching, SwitchSteps, At, EvidenceInv,
       EvidenceOK, EvidenceStepOK, ProtectedReleasesAreSound, CommittedJournalProvable,
       ProtectedReleasesWereHealthy, AbortIsFinal, Committed, CommittedConsistent,
       AbortEvidence, Undoing, TargetInv, TargetStepOK
  <1>7. CASE PreflightState
    BY <1>7 DEF PreflightState, RecordLast, Finish, RuntimeInv, ProgressOK, Building,
       Switching, SwitchSteps, At, IdleProcess, EvidenceInv, EvidenceOK, EvidenceStepOK,
       ProtectedReleasesAreSound, CommittedJournalProvable, ProtectedReleasesWereHealthy,
       AbortIsFinal, Restoring
  <1> QED BY <1>1, <1>2, <1>3, <1>4, <1>5, <1>6, <1>7, CheckAcceptKeepsEvidence,
             CheckTargetKeepsEvidence

(* The live steps of a switch or a restore, and their failures.             *)
LEMMA SwitchKeepsEvidence ==
  ASSUME RuntimeInv, FloorOK, TargetInv, EvidenceInv,
         \/ WriteJournal \/ StopOpensips \/ StopRtpengine \/ PointActive
         \/ ApplyActiveFirewall \/ StartRtpengine \/ StartOpensips \/ HealthPasses
         \/ SwitchFails \/ RestoreFails
  PROVE  EvidenceInv'
  <1>1. CASE WriteJournal
    <2>1. UNCHANGED <<state, evidence>> /\ proc.pc = "journal" /\ proc.mode = "switch"
      BY <1>1 DEF WriteJournal, At, RuntimeInv, ProgressOK
    <2>2. proc.prior = state.active /\ proc.target # state.active
      BY <2>1 DEF TargetInv, TargetStepOK, Switching, SwitchSteps
    <2>3. EvidenceOK'
      BY <1>1, <2>1, <2>2, WriteJournalFields DEF EvidenceInv, EvidenceOK,
         ProtectedReleasesAreSound, CommittedJournalProvable, ProtectedReleasesWereHealthy,
         AbortIsFinal, Committed
    <2>4. EvidenceStepOK'
      BY <1>1, <2>1, <2>2, WriteJournalFields DEF EvidenceInv, EvidenceStepOK, Building,
         Switching, SwitchSteps, Restoring, AbortEvidence, SuccessEvidence
    <2> QED BY <2>3, <2>4 DEF EvidenceInv
  <1>2. CASE StopOpensips
    BY <1>2, FieldValues DEF StopOpensips, durable, RuntimeInv, FloorOK, Building,
       Switching, SwitchSteps, At, EvidenceInv, EvidenceOK, EvidenceStepOK,
       ProtectedReleasesAreSound, CommittedJournalProvable, ProtectedReleasesWereHealthy,
       AbortIsFinal, Committed, CommittedConsistent
  <1>3. CASE StopRtpengine
    BY <1>3, FieldValues DEF StopRtpengine, Then, Services, durable, RuntimeInv, FloorOK,
       Building, Switching, SwitchSteps, At, EvidenceInv, EvidenceOK, EvidenceStepOK,
       ProtectedReleasesAreSound, CommittedJournalProvable, ProtectedReleasesWereHealthy,
       AbortIsFinal, Committed, CommittedConsistent
  <1>4. CASE PointActive
    BY <1>4, FieldValues DEF PointActive, Then, RuntimeInv, JournalOK, FloorOK, Building,
       Switching, SwitchSteps, At, EvidenceInv, EvidenceOK, EvidenceStepOK,
       ProtectedReleasesAreSound, CommittedJournalProvable, ProtectedReleasesWereHealthy,
       AbortIsFinal, Committed, CommittedConsistent
  <1>5. CASE ApplyActiveFirewall
    BY <1>5, FieldValues DEF ApplyActiveFirewall, Then, durable, RuntimeInv, FloorOK,
       Building, Switching, SwitchSteps, At, EvidenceInv, EvidenceOK, EvidenceStepOK,
       ProtectedReleasesAreSound, CommittedJournalProvable, ProtectedReleasesWereHealthy,
       AbortIsFinal, Committed, CommittedConsistent
  <1>6. CASE StartRtpengine
    BY <1>6, FieldValues DEF StartRtpengine, durable, RuntimeInv, FloorOK, Building,
       Switching, SwitchSteps, At, EvidenceInv, EvidenceOK, EvidenceStepOK,
       ProtectedReleasesAreSound, CommittedJournalProvable, ProtectedReleasesWereHealthy,
       AbortIsFinal, Committed, CommittedConsistent
  <1>7. CASE StartOpensips
    BY <1>7, FieldValues DEF StartOpensips, Then, Started, Services, durable, RuntimeInv,
       FloorOK, Building, Switching, SwitchSteps, At, EvidenceInv, EvidenceOK,
       EvidenceStepOK, ProtectedReleasesAreSound, CommittedJournalProvable,
       ProtectedReleasesWereHealthy, AbortIsFinal, Committed, CommittedConsistent
  <1>8. CASE HealthPasses
    BY <1>8, FieldValues DEF HealthPasses, durable, RuntimeInv, FloorOK, Building,
       Switching, SwitchSteps, At, EvidenceInv, EvidenceOK, EvidenceStepOK,
       ProtectedReleasesAreSound, CommittedJournalProvable, ProtectedReleasesWereHealthy,
       AbortIsFinal, Committed, CommittedConsistent
  <1>9. CASE SwitchFails
    BY <1>9 DEF SwitchFails, durable, RuntimeInv, FloorOK, Building, Switching, EvidenceInv,
       EvidenceOK, EvidenceStepOK, ProtectedReleasesAreSound, CommittedJournalProvable,
       ProtectedReleasesWereHealthy, AbortIsFinal, Committed, CommittedConsistent
  <1>10. CASE RestoreFails
    BY <1>10, FieldValues DEF RestoreFails, Raise, Finish, durable, RuntimeInv, Building,
       Switching, SwitchSteps, IdleProcess, EvidenceInv, EvidenceOK, EvidenceStepOK,
       ProtectedReleasesAreSound, CommittedJournalProvable, ProtectedReleasesWereHealthy,
       AbortIsFinal, Committed, CommittedConsistent, Restoring
  <1> QED BY <1>1, <1>2, <1>3, <1>4, <1>5, <1>6, <1>7, <1>8, <1>9, <1>10

(* The writes that end a transaction.                                       *)
LEMMA OutcomeKeepsEvidence ==
  ASSUME RuntimeInv, FloorOK, TargetInv, EvidenceInv,
         \/ WriteSuccessEvidence \/ CommitState \/ CommitUnlink \/ RestoredUnlink
         \/ RestoredEvidence \/ RestoredState \/ FailedEvidence
  PROVE  EvidenceInv'
  <1>1. CASE WriteSuccessEvidence
    BY <1>1, FieldValues DEF WriteSuccessEvidence, WriteEvidence, EvidenceFor,
       SuccessStatus, ActionOf, RuntimeInv, FloorOK, Building, Switching, SwitchSteps, At,
       EvidenceInv, EvidenceOK, EvidenceStepOK, ProtectedReleasesAreSound,
       CommittedJournalProvable, ProtectedReleasesWereHealthy, AbortIsFinal, Committed,
       CommittedConsistent, AbortEvidence, SuccessEvidence
  <1>2. CASE CommitUnlink
    BY <1>2 DEF CommitUnlink, Finish, Building, Switching, SwitchSteps, At, IdleProcess,
       EvidenceInv, EvidenceOK, EvidenceStepOK, ProtectedReleasesAreSound,
       CommittedJournalProvable, ProtectedReleasesWereHealthy, AbortIsFinal, Restoring
  <1>3. CASE RestoredUnlink
    BY <1>3, FieldValues DEF RestoredUnlink, RuntimeInv, Building, Switching, SwitchSteps,
       At, EvidenceInv, EvidenceOK, EvidenceStepOK, ProtectedReleasesAreSound,
       CommittedJournalProvable, ProtectedReleasesWereHealthy, AbortIsFinal, Restoring
  <1>4. CASE RestoredEvidence
    BY <1>4, FieldValues DEF RestoredEvidence, WriteEvidence, EvidenceFor, RestoredStatus,
       ActionOf, RuntimeInv, Building, Switching, SwitchSteps, At, EvidenceInv, EvidenceOK,
       EvidenceStepOK, ProtectedReleasesAreSound, CommittedJournalProvable,
       ProtectedReleasesWereHealthy, AbortIsFinal, Committed, CommittedConsistent,
       AbortEvidence, Restoring, Undoing, TargetInv, TargetStepOK
  <1>5. CASE RestoredState
    BY <1>5, RecoveredFields DEF RestoredState, RecordLast, EvidenceFor, Finish, RuntimeInv,
       ProgressOK, Building, Switching, SwitchSteps, At, IdleProcess, EvidenceInv,
       EvidenceOK, EvidenceStepOK, ProtectedReleasesAreSound, CommittedJournalProvable,
       ProtectedReleasesWereHealthy, AbortIsFinal, Restoring
  <1>6. CASE FailedEvidence
    BY <1>6 DEF FailedEvidence, Finish, durable, RuntimeInv, Building, Switching,
       SwitchSteps, At, IdleProcess, EvidenceInv, EvidenceOK, EvidenceStepOK,
       ProtectedReleasesAreSound, CommittedJournalProvable, ProtectedReleasesWereHealthy,
       AbortIsFinal, Committed, CommittedConsistent, Restoring
  <1> QED BY <1>1, <1>2, <1>3, <1>4, <1>5, <1>6, CommitStateKeepsEvidence

(* Commands that begin, crashes, reboots and queued start jobs.             *)
LEMMA EnvironmentKeepsEvidence ==
  ASSUME RuntimeInv, FloorOK, TargetInv, EvidenceInv,
         \/ Environment \/ Recover
         \/ \E c \in Candidate : Activate(c) \/ Rollback(c)
  PROVE  EvidenceInv'
  <1>1. ASSUME NEW op, NEW c, Begin(op, c)
        PROVE  EvidenceInv'
    BY <1>1 DEF Begin, durable, RuntimeInv, Building, Switching, SwitchSteps, At,
       EvidenceInv, EvidenceOK, EvidenceStepOK, ProtectedReleasesAreSound,
       CommittedJournalProvable, ProtectedReleasesWereHealthy, AbortIsFinal, Committed,
       CommittedConsistent, Restoring
  <1>2. CASE Crash
    BY <1>2 DEF Crash, durable, RuntimeInv, Building, Switching, SwitchSteps, At,
       IdleProcess, EvidenceInv, EvidenceOK, EvidenceStepOK, ProtectedReleasesAreSound,
       CommittedJournalProvable, ProtectedReleasesWereHealthy, AbortIsFinal, Committed,
       CommittedConsistent, Restoring
  <1>3. CASE Reboot
    BY <1>3 DEF Reboot, durable, Building, Switching, SwitchSteps, IdleProcess, EvidenceInv,
       EvidenceOK, EvidenceStepOK, ProtectedReleasesAreSound, CommittedJournalProvable,
       ProtectedReleasesWereHealthy, AbortIsFinal, Committed, CommittedConsistent, Restoring
  <1>4. ASSUME NEW s \in Services, QueueStart(s) \/ RunStartJob(s)
        PROVE  EvidenceInv'
    BY <1>4 DEF QueueStart, RunStartJob, Services, durable, RuntimeInv, At, EvidenceInv,
       EvidenceOK, EvidenceStepOK, ProtectedReleasesAreSound, CommittedJournalProvable,
       ProtectedReleasesWereHealthy, AbortIsFinal, Committed, CommittedConsistent
  <1>5. CASE \E c \in Candidate : Activate(c) \/ Rollback(c)
    BY <1>1, <1>5 DEF Activate, Rollback
  <1>6. CASE Recover \/ BootRecover
    BY <1>1, <1>6 DEF Recover, BootRecover
  <1> QED BY <1>2, <1>3, <1>4, <1>5, <1>6 DEF Environment

-----------------------------------------------------------------------------
(* What a command prints.                                                   *)
(* A process that goes on has printed nothing.                              *)
LEMMA NotIdlePrinted ==
  ASSUME proc'.pc # "idle"
  PROVE  PrintedOutcomeIsTrue'
  BY DEF PrintedOutcomeIsTrue, At

(* Results that promise nothing.                                            *)
LEMMA OtherPrinted ==
  ASSUME result'.status \in {"REJECTED", "NO_RECOVERY", "LOST", "PREFLIGHT_FAILED", "RUNNING",
                             "ROLLBACK_FAILED", "MANUAL_RESTORE_FAILED"}
  PROVE  PrintedOutcomeIsTrue'
  BY DEF PrintedOutcomeIsTrue

(* A process that raises, or has nothing to recover, promises nothing.      *)
LEMMA RaisePrinted ==
  ASSUME Raise \/ Finish("NO_RECOVERY", Nil)
  PROVE  PrintedOutcomeIsTrue'
  BY OtherPrinted DEF Raise, Finish, Printed

(* _initialize and recovery.                                                *)
LEMMA RecoveryPrintsTruth ==
  ASSUME RuntimeInv, Initialize \/ RecoverFinalize \/ RecoverToPrior \/ FinalHealth
  PROVE  PrintedOutcomeIsTrue'
  <1>1. CASE Raise \/ Finish("NO_RECOVERY", Nil)
    BY <1>1, RaisePrinted
  <1>2. CASE \E x \in {"recover", "check", "check_target", "final_health",
                       "final_unlink"} : proc' = Goto(x)
    BY <1>2, NotIdlePrinted, FieldValues DEF RuntimeInv
  <1>3. CASE RecoverToPrior
    <2>1. proc'.pc # "idle"
      BY <1>3 DEF RecoverToPrior
    <2> QED BY <2>1, NotIdlePrinted
  <1> QED BY <1>1, <1>2, <1>3 DEF Initialize, RecoverFinalize, FinalHealth, Body

(* A finalised switch: its target is active and both services run on it.    *)
LEMMA FinalUnlinkPrintsTruth ==
  ASSUME RuntimeInv, TargetInv, LiveInv, FinalUnlink
  PROVE  PrintedOutcomeIsTrue'
  <1>1. CASE Body # "idle"
    BY <1>1, NotIdlePrinted, RecoveredFields DEF FinalUnlink, Recovered, Body, IdleProcess
  <1>2. CASE Body = "idle"
    <2>1. \A s \in Services : svc[s] = state.active
      BY DEF FinalUnlink, At, TargetInv, TargetStepOK, Committed, LiveInv, LiveOK,
         LiveStepOK, ServesPointer, Restarted
    <2>2. /\ result'.release = state.active
          /\ result'.status \in {"COMMITTED_FINALIZED", "MANUAL_FINALIZED"}
          /\ journal' = Nil
      BY <1>2 DEF FinalUnlink, Recovered, Finish, Printed
    <2> QED BY <2>1, <2>2 DEF FinalUnlink, PrintedOutcomeIsTrue
  <1> QED BY <1>1, <1>2

(* A committed switch.                                                      *)
LEMMA CommitPrintsTruth ==
  ASSUME RuntimeInv, TargetInv, LiveInv, CommitUnlink
  PROVE  PrintedOutcomeIsTrue'
  <1>1. \A s \in Services : svc[s] = state.active
    BY DEF CommitUnlink, At, RuntimeInv, ProgressOK, TargetInv, TargetStepOK, OwnJournal,
       LiveInv, LiveOK, LiveStepOK, ServesPointer, Restarted
  <1>2. /\ result'.release = state.active
        /\ result'.status \in {"APPLIED_HEALTHY", "MANUAL_HEALTHY"}
        /\ journal' = Nil
    BY DEF CommitUnlink, Finish, Printed, SuccessStatus, TargetInv, TargetStepOK, At
  <1> QED BY <1>1, <1>2 DEF CommitUnlink, PrintedOutcomeIsTrue

(* A restored release is not the one the result names.                      *)
LEMMA RestorePrintsTruth ==
  ASSUME RuntimeInv, TargetInv, LiveInv, RestoredState
  PROVE  PrintedOutcomeIsTrue'
  <1>1. CASE Finish(RestoredStatus, proc.target)
    <2>1. journal = Nil /\ pointer = state.active /\ proc.target # state.active
      BY DEF RestoredState, At, RuntimeInv, ProgressOK, JournalOK, TargetInv, TargetStepOK,
         Restoring
    <2>2. \A s \in Services : svc[s] = state.active
      BY <2>1 DEF RestoredState, At, LiveInv, LiveOK, LiveStepOK, ServesPointer, Restarted,
         Restoring
    <2>3. /\ result'.release = proc.target
          /\ result'.status \in {"RECOVERED_TO_PRIOR", "MANUAL_RECOVERED", "ROLLED_BACK",
                                 "MANUAL_RESTORED"}
      BY <1>1 DEF Finish, Printed, RestoredStatus
    <2>4. state'.active = state.active
      BY DEF RestoredState, RecordLast
    <2> QED BY <2>1, <2>2, <2>3, <2>4 DEF RestoredState, PrintedOutcomeIsTrue
  <1>2. CASE Body # "idle" /\ Recovered(RestoredStatus, proc.target)
    BY <1>2, NotIdlePrinted, RecoveredFields DEF Recovered, Body, IdleProcess
  <1> QED BY <1>1, <1>2 DEF RestoredState, Recovered

(* Steps that may end the process with a failure.                           *)
LEMMA FailuresPrintTruth ==
  ASSUME RuntimeInv,
          CheckReject \/ PreflightState \/ CheckTarget \/ RestoreFails \/ FailedEvidence
  PROVE  PrintedOutcomeIsTrue'
  <1>1. CASE Raise
    BY <1>1, RaisePrinted
  <1>2. CASE Finish("PREFLIGHT_FAILED", proc.target) \/ Finish(FailedStatus, proc.target)
    BY <1>2, OtherPrinted DEF Finish, Printed, FailedStatus
  <1>3. CASE CheckTarget /\ ~Raise
    <2>1. proc'.pc # "idle"
      BY <1>3 DEF CheckTarget, RuntimeInv, TypeOK, Process
    <2> QED BY <2>1, NotIdlePrinted
  <1>4. CASE proc' = Goto("failed_evidence")
    BY <1>4, NotIdlePrinted, FieldValues DEF RuntimeInv
  <1> QED BY <1>1, <1>2, <1>3, <1>4 DEF CheckReject, PreflightState, CheckTarget,
             RestoreFails, FailedEvidence

(* Steps that never end the process.                                        *)
LEMMA StepsPrintNothing ==
  ASSUME RuntimeInv,
     \/ CheckAccept \/ MakeReleaseDir \/ FillReleaseDir
     \/ OfflineValidate \/ PreflightFails \/ PreflightEvidence
     \/ WriteJournal \/ StopOpensips \/ StopRtpengine \/ PointActive
     \/ ApplyActiveFirewall \/ StartRtpengine \/ StartOpensips
     \/ HealthPasses \/ SwitchFails
     \/ WriteSuccessEvidence \/ CommitState \/ RestoredUnlink \/ RestoredEvidence
  PROVE  PrintedOutcomeIsTrue'
  <1> SUFFICES proc'.pc # "idle"
    BY NotIdlePrinted
  <1>1. CASE \E x \in Pcs \ {"idle"} : proc' = Goto(x)
    BY <1>1, FieldValues DEF RuntimeInv
  <1>2. CASE WriteJournal
    BY <1>2, WriteJournalFields
  <1>3. CASE CheckAccept
    BY <1>3, CheckAcceptFields
  <1>4. CASE OfflineValidate \/ SwitchFails
    BY <1>4 DEF OfflineValidate, SwitchFails, RuntimeInv, TypeOK, Process
  <1>5. CASE StopRtpengine
    BY <1>5, FieldValues DEF StopRtpengine, Then, RuntimeInv
  <1>6. CASE PointActive
    BY <1>6, FieldValues DEF PointActive, Then, RuntimeInv
  <1>7. CASE ApplyActiveFirewall
    BY <1>7, FieldValues DEF ApplyActiveFirewall, Then, RuntimeInv
  <1>8. CASE StartOpensips
    BY <1>8, FieldValues DEF StartOpensips, Then, RuntimeInv
  <1> QED BY <1>1, <1>2, <1>3, <1>4, <1>5, <1>6, <1>7, <1>8 DEF MakeReleaseDir, FillReleaseDir,
     PreflightFails, PreflightEvidence, WriteEvidence, StopOpensips, StartRtpengine,
             HealthPasses, WriteSuccessEvidence, CommitState, RestoredUnlink,
             RestoredEvidence, Pcs

(* A job starts only what is down.                                          *)
LEMMA JobsKeepPrinted ==
  ASSUME RuntimeInv, PrintedOutcomeIsTrue, NEW s \in Services, QueueStart(s) \/ RunStartJob(s)
  PROVE  PrintedOutcomeIsTrue'
  <1>1. CASE QueueStart(s)
    BY <1>1, NotIdlePrinted DEF QueueStart, At
  <1>2. CASE RunStartJob(s)
    <2>1. \A t \in Services : svc[t] # Down => svc'[t] = svc[t]
      BY <1>2 DEF RunStartJob, Started
    <2>2. state.active # Down
      BY FieldTypes, RuntimeConstants DEF RuntimeInv
    <2> QED BY <1>2, <2>1, <2>2 DEF RunStartJob, durable, PrintedOutcomeIsTrue, At
  <1> QED BY <1>1, <1>2

(* A command that begins or dies has printed nothing.                       *)
LEMMA BreaksPrintNothing ==
  ASSUME (\E op, c : Begin(op, c)) \/ Crash \/ Reboot
  PROVE  PrintedOutcomeIsTrue'
  <1>1. ASSUME NEW op, NEW c, Begin(op, c)
        PROVE  PrintedOutcomeIsTrue'
    BY <1>1, OtherPrinted DEF Begin, Printed
  <1>2. CASE Crash \/ Reboot
    BY <1>2, OtherPrinted DEF Crash, Reboot, Printed
  <1> QED BY <1>1, <1>2

(* The pointer moves in one step of the helper, once everything is stopped. *)
LEMMA PointerMovesStopped ==
  ASSUME RuntimeInv, LiveInv, Next, pointer' # pointer
  PROVE  \A s \in Services : svc[s] = Down
  <1>1. CASE PointActive
    BY <1>1 DEF PointActive, At, LiveInv, LiveStepOK, Reached, Stopped
  <1>2. CASE ~PointActive
      <3>1. CASE \/ \E c \in Candidate : Activate(c) \/ Rollback(c)
                 \/ Recover \/ Environment
        BY <3>1 DEF Activate, Rollback, Recover, Environment, BootRecover, Begin, Crash,
           Reboot, QueueStart, RunStartJob, durable
      <3>2. CASE Initialize \/ RecoverFinalize \/ RecoverToPrior \/ FinalHealth
                 \/ FinalUnlink \/ CheckAccept \/ CheckReject \/ MakeReleaseDir
                 \/ FillReleaseDir \/ OfflineValidate \/ PreflightFails
                 \/ PreflightEvidence \/ PreflightState \/ CheckTarget
        BY <3>2 DEF Initialize, RecoverFinalize, RecoverToPrior, FinalHealth, CheckAccept,
           PreflightState, FinalUnlink, CheckReject, MakeReleaseDir, FillReleaseDir,
           OfflineValidate, PreflightFails, PreflightEvidence, CheckTarget, WriteEvidence,
           durable
      <3>3. CASE WriteJournal \/ StopOpensips \/ StopRtpengine \/ CommitState
                 \/ ApplyActiveFirewall \/ StartRtpengine \/ StartOpensips
                 \/ HealthPasses \/ SwitchFails \/ RestoreFails
                 \/ WriteSuccessEvidence \/ CommitUnlink \/ RestoredUnlink
                 \/ RestoredEvidence \/ RestoredState \/ FailedEvidence
        BY <3>3 DEF WriteJournal, StopOpensips, StopRtpengine, ApplyActiveFirewall,
           StartRtpengine, StartOpensips, CommitState, RestoredState, HealthPasses,
           SwitchFails, RestoreFails, WriteSuccessEvidence, CommitUnlink, RestoredUnlink,
           RestoredEvidence, FailedEvidence, WriteEvidence, durable
      <3> QED BY <1>2, <3>1, <3>2, <3>3 DEF Next, Steps
  <1> QED BY <1>1, <1>2

-----------------------------------------------------------------------------
RuntimeSafety ==
  TargetInv /\ LiveInv /\ EvidenceInv /\ PrintedOutcomeIsTrue

(* Every step keeps what is said of targets, services and evidence ...      *)
LEMMA NextKeepsSafety ==
  ASSUME RuntimeInv, FloorOK, RuntimeSafety, Next
  PROVE  TargetInv' /\ LiveInv' /\ EvidenceInv'
  <1> USE DEF RuntimeSafety
  <1>1. CASE Steps
    <2>1. TargetInv'
      BY <1>1, RecoveryKeepsTarget, PrepareKeepsTarget, SwitchKeepsTarget,
         OutcomeKeepsTarget DEF Steps
    <2>2. LiveInv'
      BY <1>1, RecoveryKeepsLive, PrepareKeepsLive, SwitchKeepsLive, OutcomeKeepsLive DEF
         Steps
    <2>3. EvidenceInv'
      BY <1>1, RecoveryKeepsEvidence, PrepareKeepsEvidence, SwitchKeepsEvidence,
         OutcomeKeepsEvidence DEF Steps
    <2> QED BY <2>1, <2>2, <2>3
  <1>2. CASE ~Steps
    BY <1>2, EnvironmentKeepsTarget, EnvironmentKeepsLive, EnvironmentKeepsEvidence DEF Next
  <1> QED BY <1>1, <1>2

(* ... and prints only what is true.                                        *)
LEMMA NextPrintsTruth ==
  ASSUME RuntimeInv, RuntimeSafety, Next
  PROVE  PrintedOutcomeIsTrue'
  <1> USE DEF RuntimeSafety
  <1>1. CASE Steps
    BY <1>1, RecoveryPrintsTruth, FinalUnlinkPrintsTruth, CommitPrintsTruth,
       RestorePrintsTruth, FailuresPrintTruth, StepsPrintNothing DEF Steps
  <1>2. CASE \E c \in Candidate : Activate(c) \/ Rollback(c)
    BY <1>2, BreaksPrintNothing DEF Activate, Rollback
  <1>3. CASE Recover \/ Environment
    BY <1>3, BreaksPrintNothing, JobsKeepPrinted DEF Recover, BootRecover, Environment
  <1> QED BY <1>1, <1>2, <1>3 DEF Next

(* Init satisfies the invariant.                                            *)
LEMMA InitIsSafe == Init => RuntimeSafety
  <1> SUFFICES ASSUME Init PROVE RuntimeSafety
    OBVIOUS
  <1>1. Bootstrap # Nil
    BY RuntimeConstants DEF Release
  <1>2. TargetInv
    BY <1>1 DEF Init, IdleProcess, TargetInv, TargetOK, TargetStepOK, Building, Switching,
       SwitchSteps, Restoring
  <1>3. LiveInv
    BY DEF Init, IdleProcess, LiveInv, LiveOK, LiveStepOK, ServesPointer, Reached,
       Restarted, Restoring
  <1>4. EvidenceInv
    BY DEF Init, IdleProcess, EvidenceInv, EvidenceOK, EvidenceStepOK,
       ProtectedReleasesAreSound, CommittedJournalProvable, ProtectedReleasesWereHealthy,
       AbortIsFinal, Restoring
  <1>5. PrintedOutcomeIsTrue
    BY OtherPrinted DEF Init, Printed, PrintedOutcomeIsTrue
  <1> QED BY <1>2, <1>3, <1>4, <1>5 DEF RuntimeSafety

(* RuntimeSafety is inductive together with RuntimeInv and FloorOK.         *)
LEMMA RuntimeSafetyHolds == Spec => []RuntimeSafety
  <1>1. RuntimeInv /\ FloorOK /\ RuntimeSafety /\ [Next]_vars => RuntimeSafety'
    <2>1. CASE Next
      BY <2>1, NextKeepsSafety, NextPrintsTruth DEF RuntimeSafety
    <2>2. CASE UNCHANGED vars
      BY <2>2 DEF vars, RuntimeSafety, TargetInv, TargetOK, TargetStepOK, Undoing,
         OwnJournal, Committed, LiveInv, LiveOK, LiveStepOK, ServesPointer, Stopped,
         Reached, Goal, EvidenceInv, EvidenceOK, EvidenceStepOK, ProtectedReleasesAreSound,
         CommittedJournalProvable, CommittedConsistent, ProtectedReleasesWereHealthy,
         AbortIsFinal, PrintedOutcomeIsTrue, At
    <2> QED BY <2>1, <2>2
  <1> QED BY <1>1, InitIsSafe, RuntimeInvHolds, FloorHolds, PTL DEF Spec

(* Without a journal, the pointer, the loaded firewall and whatever runs    *)
(* are the protected active release's: no interruption, stale start job or  *)
(* power loss leaves the node serving a release the state does not name.    *)
THEOREM QuietNodeServesActive == Spec => []JournalFreeServesActive
  <1>1. RuntimeInv /\ RuntimeSafety => JournalFreeServesActive
    BY DEF RuntimeInv, JournalOK, RuntimeSafety, LiveInv, LiveOK, ServesPointer,
       JournalFreeServesActive
  <1> QED BY <1>1, RuntimeInvHolds, RuntimeSafetyHolds, PTL

(* A committed switch can be proved from the disk alone, the releases the   *)
(* state protects once passed their health plan, and a candidate reported   *)
(* as aborted never becomes one of them.                                    *)
THEOREM ProtectedReleasesStaySound == Spec => []ProtectedReleasesAreSound
  <1>1. RuntimeSafety => ProtectedReleasesAreSound
    BY DEF RuntimeSafety, EvidenceInv, EvidenceOK
  <1> QED BY <1>1, RuntimeSafetyHolds, PTL

(* What activate, rollback and recover print when they exit is true of the  *)
(* node, and stays true until the next command begins.                      *)
THEOREM PrintedOutcomesHold == Spec => []PrintedOutcomeIsTrue
  <1>1. RuntimeSafety => PrintedOutcomeIsTrue
    BY DEF RuntimeSafety
  <1> QED BY <1>1, RuntimeSafetyHolds, PTL

(* The active pointer moves only while both services are stopped.           *)
THEOREM PointerNeverMovesUnderService == Spec => PointerMovesWhileStopped
  <1>1. RuntimeInv /\ RuntimeSafety /\ [Next]_vars =>
          [pointer' # pointer => \A s \in Services : svc[s] = Down]_vars
    BY PointerMovesStopped DEF RuntimeSafety
  <1> QED BY <1>1, RuntimeInvHolds, RuntimeSafetyHolds, PTL
          DEF Spec, PointerMovesWhileStopped
=============================================================================
