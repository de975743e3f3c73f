------------------------------ MODULE EdgeRuntime ------------------------------
(***************************************************************************)
(* The privileged Edge runtime helper, edge/runtime/core.py.               *)
(*                                                                         *)
(* RuntimeManager owns an SBC node's live data plane.  Its durable state   *)
(* is the protected state file, the transaction journal, the active        *)
(* symlink, the immutable release directories and the evidence files; its  *)
(* live effects are the two data-plane services and the nftables table.    *)
(* Every write is an fsynced rename, so one write is one atomic action     *)
(* here, and a crash may fall between any two of them.  A file lock keeps  *)
(* at most one helper process running: that process is `proc`.             *)
(***************************************************************************)
EXTENDS Manifest

CONSTANTS
  Nil,         \* an absent record
  Down         \* a service that is not running

Services == {"rtpengine", "opensips"}
Phases   == {"STAGED", "STOPPED", "POINTER_ACTIVATED", "NFT_APPLIED",
             "SERVICES_STARTED"}

VARIABLES
  state,     \* state.json: RuntimeState
  journal,   \* the transaction journal, or Nil
  pointer,   \* release the `active` symlink names
  dirs,      \* release directories: "ABSENT", "PARTIAL" or "COMPLETE"
  evidence,  \* commit and abort evidence files, as [action, release]
  svc,       \* configuration each service loaded when it started, or Down
  jobs,      \* services whose start job systemd still has queued
  boot,      \* the boot unit has yet to run `recover`
  nft,       \* release whose nftables table is loaded
  proc,      \* the helper process holding the lock
  result,    \* what the last helper process printed
  calm       \* environment: from now on nothing fails and nothing crashes

durable == <<state, journal, pointer, dirs, evidence>>
live    == <<svc, jobs, nft>>
vars    == <<state, journal, pointer, dirs, evidence, svc, jobs, nft, boot, proc,
             result, calm>>

-----------------------------------------------------------------------------
(* Records.                                                                 *)

Ops == {"activate", "rollback", "recover", "boot"}

Pcs == {"idle", "initialize", "recover", "final_health", "final_unlink",
        "check", "make_dir", "fill_dir", "offline", "preflight_evidence",
        "preflight_state", "check_target", "journal", "stop_opensips",
        "stop_rtpengine", "point", "firewall", "start_rtpengine",
        "start_opensips", "health", "success_evidence", "commit_state",
        "commit_unlink", "restored_unlink", "restored_evidence",
        "restored_state", "failed_evidence"}

(* Evidence statuses, and the agentAction each of them carries.             *)
ActionOf == [
  APPLIED_HEALTHY       |-> "COMMIT_PENDING",
  PREFLIGHT_FAILED      |-> "ABORT_PENDING",
  ROLLED_BACK           |-> "ABORT_PENDING",
  RECOVERED_TO_PRIOR    |-> "ABORT_PENDING",
  ROLLBACK_FAILED       |-> "OPERATOR_RECOVERY_REQUIRED",
  MANUAL_HEALTHY        |-> "RECONCILE_PROTECTED_STATE",
  MANUAL_RECOVERED      |-> "RECONCILE_PROTECTED_STATE",
  MANUAL_RESTORED       |-> "NO_STATE_CHANGE",
  MANUAL_RESTORE_FAILED |-> "OPERATOR_RECOVERY_REQUIRED"]

EvidenceStatus == DOMAIN ActionOf
Actions == {ActionOf[e] : e \in EvidenceStatus}

ResultStatus == EvidenceStatus \cup {"NO_RECOVERY", "COMMITTED_FINALIZED",
                                     "MANUAL_FINALIZED", "REJECTED", "LOST", "RUNNING"}

Evidence    == [action : Actions, release : Release]
Operations  == {"APPLY", "MANUAL_ROLLBACK"}
Transaction == [operation : Operations, phase : Phases,
                prior : Release, target : Release]
State       == [highest : Nat, active : Release, previous : Release \cup {Nil},
                last : Evidence \cup {Nil}]

ASSUME RuntimeConstants ==
  /\ Nil \notin Release \cup Evidence \cup Transaction \cup Ops
  /\ Down \notin Release

(* mode "switch": _execute_switch runs; "restore": _rollback_live runs;     *)
(* recovering: _recover_locked is on the call stack, for a journal whose    *)
(* operation is `undo`.                                                     *)
Process == [op : Ops \cup {Nil}, pc : Pcs, cand : Candidate \cup {Nil},
            prior : Release \cup {Nil}, target : Release \cup {Nil},
            phase : Phases, mode : {"switch", "restore"},
            recovering : BOOLEAN, undo : Operations]

IdleProcess == [op |-> Nil, pc |-> "idle", cand |-> Nil, prior |-> Nil,
                target |-> Nil, phase |-> "STAGED", mode |-> "switch",
                recovering |-> FALSE, undo |-> "APPLY"]

Printed(op, status, release) ==
  [op |-> op, status |-> status, release |-> release]

At(pc) == proc.pc = pc
Goto(pc) == [proc EXCEPT !.pc = pc]

(* The helper process ends: it releases the lock and prints `status`.  The  *)
(* boot unit's ExecStartPost queues the data plane only on success.         *)
Finish(status, release) ==
  /\ proc' = IdleProcess
  /\ result' = Printed(proc.op, status, release)
  /\ jobs' = IF proc.op = "boot" /\ status # "REJECTED" THEN Services ELSE jobs

(* An exception that carries no evidence: exit code 2, nothing on stdout.   *)
Raise == Finish("REJECTED", Nil)

Init ==
  /\ state = [highest |-> 0, active |-> Bootstrap, previous |-> Nil, last |-> Nil]
  /\ journal = Nil
  /\ pointer = Bootstrap
  /\ dirs = [c \in Candidate |-> "ABSENT"]
  /\ evidence = {}
  /\ svc = [s \in Services |-> Bootstrap]
  /\ jobs = {}
  /\ nft = Bootstrap
  /\ boot = FALSE
  /\ proc = IdleProcess
  /\ result = Printed("boot", "NO_RECOVERY", Nil)
  /\ calm = FALSE

-----------------------------------------------------------------------------
(* Taking the lock and _initialize.                                         *)

Complete(r) == r \in Candidate => dirs[r] = "COMPLETE"

Begin(op, c) ==
  /\ At("idle")
  /\ proc' = [IdleProcess EXCEPT !.op = op, !.pc = "initialize", !.cand = c]
  /\ result' = Printed(op, "RUNNING", Nil)
  /\ UNCHANGED <<durable, live, calm>>

Activate(c) == Begin("activate", c) /\ UNCHANGED boot
Rollback(c) == Begin("rollback", c) /\ UNCHANGED boot
Recover     == Begin("recover", Nil) /\ UNCHANGED boot

(* Where the command goes once _initialize and any recovery are done.       *)
Body == CASE proc.op = "activate" -> "check"
          [] proc.op = "rollback" -> "check_target"
          [] OTHER -> "idle"

PointerExplained ==
  \/ pointer = state.active
  \/ journal # Nil /\ journal.prior = state.active /\ pointer = journal.target

InitializeOK ==
  /\ Complete(state.active)
  /\ state.previous # Nil => Complete(state.previous)
  /\ PointerExplained

Initialize ==
  /\ At("initialize")
  /\ IF ~InitializeOK THEN Raise
     ELSE IF journal # Nil
          THEN proc' = Goto("recover") /\ UNCHANGED <<jobs, result>>
     ELSE IF Body = "idle"
          THEN Finish("NO_RECOVERY", Nil)
          ELSE proc' = Goto(Body) /\ UNCHANGED <<jobs, result>>
  /\ UNCHANGED <<durable, svc, nft, boot, calm>>

-----------------------------------------------------------------------------
(* _recover_locked: finalise a committed switch, or return to the prior     *)
(* release.                                                                 *)

Committed == pointer = journal.target /\ state.active = journal.target

SuccessEvidence(r) == [action |-> "COMMIT_PENDING", release |-> r]

CommittedConsistent ==
  /\ journal.phase = "SERVICES_STARTED"
  /\ state.previous = journal.prior
  /\ state.last # Nil
  /\ journal.operation = "APPLY" =>
       /\ state.last = SuccessEvidence(state.active)
       /\ state.last \in evidence

RecoverFinalize ==
  /\ At("recover") /\ Committed
  /\ IF CommittedConsistent
     THEN proc' = Goto("final_health") /\ UNCHANGED <<jobs, result>>
     ELSE Raise
  /\ UNCHANGED <<durable, svc, nft, boot, calm>>

(* Mutant: recovery trusts the journal phase and not the pointer.           *)
RecoverByPhase ==
  /\ At("recover") /\ ~Committed
  /\ proc' = [proc EXCEPT
       !.mode = "restore", !.recovering = TRUE,
       !.prior = journal.prior, !.target = journal.target,
       !.undo = journal.operation,
       !.pc = IF journal.phase \notin {"STAGED", "STOPPED"}
              THEN "stop_opensips" ELSE "start_rtpengine"]
  /\ UNCHANGED <<durable, live, result, boot, calm>>

(* Recovery enters _rollback_live at its first step, or, when the journal   *)
(* proves that nothing was stopped, only starts the services again.         *)
RecoverToPrior ==
  /\ At("recover") /\ ~Committed
  /\ proc' = [proc EXCEPT
       !.mode = "restore", !.recovering = TRUE,
       !.prior = journal.prior, !.target = journal.target,
       !.undo = journal.operation,
       !.pc = IF pointer = journal.target \/ journal.phase # "STAGED"
              THEN "stop_opensips" ELSE "start_rtpengine"]
  /\ UNCHANGED <<durable, live, result, boot, calm>>

(* _baseline_health: the pointer, both services and the listeners that tell *)
(* a bootstrap configuration from a candidate's.                            *)
BaselineHealthy(r) ==
  /\ pointer = r
  /\ Complete(r)
  /\ \A s \in Services : svc[s] # Down
  /\ svc["opensips"] = Bootstrap <=> r = Bootstrap

(* _recover_locked returned: the recover command ends, activate and         *)
(* rollback drop the recovery result and go on.                             *)
Recovered(status, release) ==
  IF Body = "idle"
  THEN Finish(status, release)
  ELSE /\ proc' = [IdleProcess EXCEPT !.op = proc.op, !.pc = Body,
                                      !.cand = proc.cand]
       /\ UNCHANGED <<jobs, result>>

(* Mutant: a committed journal is removed without looking at the services.  *)
FinalWithoutHealth ==
  /\ At("final_health")
  /\ proc' = Goto("final_unlink")
  /\ UNCHANGED <<durable, live, result, boot, calm>>

FinalHealth ==
  /\ At("final_health")
  /\ \/ BaselineHealthy(state.active) /\ proc' = Goto("final_unlink")
        /\ UNCHANGED <<jobs, result>>
     \/ (~BaselineHealthy(state.active) \/ ~calm) /\ Raise
  /\ UNCHANGED <<durable, svc, nft, boot, calm>>

FinalUnlink ==
  /\ At("final_unlink")
  /\ journal' = Nil
  /\ Recovered(IF journal.operation = "APPLY" THEN "COMMITTED_FINALIZED"
               ELSE "MANUAL_FINALIZED", state.active)
  /\ UNCHANGED <<state, pointer, dirs, evidence, svc, nft, boot, calm>>

-----------------------------------------------------------------------------
(* activate: checks, replay floor, immutable release, offline validation.   *)

(* Mutant: the floor alone decides.                                         *)
AcceptAboveFloor == SeqOf[proc.cand] > state.highest

CandidateAcceptable ==
  /\ SeqOf[proc.cand] > state.highest
  /\ LineageOK(proc.cand, state.active)

(* Mutant: the floor is left to the commit.                                 *)
AcceptWithoutFloor ==
  /\ At("check") /\ CandidateAcceptable
  /\ proc' = [proc EXCEPT !.pc = "make_dir", !.prior = state.active,
                          !.target = proc.cand]
  /\ UNCHANGED <<durable, live, result, boot, calm>>

(* Burn the replay floor before any preflight.                              *)
CheckAccept ==
  /\ At("check") /\ CandidateAcceptable
  /\ state' = [state EXCEPT !.highest = SeqOf[proc.cand]]
  /\ proc' = [proc EXCEPT !.pc = "make_dir", !.prior = state.active,
                          !.target = proc.cand]
  /\ UNCHANGED <<journal, pointer, dirs, evidence, live, result, boot, calm>>

(* Below the floor, wrong lineage, or an absent or invalid handoff.         *)
CheckReject ==
  /\ At("check") /\ (~CandidateAcceptable \/ ~calm)
  /\ Raise
  /\ UNCHANGED <<durable, svc, nft, boot, calm>>

MakeReleaseDir ==
  /\ At("make_dir")
  /\ CASE dirs[proc.cand] = "ABSENT" ->
            /\ dirs' = [dirs EXCEPT ![proc.cand] = "PARTIAL"]
            /\ proc' = Goto("fill_dir")
       [] dirs[proc.cand] = "PARTIAL" ->
            proc' = Goto("preflight_evidence") /\ UNCHANGED dirs
       [] OTHER -> proc' = Goto("offline") /\ UNCHANGED dirs
  /\ UNCHANGED <<state, journal, pointer, evidence, live, result, boot, calm>>

FillReleaseDir ==
  /\ At("fill_dir")
  /\ dirs' = [dirs EXCEPT ![proc.cand] = "COMPLETE"]
  /\ proc' = Goto("offline")
  /\ UNCHANGED <<state, journal, pointer, evidence, live, result, boot, calm>>

OfflineValidate ==
  /\ At("offline")
  /\ proc' = [proc EXCEPT !.pc = "journal", !.phase = "STAGED",
                          !.mode = "switch"]
  /\ UNCHANGED <<durable, live, result, boot, calm>>

PreflightFails ==
  /\ ~calm /\ proc.op = "activate"
  /\ proc.pc \in {"make_dir", "fill_dir", "offline"}
  /\ proc' = Goto("preflight_evidence")
  /\ UNCHANGED <<durable, live, result, boot, calm>>

EvidenceFor(status) == [action |-> ActionOf[status], release |-> proc.target]

(* Only commit and abort evidence is ever read back, by recovery and by the *)
(* agent; the other files are write-only and are not kept.                  *)
WriteEvidence(status, next) ==
  /\ evidence' = IF ActionOf[status] \in {"COMMIT_PENDING", "ABORT_PENDING"}
                 THEN evidence \cup {EvidenceFor(status)} ELSE evidence
  /\ proc' = Goto(next)
  /\ UNCHANGED <<state, journal, pointer, dirs, live, result, boot, calm>>

PreflightEvidence ==
  At("preflight_evidence") /\ WriteEvidence("PREFLIGHT_FAILED", "preflight_state")

(* Every failure path ends by recording its evidence in the protected state.*)
RecordLast(status) ==
  state' = [state EXCEPT !.last = EvidenceFor(status)]

PreflightState ==
  /\ At("preflight_state")
  /\ RecordLast("PREFLIGHT_FAILED")
  /\ Finish("PREFLIGHT_FAILED", proc.target)
  /\ UNCHANGED <<journal, pointer, dirs, evidence, svc, nft, boot, calm>>

-----------------------------------------------------------------------------
(* rollback: the operator may return only to the protected previous         *)
(* candidate, which is validated offline before anything changes.           *)

CheckTarget ==
  /\ At("check_target")
  /\ \/ /\ state.previous = proc.cand
        /\ Complete(proc.cand)
        /\ proc' = [proc EXCEPT !.pc = "journal", !.phase = "STAGED",
                                !.mode = "switch", !.prior = state.active,
                                !.target = proc.cand]
        /\ UNCHANGED <<jobs, result>>
     \/ (state.previous # proc.cand \/ ~calm) /\ Raise
  /\ UNCHANGED <<durable, svc, nft, boot, calm>>

-----------------------------------------------------------------------------
(* _execute_switch and _rollback_live share their live steps; only the      *)
(* switch journals its progress after each of them.                         *)

Goal == IF proc.mode = "switch" THEN proc.target ELSE proc.prior

Then(next, phase) ==
  IF proc.mode = "switch"
  THEN [proc EXCEPT !.pc = "journal", !.phase = phase]
  ELSE Goto(next)

AfterJournal == [p \in Phases |->
  CASE p = "STAGED" -> "stop_opensips"
    [] p = "STOPPED" -> "point"
    [] p = "POINTER_ACTIVATED" -> "firewall"
    [] p = "NFT_APPLIED" -> "start_rtpengine"
    [] p = "SERVICES_STARTED" -> "health"]

(* Mutant: the journal is first written when the pointer has moved.         *)
JournalAfterPointer ==
  /\ At("journal")
  /\ journal' = IF proc.phase \in {"STAGED", "STOPPED"} THEN journal
                ELSE [operation |-> IF proc.op = "activate" THEN "APPLY"
                                    ELSE "MANUAL_ROLLBACK",
                      phase |-> proc.phase, prior |-> proc.prior,
                      target |-> proc.target]
  /\ proc' = Goto(AfterJournal[proc.phase])
  /\ UNCHANGED <<state, pointer, dirs, evidence, live, result, boot, calm>>

WriteJournal ==
  /\ At("journal")
  /\ journal' = [operation |-> IF proc.op = "activate" THEN "APPLY"
                               ELSE "MANUAL_ROLLBACK",
                 phase |-> proc.phase, prior |-> proc.prior,
                 target |-> proc.target]
  /\ proc' = Goto(AfterJournal[proc.phase])
  /\ UNCHANGED <<state, pointer, dirs, evidence, live, result, boot, calm>>

(* systemctl stop waits for the unit and cancels a queued start of it.      *)
StopOpensips ==
  /\ At("stop_opensips")
  /\ svc' = [svc EXCEPT !["opensips"] = Down]
  /\ jobs' = jobs \ {"opensips"}
  /\ proc' = Goto("stop_rtpengine")
  /\ UNCHANGED <<durable, nft, result, boot, calm>>

StopRtpengine ==
  /\ At("stop_rtpengine")
  /\ svc' = [svc EXCEPT !["rtpengine"] = Down]
  /\ jobs' = jobs \ {"rtpengine"}
  /\ proc' = Then("point", "STOPPED")
  /\ UNCHANGED <<durable, nft, result, boot, calm>>

PointActive ==
  /\ At("point")
  /\ Complete(Goal)
  /\ pointer' = Goal
  /\ proc' = Then("firewall", "POINTER_ACTIVATED")
  /\ UNCHANGED <<state, journal, dirs, evidence, live, result, boot, calm>>

(* Mutant: the restore path leaves the candidate's firewall loaded.         *)
FirewallOnSwitchOnly ==
  /\ At("firewall")
  /\ nft' = IF proc.mode = "switch" THEN pointer ELSE nft
  /\ proc' = Then("start_rtpengine", "NFT_APPLIED")
  /\ UNCHANGED <<durable, svc, jobs, result, boot, calm>>

(* nft reads its file through the active symlink.                           *)
ApplyActiveFirewall ==
  /\ At("firewall")
  /\ nft' = pointer
  /\ proc' = Then("start_rtpengine", "NFT_APPLIED")
  /\ UNCHANGED <<durable, svc, jobs, result, boot, calm>>

(* systemctl start leaves a running unit alone; a unit that starts reads    *)
(* its configuration through the active symlink.                            *)
Started(s) == [svc EXCEPT ![s] = IF @ = Down THEN pointer ELSE @]

StartRtpengine ==
  /\ At("start_rtpengine")
  /\ svc' = Started("rtpengine")
  /\ jobs' = jobs \ {"rtpengine"}
  /\ proc' = Goto("start_opensips")
  /\ UNCHANGED <<durable, nft, result, boot, calm>>

StartOpensips ==
  /\ At("start_opensips")
  /\ svc' = Started("opensips")
  /\ jobs' = jobs \ {"opensips"}
  /\ proc' = Then("health", "SERVICES_STARTED")
  /\ UNCHANGED <<durable, nft, result, boot, calm>>

(* _candidate_health adds the candidate's nftables rules and the signed     *)
(* health plan to the baseline; a manual rollback checks the baseline only. *)
Healthy ==
  /\ BaselineHealthy(Goal)
  /\ proc.mode = "switch" /\ proc.op = "activate" => nft # Bootstrap

(* Mutant: the state is committed without the success evidence.             *)
HealthSkipsEvidence ==
  /\ At("health") /\ Healthy
  /\ proc' = Goto(IF proc.mode = "switch" THEN "commit_state"
                  ELSE "restored_unlink")
  /\ UNCHANGED <<durable, live, result, boot, calm>>

HealthPasses ==
  /\ At("health") /\ Healthy
  /\ proc' = Goto(IF proc.mode = "switch" THEN "success_evidence"
                  ELSE "restored_unlink")
  /\ UNCHANGED <<durable, live, result, boot, calm>>

SwitchSteps == {"journal", "stop_opensips", "stop_rtpengine", "point",
                "firewall", "start_rtpengine", "start_opensips", "health"}

StepMayFail ==
  \/ ~calm
  \/ At("health") /\ ~Healthy
  \/ At("point") /\ ~Complete(Goal)

(* Mutant: a failed switch moves the pointer back before it stops anything. *)
SwitchFailsToPointer ==
  /\ proc.pc \in SwitchSteps /\ proc.mode = "switch" /\ StepMayFail
  /\ proc' = [proc EXCEPT !.mode = "restore", !.pc = "point"]
  /\ UNCHANGED <<durable, live, result, boot, calm>>

(* An exception inside _execute_switch starts _rollback_live.               *)
SwitchFails ==
  /\ proc.pc \in SwitchSteps /\ proc.mode = "switch" /\ StepMayFail
  /\ proc' = [proc EXCEPT !.mode = "restore", !.pc = "stop_opensips"]
  /\ UNCHANGED <<durable, live, result, boot, calm>>

(* An exception inside _rollback_live: a transaction records that its       *)
(* rollback failed, recovery just raises; both leave the journal in place.  *)
RestoreFails ==
  /\ proc.pc \in SwitchSteps /\ proc.mode = "restore" /\ StepMayFail
  /\ IF proc.recovering THEN Raise
     ELSE proc' = Goto("failed_evidence") /\ UNCHANGED <<jobs, result>>
  /\ UNCHANGED <<durable, svc, nft, boot, calm>>

-----------------------------------------------------------------------------
(* Outcomes of a switch.                                                    *)

SuccessStatus == IF proc.op = "activate" THEN "APPLIED_HEALTHY"
                 ELSE "MANUAL_HEALTHY"

RestoredStatus ==
  IF proc.recovering THEN IF proc.undo = "APPLY" THEN "RECOVERED_TO_PRIOR"
                          ELSE "MANUAL_RECOVERED"
  ELSE IF proc.op = "activate" THEN "ROLLED_BACK" ELSE "MANUAL_RESTORED"

FailedStatus == IF proc.op = "activate" THEN "ROLLBACK_FAILED"
                ELSE "MANUAL_RESTORE_FAILED"

WriteSuccessEvidence ==
  At("success_evidence") /\ WriteEvidence(SuccessStatus, "commit_state")

(* Mutants: the commit keeps the old rollback target; takes its own         *)
(* sequence as the floor; keeps the old evidence; files it by its status.   *)
CommitKeepsPrevious ==
  /\ At("commit_state")
  /\ state' = [highest |-> state.highest, active |-> proc.target,
               previous |-> state.previous, last |-> EvidenceFor(SuccessStatus)]
  /\ proc' = Goto("commit_unlink")
  /\ UNCHANGED <<journal, pointer, dirs, evidence, live, result, boot, calm>>

CommitLowersFloor ==
  /\ At("commit_state")
  /\ state' = [highest |-> Seq0(proc.target), active |-> proc.target,
               previous |-> state.active, last |-> EvidenceFor(SuccessStatus)]
  /\ proc' = Goto("commit_unlink")
  /\ UNCHANGED <<journal, pointer, dirs, evidence, live, result, boot, calm>>

CommitKeepsEvidence ==
  /\ At("commit_state")
  /\ state' = [highest |-> state.highest, active |-> proc.target,
               previous |-> state.active, last |-> state.last]
  /\ proc' = Goto("commit_unlink")
  /\ UNCHANGED <<journal, pointer, dirs, evidence, live, result, boot, calm>>

CommitRecordsStatus ==
  /\ At("commit_state")
  /\ state' = [highest |-> state.highest, active |-> proc.target,
               previous |-> state.active,
               last |-> [action |-> SuccessStatus, release |-> proc.target]]
  /\ proc' = Goto("commit_unlink")
  /\ UNCHANGED <<journal, pointer, dirs, evidence, live, result, boot, calm>>

(* highest: activate already burned its own sequence as the floor.          *)
CommitState ==
  /\ At("commit_state")
  /\ state' = [highest |-> state.highest, active |-> proc.target,
               previous |-> state.active,
               last |-> EvidenceFor(SuccessStatus)]
  /\ proc' = Goto("commit_unlink")
  /\ UNCHANGED <<journal, pointer, dirs, evidence, live, result, boot, calm>>

CommitUnlink ==
  /\ At("commit_unlink")
  /\ journal' = Nil
  /\ Finish(SuccessStatus, proc.target)
  /\ UNCHANGED <<state, pointer, dirs, evidence, svc, nft, boot, calm>>

RestoredUnlink ==
  /\ At("restored_unlink")
  /\ journal' = Nil
  /\ proc' = Goto("restored_evidence")
  /\ UNCHANGED <<state, pointer, dirs, evidence, live, result, boot, calm>>

RestoredEvidence ==
  At("restored_evidence") /\ WriteEvidence(RestoredStatus, "restored_state")

RestoredState ==
  /\ At("restored_state")
  /\ RecordLast(RestoredStatus)
  /\ IF proc.recovering
     THEN Recovered(RestoredStatus, proc.target)
     ELSE Finish(RestoredStatus, proc.target)
  /\ UNCHANGED <<journal, pointer, dirs, evidence, svc, nft, boot, calm>>

FailedEvidence ==
  /\ At("failed_evidence")
  /\ Finish(FailedStatus, proc.target)
  /\ UNCHANGED <<durable, svc, nft, boot, calm>>

-----------------------------------------------------------------------------
(* The environment.                                                         *)

(* The process is killed, or a write outside the transaction's try block    *)
(* raises: the lock is free and nothing else changes.                       *)
Crash ==
  /\ ~calm /\ ~At("idle")
  /\ proc' = IdleProcess
  /\ result' = Printed(proc.op, "LOST", Nil)
  /\ UNCHANGED <<durable, live, boot, calm>>

(* Power loss and boot: nftables.service loads the table the active symlink *)
(* names; the data-plane services are not enabled at boot, so both stay     *)
(* down until the boot unit has run `recover`.                              *)
Reboot ==
  /\ ~calm
  /\ svc' = [s \in Services |-> Down]
  /\ jobs' = {}
  /\ nft' = pointer
  /\ boot' = TRUE
  /\ proc' = IdleProcess
  /\ result' = Printed(proc.op, "LOST", Nil)
  /\ UNCHANGED <<durable, calm>>

(* The boot unit is oneshot: it runs once per boot, whatever its outcome.   *)
BootRecover ==
  /\ boot /\ boot' = FALSE
  /\ Begin("boot", Nil)

(* systemctl start queues a job and waits for it; the helper may give up on *)
(* the wait (or die) and leave the job behind.                              *)
QueueStart(s) ==
  /\ ~calm /\ svc[s] = Down /\ s \notin jobs
  /\ At(IF s = "opensips" THEN "start_opensips" ELSE "start_rtpengine")
  /\ jobs' = jobs \cup {s}
  /\ UNCHANGED <<durable, svc, nft, boot, proc, result, calm>>

(* systemd runs a queued start job; opensips is ordered after rtpengine.    *)
RunStartJob(s) ==
  /\ s \in jobs
  /\ s = "opensips" => "rtpengine" \notin jobs
  /\ svc' = Started(s)
  /\ jobs' = jobs \ {s}
  /\ UNCHANGED <<durable, nft, boot, proc, result, calm>>

(* Only the liveness specification takes this step: every safety property   *)
(* is checked with failures possible throughout.                            *)
Stabilise ==
  /\ ~calm /\ calm' = TRUE
  /\ UNCHANGED <<durable, live, boot, proc, result>>

Steps ==
  \/ Initialize \/ RecoverFinalize \/ RecoverToPrior \/ FinalHealth
  \/ FinalUnlink \/ CheckAccept \/ CheckReject \/ MakeReleaseDir
  \/ FillReleaseDir \/ OfflineValidate \/ PreflightFails \/ PreflightEvidence
  \/ PreflightState \/ CheckTarget \/ WriteJournal \/ StopOpensips
  \/ StopRtpengine \/ PointActive \/ ApplyActiveFirewall \/ StartRtpengine
  \/ StartOpensips \/ HealthPasses \/ SwitchFails \/ RestoreFails
  \/ WriteSuccessEvidence \/ CommitState \/ CommitUnlink \/ RestoredUnlink
  \/ RestoredEvidence \/ RestoredState \/ FailedEvidence

Environment ==
  \/ Crash \/ Reboot \/ BootRecover
  \/ \E s \in Services : QueueStart(s) \/ RunStartJob(s)

Next ==
  \/ \E c \in Candidate : Activate(c) \/ Rollback(c)
  \/ Recover
  \/ Steps
  \/ Environment

Spec == Init /\ [][Next]_vars

(* A running process keeps running, systemd works its queue, and whoever    *)
(* meets a journal (the boot unit, the recovery playbook) runs `recover`.   *)
RecoverJournal == journal # Nil /\ Recover

Fairness ==
  /\ WF_vars(Steps)
  /\ WF_vars(RecoverJournal)
  /\ WF_vars(BootRecover)
  /\ \A s \in Services : WF_vars(RunStartJob(s))

FairSpec == Init /\ [][Next \/ Stabilise]_vars /\ Fairness

-----------------------------------------------------------------------------
(* Properties.                                                              *)

Result == [op : Ops \cup {Nil}, status : ResultStatus, release : Release \cup {Nil}]

(* The type invariant.                                                      *)
TypeOK ==
  /\ state \in State
  /\ journal \in Transaction \cup {Nil}
  /\ pointer \in Release
  /\ dirs \in [Candidate -> {"ABSENT", "PARTIAL", "COMPLETE"}]
  /\ evidence \subseteq Evidence
  /\ svc \in [Services -> Release \cup {Down}]
  /\ jobs \subseteq Services
  /\ nft \in Release
  /\ boot \in BOOLEAN
  /\ proc \in Process
  /\ result \in Result
  /\ calm \in BOOLEAN

(* Whatever step of activate, rollback or recover a crash interrupts, the   *)
(* disk it leaves passes _initialize: both protected releases are complete  *)
(* directories and the journal explains a pointer that differs from the     *)
(* state.  The helper is never locked out by its own interrupted writes.    *)
InitializeNeverRefuses == InitializeOK

(* When the pointer and the state both name a journal's target, the journal *)
(* phase, the previous release and the original success evidence agree, so  *)
(* _recover_locked never meets the "inconsistent" branch and never loses    *)
(* the evidence of a committed switch.                                      *)
CommittedJournalProvable ==
  journal # Nil /\ Committed => CommittedConsistent

(* Without a journal the pointer, the firewall and every running service    *)
(* are the protected active release's, although health only asks systemd    *)
(* whether a unit is active and never which configuration it loaded.        *)
JournalFreeServesActive ==
  journal = Nil =>
    /\ pointer = state.active
    /\ nft = state.active
    /\ \A s \in Services : svc[s] \in {state.active, Down}

(* A candidate the protected state names as active or previous once passed  *)
(* its whole health plan: its success evidence is on disk.                  *)
ProtectedReleasesWereHealthy ==
  \A r \in {state.active, state.previous} \ {Bootstrap, Nil} :
    SuccessEvidence(r) \in evidence

(* Evidence that told the agent to abort a candidate is final: no later     *)
(* activation, recovery or manual rollback makes that candidate active or a *)
(* rollback target, even when an orphan success evidence of it exists.      *)
AbortIsFinal ==
  \A e \in evidence :
    e.action = "ABORT_PENDING" =>
      e.release \notin {state.active, state.previous}

(* What a command printed is true of the node when it exits: success and    *)
(* finalisation name the active release, abort and restore results name     *)
(* another one, each with no journal left and both services up on the       *)
(* active release.                                                          *)
PrintedOutcomeIsTrue ==
  At("idle") /\ result.status \in
      {"APPLIED_HEALTHY", "MANUAL_HEALTHY", "COMMITTED_FINALIZED",
       "MANUAL_FINALIZED", "ROLLED_BACK", "RECOVERED_TO_PRIOR", "MANUAL_RESTORED",
       "MANUAL_RECOVERED"} =>
    /\ journal = Nil
    /\ \A s \in Services : svc[s] = state.active
    /\ result.release = state.active <=>
         result.status \in {"APPLIED_HEALTHY", "MANUAL_HEALTHY",
                           "COMMITTED_FINALIZED", "MANUAL_FINALIZED"}

(* The runtime replay floor never falls, and a release that becomes active  *)
(* either raises nothing above it or is exactly the sequence it reached.    *)
ReplayFloorMonotone ==
  [][/\ state'.highest >= state.highest
     /\ Seq0(state'.active) <= state'.highest]_vars

(* The active pointer moves only while both services are stopped, so no     *)
(* service ever reads one half of a release and one half of another.        *)
PointerMovesWhileStopped ==
  [][pointer' # pointer => \A s \in Services : svc[s] = Down]_vars

(* Once failures stop, every journal is resolved, or the switch is already  *)
(* committed and a service is down.                                         *)
SwitchResolves ==
  (calm /\ journal # Nil) ~>
    (journal = Nil \/ (Committed /\ \E s \in Services : svc[s] = Down))

(* edge/runtime/README.md: "If a crash occurs after the protected state     *)
(* commit but before journal removal, recovery preserves the committed      *)
(* healthy pointer ... and returns its exact signed plan/results/digest."   *)
(* Once failures stop, a committed switch is finalised.                     *)
CommittedSwitchFinalizes ==
  (calm /\ journal # Nil /\ Committed) ~> (journal = Nil)

(* What the runtime protects is sound: a committed switch can be proved     *)
(* from the disk, its releases were healthy, and none of them was ever      *)
(* reported as aborted.                                                     *)
ProtectedReleasesAreSound ==
  CommittedJournalProvable /\ ProtectedReleasesWereHealthy /\ AbortIsFinal
=============================================================================
