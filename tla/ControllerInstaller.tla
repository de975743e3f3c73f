-------------------------- MODULE ControllerInstaller --------------------------
(***************************************************************************)
(* installer/vivo_cp_installer.py: a standalone controller is installed in *)
(* phases recorded in a durable ledger, resumed after a failure, and       *)
(* reconciled with newer sources once complete.  Every file is replaced    *)
(* atomically; the process may be killed between any two writes, and an    *)
(* ansible-playbook it started then runs on without it.  The state         *)
(* directory is one, as when --state-dir names it for dry runs as well.    *)
(***************************************************************************)
EXTENDS Naturals, Sequences, FiniteSets

CONSTANTS
  Sources,      \* contents of the controller source tree
  Settings,     \* answers to the questions, without the SSH sources
  Clients,      \* addresses operators connect from
  Passwords,    \* sets of generated secrets
  CidrLimit,    \* most SSH sources validate_ssh_cidrs accepts
  MaxRuns,      \* bound: runs in the audit trail
  Nothing

ASSUME InstallerConstants ==
  /\ Nothing \notin Sources \cup Settings \cup Passwords \cup Clients
  /\ CidrLimit \in Nat \ {0} /\ MaxRuns \in Nat \ {0}

(* Mutants: secrets are left to what needs them first; the operator is      *)
(* asked when the packages are there.                                       *)
SecretsLate == <<"preflight", "answers", "confirmation", "release", "bootstrap",
                 "ansible", "secrets", "summary">>

ConfirmLate == <<"preflight", "answers", "release", "bootstrap", "confirmation",
                 "secrets", "ansible", "summary">>

InstallPhases == <<"preflight", "answers", "confirmation", "release", "bootstrap",
                   "secrets", "ansible", "summary">>

PhaseNames == {InstallPhases[i] : i \in 1..8}

Ledger == [dry : BOOLEAN, status : {"pending", "running", "failed", "complete"},
           current : PhaseNames \cup {Nothing}, release : Sources \cup {Nothing},
           phases : [PhaseNames -> {"pending", "running", "completed", "failed"}],
           runs : Seq([kind : {"install", "reconcile"},
                       status : {"running", "failed", "complete"}])]

VARIABLES
  ledger,       \* ledger.json, or Nothing
  kept,         \* answers.json, secrets.json, credentials.txt, summary.json
  node,         \* the machine: packages, and what Ansible applied
  installer,    \* the process holding the flock
  orphan,       \* an Ansible run whose installer was killed, or Nothing
  sourceTree,   \* the source tree the operator invokes the installer from
  confirmed,    \* history: the settings the operator accepted, or Nothing
  installCalm   \* nothing fails, is killed, declined or edited any more

installVars ==
  <<ledger, kept, node, installer, orphan, sourceTree, confirmed, installCalm>>

Answers == [settings : Settings, cidrs : SUBSET Clients]

(* What one Ansible run applies.                                            *)
Applied == [release : Sources, password : Passwords, settings : Settings,
            cidrs : SUBSET Clients]

(* Records are told from their absence.                                     *)
ASSUME NothingIsNoRecord == Nothing \notin Ledger \cup Answers \cup Applied

Bare == [packages |-> FALSE, applied |-> Nothing, session |-> Nothing]

NoInstaller == [pc |-> "idle", cmd |-> Nothing, dry |-> FALSE,
                client |-> Nothing, at |-> 1]

InstallInit ==
  /\ ledger = Nothing
  /\ kept = [answers |-> Nothing, secrets |-> Nothing, credentials |-> Nothing,
             summary |-> Nothing]
  /\ node = Bare
  /\ installer = NoInstaller
  /\ orphan = Nothing
  /\ sourceTree \in Sources
  /\ confirmed = Nothing
  /\ installCalm = FALSE

In(pc) == installer.pc = pc

Phase == InstallPhases[installer.at]

Working(phase) == In("work") /\ Phase = phase

Move(pc) == installer' = [installer EXCEPT !.pc = pc]

Quit == installer' = NoInstaller

(* A save of the ledger alone.                                              *)
Save(value) ==
  /\ ledger' = value
  /\ UNCHANGED <<kept, node, orphan, sourceTree, confirmed, installCalm>>

LastRun(l, status) == [l.runs EXCEPT ![Len(l.runs)].status = status]

-----------------------------------------------------------------------------
(* Commands.                                                                *)

(* MaxRuns bounds the audit trail.                                          *)
TrailFull == ledger # Nothing /\ Len(ledger.runs) >= MaxRuns

(* What a calm operator does about a run: resume it in its mode, from an    *)
(* address that is on the list of SSH sources.                              *)
ResumesCalmly(cmd, dry, client) ==
  /\ cmd = "resume" /\ dry = ledger.dry
  /\ kept.answers # Nothing => client \in kept.answers.cidrs

Invoke(cmd, dry, client) ==
  /\ In("idle") /\ ~(cmd = "reconcile" /\ (dry \/ TrailFull))
  /\ installCalm /\ ledger # Nothing => ResumesCalmly(cmd, dry, client)
  /\ installer' = [pc |-> "begin", cmd |-> cmd, dry |-> dry, client |-> client,
                   at |-> 1]
  /\ UNCHANGED <<ledger, kept, node, orphan, sourceTree, confirmed, installCalm>>

NewLedger(dry) ==
  [dry |-> dry, status |-> "pending", current |-> Nothing, release |-> Nothing,
   phases |-> [p \in PhaseNames |-> "pending"],
   runs |-> <<[kind |-> "install", status |-> "running"]>>]

BeginInstall ==
  /\ In("begin") /\ installer.cmd = "install" /\ ledger = Nothing
  /\ Move("phase")
  /\ Save(NewLedger(installer.dry))

(* Mutant: resume continues a run whatever mode it was started in.          *)
ResumesAnyMode == installer.cmd = "resume" /\ ledger # Nothing /\ ledger.status # "complete"

(* Mutant: only a run that recorded its failure is resumed.                 *)
ResumesFailed ==
  /\ installer.cmd = "resume" /\ ledger # Nothing /\ ledger.status = "failed"
  /\ ledger.dry = installer.dry

Resumes ==
  /\ installer.cmd = "resume" /\ ledger # Nothing /\ ledger.status # "complete"
  /\ ledger.dry = installer.dry

BeginResume ==
  /\ In("begin") /\ Resumes
  /\ Move("phase")
  /\ Save([ledger EXCEPT !.status = "running", !.runs = LastRun(ledger, "running")])

Reconciles ==
  /\ installer.cmd = "reconcile" /\ ledger # Nothing
  /\ ~ledger.dry /\ ledger.status = "complete"
  /\ kept.answers # Nothing /\ kept.secrets # Nothing
  /\ \A p \in PhaseNames : ledger.phases[p] = "completed"

(* Mutants: the summary is not written again; Ansible does not run again.   *)
ResetButSummary == {"release", "ansible"}

ResetButAnsible == {"release", "summary"}

(* The phases prepare_reconcile makes pending again.                        *)
ResetPhases == {"release", "ansible", "summary"}

BeginReconcile ==
  /\ In("begin") /\ Reconciles
  /\ Move("phase")
  /\ Save([ledger EXCEPT
             !.status = "running", !.current = Nothing,
             !.runs = Append(@, [kind |-> "reconcile", status |-> "running"]),
             !.phases = [p \in PhaseNames |->
                           IF p \in ResetPhases THEN "pending" ELSE @[p]]])

RefuseInstall ==
  /\ In("begin") /\ Quit
  /\ CASE installer.cmd = "install" -> ledger # Nothing
       [] installer.cmd = "resume"  -> ~Resumes
       [] OTHER                     -> ~Reconciles
  /\ UNCHANGED <<ledger, kept, node, orphan, sourceTree, confirmed, installCalm>>

-----------------------------------------------------------------------------
(* _run_phase.                                                              *)

NextPhase ==
  installer' = IF installer.at = 8 THEN [installer EXCEPT !.pc = "finish"]
               ELSE [installer EXCEPT !.pc = "phase", !.at = @ + 1]

SkipPhase ==
  /\ In("phase") /\ ledger.phases[Phase] = "completed"
  /\ NextPhase
  /\ UNCHANGED <<ledger, kept, node, orphan, sourceTree, confirmed, installCalm>>

StartPhase ==
  /\ In("phase") /\ ledger.phases[Phase] # "completed"
  /\ Move("work")
  /\ Save([ledger EXCEPT !.status = "running", !.current = Phase,
                         !.phases[Phase] = "running"])

CompletePhase ==
  /\ In("complete") /\ NextPhase
  /\ Save([ledger EXCEPT !.current = Nothing, !.phases[Phase] = "completed"])

FailPhase ==
  /\ In("fail") /\ Quit
  /\ Save([ledger EXCEPT !.status = "failed", !.current = Phase,
                         !.phases[Phase] = "failed",
                         !.runs = LastRun(ledger, "failed")])

Finish ==
  /\ In("finish") /\ Quit
  /\ Save([ledger EXCEPT !.status = "complete", !.current = Nothing,
                         !.runs = LastRun(ledger, "complete")])

(* Any check or command of a phase may fail.                                *)
PhaseFails ==
  /\ In("work") /\ ~installCalm /\ Move("fail")
  /\ UNCHANGED <<ledger, kept, node, orphan, sourceTree, confirmed, installCalm>>

-----------------------------------------------------------------------------
(* The phases.                                                              *)

(* run_preflight asks for a machine without Vivolution.                     *)
Preflight ==
  /\ Working("preflight")
  /\ Move(IF node.applied = Nothing THEN "complete" ELSE "fail")
  /\ UNCHANGED <<ledger, kept, node, orphan, sourceTree, confirmed, installCalm>>

(* Stored answers win over those of a later invocation; new ones take in    *)
(* the address of the session.                                              *)
AskAnswers ==
  /\ Working("answers") /\ Move("complete")
  /\ IF kept.answers = Nothing
     THEN \E s \in Settings :
            kept' = [kept EXCEPT !.answers =
                       [settings |-> s, cidrs |-> {installer.client}]]
     ELSE UNCHANGED kept
  /\ UNCHANGED <<ledger, node, orphan, sourceTree, confirmed, installCalm>>

(* validate_answers adds the session of the caller, up to the limit.        *)
WithSession(answers) ==
  [answers EXCEPT !.cidrs = @ \cup {installer.client}]

ValidAnswers == Cardinality(WithSession(kept.answers).cidrs) <= CidrLimit

(* A refusal is a PhaseFails.                                               *)
Confirm ==
  /\ Working("confirmation")
  /\ IF ValidAnswers
     THEN Move("complete") /\ confirmed' = kept.answers.settings
     ELSE Move("fail") /\ UNCHANGED confirmed
  /\ UNCHANGED <<ledger, kept, node, orphan, sourceTree, installCalm>>

RecordRelease ==
  /\ Working("release") /\ Move("complete")
  /\ Save([ledger EXCEPT !.release = sourceTree])

Bootstrap ==
  /\ Working("bootstrap")
  /\ Move(IF ValidAnswers THEN "complete" ELSE "fail")
  /\ node' = [node EXCEPT !.packages = @ \/ (ValidAnswers /\ ~installer.dry)]
  /\ UNCHANGED <<ledger, kept, orphan, sourceTree, confirmed, installCalm>>

(* apt may change the machine and fail.                                     *)
BootstrapFails ==
  /\ Working("bootstrap") /\ ~installCalm /\ ~installer.dry /\ ValidAnswers
  /\ Move("fail")
  /\ node' = [node EXCEPT !.packages = TRUE]
  /\ UNCHANGED <<ledger, kept, orphan, sourceTree, confirmed, installCalm>>

Secrets ==
  /\ Working("secrets") /\ Move("complete")
  /\ IF kept.secrets = Nothing
     THEN \E s \in Passwords : kept' = [kept EXCEPT !.secrets = s]
     ELSE UNCHANGED kept
  /\ UNCHANGED <<ledger, node, orphan, sourceTree, confirmed, installCalm>>

(* The identity checks of _phase_ansible.                                   *)
Planned == ledger.release # Nothing /\ ledger.release = sourceTree

(* Mutant: the answers are written as they are stored.                      *)
StoredAnswers == kept.answers

AnsibleAnswers == WithSession(kept.answers)

(* The answers, with the session, are written before the identity checks.   *)
WriteAnswers ==
  /\ Working("ansible")
  /\ IF ValidAnswers
     THEN Move("plan") /\ kept' = [kept EXCEPT !.answers = AnsibleAnswers]
     ELSE Move("fail") /\ UNCHANGED kept
  /\ UNCHANGED <<ledger, node, orphan, sourceTree, confirmed, installCalm>>

PlanAnsible ==
  /\ In("plan")
  /\ Move(IF ~Planned THEN "fail" ELSE IF installer.dry THEN "complete" ELSE "apply")
  /\ UNCHANGED <<ledger, kept, node, orphan, sourceTree, confirmed, installCalm>>

Playbook ==
  [release |-> ledger.release, password |-> kept.secrets,
   settings |-> kept.answers.settings, cidrs |-> kept.answers.cidrs]

(* The playbook compares the source tree with the release identity it is    *)
(* given once more; failed, it may have applied everything, too.            *)
RunAnsible ==
  /\ In("apply")
  /\ \/ Move("complete") /\ sourceTree = ledger.release
        /\ node' = [node EXCEPT !.applied = Playbook, !.session = installer.client]
     \/ Move("fail") /\ (sourceTree # ledger.release \/ ~installCalm)
        /\ \/ UNCHANGED node
           \/ sourceTree = ledger.release
              /\ node' = [node EXCEPT !.applied = Playbook,
                                      !.session = installer.client]
  /\ UNCHANGED <<ledger, kept, orphan, sourceTree, confirmed, installCalm>>

WriteCredentials ==
  /\ Working("summary") /\ Move("summary")
  /\ kept' = [kept EXCEPT !.credentials = kept.secrets]
  /\ UNCHANGED <<ledger, node, orphan, sourceTree, confirmed, installCalm>>

WriteSummary ==
  /\ In("summary") /\ Move("complete")
  /\ kept' = [kept EXCEPT !.summary = ledger.release]
  /\ UNCHANGED <<ledger, node, orphan, sourceTree, confirmed, installCalm>>

-----------------------------------------------------------------------------
(* The world around the installer.                                          *)

(* The flock goes with the process; a running playbook does not.            *)
KillInstaller ==
  /\ ~In("idle") /\ ~installCalm /\ Quit
  /\ orphan' = IF In("apply") THEN Playbook ELSE orphan
  /\ UNCHANGED <<ledger, kept, node, sourceTree, confirmed, installCalm>>

OrphanEnds ==
  /\ orphan # Nothing /\ orphan' = Nothing
  /\ \/ UNCHANGED node
     \/ node' = [node EXCEPT !.applied = orphan, !.session = Nothing]
  /\ UNCHANGED <<ledger, kept, installer, sourceTree, confirmed, installCalm>>

(* A new release is unpacked, between runs or under a running one.          *)
EditSource ==
  /\ ~installCalm
  /\ sourceTree' \in Sources \ {sourceTree}
  /\ UNCHANGED <<ledger, kept, node, installer, orphan, confirmed, installCalm>>

(* From here on nothing goes wrong, and the operator resumes what there is. *)
InstallCalms ==
  /\ ~installCalm /\ installCalm' = TRUE
  /\ UNCHANGED <<ledger, kept, node, installer, orphan, sourceTree, confirmed>>

InstallSteps ==
  \/ BeginInstall \/ BeginResume \/ BeginReconcile \/ RefuseInstall
  \/ SkipPhase \/ StartPhase \/ CompletePhase \/ FailPhase \/ Finish
  \/ Preflight \/ AskAnswers \/ Confirm \/ RecordRelease \/ Bootstrap
  \/ Secrets \/ WriteAnswers \/ PlanAnsible \/ RunAnsible
  \/ WriteCredentials \/ WriteSummary

InvokeAny ==
  \E cmd \in {"install", "resume", "reconcile"}, dry \in BOOLEAN,
     client \in Clients : Invoke(cmd, dry, client)

InstallNext ==
  \/ InvokeAny \/ InstallSteps
  \/ PhaseFails \/ BootstrapFails \/ KillInstaller \/ OrphanEnds \/ EditSource
  \/ InstallCalms

InstallSpec == InstallInit /\ [][InstallNext]_installVars

(* The installer runs on, and the operator gives some command when none     *)
(* runs.                                                                    *)
InstallGoes == InstallSteps \/ InvokeAny

InstallFairness == WF_installVars(InstallGoes)

-----------------------------------------------------------------------------
InstallTypeOK ==
  /\ ledger \in Ledger \cup {Nothing}
  /\ kept \in [answers : Answers \cup {Nothing}, secrets : Passwords \cup {Nothing},
               credentials : Passwords \cup {Nothing}, summary : Sources \cup {Nothing}]
  /\ node \in [packages : BOOLEAN, applied : Applied \cup {Nothing},
               session : Clients \cup {Nothing}]
  /\ installer.at \in 1..8 /\ installer.dry \in BOOLEAN
  /\ orphan \in Applied \cup {Nothing}
  /\ sourceTree \in Sources /\ confirmed \in Settings \cup {Nothing}

(* The secrets are generated once: what Ansible gave the database and the   *)
(* controller, and what the operator finds in the credentials file, is what *)
(* secrets.json holds, through every failure, resume and reconcile.         *)
SecretsAreOne ==
  /\ node.applied # Nothing => node.applied.password = kept.secrets
  /\ kept.credentials # Nothing => kept.credentials = kept.secrets

(* Nothing changes the machine before the operator accepted the settings,   *)
(* and Ansible applies the accepted ones.                                   *)
NothingUnconfirmed ==
  /\ node.packages => confirmed # Nothing
  /\ node.applied # Nothing => node.applied.settings = confirmed

(* A dry run leaves the machine alone, even in a shared state directory.    *)
DryRunIsHarmless ==
  ledger # Nothing /\ ledger.dry => node = Bare

(* The firewall Ansible applied admits the session it was applied from.     *)
SessionKeepsAccess ==
  node.session # Nothing => node.session \in node.applied.cidrs

(* A completed phase is never after an unfinished one, except those a       *)
(* reconcile keeps, and a complete ledger has no unfinished phase.          *)
PhasesInOrder ==
  ledger # Nothing =>
    /\ \A i, j \in 1..8 :
         i < j /\ ledger.phases[InstallPhases[j]] = "completed"
           /\ InstallPhases[j] \notin {"bootstrap", "secrets"} =>
             ledger.phases[InstallPhases[i]] = "completed"
    /\ ledger.status = "complete" =>
         /\ \A p \in PhaseNames : ledger.phases[p] = "completed"
         /\ \A i \in 1..Len(ledger.runs) : ledger.runs[i].status # "running"

(* A complete ledger of a real installation, the summary and the machine    *)
(* name one release, whatever happened to the sources while it ran, unless  *)
(* the last playbook to end had lost its installer.                         *)
CompleteIsApplied ==
  (ledger # Nothing /\ ledger.status = "complete" /\ ~ledger.dry) =>
    /\ kept.summary = ledger.release
    /\ node.applied # Nothing
    /\ node.session # Nothing => node.applied.release = ledger.release

(* Once undisturbed, resume ends every interrupted run for whose recorded   *)
(* release the sources are still at hand.                                   *)
InstallResumes ==
  (installCalm /\ ledger # Nothing) ~>
    (ledger # Nothing /\ (\/ ledger.status = "complete"
                          \/ ledger.release \notin {Nothing, sourceTree}))

(* What Ansible applied is what was agreed: the one set of secrets, the     *)
(* confirmed settings and a firewall that admits the operator's session.    *)
AppliedAsAgreed == SecretsAreOne /\ NothingUnconfirmed /\ SessionKeepsAccess

(* The ledger is true: a dry one changed nothing, completed phases are in   *)
(* order, and a complete one names the release on the machine.              *)
LedgerIsTrue == DryRunIsHarmless /\ PhasesInOrder /\ CompleteIsApplied

(* The installer's whole promise about what it applied and what it says.    *)
InstallationIsSound == AppliedAsAgreed /\ LedgerIsTrue
=============================================================================
