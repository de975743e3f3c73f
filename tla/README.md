# TLA+ models of the Vivolution control plane and Edge

The repository installs and operates a session border controller service: a
controller (CP1), two Edge nodes (`sbc1`, `sbc2`) that run OpenSIPS and
RTPengine, and the tools that install, activate, qualify, restore and tear them
down. These modules model the parts of it that keep durable state through
crashes, and check and prove what those parts promise.

- [The system](#the-system)
- [Modules and how they correspond to the code](#modules)
- [Runs](#runs), [bounds](#bounds), [fairness](#fairness)
- [Disagreements between code and documentation](#disagreements)
- [Theorems](#theorems)
- [What is only model-checked, and what is not modelled](#limits)
- [Plan](#plan)

## The system

| Component | State it keeps | Operations | What makes it correct |
|---|---|---|---|
| Edge agent, `edge/agent/security_core.py` | one protected file: replay floor, pending candidate, last-known-good (LKG), tombstone of the last abort | stage, commit, abort | its file always passes its own validation; the floor never falls; the LKG history is one chain |
| Edge runtime helper, `edge/runtime/core.py` | protected state, transaction journal, `active` symlink, release directories, evidence files; live services and firewall | activate, rollback, recover (also run by a boot unit) | a crash anywhere leaves a disk it can recover; what it prints is true; what runs is what the state names |
| Activation and recovery plays, `deploy/playbooks/activate-edge.yml`, `recover-edge-activation.yml` | candidate workspace and inbox on the node | stage, invoke, reconcile; recover, inspect, reconcile, clean | agent and runtime never disagree beyond the pending candidate; every interrupted activation has a legal outcome |
| Reboot journal, `deploy/scripts/active_edge_reboot_journal.py` | `.active-run` journal, per-node evidence, archives of aborted runs | begin, arm, scheduled, mark-loss, reconnected, qualified, abort, complete, rollover | one request at a time, fixed node order, no evidence lost, any command can be killed and repeated |
| Reboot qualification play, `deploy/playbooks/qualify-active-edge-reboots.yml` | transient reboot units on the nodes | schedule, observe loss, reconnect, qualify, abort | each node rebooted at most once per run, one at a time |
| Controller restore, `deploy/scripts/controller_restore_journal.py` and its play | restore journal, databases `main`, `import`, `previous`, `failed`, a lock unit that expires | import, verify, swap, check readiness, roll back, reconcile on a rerun | the original database is never lost; nothing unverified is selected; a rerun always knows what to do and ends |
| Installer, `installer/vivo_cp_installer.py` | phase ledger, answers, secrets, credentials, summary; the machine Ansible configures | install, resume, reconcile, each dry or real | secrets are made once; a resume repeats and skips nothing; the operator keeps SSH access |
| Control-plane materializer, `edge/controlplane` | private seed, release directories | generate key, materialize | one signing key for good; what it signs is staged, compiled and run by the node it is for |
| Manifest contract, compiler, runtime contracts (`edge/schema`, `edge/compiler`, `edge/runtime/contracts.py`) | none | validate, compile, verify again and render | four validators written apart agree; only the node's own facts and authority decide whom a manifest serves |
| Edge disk correction, `infra/azure-poc/remediate_edge_os_disk_sku.py` | journal, fleet lock; two VMs and their disks in Azure | plan, apply (deallocate, convert, start), recovery start | one Edge at a time is out of service; every correction can be finished |
| Carrier overlay of CP1, `infra/azure-poc/cp1_carrier_nsg_overlay.py` | plan file; one Azure deployment and its rules | plan, apply, teardown | what is reported removed is gone, and everything can be removed |
| Credential rotation, `rotate_synthetic_fixture_pki.py`, `rotate-edge-certificate.py.j2` | a journal, backups and staged files each; the live files under `/etc/vivolution-edge/tls`; the digests the runtime authority pins | stage, rotate, restore, finish | an interrupted rotation is finished or undone; OpenSIPS never serves what the authority does not pin |
| Qualification of a forced leaf rotation, `deploy/scripts/forced_fixture_leaf_rotation_state.py` | phases of one qualification on the controller | begin, advance, complete | see [limits](#limits) |
| `bin/cpctl` | release lineage of the controller | upgrade, rollback | a rollback returns to an exact release |
| Controller web application, Azure preflight and DNS tools, ACME client, voice fixture, lab | external services | | see [limits](#limits) |

The hard behaviours are the same everywhere: every command is a sequence of
single durable writes that a kill or a power loss can cut anywhere; the caller
(an Ansible play) can lose the node and be repeated while the command it
started runs on; and two components (agent and runtime) record one decision in
two files. The pure code is hard in another way: contract, compiler, control plane,
agent and runtime each validate a release in their own words, and a release that
one signs and another refuses costs its sequence number for good.
`PROJECT.json` lists each hazard at its line with the properties that would
notice it.

How the modelled parts interact:

    controller play --SSH--> agent command   --one atomic file-->  agent state
         |                                                            ^ reads evidence
         +----------SSH----> runtime helper  --many writes-->  journal, pointer,
                                  ^                            state, evidence,
                             boot unit                         services, nft
    qualification play ----> reboot journal  --many writes-->  .active-run, archives

    rotation play, certificate timer --stage--> two root helpers --one at a time-->
          live credentials, pinned digests, OpenSIPS    (a journal for each helper)

    control plane --signs--> release directory --delivery--> agent stages,
          (contract, compiler)            compiler on the node, runtime validates

    restore play --tasks--> PostgreSQL, restore journal     (two plays may overlap)
    installer --starts--> ansible-playbook --> CP1          (which may outlive it)
    Azure tools --asynchronous calls--> Azure               (which goes on by itself)

## Modules

| Module | Models | Composes |
|---|---|---|
| `Manifest` | sequence and lineage of a signed manifest, `_validate_rollback` | |
| `EdgeAgent` | the agent's protected state | `Manifest` |
| `EdgeRuntime` | the runtime helper, systemd's start jobs, boot | `Manifest` |
| `EdgeHealth` | the signed health gates of an activation | |
| `EdgeBootstrap` | the first call of the runtime helper, the bootstrap import | |
| `EdgeActivation` | the two plays over one node | `EdgeRuntime`, instance of `EdgeAgent` |
| `ManifestContract` | `edge/schema/manifest_tool.py` | |
| `EdgeCompiler` | `edge/compiler/core.py` | `ManifestContract` |
| `ControlPlane` | profiles and manifests of `edge/controlplane/core.py` | `EdgeCompiler` |
| `RuntimeContracts` | `edge/runtime/contracts.py` | `ControlPlane` |
| `EdgePublication` | key generation, release directories, and a release's way to a running node | all four |
| `RebootRequest` | abstract specification: what the reboot journal promises | |
| `RebootJournal` | the same on a disk, file operation by file operation | implements `RebootRequest` |
| `RebootQualification` | the play that reboots both Edges, and the nodes it reboots | `RebootRequest` |
| `CredentialRotation` | the two helpers that rotate credentials of an Edge | |
| `ControllerRestore` | the restore play, task by task, and its journal helper | |
| `ControllerInstaller` | the controller's installer | |
| `AzureDiskSku` | the correction of the Edge disks | |
| `AzureOverlay` | the carrier overlay of CP1 | |
| `EdgeAgentProofs`, `EdgeRuntimeProofs`, `CredentialRotationProofs` | theorems | the module named |
| `EdgePartsProofs` | theorems | `EdgeBootstrap`, `EdgePublication`, `EdgeHealth` and `MCEdgeAgent` |
| `ControllerProofs` | theorems about restore and installer | `MCController` |
| `EdgeActivationProofs` | theorems about the composition | `EdgeActivation`, `EdgeRuntimeProofs`, instance of `EdgeAgentProofs` |
| `RebootJournalProofs` | theorems | `RebootJournal`, `RebootQualification` |
| `AzureProofs` | theorems about disks and overlay | `MCAzure` |
| `MC*` | constants of the runs | |

`MCEdgeAgent`, `MCEdgeRecovery`, `MCEdgeReconcile`, `MCController` and `MCAzure` hold machines that
share no state.
A behaviour of theirs is one of one machine, picked by the first state, while
the others stand still: the state space is the sum and not the product, and each
machine's steps and properties are those of its own module.

**EdgeAgent.** `agent` is the state file; `Bootstrap` stands for a null
candidate. Each command loads, validates and replaces the file once under an
exclusive lock, so each is one action. `proven` is the set of candidates whose
success evidence the runtime has written; in `EdgeActivation` it is read off
the runtime's evidence files.

**EdgeRuntime.** One variable per durable object (`state`, `journal`,
`pointer`, `dirs`, `evidence`) and per live effect (`svc`, `nft`, `jobs`).
`proc` is the helper process that holds the lock, with a program counter; there
is one action per durable write or live effect, in the order of
`_execute_switch`, `_rollback_live`, `_recover_locked`, `activate` and
`rollback`. `svc[s]` is the release whose configuration the service loaded,
which the code itself cannot see: `_baseline_health` (`BaselineHealthy`) only
looks at unit state, pointer and listeners. `Crash` kills the process anywhere;
`Reboot` also stops the services and loads the firewall of the pointer, as
`nftables.service` does; `QueueStart` is a `systemctl start` whose caller gives
up after its 30 s timeout while systemd keeps the job. A write failing and a
process killed before the write are the same to the disk.

**EdgeActivation.** `play` is the play that holds the node, with the step it is
at; a play may die at any step (`PlayDies`) while its command runs on, and an
operator may run `runtime rollback` by hand. `Outcome` is the classification of
`recover-edge-activation.yml`, branch by branch.

**RebootJournal.** A write-once file (`_exclusive_atomic_write`) passes through
`EMPTY`, `PART`, `FULL` (staging only), `LINKED` (two links) and `DONE`;
`_normalize_exclusive_target`, reuse and refusal of an old staging file are
separate actions. A replacing write (`_save`) leaves a temporary file when
killed. `begin` and `rollover` follow the code's order of renames. The
refinement reads the request off the disk (`Current`): the active journal, or,
between the rename that archives it and the rename that activates its
successor, the terminal journal that the pending transaction names.

**RebootQualification.** The request is `RebootRequest`'s record, changed by the
same transitions, which `RebootJournal` implements. `edges` gives each node its
power, boot identifier, health and transient unit; `qualifier` is the play: the
task it is at and the facts it registered (`seen`, the boot identifiers, and
`after`, that of the returned target), which may be old when a later task uses
them. Each task of `qualify-active-edge-reboots.yml` that changes or decides
something is an action; `Met` is what it needs of the nodes, and `Refuse` the
end of a play that does not get it. Nodes move on their own: `UnitFires`,
`ServicesStop`, `ShutDown`, `BootUp` and `ComesWell` are a reboot, `GoesDown`,
`CutOff`, `UnitFails` and `LosePlay` what goes wrong. `Branch` is the play's
classification of a request it takes up again. `NewRequest` is the rollover.

**EdgeHealth.** One process runs the gates of `_execute_signed_health_plan`; an
attempt runs its checks one by one while the clock moves and the host changes
what it would answer (`HostChanges`). A command gets what is left of the attempt
as its timeout; the reads of release files have none (`SlowRead`), which is why
an attempt may end after its deadline and must then not count.

**EdgeBootstrap.** Any number of helpers, with one action per directory, file
group or link of `_ensure_directories`, `_lock`, `_initialize`,
`_build_bootstrap` and `_install_live_links`; the operator may edit live files.
`debris` remembers which known exceptions happened. Modelled under the
installation's own umask (022) and after the role has made the runtime and
evidence directories.

**ManifestContract, EdgeCompiler, ControlPlane, RuntimeContracts.** The
validators as predicates, function by function. A manifest is a record of what
the checks read; a digest is the value it is the digest of, so "the digests
match" is equality; a rendered file is the record of peers, ports, networks and
sessions its text depends on. `ValidateEnvelope(m, context)` takes the record of
what the caller knows, as `ValidationContext` does, and the three callers build
their own.

**EdgePublication.** `seed` is the private key file with its link count,
`generating` the runs of `generate-key`, `shelf` the release directories with
the files written so far, in the order `sorted` gives their names, and `fleet`
the nodes with the replay floor of their agent, the pending and the active
release. Facts belong to a node's generation; `ReplaceNode` makes the next one.
`Variants` are the manifests a holder of the key could sign beyond what the
materializer builds.

**CredentialRotation.** A credential is the generation it was issued in; the
authority (`pins`) is the generation of every file it pins; `loaded` is what
OpenSIPS read when it was started. `rotation` is the helper that holds the
runtime lock: its place in `main` or `_restore_previous`, and what it keeps in
memory. One action per durable write or `systemctl` call, shared by the two
helpers, which differ where the actions say so: only the fixture helper refuses
a stopped OpenSIPS, removes its backups, and compares with the authority before
it finishes a `HEALTHY` journal. Every step with an effect may raise after it
(`GoOn`: the flush of a directory fails, a start times out) or before it
(`RaiseError`); in the protected block of `main` that leads to a restore.
`KillRotation` ends a helper anywhere, `RestartHost` also starts OpenSIPS again
on whatever is live. `issued` and `overtook` are history. Modelled for an Edge
in service: authority and pair exist, the profile is synthetic, no runtime
transaction is open. What is staged is one valid generation: files of two, as a
play cut while it stages leaves them, are refused before anything changes.

**ControllerRestore.** `Blocks` are the task lists of the play (main, rescue,
always, and the recovery branches), each task with the recovery actions under
which it runs. `DoTask` runs the next one, `FailTask` fails it before or after
its effect, `LosePlay` cuts the connection (no rescue runs then), `ExpireLock`
ends the transient lock unit under a play that is still at work. `restoreFlaws`
is history: whether plays overlapped, a `dropdb` failed, or a rescue ended
between `dropdb` and clearing the journal.

**ControllerInstaller.** One action per durable write: the ledger's start,
completion and failure of a phase, answers, secrets, credentials, summary, and
the run of the playbook. `KillInstaller` may leave the playbook running
(`orphan`), which ends later. Sources may change and operators come from several
addresses at any time. `--state-dir` shared by dry and real runs is included.

**AzureDiskSku, AzureOverlay.** Azure's side is external: power operations,
deployments and their failures are actions of their own that interleave with the
tools. Each phase of the disk journal is a write before or after a call; a run
that fails starts the VM it works on without moving the phase (`Recover`), a run
that is killed does not. A look of the overlay tool is two reads, rules first.
A deployment that outlives its authorisation is cancelled in the steps of
`_cancel_and_settle_deployment`: the create command is killed (`AuthorisationEnds`),
perhaps before its request got out; the cancellation is requested (`RequestCancel`) or
refused (`CancelRefused`); and the command waits (`SettleDeployment`) or, after ninety
seconds, does not wait any longer (`GiveUpSettling`), while Azure still makes rules,
succeeds or fails. A create that fails with its deployment running, and an answer
that is lost or unreadable, are an `Interrupt`.

Digests, timestamps, permissions and JSON are abstracted
throughout: a file is complete and as intended, or it is not; a command whose observation or timing is not accepted
is a command that is refused.

## Runs

| Run | Checks | Result |
|---|---|---|
| `agent`, the agent's file | `StateLoads`; `AgentMovesForward` (`AgentFloorMonotone`, `LkgChain`, `FirstAbortIsTerminal`) over eight manifests with rivals for a sequence and reissues | hold |
| `agent`, publication | `StagedReleasesWork` (`StageableBuilds`, `StageableRuns`: what an agent would stage compiles and runs, even from a half-written directory), `NodesRunTheirFacts` (`OnlyTheFactsDecide`, over everything the key could sign; `PeersHaveTheirListener`, firewall and OpenSIPS agree), `OneSigningKey`, `LineageIsOne` (`OwnLineage`, `ReleasesContinue`) | hold |
| `agent`, health gates | `GateResultsHold` (`PassedIsAccepted`, `ProofsAreOfOneAttempt`, `PlanEndsInTime`) | hold |
| `agent`, bootstrap import | `ImportIsSafe` (`LiveConfigurationStays`, `ImportCanGoOn`) | hold |
| `runtime` | the helper is never locked out (`InitializeNeverRefuses`), `ProtectedReleasesAreSound` (`CommittedJournalProvable`, `ProtectedReleasesWereHealthy`, `AbortIsFinal`), `JournalFreeServesActive`, `PrintedOutcomeIsTrue`, `ReplayFloorMonotone`, `PointerMovesWhileStopped`, type | hold |
| `runtime_live`, helper | `RecoveryEnds`, its first half `SwitchResolves`: once failures stop, a journal is resolved, unless the switch was committed and a service is down | holds |
| `runtime_live`, qualification | `RebootsAreSound` (`OneRebootEach`, `NothingLeftScheduled`, `QualifiedWasRebooted`, `PlayObeysJournal`), `QualificationEnds` (the other half of `RecoveryEnds`), type | hold |
| `runtime_boot` | `CommittedSwitchFinalizes` | violated, see below |
| `activation` | `AgentAndRuntimeAgree`, `RecoveryIsTrue` (`RecoveryOutcomeLegal`, `CommitNamesOriginalEvidence`), type, with plays, processes and power lost anywhere | hold |
| `activation_live`, plays | `ReconciliationEnds`, its first half `PendingIsReconciled` | holds |
| `activation_live`, credentials | `CredentialsAreSound` (`ChangesWhileStopped`, `EvidenceStands`: no recovery takes back what was evidenced, `SettledIsServed`, `ServedIsPinned`, `AnswersAreTrue`), `RotationsEnd` (the other half of `ReconciliationEnds`), type | hold |
| `activation_manual` | `ApplyMatchesAgent` with manual rollbacks at any time | holds |
| `reboot_journal` | `RecordsHold` (`JournalAlwaysLoads`, `ReceiptIsTrue`), `RecordsAreFrozen` (`PendingRolloverBlocks`, `ArchiveIsImmutable`), `ImplementsRequest`, `InterruptedCommandsFinish` (`BeginRecoversElsewhere`, `RolloverFinishesIfCountable`), type | hold |
| `reboot_rollover` | `RolloverFinishes` | violated, see below |
| `publication_abort` | `UpdatesStayPossible` | violated, see below |
| `controller`, restore | `OriginalSurvives`, `RestoreIsTrue` (`SelectedWasVerified`, `RerunIsNeverRefused`, `PhaseIsTrue`, `ReadyRestoreStays`), `RestoreResolves` | hold |
| `controller`, installer | `InstallationIsSound` (`SecretsAreOne`, `NothingUnconfirmed`, `SessionKeepsAccess`, `DryRunIsHarmless`, `PhasesInOrder`, `CompleteIsApplied`), `InstallResumes` | hold |
| `azure`, disks | `OutagesAreSafe` (`OneOutage`, `OutageProofIsReal`), `CorrectionCompletes` (a half of `AzureWorkEnds`) | hold |
| `azure`, overlay | `OverlayIsSound` (`RemovedMeansGone`, `AnswersAreFinal`, `LeftDeploymentIsAlone`), `OverlayCanBeRemoved` (the other half) | hold |

A name followed by others in parentheses is their conjunction, and each of them
has its own mutant; `ControllerWorkEnds` is `RestoreResolves` and
`InstallResumes`.

Every part has a type invariant besides. Exceptions that the code really has are
written into the properties, where a reader sees them: `RuntimeIsStricter` (live
ranges under 100 ports or on the fixture's own, and hosts under `onmicrosoft.com`,
are signed and staged, and refused by the runtime), `SecretsFresh` (leaves with
less than a day left are refused by the runtime alone), `restoreFlaws`, an edit of a live file between copy
and link, an installer whose sources changed, a target that boots between two
reads of the qualification play (`blinked`) and a peer or a unit that leaves a
request open, a helper that opened its journal over the other's (`overtook`) and a
restore that ended while it removed its backups (`CleanupWasCut`; see
[disagreements](#disagreements)).

Each property of a passing run has a mutant in `PROJECT.json`: a plausible bug
in one definition (a dropped guard, two writes swapped, a missing tombstone)
under which TLC finds the property violated. The mutants are defined next to
the definition they change.

### Bounds

- `agent`, 157,000 states in all. The agent's file: sequences 1 to 4 with two first manifests, three claimants of
  sequence 2, a null lineage above 1 and a reissue against an older LKG: every
  combination the floor, the lineage and the tombstone can meet. Publication: two
  nodes with up to three generations of facts and authorities that fit the
  profiles and do not, profiles on both sides of the session and port limits, two
  key generators that are over before a release is staged (`KeysSettled`; one that
  starts later can only refuse), one output directory, sequences up to 2 (a first release and
  its successor), and two times half an hour apart, so that short-lived
  manifests expire and one node's leaf passes its last day. Health: attempts of two ticks, one change of the host.
  Bootstrap: three live files, two helpers, one edit.
- `runtime`: three manifests, `c2` and `c3` both following `c1`. Two successive
  switches, a failed one and a reissue, and a manual rollback all happen; a
  fourth manifest repeats them. 677,000 states. The liveness runs use two
  successive manifests (78,000 states).
- `runtime_live`, qualification: two requests, so that one can be reconciled and
  rolled over, and two troubles between them (a lost play, a cut connection, a
  failed unit, a node that goes down by itself), so that a failure can meet the
  handling of another. 523,000 states with the helper's.
- `activation`: the same three manifests (2.5 million states); a chain of three
  for manual rollbacks (7.6 million), so that a rolled-back node is offered the
  successor of the release it left; two for liveness (199,000).
- `activation_live`, credentials: two files for each helper, so that a rotation
  can be cut between them; one rotation of each, in any order, and two upsets
  between them, so that one can meet the handling of another. 31,000 states. With
  two rotations of each and three upsets (1.7 million) everything holds as well.
- `reboot_journal`: two run identifiers, so that an aborted run can be rolled
  over; two possible preflights for `sbc1`, so that a retried `arm` may bring
  other contents than the killed one; both nodes go through all phases.
  745,000 states with its liveness.

- `controller`: 696,000 states. Two plays for the restore (the lock allows one;
  the second is the one that comes after it expired). The installer: two
  contents of the source tree, of which the first is fixed by symmetry, one set
  of answers (they are asked once and then stored), two client addresses, two
  sets of secrets to tell a second generation, two runs in the audit trail.
  `CidrLimit` 2 admits both clients; with 1, where the limit bites, the
  properties hold as well (427,000 states), and so they do with three clients and
  the limit at 2 (1.8 million, too many for a regular run).
- `azure`: 125,000 states. Two VMs, two journals, two mishaps (a failure during
  the answer to a failure); two overlay rules, a plan good for two ticks of four
  and two mishaps, so that a plan can expire under its deployment, a deployment
  outlive command and plan, and a teardown be cut and repeated.

Nothing else is bounded: beyond the constants named here the number of commands,
kills, reboots and retries is not limited in any run.

### Fairness

`calm` is a switch of the environment: from some point on nothing is killed and
nothing fails by itself. Liveness is only claimed after it, as the tools only
promise to be resumable. Beyond that the specifications assume:

- a started command goes on (`WF` of its steps): it is a process, and its waits
  have timeouts;
- systemd runs a queued start job, and the boot unit runs once per boot;
- whoever meets a journal or a pending candidate repeats `recover`, or the
  recovery play: the boot unit, or the operator the README tells to. Where other
  commands may come first this is strong fairness: locks are blocking `flock`s,
  so a repeated command gets its turn.

The other parts:

- credentials: a helper that runs goes on, and the play or the timer starts it
  again while something is staged or open (`SF` of `StartRotation`, since the
  lock is the other helper's from time to time). Upsets are bounded, so they stop;
- qualification: nodes that are down come back, a cut connection heals, a
  started play goes on, and the operator repeats it (`WF` of `NodeStep`,
  `PlayStep`, `StartPlay`); troubles are bounded, so they stop;
- restore: after `restoreCalm`, a play that runs goes on, and whoever finds the
  restore unfinished starts it again (`WF` of `RestoreStep`);
- installer: after `installCalm`, a started installer goes on, an orphaned
  playbook ends, and the operator resumes in the mode and from an address the
  ledger knows (`WF` of `InstallGoes`);
- disks: a run goes on, Azure finishes what it accepted, a sick VM is healed by
  its operator, and each journal that was begun is taken up again (`SF`, since
  the fleet lock may be held by the other one);
- overlay: command, Azure, deadman and clock go on, and the operator keeps
  planning and executing a teardown (`SF`, since other commands may come first).
  Mishaps are bounded, so they stop.

## Disagreements

Three runs show where the code does less than its documentation says; each
quotation is in `PROJECT.json`.

1. `runtime_boot`: after a power loss between the state commit and the journal
   unlink, `recover` waits for services that only its own success would start
   (`edge/runtime/core.py:2099`).
2. `reboot_rollover`: a command killed inside a file write can leave an empty or
   doubly linked file in the journal directory, and a later rollover of that run
   never gets past its inventory (`active_edge_reboot_journal.py:1059`).
   `RolloverFinishesIfCountable` shows that the rollover recovers from a kill at
   any of its own steps.
3. `publication_abort`: the agent burns a sequence when it stages it, and the
   control plane signs only the accepted sequence plus one
   (`edge/controlplane/core.py:443`). After one abort the only sequence it can
   sign is the burned one: the node gets no further release of its lineage and
   has to be replaced.

Smaller ones, found while modelling, which the passing properties name as their
exceptions or which no run is spent on:

- a failed or recovered manual rollback overwrites `lastEvidenceDigest` while
  its candidate is pending; the recovery play then commits with the wrong digest
  and is refused (`edge/runtime/core.py:2238`, `deploy/README.md:785`). The
  `activation` run therefore has no manual rollbacks;
- after a candidate was aborted before it reached the runtime, the two replay
  floors differ, and the debris of a later, never-staged candidate is not cleaned
  (`recover-edge-activation.yml:505`, `deploy/README.md:777`);
- `begin` killed inside its first `_save` leaves a temporary file that every
  later `begin` refuses (`active_edge_reboot_journal.py:823`);
  `BeginRecoversElsewhere` shows that this is the only such place;
- a helper killed while it fills the bootstrap directory leaves one that no later
  call accepts (`edge/runtime/core.py:611`), and an edit of a live file between
  its copy and its link is dropped by the rerun (`:661`);
- neither rotation helper looks at the other's journal, nor the runtime helper at
  either. One that starts while the other's journal is open backs up and restores
  the authority of a half-done rotation; the digests then match neither, both
  helpers refuse, and OpenSIPS stays down (`overtook`);
- a fixture restore that ends inside `_cleanup_transaction_files`
  (`rotate_synthetic_fixture_pki.py:405`) has removed backups under a journal
  that is not `HEALTHY`: every later run stops OpenSIPS and refuses for the
  missing backup (`CleanupWasCut`);
- an exception after the fixture helper journalled `HEALTHY` is reported as
  "prior credentials were restored" (`:565`) while the new ones stay, as they
  should; the credentials are consistent, so `AnswersAreTrue` admits it;
- the boot unit looks at the runtime's journal only, so that after a restart of
  the host in the middle of an installation OpenSIPS may be started on a mixture
  of generations until the helper is run again (the exception in
  `ServedIsPinned`);
- the runtime refuses live PBX ranges of less than 100 ports, the fixture's
  range 21000–21127 in a direct profile (`contracts.py:2532`) and hosts under
  `onmicrosoft.com`, which control plane, agent and compiler accept;
- the contract accepts the `ABSENT` lifecycle and subsets of the node's sources,
  which the compiler refuses;
- `edge/controlplane/README.md:190` describes a lineage from a synthetic to a
  direct release that the code refuses: a new kind needs a new generation;
- the qualification play compares a boot identifier read at
  `qualify-active-edge-reboots.yml:498` and looks for the transient unit at
  `:863`: a target that comes up in between shows neither a new boot nor a unit,
  and is rebooted a second time under one request, which `deploy/README.md:691`
  and `poc/voice-fixture/README.md:475` exclude (`blinked`);
- a peer that reboots by itself after the target was armed never equals its
  preflight again, and a reboot that failed under a loss that was the network's
  leaves a failed unit: both leave a request that the play can neither finish
  nor reconcile (the exceptions in `QualificationEnds`);
- an installer run whose sources changed after its release was recorded can
  never be resumed or installed again (the exception in `InstallResumes`);
- an apply of `cp1_carrier_nsg_overlay.py` whose authorisation ends may leave its
  deployment under way: the reserve is 15 s (`:45`), and the cancellation may take 30 s
  and its end another 90 s, or be refused (`:1416`) or not come (`:1444`). Rules can then
  appear after the plan has expired, with no command running. "was cancelled"
  (`:1471`) is also said of a deployment that succeeded, failed or never was.
  `AnswersAreFinal` and `LeftDeploymentIsAlone` claim what does hold;
- `cp1_carrier_nsg_overlay.py` accepts a partial overlay where its README
  (lines 34-35) says never a partial one, which is what lets a teardown that was
  cut be finished; and it cannot take the overlay down once the generation-3 VMs
  are deleted instead of deallocated.

## Theorems

All proofs are for arbitrary sets of candidates, sequences, lineages, helpers,
files, nodes, profiles and plays. The assumptions on the constants are
`ManifestConstants` (sequences are positive, parents are releases, `Bootstrap` is
no candidate), `RuntimeConstants` (`Nil` and `Down` are values of their own),
`PublicationConstants` (facts and authority of a generation carry that
generation and node, and the authority is one that
`RuntimeAuthority.from_mapping` loads), `FixtureIsPrivate`, `BootstrapConstants`, `RestoreConstants`, `RotationAssumption`
(the files of the two helpers are disjoint, and `Absent` is a value of its own),
`DisturbancesKnown` (which disturbances there are), `NilAssumption` and
`CollectedAssumption` (`Nil` is no journal and no directory; `Collected` gives each node its
preflights), `NoRequestAssumption` and `QualificationConstants` (`NoRequest` is a
value of its own; the bounds are numbers).

`EdgeAgentProofs` proves every property of the agent's file: `AgentTypeCorrect`,
`AgentStateLoads`, `AgentFloorNeverFalls`, `LkgIsChained`,
`FirstAbortEndsEnrollment`, and the property of the run, `AgentAlwaysMovesForward`.
`Loads` alone is not inductive. The invariant adds
that a pending candidate carries the lineage of the present LKG (the fact
`LkgChain` needs, since lineage is checked at staging and used at commit), and
that the floor is 0 only while there is no state file at all (`AbsentIsEmpty`);
with the rule that only sequence 1 may have a null lineage, the latter is what
ends the enrollment after a first abort.

`EdgeRuntimeProofs` proves `RuntimeTypeCorrect`, `HelperNeverLockedOut`
(`InitializeNeverRefuses`) and `RuntimeFloorNeverFalls`. The first two rest on
one inductive invariant, `RuntimeInv`:

- `DiskOK`: both protected releases, and both releases a journal names, are
  complete directories;
- `JournalOK`: a journal explains the pointer. Either its switch is not
  committed (its prior is active and the pointer is at its prior or its target)
  or it is (target, active release and pointer are one). Without a journal the
  pointer is the active release;
- `RequestOK` and `ReplacesOK`: what the running process holds in memory (prior,
  target, candidate) matches the journal and the state it was read from;
- `ProgressOK`: at each program counter, which of journal, pointer and directory
  has already been written.

`InitializeOK` is one conjunct's consequence; it is not inductive by itself,
because whether the next write keeps it depends on what the process in flight
has done so far. The floor theorem adds `FloorOK`: the releases in state, in the
journal and in memory lie at or below the floor.

Its second half proves `QuietNodeServesActive`, `ProtectedReleasesStaySound` and
`PrintedOutcomesHold`, the other three invariants of the runs, and the action
property `PointerNeverMovesUnderService`. They rest on a second invariant on top
of the first, `RuntimeSafety`, in four parts:

- `TargetInv`: a switch goes to another release than the active one, and an
  activation to another than the previous one, so that aborting its target
  harms neither; and which phase the journal shows at each step;
- `LiveInv`: when the loaded firewall and whatever runs are of the release the
  pointer names (without a journal, while it is staged, once its switch is
  committed), and what a switch or a restore in progress has stopped, moved,
  loaded and started so far. A start job of systemd may start either service at
  any of these points;
- `EvidenceInv`: `ProtectedReleasesAreSound` with what the process still has to
  write: the candidate of a running activation is above every aborted release,
  and is proved healthy before the state names it;
- `PrintedOutcomeIsTrue` itself.

The parts depend on each other (an abort is harmless because of `TargetInv`, a
commit is provable because of `LiveInv`), so they are kept together, with one
lemma per action and part.

`EdgeActivationProofs` first proves that the composition of plays, agent and
runtime implements both components: `NodeRunsTheRuntime` (`Spec` of
`EdgeRuntime`) and `AgentActsUnderPlays` (`AgentSpec`, with the evidence files as
what is proven). All that is proved of them holds in the composition. On that
rest `ActivationTypesHold` and `AppliesMatchTheAgent`, whatever disturbs the
node, with the invariant `NodeInv`: a play is well formed (`PlayOK`), one play or
unit at a time runs the helper, and only on the agent's pending candidate
(`OwnershipOK`), an activation that is not committed is of that candidate
(`ApplyOK`), and the agent's floor is the sequence of one of its three
releases (`AgentFacts`). What the runtime may do in a step is summed up once, as
`NodeMoves`, so that the steps of the runtime need not be split again.
`AgentAndRuntimeStayTogether` and `RecoveriesAreTrue` assume that nobody rolls
the runtime back by hand (`"rollback" \notin Disturbances`), as their run does:
a rollback moves the runtime alone, and the agent is told nothing. Their
invariant, `AgreementInv`, adds that a play which is about to commit or abort
knows where the runtime stands, and that a commit has its success evidence.

`EdgePartsProofs` is about the parts that `MCEdgeAgent` runs together. Of the import
it proves `LiveConfigurationAlwaysStays` and `ImportCanAlwaysGoOn`, together
`ImportAlwaysSafe`, for any number of helpers and files. Its invariant,
`BootstrapInv`, adds to the two properties who may touch the directory
(`OneImporter`: one helper is past the lock), what a helper's position says of
the disk (`ImporterKnows`), the order of the writes (`SealComesFirst`: pointer,
links and state only after a sealed directory), that an unedited copy is what
the live files hold (`CopyIsCurrent`) and that a half-filled directory has its
maker at work, or dead (`MakersAreKnown`). `BootstrapTypesHold` has an invariant of
its own, `BootstrapFits`.

Of the publication it proves `OneSigningKeyAlways`, `LineageAlwaysOne` and
`PublicationTypesHold`, for any facts, authorities, profiles and directories.
`KeyInv` adds that a generator past its link is the owner of the seed, and that
before there is a seed nothing was announced, shelved or staged. `LineageInv` says
of every release in a directory what the control plane checked when it made it
(`Made`), and of every node that its releases are such releases of its own, that the
pending one continues the active one, and that the active one is of the kind the
authority names (`NodeHolds`). The agent does not look at kinds. That one lineage
has one kind follows from what it does compare: sources and media range of a
profile come from the node's facts, and tell the kind (`OneKindPerNode`).

It also proves `StagedReleasesAlwaysWork` and `NodesAlwaysRunTheirFacts`. Two halves
of these are about a single state and follow from the four parties' validators
alone: what the agent takes, from a control plane that checked it, the compiler
builds and the runtime runs (`TakenBuilds`, `TakenRuns`, over the manifest's resources
as `ResourcesAre` lists them), and whatever all three take has the node's own values
(`OnlyTheFactsAlwaysDecide`, for every variant of a manifest). The other two need to
know the past. A half-written directory is harmless because of `WorkInv`: every
directory holds a release that was checked before it was signed (`CheckedFirst`), and
its files are the first ones of the sorted names (`ShelfOK`). A node can run its
release because of `ServesInv`: the active release was validated with the facts and
the authority that the node still has (`RunsAt`), since a new generation takes the
release away (`ActiveMoves`). From that, `PeersFit` compares firewall and OpenSIPS
configuration rule by rule for the three kinds. The proof needs the authority to be
well formed, which the helper checks when it loads it; and it found the third case of
`RuntimeIsStricter`, and that `StageableRuns` is about nodes whose leaves are fresh:
TLC finds a violation without either.

Of the health gates it proves `GateResultsAlwaysHold` and `HealthTypesHold`, for any
timeouts. `HealthInv` says what the attempt under way has done and when
(`AttemptFits`), and when it can have begun (`StartsInTime`): each attempt before it
took at most its deadline and one slow read (`CheckTakes`), and only the last gate has
more than one.

`PartsRunTheirSpecs` makes these, and those of `EdgeAgentProofs`, theorems about the
machine of the run, of which `EdgeTypesHold` is the type invariant.

`ControllerProofs` proves `OriginalSurvivesAlways`, with any number of
overlapping plays. The property counts databases; the invariant says where the
original is (`OriginalIsPlaced`): in `main` until a database is called
`previous`, and there from then on. It holds because PostgreSQL refuses a rename
onto an existing name, whatever the play believes, and not because of the lock.

The same module proves `RestoreTypesHold` and `RestoresAreTrue`, the whole of
`RestoreIsTrue`. `RestoreFlowInv` has three parts, each true for longer than the
next. `PlaysOK`: a running play is always at a task of its block that runs under
the action it took up. `SingleOK`, until two plays overlap: one play runs, and from
the integrity gate to the swap the import is the verified one, as every task that
loads or creates it is before the gate. `FlowOK`, until a rescue is flawed as well:
journal and database names are a row of the reconciliation table, or a rescue has
dropped the import and is about to clear the journal; and the running play is where
that row needs it (`Fits`). Four lemmas go through the tasks of the blocks
(`MainFlow`, `RollbackFlow`, `FinalizeFlow`, `RescueFlow`): each leads from its row to
the row of the task that is next under the play's action. `RestoreIsTrue` is what
the rows say; under those of a ready restore no task is left that changes a
database. `FlowOK` is about the end of each step and also covers failures reported
after their effect, since a play that fails goes to a section that first looks.

It also proves `InstallTypesHold`, `InstallationsAreSound`, the whole of
`InstallationIsSound`, and `ControllerTypesHold`, for any sources, settings,
clients and lengths of the audit trail, with the installer killed at any step, its
playbook running on without it and the sources edited under it. `InstallInv` has
four parts besides the types and `PhasesInOrder`. `LedgerKnows`: what each
completed phase left behind (`Established`) is still there, so that a resumed
installer that skips the phase finds it. `InstallerKnows`: where a running
installer is, every earlier phase is completed and its own is not; it has the
ledger's mode, and from `plan` to `apply` the session's address is in the answers.
`MachineAgrees`: the applied values, and those of an orphaned playbook
that may still be applied, are the kept secrets and the confirmed settings, and a dry
ledger or none means an untouched machine and no orphan. `RunsAreOver`: only the last run of the
audit trail may be running. A reconcile begins below no unfinished phase, which
is why `PhasesInOrder` exempts `bootstrap` and `secrets` and nothing else. The proof
assumes that a record is not `Nothing`, which TLC evaluates.

`RebootJournalProofs` proves that the journal always loads and its receipts are
true (`JournalTypesHold`, `RecordsAlwaysHold`), that finished evidence is frozen
(`RecordsStayFrozen`), and that the files implement the abstract request,
`JournalImplementsRequest`: each file operation is a transition of
`RebootRequest` or changes nothing there. `JournalInv` says of the files alone
(`StoreOK`) that every directory validates, that a transaction is before its
first rename, between the two, or after the second, and that manifest and
receipt come after what they certify; and of the running command (`ProcessOK`)
what it has checked and may still rely on, since only one command holds the lock.
A file that can be written twice, in part, is handled once for all six of them,
by `Puts`.

The same module proves `QualificationTypesHold` and `RebootsStaySound`, for any
number of requests and troubles. `QualInv` relates three actors: the request's
shape and which phase a task may meet (`ShapeOK`, `TaskOK`), the nodes' units
(`UnitsOK`), and the boot identifiers that were armed and read, which never run
ahead of the nodes (`BootsOK`). As long as no node came up between two reads of
one play (`NoBlink`), a pending unit belongs to the request in progress and has
not rebooted its node, and a node that was rebooted is down or shows another boot.

`CredentialRotationProofs` proves `RotationTypesAlways` and
`CredentialsAlwaysSound`, the whole of `CredentialsAreSound`, for any files,
generations and numbers of exceptions, kills and restarts. `RotationInv` adds

- `PlacesAgree`: what the running helper has in memory agrees with its journal,
  and at which places the journal is open, not yet `HEALTHY`, or closed;
- `StoppedToChange`: OpenSIPS is down wherever files or digests may change;
- `FilesAreIn`: how many of the new files are installed;
- `BackupsAreRecent`: a backup that may still be put back is not older than the
  evidence, which is why no recovery takes an evidenced generation back;
- `JournalsHold` and `PlacesHold`, until a helper opens its journal over the
  other's: an open journal that is not `HEALTHY` can be undone (the other
  helper's files are as pinned, and what is left of the backups is one state),
  and without one, or with a `HEALTHY` one, live files, digests and OpenSIPS agree.

There is one lemma per action (`...Keeps`), with a step for each of these parts.

`AzureProofs` proves `OverlayAlwaysSound` and `OverlayTypesHold` of the overlay, for
any rules, times and plans. `OverlayInv` adds what a command is doing (`CommandOK`)
and why a teardown may report its last look (`TeardownSees`): it began when the
deployment was over, only an apply starts one, and one that is over creates no
rules.

Of the disks it proves `OutagesAreAlwaysSafe` and `SkuTypesHold`, for any number of
journals, abandoned ones included. `SkuInv` adds that the calls in a journal are what
its phases need (`Sound`), that a run has a journal of its own (`RunOK`), and that
what a run has seen stays so while it works (`OutageOK`): nobody but a run deallocates
a node or starts a deallocated one, and there is one run at a time. That one outage
at a time survives a change of journals does not depend on their phases: every run
proves the peer again before it touches its node (`ProvePeer`). `TransitionIs` is the one
lemma about writing a journal. `AzureTypesHold` joins the two.

## Limits

Only model-checked: liveness, which the prover cannot do (`RecoveryEnds`,
`ReconciliationEnds`, `InterruptedCommandsFinish`, `ControllerWorkEnds` and
`AzureWorkEnds`). Every invariant and every action property of a passing run is the
statement of a theorem, and so is the refinement of `RebootRequest`.

Assumed:

- no loss of unsynced data: every write is followed by `fsync` before the next,
  so a kill or power loss leaves the files as they are;
- umask 022 for the runtime helper, as systemd and Ansible give it;
- facts and authority of a node do not change within a generation, as the roles
  that write them require;
- one qualification play runs at a time, as its acknowledgement asks; the 3 s
  timer of a transient unit has run out when the 60 s wait for the loss ends;
- an Azure operation is visible to a reader as soon as Azure accepted it;
- one operator works on the overlay: the tool takes no lock;
- a request of an Azure command that was killed has been taken or lost by the time
  the cancellation is answered, and a deployment that Azure calls over makes no more
  rules, as the tool itself believes;
- during a correction of the Edge disks nobody activates a release: the tool
  compares the runtime's identity with its plan (`remediate_edge_os_disk_sku.py:1151`)
  and would refuse for good;
- signatures cannot be made without the seed, and digests do not collide.

Not modelled inside the modelled components: the text of configuration files and
its parsers; JSON canonical form; permissions, ownership and link checks except
where a crash of the program itself can trip them; several Edge nodes in one
activation (the plays are serialised and the nodes share no state); cluster
specs, which nothing produces.

Not modelled components, with reasons, are in `PROJECT.json`. The forced
leaf rotation is next in the plan. `cpctl` is shell that runs playbooks around a release
lineage, planned after it. The web application's
isolation is a PostgreSQL policy and its requests are single transactions. The
Azure preflight compares answers with constants and changes nothing; the DNS and
ACME scripts are idempotent deletions behind a re-read. The ACME client
calls an external server, and its first certificate on a node without an authority is not modelled. Voice fixture and carrier gateway are test
equipment.

## Plan

1. The forced leaf rotation of `forced_fixture_leaf_rotation_state.py`, over
   `CredentialRotation`.
2. The release lineage of `cpctl`.
3. An abstract atomic switch that `EdgeRuntime` implements.
