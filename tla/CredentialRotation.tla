-------------------------- MODULE CredentialRotation ---------------------------
(***************************************************************************)
(* The two root helpers that replace credentials of an installed Edge: the *)
(* fixture helper (three synthetic fixture files) and the certificate      *)
(* helper (the public chain and key, run by a daily timer).  Both stop     *)
(* OpenSIPS, install files one at a time, rewrite the digests the runtime  *)
(* authority pins and start OpenSIPS again; both hold the runtime lock;    *)
(* each has a journal and backups of its own and never reads the other's.  *)
(*                                                                         *)
(* A credential is the generation it was issued in.  The authority is the  *)
(* generation of every file it pins (its digests).  An exception may end   *)
(* any step before or after its effect, a kill may end a helper between    *)
(* any two steps, and the host may restart at any time.                    *)
(***************************************************************************)
EXTENDS Naturals

CONSTANTS
  FixtureFiles,      \* LIVE_PATHS of the fixture helper
  CertificateFiles,  \* LIVE_CERT and LIVE_KEY of the certificate helper
  Absent,            \* no file, no journal, no service
  MaxGeneration,     \* bound: the newest generation ever staged
  MaxUpsets          \* bound: exceptions, kills and restarts in a behaviour

VARIABLES
  pem,         \* the live files under TLS_ROOT
  pins,        \* the runtime authority's secretDigests
  loaded,      \* what the running OpenSIPS has loaded, or Absent
  txn,         \* each helper's JOURNAL
  backup,      \* the backups of single files
  backupPins,  \* each helper's BACKUP_AUTHORITY
  incoming,    \* what is staged for each helper
  staged,      \* the newest generation ever staged for each helper
  issued,      \* the newest generation evidenced as rotated and healthy
  overtook,    \* a helper opened a journal while the other's was open
  rotation,    \* the helper that holds the runtime lock, and its place
  upsets

disk == <<pem, pins, loaded, txn, backup, backupPins, incoming, staged, issued, overtook>>
rotationVars == <<disk, rotation, upsets>>

Helpers == {"fixture", "certificate"}

OtherHelper(h) == IF h = "fixture" THEN "certificate" ELSE "fixture"

FilesOf(h) == IF h = "fixture" THEN FixtureFiles ELSE CertificateFiles

Credentials == FixtureFiles \cup CertificateFiles

Generations == 0..MaxGeneration

(* The journal's phases; both helpers go through them in this order.        *)
RotationPhases ==
  {"PREPARED", "SERVICE_STOPPED", "INSTALLED", "AUTHORITY_RECONCILED", "HEALTHY"}

PinSets == [Credentials -> Generations]
Journal == [phase : RotationPhases, wasActive : BOOLEAN]

ASSUME RotationAssumption ==
  /\ FixtureFiles # {} /\ CertificateFiles # {}
  /\ FixtureFiles \cap CertificateFiles = {}
  /\ MaxGeneration \in Nat /\ MaxUpsets \in Nat
  /\ Absent \notin Generations \cup PinSets \cup Journal

(* Mutant: the phase is called as the other helper calls it.                *)
PhaseAfterForeign(p) ==
  CASE p = "PREPARED" -> "SERVICE_STOPPED"
    [] p = "SERVICE_STOPPED" -> "PAIR_INSTALLED"
    [] p = "INSTALLED" -> "AUTHORITY_RECONCILED"
    [] OTHER -> "HEALTHY"

PhaseAfter(p) ==
  CASE p = "PREPARED" -> "SERVICE_STOPPED"
    [] p = "SERVICE_STOPPED" -> "INSTALLED"
    [] p = "INSTALLED" -> "AUTHORITY_RECONCILED"
    [] OTHER -> "HEALTHY"

(* Mutant: every open journal is undone.                                    *)
FinalizeNever(p) == p # p

(* recovery_action_for_phase: only HEALTHY is finished forward.             *)
FinalizeNew(p) == p = "HEALTHY"

Places ==
  {"recover", "putBack", "checkBack", "clean", "dropJournal", "dropIncoming",
   "check", "copy", "prepare", "work", "note", "evidence"}

RotationAnswers == {"none", "killed", "rejected", "restored", "unchanged", "rotated"}

Rotations ==
  [who : Helpers, at : Places \cup {"idle"}, phase : RotationPhases,
   wasActive : BOOLEAN, why : {"resume", "undo", "rotate"},
   todo : SUBSET Credentials, answer : RotationAnswers]

Helper == rotation.who
Mine == FilesOf(Helper)
AtPlace(place) == rotation.at = place
Busy == ~AtPlace("idle")

Ended(answer) == [rotation EXCEPT !.at = "idle", !.answer = answer]
GoTo(place) == [rotation EXCEPT !.at = place, !.todo = Mine]
Without(f) == [rotation EXCEPT !.todo = @ \ {f}]

(* Where an exception leads: inside the protected block of main to a        *)
(* restore (the fixture helper reads its journal back, the certificate      *)
(* helper uses the record it meant to write), elsewhere out of the helper.  *)
AfterError(journals) ==
  IF rotation.at \in {"work", "note"}
    THEN [GoTo("recover") EXCEPT
            !.why = "undo",
            !.phase = IF Helper = "fixture" THEN journals[Helper].phase ELSE @]
    ELSE Ended("rejected")

Upset == upsets < MaxUpsets /\ upsets' = upsets + 1

(* A step has had its effect: the helper goes on, or raises all the same    *)
(* (a directory flush fails after the rename, a start times out).           *)
GoOn(next) ==
  \/ rotation' = next /\ UNCHANGED upsets
  \/ rotation' = AfterError(txn') /\ Upset

Go(next) == rotation' = next /\ UNCHANGED upsets

--------------------------------------------------------------------------------
(* Around the helpers.                                                      *)

(* The play, or the renewal script, stages one generation and then runs its *)
(* helper; staging again replaces what is there.                            *)
StageCredentials(h, g) ==
  /\ Busy => Helper # h
  /\ g \in {staged[h], staged[h] + 1} /\ g <= MaxGeneration
  /\ incoming' = [incoming EXCEPT ![h] = g]
  /\ staged' = [staged EXCEPT ![h] = g]
  /\ UNCHANGED <<pem, pins, loaded, txn, backup, backupPins, issued, overtook, rotation, upsets>>

(* main() up to the journal.  A run with nothing staged and nothing to      *)
(* recover is refused without effect and is left out.                       *)
StartRotation(h) ==
  /\ ~Busy
  /\ incoming[h] # Absent \/ txn[h] # Absent
  /\ LET open == txn[h] # Absent
     IN rotation' =
          [who |-> h, at |-> IF open THEN "recover" ELSE "check",
           phase |-> IF open THEN txn[h].phase ELSE "PREPARED",
           wasActive |-> IF open THEN txn[h].wasActive ELSE FALSE,
           why |-> "resume", todo |-> FilesOf(h), answer |-> "none"]
  /\ UNCHANGED <<disk, upsets>>

RaiseError ==
  /\ Busy /\ Upset
  /\ rotation' = AfterError(txn)
  /\ UNCHANGED disk

KillRotation ==
  /\ Busy /\ Upset
  /\ rotation' = Ended("killed")
  /\ UNCHANGED disk

(* One generation in every file of a helper.                                *)
OneGeneration(h) == \A f, g \in FilesOf(h) : pem[f] = pem[g]

(* The boot unit looks at the runtime helper's journal only and starts the  *)
(* data plane; OpenSIPS may refuse a mixture of generations.                *)
RestartHost ==
  /\ Upset
  /\ rotation' = Ended("killed")
  /\ loaded' \in IF \A h \in Helpers : OneGeneration(h) THEN {pem} ELSE {pem, Absent}
  /\ UNCHANGED <<pem, pins, txn, backup, backupPins, incoming, staged, issued, overtook>>

--------------------------------------------------------------------------------
(* _restore_previous.                                                       *)

(* Mutant: a recovery does not stop OpenSIPS first.                         *)
RestoreUnderLoad ==
  /\ AtPlace("recover") /\ ~FinalizeNew(rotation.phase)
  /\ UNCHANGED disk
  /\ GoOn(GoTo("putBack"))

BeginRestore ==
  /\ AtPlace("recover") /\ ~FinalizeNew(rotation.phase)
  /\ loaded' = Absent
  /\ UNCHANGED <<pem, pins, txn, backup, backupPins, incoming, staged, issued, overtook>>
  /\ GoOn(GoTo("putBack"))

(* The fixture helper compares the live files with the authority first; the *)
(* certificate helper only removes its journal.                             *)
FinalizeHealthy ==
  /\ AtPlace("recover") /\ FinalizeNew(rotation.phase)
  /\ UNCHANGED disk
  /\ Go(IF Helper = "certificate" THEN GoTo("dropJournal")
        ELSE IF pem = pins THEN GoTo("clean")
        ELSE Ended("rejected"))

PutBackFile(f) ==
  /\ AtPlace("putBack") /\ f \in rotation.todo
  /\ backup[f] # Absent
  /\ pem' = [pem EXCEPT ![f] = backup[f]]
  /\ UNCHANGED <<pins, loaded, txn, backup, backupPins, incoming, staged, issued, overtook>>
  /\ GoOn(Without(f))

(* Mutant: the authority is not put back with the files.                    *)
PutBackFilesOnly ==
  /\ AtPlace("putBack") /\ rotation.todo = {}
  /\ backupPins[Helper] # Absent
  /\ UNCHANGED disk
  /\ GoOn(GoTo("checkBack"))

PutBackPins ==
  /\ AtPlace("putBack") /\ rotation.todo = {}
  /\ backupPins[Helper] # Absent
  /\ pins' = backupPins[Helper]
  /\ UNCHANGED <<pem, loaded, txn, backup, backupPins, incoming, staged, issued, overtook>>
  /\ GoOn(GoTo("checkBack"))

RefuseWithoutBackup ==
  /\ AtPlace("putBack")
  /\ \/ \E f \in rotation.todo : backup[f] = Absent
     \/ rotation.todo = {} /\ backupPins[Helper] = Absent
  /\ UNCHANGED disk
  /\ Go(Ended("rejected"))

(* _load_context refuses digests that do not match; the certificate helper  *)
(* calls it only when it will start OpenSIPS.                               *)
RefuseUnpinned ==
  /\ AtPlace("checkBack") /\ pem # pins
  /\ Helper = "fixture" \/ rotation.wasActive
  /\ UNCHANGED disk
  /\ Go(Ended("rejected"))

StartRestored ==
  /\ AtPlace("checkBack")
  /\ pem = pins \/ (Helper = "certificate" /\ ~rotation.wasActive)
  /\ loaded' = IF rotation.wasActive THEN pem ELSE loaded
  /\ UNCHANGED <<pem, pins, txn, backup, backupPins, incoming, staged, issued, overtook>>
  /\ GoOn(GoTo(IF Helper = "fixture" THEN "clean" ELSE "dropJournal"))

--------------------------------------------------------------------------------
(* _cleanup_transaction_files, and the certificate helper's unlinks.        *)

DropBackup(f) ==
  /\ AtPlace("clean") /\ f \in rotation.todo
  /\ backup' = [backup EXCEPT ![f] = Absent]
  /\ UNCHANGED <<pem, pins, loaded, txn, backupPins, incoming, staged, issued, overtook>>
  /\ GoOn(Without(f))

(* The incoming files go before the authority's backup, after a rotation    *)
(* only; under a HEALTHY journal nothing reads that backup any more.        *)
DropBackupPins ==
  /\ AtPlace("clean") /\ rotation.todo = {}
  /\ backupPins' = [backupPins EXCEPT ![Helper] = Absent]
  /\ incoming' = [incoming EXCEPT ![Helper] = IF rotation.why = "rotate" THEN Absent ELSE @]
  /\ UNCHANGED <<pem, pins, loaded, txn, backup, staged, issued, overtook>>
  /\ GoOn(GoTo("dropJournal"))

(* After a recovery main goes on, after a failed rotation it reports: only  *)
(* the fixture helper says what it restored.                                *)
DropJournal ==
  /\ AtPlace("dropJournal")
  /\ txn' = [txn EXCEPT ![Helper] = Absent]
  /\ UNCHANGED <<pem, pins, loaded, backup, backupPins, incoming, staged, issued, overtook>>
  /\ \/ rotation.why = "resume" /\ GoOn(GoTo("check"))
     \/ rotation.why = "undo"
          /\ GoOn(Ended(IF Helper = "fixture" THEN "restored" ELSE "rejected"))
     \/ rotation.why = "rotate" /\ Helper = "fixture" /\ GoOn(Ended("rotated"))
     \/ rotation.why = "rotate" /\ Helper = "certificate" /\ GoOn(GoTo("dropIncoming"))

DropIncoming ==
  /\ AtPlace("dropIncoming")
  /\ incoming' = [incoming EXCEPT ![Helper] = Absent]
  /\ UNCHANGED <<pem, pins, loaded, txn, backup, backupPins, staged, issued, overtook>>
  /\ GoOn(Ended("rotated"))

--------------------------------------------------------------------------------
(* The rotation itself, in the order of main().                             *)

(* Mutant: the live files are compared with the authority's digests only.   *)
UnchangedAsPinned == \A f \in Mine : pem[f] = pins[f]

Unchanged == \A f \in Mine : pem[f] = incoming[Helper]

RefuseIncoming ==
  /\ AtPlace("check")
  /\ incoming[Helper] = Absent \/ pem # pins
  /\ UNCHANGED disk
  /\ Go(Ended("rejected"))

AcceptIncoming ==
  /\ AtPlace("check")
  /\ incoming[Helper] # Absent /\ pem = pins /\ ~Unchanged
  /\ UNCHANGED disk
  /\ Go(GoTo("copy"))

KeepUnchanged ==
  /\ AtPlace("check")
  /\ incoming[Helper] # Absent /\ pem = pins /\ Unchanged
  /\ incoming' = [incoming EXCEPT ![Helper] = Absent]
  /\ UNCHANGED <<pem, pins, loaded, txn, backup, backupPins, staged, issued, overtook>>
  /\ GoOn(Ended("unchanged"))

CopyFile(f) ==
  /\ AtPlace("copy") /\ f \in rotation.todo
  /\ backup' = [backup EXCEPT ![f] = pem[f]]
  /\ UNCHANGED <<pem, pins, loaded, txn, backupPins, incoming, staged, issued, overtook>>
  /\ GoOn(Without(f))

CopyPins ==
  /\ AtPlace("copy") /\ rotation.todo = {}
  /\ backupPins' = [backupPins EXCEPT ![Helper] = pins]
  /\ UNCHANGED <<pem, pins, loaded, txn, backup, incoming, staged, issued, overtook>>
  /\ GoOn(GoTo("prepare"))

(* The fixture helper rotates a running OpenSIPS only.  Nothing but the     *)
(* helper stops or starts it under the lock, so when it is probed makes no  *)
(* difference.                                                              *)
RefuseStopped ==
  /\ AtPlace("prepare") /\ Helper = "fixture" /\ loaded = Absent
  /\ UNCHANGED disk
  /\ Go(Ended("rejected"))

Prepare ==
  /\ AtPlace("prepare")
  /\ Helper = "fixture" => loaded # Absent
  /\ txn' = [txn EXCEPT ![Helper] = [phase |-> "PREPARED", wasActive |-> loaded # Absent]]
  /\ overtook' = (overtook \/ txn[OtherHelper(Helper)] # Absent)
  /\ UNCHANGED <<pem, pins, loaded, backup, backupPins, incoming, staged, issued>>
  /\ GoOn([GoTo("work") EXCEPT !.why = "rotate", !.phase = "PREPARED",
                               !.wasActive = loaded # Absent])

Working(phase) == AtPlace("work") /\ rotation.phase = phase

(* The work of a phase is done: its successor is journalled next.           *)
Noting == [GoTo("note") EXCEPT !.phase = PhaseAfter(@)]

StopService ==
  /\ Working("PREPARED")
  /\ loaded' = Absent
  /\ UNCHANGED <<pem, pins, txn, backup, backupPins, incoming, staged, issued, overtook>>
  /\ GoOn(Noting)

InstallFile(f) ==
  /\ Working("SERVICE_STOPPED") /\ f \in rotation.todo
  /\ pem' = [pem EXCEPT ![f] = incoming[Helper]]
  /\ UNCHANGED <<pins, loaded, txn, backup, backupPins, incoming, staged, issued, overtook>>
  /\ GoOn(IF rotation.todo = {f} THEN Noting ELSE Without(f))

(* Mutant: the authority is written back with the digests it had.           *)
ReconcileStale ==
  /\ Working("INSTALLED")
  /\ \A f \in Credentials \ Mine : pem[f] = pins[f]
  /\ UNCHANGED disk
  /\ GoOn(Noting)

(* The certificate helper's _reconcile_authority refuses when a file that   *)
(* is not its own left the authority; the fixture helper checked before.    *)
ReconcilePins ==
  /\ Working("INSTALLED")
  /\ \A f \in Credentials \ Mine : pem[f] = pins[f]
  /\ pins' = [f \in Credentials |-> IF f \in Mine THEN incoming[Helper] ELSE pins[f]]
  /\ UNCHANGED <<pem, loaded, txn, backup, backupPins, incoming, staged, issued, overtook>>
  /\ GoOn(Noting)

(* Mutant: OpenSIPS is not started again.                                   *)
StartForgotten ==
  /\ Working("AUTHORITY_RECONCILED")
  /\ Helper = "fixture" => pem = pins
  /\ UNCHANGED disk
  /\ GoOn(Noting)

StartRotated ==
  /\ Working("AUTHORITY_RECONCILED")
  /\ Helper = "fixture" => pem = pins
  /\ loaded' = IF rotation.wasActive THEN pem ELSE loaded
  /\ UNCHANGED <<pem, pins, txn, backup, backupPins, incoming, staged, issued, overtook>>
  /\ GoOn(Noting)

NotePhase ==
  /\ AtPlace("note")
  /\ txn' = [txn EXCEPT ![Helper].phase = rotation.phase]
  /\ UNCHANGED <<pem, pins, loaded, backup, backupPins, incoming, staged, issued, overtook>>
  /\ GoOn(GoTo(IF rotation.phase = "HEALTHY" THEN "evidence" ELSE "work"))

IssueEvidence ==
  /\ AtPlace("evidence")
  /\ issued' = [issued EXCEPT ![Helper] = incoming[Helper]]
  /\ UNCHANGED <<pem, pins, loaded, txn, backup, backupPins, incoming, staged, overtook>>
  /\ GoOn(GoTo(IF Helper = "fixture" THEN "clean" ELSE "dropJournal"))

--------------------------------------------------------------------------------

RotationInit ==
  /\ pem = [f \in Credentials |-> 0]
  /\ pins = pem /\ loaded = pem
  /\ txn = [h \in Helpers |-> Absent]
  /\ backup = [f \in Credentials |-> Absent]
  /\ backupPins = [h \in Helpers |-> Absent]
  /\ incoming = [h \in Helpers |-> Absent]
  /\ staged = [h \in Helpers |-> 0]
  /\ issued = [h \in Helpers |-> 0]
  /\ overtook = FALSE
  /\ rotation = [who |-> "fixture", at |-> "idle", phase |-> "PREPARED",
                 wasActive |-> FALSE, why |-> "resume", todo |-> {}, answer |-> "none"]
  /\ upsets = 0

RestoreStep ==
  \/ BeginRestore \/ FinalizeHealthy
  \/ \E f \in Credentials : PutBackFile(f) \/ DropBackup(f)
  \/ PutBackPins \/ RefuseWithoutBackup \/ RefuseUnpinned \/ StartRestored
  \/ DropBackupPins \/ DropJournal \/ DropIncoming

RotateStep ==
  \/ RefuseIncoming \/ AcceptIncoming \/ KeepUnchanged
  \/ \E f \in Credentials : CopyFile(f) \/ InstallFile(f)
  \/ CopyPins \/ RefuseStopped \/ Prepare
  \/ StopService \/ ReconcilePins \/ StartRotated \/ NotePhase \/ IssueEvidence

RotationStep == RestoreStep \/ RotateStep

RotationNext ==
  \/ \E h \in Helpers : \/ \E g \in Generations : StageCredentials(h, g)
                        \/ StartRotation(h)
  \/ RotationStep
  \/ RaiseError \/ KillRotation \/ RestartHost

RotationSpec == RotationInit /\ [][RotationNext]_rotationVars

(* A helper that runs goes on, and the play or the timer comes back to what *)
(* is staged or open; the lock is busy only while the other helper runs.    *)
RotationFairness ==
  /\ WF_rotationVars(RotationStep)
  /\ \A h \in Helpers : SF_rotationVars(StartRotation(h))

--------------------------------------------------------------------------------
(* Properties.                                                              *)

RotationTypeOK ==
  /\ pem \in PinSets /\ pins \in PinSets
  /\ loaded \in PinSets \cup {Absent}
  /\ txn \in [Helpers -> Journal \cup {Absent}]
  /\ backup \in [Credentials -> Generations \cup {Absent}]
  /\ backupPins \in [Helpers -> PinSets \cup {Absent}]
  /\ incoming \in [Helpers -> Generations \cup {Absent}]
  /\ staged \in [Helpers -> Generations] /\ issued \in [Helpers -> Generations]
  /\ overtook \in BOOLEAN
  /\ rotation \in Rotations
  /\ upsets \in 0..MaxUpsets

(* Neither a rotation nor a recovery, however interrupted, changes a live   *)
(* credential or the authority while OpenSIPS runs.                         *)
ChangesWhileStopped ==
  [][pem' # pem \/ pins' # pins => loaded = Absent /\ loaded' = Absent]_rotationVars

(* A generation evidenced as rotated and healthy is never taken back, by    *)
(* either helper's recovery.                                                *)
EvidenceStands == \A h \in Helpers : \A f \in FilesOf(h) : issued[h] <= pem[f]

(* With no journal open and no helper running, every helper's files are of  *)
(* one generation, the authority pins them, and OpenSIPS has loaded them:   *)
(* unless one helper opened a journal over the other's.                     *)
SettledIsServed ==
  ~Busy /\ ~overtook /\ (\A h \in Helpers : txn[h] = Absent) =>
    /\ pem = pins /\ loaded = pem
    /\ \A h \in Helpers : OneGeneration(h)

(* OpenSIPS runs on what the authority pins, or an open journal that is not *)
(* HEALTHY will stop it (a restart of the host may start it on a mixture).  *)
ServedIsPinned ==
  loaded # Absent /\ ~overtook =>
    \/ loaded = pem /\ pem = pins
    \/ \E h \in Helpers : txn[h] # Absent /\ ~FinalizeNew(txn[h].phase)

(* An answer other than a rejection leaves OpenSIPS on one complete         *)
(* generation that the authority pins; "rotated" and "unchanged" leave it   *)
(* on the generation that was staged.                                       *)
AnswersAreTrue ==
  [][(Busy /\ ~Busy' /\ rotation'.answer \in {"restored", "unchanged", "rotated"}
        /\ ~overtook /\ txn[OtherHelper(Helper)] = Absent) =>
       /\ pem' = pins' /\ loaded' = pem' /\ OneGeneration(Helper)'
       /\ rotation'.answer # "restored" => \A f \in Mine : pem'[f] = staged[Helper]]_rotationVars

CredentialsAreSound ==
  /\ ChangesWhileStopped
  /\ []EvidenceStands /\ []SettledIsServed /\ []ServedIsPinned
  /\ AnswersAreTrue

(* A fixture restore that ended between its first and its last unlink: the  *)
(* journal asks for a backup that is gone, and every further run stops      *)
(* OpenSIPS and refuses.                                                    *)
CleanupWasCut ==
  /\ txn["fixture"] # Absent
  /\ ~FinalizeNew(txn["fixture"].phase)
  /\ backupPins["fixture"] = Absent \/ \E f \in FixtureFiles : backup[f] = Absent

(* Runs of the helpers bring the newest staged generation into service,     *)
(* whatever ended earlier runs: except after a cut cleanup, or after one    *)
(* helper opened a journal over the other's.                                *)
RotationsEnd ==
  <>[](\/ overtook \/ CleanupWasCut
       \/ /\ \A h \in Helpers : txn[h] = Absent
          /\ loaded = [f \in Credentials |->
                         staged[IF f \in FixtureFiles THEN "fixture" ELSE "certificate"]])
=============================================================================
