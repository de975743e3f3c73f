------------------------------ MODULE EdgeBootstrap ------------------------------
(***************************************************************************)
(* The first call of the runtime helper on a node takes the configuration  *)
(* in place over: it makes its directories, copies the live files into an  *)
(* immutable bootstrap release, points `active' at it, replaces each live  *)
(* file by a link through `active', and writes its state.  The directories *)
(* of the slots are made before the lock is held (the others are there     *)
(* since the installation).  Helpers may be killed at any step.            *)
(***************************************************************************)
EXTENDS Naturals, FiniteSets

CONSTANTS
  Helpers,      \* runs of the helper that may be under way together
  Configs,      \* the live configuration files
  MaxEdits      \* bound: edits of live files by the operator

ASSUME BootstrapConstants == MaxEdits \in Nat

VARIABLES
  slotsDir,      \* "absent" or "made"
  bootstrapDir,  \* "absent", "partial" or "sealed", and the edits it copied
  activeLink,    \* "absent" or "bootstrap"
  liveFile,      \* config -> how often the operator wrote it
  linked,        \* the live files replaced by links
  stateWritten,
  importer,      \* the helpers
  debris         \* history: "release" a helper died while it filled one,
                 \* "edit" a file was edited after it was copied

bootstrapVars == <<slotsDir, bootstrapDir, activeLink, liveFile, linked,
                   stateWritten, importer, debris>>

NoImporter == [pc |-> "idle", copy |-> [c \in Configs |-> 0]]

BootstrapInit ==
  /\ slotsDir = "absent" /\ activeLink = "absent"
  /\ bootstrapDir = [seal |-> "absent", copy |-> [c \in Configs |-> 0]]
  /\ liveFile = [c \in Configs |-> 0] /\ linked = {}
  /\ stateWritten = FALSE
  /\ importer = [h \in Helpers |-> NoImporter]
  /\ debris = {}

ImporterAt(h, pc) == importer[h].pc = pc

ImporterTo(h, pc) == importer' = [importer EXCEPT ![h].pc = pc]

ImporterLeaves(h) == importer' = [importer EXCEPT ![h] = NoImporter]

LockHeld == \E h \in Helpers : importer[h].pc \in {"init", "build", "seal", "point",
                                              "links", "state"}

SealedBootstrap == bootstrapDir.seal = "sealed"

-----------------------------------------------------------------------------
CallHelper(h) ==
  /\ ImporterAt(h, "idle") /\ ~stateWritten
  /\ ImporterTo(h, IF slotsDir = "absent" THEN "mkdir" ELSE "lock")
  /\ UNCHANGED <<slotsDir, bootstrapDir, activeLink, liveFile, linked,
                 stateWritten, debris>>

(* _ensure_directories: of each of three directories existence is asked     *)
(* first, and mkdir fails when some other helper was faster with that one.  *)
MakeDirectory(h) ==
  /\ ImporterAt(h, "mkdir")
  /\ IF slotsDir = "absent" THEN slotsDir' = "made" /\ ImporterTo(h, "lock")
     ELSE UNCHANGED slotsDir /\ (ImporterTo(h, "lock") \/ ImporterTo(h, "refused"))
  /\ UNCHANGED <<bootstrapDir, activeLink, liveFile, linked, stateWritten, debris>>

LockRuntime(h) ==
  /\ ImporterAt(h, "lock") /\ ~LockHeld
  /\ ImporterTo(h, "init")
  /\ UNCHANGED <<slotsDir, bootstrapDir, activeLink, liveFile, linked,
                 stateWritten, debris>>

(* Mutant: a bootstrap directory that is there is taken as it is.           *)
AnyDirectory == bootstrapDir.seal # "absent"

UsableDirectory == SealedBootstrap

(* _initialize without a state.  The live files are read before anything is *)
(* made, and must be readable, regular and of a known mode.                 *)
Initialise(h) ==
  /\ ImporterAt(h, "init")
  /\ CASE stateWritten -> ImporterTo(h, "links")
       [] ~stateWritten /\ UsableDirectory -> ImporterTo(h, "point")
       [] ~stateWritten /\ bootstrapDir.seal = "absent" /\ linked = {} ->
            \/ importer' = [importer EXCEPT ![h] = [pc |-> "build", copy |-> liveFile]]
            \/ ImporterTo(h, "refused")
       [] OTHER -> ImporterTo(h, "refused")
  /\ UNCHANGED <<slotsDir, bootstrapDir, activeLink, liveFile, linked,
                 stateWritten, debris>>

(* Mutant: the live files are read once the directory is made.              *)
BuildThenRead(h) ==
  /\ ImporterAt(h, "build")
  /\ bootstrapDir' = [bootstrapDir EXCEPT !.seal = "partial"]
  /\ ImporterTo(h, "seal") \/ ImporterTo(h, "refused")
  /\ UNCHANGED <<slotsDir, activeLink, liveFile, linked, stateWritten, debris>>

BuildBootstrap(h) ==
  /\ ImporterAt(h, "build")
  /\ bootstrapDir' = [bootstrapDir EXCEPT !.seal = "partial"] /\ ImporterTo(h, "seal")
  /\ UNCHANGED <<slotsDir, activeLink, liveFile, linked, stateWritten, debris>>

SealBootstrap(h) ==
  /\ ImporterAt(h, "seal")
  /\ bootstrapDir' = [seal |-> "sealed", copy |-> importer[h].copy]
  /\ ImporterTo(h, "point")
  /\ UNCHANGED <<slotsDir, activeLink, liveFile, linked, stateWritten, debris>>

PointBootstrap(h) ==
  /\ ImporterAt(h, "point")
  /\ activeLink' = "bootstrap" /\ ImporterTo(h, "links")
  /\ UNCHANGED <<slotsDir, bootstrapDir, liveFile, linked, stateWritten, debris>>

(* _install_live_links, one file at a time, over whatever the file holds.   *)
LinkLive(h, c) ==
  /\ ImporterAt(h, "links") /\ c \notin linked
  /\ linked' = linked \cup {c}
  /\ UNCHANGED <<slotsDir, bootstrapDir, activeLink, liveFile, stateWritten,
                 importer, debris>>

(* Mutant: the state is written after the first link.                       *)
LinkedSome == linked # {}

LinkedAll == linked = Configs

Linked(h) ==
  /\ ImporterAt(h, "links") /\ LinkedAll
  /\ ImporterTo(h, "state")
  /\ UNCHANGED <<slotsDir, bootstrapDir, activeLink, liveFile, linked,
                 stateWritten, debris>>

WriteFirstState(h) ==
  /\ ImporterAt(h, "state")
  /\ stateWritten' = TRUE /\ ImporterLeaves(h)
  /\ UNCHANGED <<slotsDir, bootstrapDir, activeLink, liveFile, linked, debris>>

RefuseImport(h) ==
  /\ ImporterAt(h, "refused") /\ ImporterLeaves(h)
  /\ UNCHANGED <<slotsDir, bootstrapDir, activeLink, liveFile, linked,
                 stateWritten, debris>>

KillHelper(h) ==
  /\ importer[h].pc \notin {"idle", "refused"} /\ ImporterLeaves(h)
  /\ debris' = debris \cup (IF ImporterAt(h, "seal") THEN {"release"} ELSE {})
  /\ UNCHANGED <<slotsDir, bootstrapDir, activeLink, liveFile, linked,
                 stateWritten>>

(* The operator changes a configuration file that is still a file.          *)
EditLive(c) ==
  /\ c \notin linked /\ liveFile[c] < MaxEdits
  /\ liveFile' = [liveFile EXCEPT ![c] = @ + 1]
  /\ debris' = IF SealedBootstrap \/ \E h \in Helpers : importer[h].pc \in {"build", "seal"}
               THEN debris \cup {"edit"} ELSE debris
  /\ UNCHANGED <<slotsDir, bootstrapDir, activeLink, linked, stateWritten, importer>>

BootstrapNext ==
  \/ \E h \in Helpers :
       \/ CallHelper(h) \/ MakeDirectory(h) \/ LockRuntime(h)
       \/ Initialise(h) \/ BuildBootstrap(h) \/ SealBootstrap(h) \/ PointBootstrap(h)
       \/ Linked(h) \/ WriteFirstState(h) \/ RefuseImport(h) \/ KillHelper(h)
       \/ \E c \in Configs : LinkLive(h, c)
  \/ \E c \in Configs : EditLive(c)

BootstrapSpec == BootstrapInit /\ [][BootstrapNext]_bootstrapVars

-----------------------------------------------------------------------------
BootstrapTypeOK ==
  /\ slotsDir \in {"absent", "made"}
  /\ bootstrapDir \in [seal : {"absent", "partial", "sealed"},
                      copy : [Configs -> 0..MaxEdits]]
  /\ activeLink \in {"absent", "bootstrap"}
  /\ liveFile \in [Configs -> 0..MaxEdits] /\ linked \subseteq Configs
  /\ debris \subseteq {"release", "edit"}
  /\ stateWritten => linked = Configs /\ slotsDir = "made"

(* Wherever a helper dies, every live file still leads to a configuration,  *)
(* and to the one the operator last wrote, unless it was written after the  *)
(* copy was taken: a rerun drops such an edit.                              *)
LiveConfigurationStays ==
  \A c \in linked :
    /\ activeLink = "bootstrap" /\ SealedBootstrap
    /\ "edit" \notin debris => bootstrapDir.copy[c] = liveFile[c]

(* A rerun finishes what any earlier helper began or refused, unless one    *)
(* was killed while it filled the bootstrap directory in place.             *)
ImportCanGoOn ==
  (\A h \in Helpers : ImporterAt(h, "idle")) /\ debris \subseteq {"edit"} =>
    /\ bootstrapDir.seal # "partial"
    /\ ~SealedBootstrap => activeLink = "absent" /\ linked = {}

(* The import never costs the node its configuration, and can always go on  *)
(* but for the one kill the module names.                                   *)
ImportIsSafe == LiveConfigurationStays /\ ImportCanGoOn
=============================================================================
