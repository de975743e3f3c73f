--------------------------- MODULE EdgePartsProofs ---------------------------
(***************************************************************************)
(* Proofs about the four parts of the Edge that MCEdgeAgent runs together: *)
(* the bootstrap import, the publication of releases and the health gates, *)
(* each for all values of its constants, and, with the theorems of         *)
(* EdgeAgentProofs, the machine that runs any of the four.                 *)
(***************************************************************************)
EXTENDS MCEdgeAgent, EdgeAgentProofs, FiniteSetTheorems

Places == {"idle", "mkdir", "lock", "refused", "init", "build", "seal",
           "point", "links", "state"}

Importers == [Helpers -> [pc : Places, copy : [Configs -> Nat]]]

ImportTypes ==
  /\ importer \in Importers
  /\ bootstrapDir \in [seal : {"absent", "partial", "sealed"}, copy : [Configs -> Nat]]
  /\ liveFile \in [Configs -> Nat] /\ linked \subseteq Configs

Locked(h) == importer[h].pc \in {"init", "build", "seal", "point", "links", "state"}

OneImporter == \A g, h \in Helpers : Locked(g) /\ Locked(h) => g = h

(* Where an importer stands says how far the directory is.                  *)
ImporterKnows ==
  \A h \in Helpers :
    /\ ImporterAt(h, "build") => bootstrapDir.seal = "absent"
    /\ ImporterAt(h, "seal") => bootstrapDir.seal = "partial"
    /\ importer[h].pc \in {"point", "links", "state"} => SealedBootstrap
    /\ importer[h].pc \in {"links", "state"} => activeLink = "bootstrap"

(* Link, files and state follow the sealed directory.                       *)
SealComesFirst ==
  /\ activeLink \in {"absent", "bootstrap"}
  /\ activeLink = "bootstrap" => SealedBootstrap
  /\ linked # {} => activeLink = "bootstrap"
  /\ stateWritten => activeLink = "bootstrap"

(* An unedited copy is of what the live files hold.                         *)
CopyIsCurrent ==
  "edit" \notin debris =>
    /\ SealedBootstrap => bootstrapDir.copy = liveFile
    /\ \A h \in Helpers : importer[h].pc \in {"build", "seal"} =>
         importer[h].copy = liveFile

(* A directory that is begun has its maker at work, or he died.             *)
MakersAreKnown ==
  bootstrapDir.seal = "partial" =>
    "release" \in debris \/ \E h \in Helpers : ImporterAt(h, "seal")

BootstrapInv ==
  /\ ImportTypes /\ OneImporter /\ ImporterKnows /\ SealComesFirst
  /\ CopyIsCurrent /\ MakersAreKnown

LEMMA BootstrapInitInv == BootstrapInit => BootstrapInv
  <1> SUFFICES ASSUME BootstrapInit PROVE BootstrapInv
    OBVIOUS
  <1>1. NoImporter \in [pc : Places, copy : [Configs -> Nat]] /\ NoImporter.pc = "idle"
    BY DEF NoImporter, Places
  <1>2. \A h \in Helpers : importer[h].pc = "idle"
    BY <1>1 DEF BootstrapInit
  <1>3. ImportTypes
    BY <1>1 DEF BootstrapInit, ImportTypes, Importers
  <1> QED
    BY <1>2, <1>3
    DEF BootstrapInit, BootstrapInv, OneImporter, ImporterKnows, SealComesFirst,
        CopyIsCurrent, MakersAreKnown, Locked, ImporterAt, SealedBootstrap

(* What a step of one importer may do to the places of all.                 *)
LEMMA OneMoves ==
  ASSUME ImportTypes, NEW h \in Helpers,
         NEW new \in [pc : Places, copy : [Configs -> Nat]],
         importer' = [importer EXCEPT ![h] = new]
  PROVE  /\ importer' \in Importers /\ importer'[h] = new
         /\ \A g \in Helpers \ {h} : importer'[g] = importer[g]
  BY DEF ImportTypes, Importers

LEMMA ImporterMoves ==
  ASSUME ImportTypes, NEW h \in Helpers, NEW pc \in Places, ImporterTo(h, pc)
  PROVE  /\ importer' \in Importers
         /\ importer'[h].pc = pc /\ importer'[h].copy = importer[h].copy
         /\ \A g \in Helpers \ {h} : importer'[g] = importer[g]
  <1>1. importer' = [importer EXCEPT ![h] = [importer[h] EXCEPT !.pc = pc]]
    BY DEF ImporterTo
  <1>2. [importer[h] EXCEPT !.pc = pc] \in [pc : Places, copy : [Configs -> Nat]]
    BY DEF ImportTypes, Importers
  <1> QED BY <1>1, <1>2, OneMoves DEF ImportTypes, Importers

(* One lemma per step of an importer.  Each first says where the importer   *)
(* goes and that the others stay, and then one part of the invariant after  *)
(* the other.                                                               *)
LEMMA CallHelperInv ==
  ASSUME BootstrapInv, NEW h \in Helpers, CallHelper(h)
  PROVE  BootstrapInv'
  <1>1. /\ ImportTypes /\ OneImporter /\ ImporterKnows
        /\ SealComesFirst /\ CopyIsCurrent /\ MakersAreKnown
    BY DEF BootstrapInv
  <1>2. PICK to \in {"mkdir", "lock"} : ImporterTo(h, to)
    BY DEF CallHelper
  <1>3. /\ importer' \in Importers
        /\ importer'[h].pc = to /\ importer'[h].copy = importer[h].copy
        /\ \A g \in Helpers \ {h} : importer'[g] = importer[g]
    BY <1>1, <1>2, ImporterMoves DEF Places
  <1>4. ImportTypes'
    BY <1>1, <1>2, <1>3 DEF CallHelper, ImportTypes, Importers
  <1>5. OneImporter'
    BY <1>1, <1>2, <1>3 DEF CallHelper, OneImporter, Locked, ImporterAt
  <1>6. ImporterKnows'
    BY <1>1, <1>2, <1>3 DEF CallHelper, ImporterKnows, SealComesFirst, ImporterAt,
        SealedBootstrap, OneImporter, Locked
  <1>7. SealComesFirst'
    BY <1>1, <1>2, <1>3 DEF CallHelper, SealComesFirst, SealedBootstrap,
        ImporterKnows, ImporterAt
  <1>8. CopyIsCurrent'
    BY <1>1, <1>2, <1>3 DEF CallHelper, CopyIsCurrent, SealedBootstrap, ImporterAt
  <1>9. MakersAreKnown'
    BY <1>1, <1>2, <1>3 DEF CallHelper, MakersAreKnown, ImporterAt
  <1> QED BY <1>4, <1>5, <1>6, <1>7, <1>8, <1>9 DEF BootstrapInv

LEMMA MakeDirectoryInv ==
  ASSUME BootstrapInv, NEW h \in Helpers, MakeDirectory(h)
  PROVE  BootstrapInv'
  <1>1. /\ ImportTypes /\ OneImporter /\ ImporterKnows
        /\ SealComesFirst /\ CopyIsCurrent /\ MakersAreKnown
    BY DEF BootstrapInv
  <1>2. PICK to \in {"lock", "refused"} : ImporterTo(h, to)
    BY DEF MakeDirectory
  <1>3. /\ importer' \in Importers
        /\ importer'[h].pc = to /\ importer'[h].copy = importer[h].copy
        /\ \A g \in Helpers \ {h} : importer'[g] = importer[g]
    BY <1>1, <1>2, ImporterMoves DEF Places
  <1>4. ImportTypes'
    BY <1>1, <1>2, <1>3 DEF MakeDirectory, ImportTypes, Importers
  <1>5. OneImporter'
    BY <1>1, <1>2, <1>3 DEF MakeDirectory, OneImporter, Locked, ImporterAt
  <1>6. ImporterKnows'
    BY <1>1, <1>2, <1>3 DEF MakeDirectory, ImporterKnows, SealComesFirst,
        ImporterAt, SealedBootstrap, OneImporter, Locked
  <1>7. SealComesFirst'
    BY <1>1, <1>2, <1>3 DEF MakeDirectory, SealComesFirst, SealedBootstrap,
        ImporterKnows, ImporterAt
  <1>8. CopyIsCurrent'
    BY <1>1, <1>2, <1>3 DEF MakeDirectory, CopyIsCurrent, SealedBootstrap,
        ImporterAt
  <1>9. MakersAreKnown'
    BY <1>1, <1>2, <1>3 DEF MakeDirectory, MakersAreKnown, ImporterAt
  <1> QED BY <1>4, <1>5, <1>6, <1>7, <1>8, <1>9 DEF BootstrapInv

LEMMA LockRuntimeInv ==
  ASSUME BootstrapInv, NEW h \in Helpers, LockRuntime(h)
  PROVE  BootstrapInv'
  <1>1. /\ ImportTypes /\ OneImporter /\ ImporterKnows
        /\ SealComesFirst /\ CopyIsCurrent /\ MakersAreKnown
    BY DEF BootstrapInv
  <1>2. PICK to \in {"init"} : ImporterTo(h, to)
    BY DEF LockRuntime
  <1>3. /\ importer' \in Importers
        /\ importer'[h].pc = to /\ importer'[h].copy = importer[h].copy
        /\ \A g \in Helpers \ {h} : importer'[g] = importer[g]
    BY <1>1, <1>2, ImporterMoves DEF Places
  <1>4. ImportTypes'
    BY <1>1, <1>2, <1>3 DEF LockRuntime, ImportTypes, Importers, LockHeld
  <1>5. OneImporter'
    BY <1>1, <1>2, <1>3 DEF LockRuntime, OneImporter, Locked, ImporterAt, LockHeld
  <1>6. ImporterKnows'
    BY <1>1, <1>2, <1>3 DEF LockRuntime, ImporterKnows, SealComesFirst, ImporterAt,
        SealedBootstrap, OneImporter, Locked, LockHeld
  <1>7. SealComesFirst'
    BY <1>1, <1>2, <1>3 DEF LockRuntime, SealComesFirst, SealedBootstrap,
        ImporterKnows, ImporterAt, LockHeld
  <1>8. CopyIsCurrent'
    BY <1>1, <1>2, <1>3 DEF LockRuntime, CopyIsCurrent, SealedBootstrap,
        ImporterAt, LockHeld
  <1>9. MakersAreKnown'
    BY <1>1, <1>2, <1>3 DEF LockRuntime, MakersAreKnown, ImporterAt, LockHeld
  <1> QED BY <1>4, <1>5, <1>6, <1>7, <1>8, <1>9 DEF BootstrapInv

LEMMA InitialiseInv ==
  ASSUME BootstrapInv, NEW h \in Helpers, Initialise(h)
  PROVE  BootstrapInv'
  <1>1. /\ ImportTypes /\ OneImporter /\ ImporterKnows
        /\ SealComesFirst /\ CopyIsCurrent /\ MakersAreKnown
    BY DEF BootstrapInv
  <1>2. importer[h] \in [pc : Places,
      copy : [Configs -> Nat]] /\ liveFile \in [Configs -> Nat]
    BY <1>1 DEF ImportTypes, Importers
  <1>3. PICK new \in [pc : Places, copy : [Configs -> Nat]] :
          /\ importer' = [importer EXCEPT ![h] = new]
          /\ new.pc \in {"links", "point", "build", "refused"}
          /\ new.pc = "links" => stateWritten
          /\ new.pc = "point" => SealedBootstrap
          /\ new.pc = "build" => bootstrapDir.seal = "absent" /\ new.copy = liveFile
    <2>1. \A pc \in {"links", "point", "refused"} : ImporterTo(h, pc) =>
            importer' = [importer EXCEPT ![h] = [@ EXCEPT !.pc = pc]]
      BY DEF ImporterTo
    <2>2. \A pc \in Places : [importer[h] EXCEPT !.pc = pc] \in [pc : Places,
        copy : [Configs -> Nat]]
      BY <1>2
    <2>3. {"links", "point", "build", "refused"} \subseteq Places
      BY DEF Places
    <2>4. CASE stateWritten
      <3>1. ImporterTo(h, "links")
        BY <2>4 DEF Initialise
      <3> QED BY <1>2, <2>1, <2>2, <2>3, <2>4, <3>1
    <2>5. CASE ~stateWritten /\ SealedBootstrap
      <3>1. ImporterTo(h, "point")
        BY <2>5 DEF Initialise, UsableDirectory, SealedBootstrap
      <3> QED BY <1>2, <2>1, <2>2, <2>3, <2>5, <3>1
    <2>6. CASE ~stateWritten /\ bootstrapDir.seal = "absent" /\ linked = {}
      <3>1. \/ importer' = [importer EXCEPT ![h] = [pc |-> "build", copy |-> liveFile]]
            \/ ImporterTo(h, "refused")
        BY <2>6 DEF Initialise, UsableDirectory, SealedBootstrap
      <3>2. CASE ImporterTo(h, "refused")
        BY <1>2, <2>1, <2>2, <2>3, <3>2
      <3>3. CASE importer' = [importer EXCEPT ![h] = [pc |-> "build", copy |-> liveFile]]
        <4>1. [pc |-> "build", copy |-> liveFile] \in [pc : Places, copy : [Configs -> Nat]]
          BY <1>2, <2>3
        <4> QED BY <2>6, <3>3, <4>1
      <3> QED BY <3>1, <3>2, <3>3
    <2>7. CASE /\ ~stateWritten /\ ~SealedBootstrap
               /\ ~(bootstrapDir.seal = "absent" /\ linked = {})
      <3>1. ImporterTo(h, "refused")
        BY <2>7 DEF Initialise, UsableDirectory
      <3> QED BY <1>2, <2>1, <2>2, <2>3, <2>7, <3>1
    <2> QED BY <2>4, <2>5, <2>6, <2>7
  <1>4. /\ importer' \in Importers /\ importer'[h] = new
        /\ \A g \in Helpers \ {h} : importer'[g] = importer[g]
    BY <1>1, <1>3, OneMoves
  <1>5. UNCHANGED <<slotsDir, bootstrapDir, activeLink, liveFile, linked,
      stateWritten, debris>>
    BY DEF Initialise
  <1>6. ImportTypes'
    BY <1>1, <1>2, <1>3, <1>4, <1>5 DEF Initialise, ImportTypes, Importers,
        UsableDirectory
  <1>7. OneImporter'
    BY <1>1, <1>2, <1>3, <1>4, <1>5 DEF Initialise, OneImporter, Locked,
        ImporterAt, UsableDirectory
  <1>8. ImporterKnows'
    BY <1>1, <1>2, <1>3, <1>4, <1>5 DEF Initialise, ImporterKnows, SealComesFirst,
        ImporterAt, SealedBootstrap, OneImporter, Locked, UsableDirectory
  <1>9. SealComesFirst'
    BY <1>1, <1>2, <1>3, <1>4, <1>5 DEF Initialise, SealComesFirst,
        SealedBootstrap, ImporterKnows, ImporterAt, UsableDirectory
  <1>10. CopyIsCurrent'
    BY <1>1, <1>2, <1>3, <1>4, <1>5 DEF Initialise, CopyIsCurrent, SealedBootstrap,
        ImporterAt, UsableDirectory
  <1>11. MakersAreKnown'
    BY <1>1, <1>2, <1>3, <1>4, <1>5 DEF Initialise, MakersAreKnown, ImporterAt,
        UsableDirectory
  <1> QED BY <1>6, <1>7, <1>8, <1>9, <1>10, <1>11 DEF BootstrapInv

LEMMA BuildBootstrapInv ==
  ASSUME BootstrapInv, NEW h \in Helpers, BuildBootstrap(h)
  PROVE  BootstrapInv'
  <1>1. /\ ImportTypes /\ OneImporter /\ ImporterKnows
        /\ SealComesFirst /\ CopyIsCurrent /\ MakersAreKnown
    BY DEF BootstrapInv
  <1>2. PICK to \in {"seal"} : ImporterTo(h, to)
    BY DEF BuildBootstrap
  <1>3. /\ importer' \in Importers
        /\ importer'[h].pc = to /\ importer'[h].copy = importer[h].copy
        /\ \A g \in Helpers \ {h} : importer'[g] = importer[g]
    BY <1>1, <1>2, ImporterMoves DEF Places
  <1>4. ImportTypes'
    BY <1>1, <1>2, <1>3 DEF BuildBootstrap, ImportTypes, Importers
  <1>5. OneImporter'
    BY <1>1, <1>2, <1>3 DEF BuildBootstrap, OneImporter, Locked, ImporterAt
  <1>6. ImporterKnows'
    BY <1>1, <1>2, <1>3 DEF BuildBootstrap, ImporterKnows, SealComesFirst,
        ImporterAt, SealedBootstrap, OneImporter, Locked
  <1>7. SealComesFirst'
    BY <1>1, <1>2, <1>3 DEF BuildBootstrap, SealComesFirst, SealedBootstrap,
        ImporterKnows, ImporterAt
  <1>8. CopyIsCurrent'
    BY <1>1, <1>2, <1>3 DEF BuildBootstrap, CopyIsCurrent, SealedBootstrap,
        ImporterAt
  <1>9. MakersAreKnown'
    BY <1>1, <1>2, <1>3 DEF BuildBootstrap, MakersAreKnown, ImporterAt
  <1> QED BY <1>4, <1>5, <1>6, <1>7, <1>8, <1>9 DEF BootstrapInv

LEMMA SealBootstrapInv ==
  ASSUME BootstrapInv, NEW h \in Helpers, SealBootstrap(h)
  PROVE  BootstrapInv'
  <1>1. /\ ImportTypes /\ OneImporter /\ ImporterKnows
        /\ SealComesFirst /\ CopyIsCurrent /\ MakersAreKnown
    BY DEF BootstrapInv
  <1>2. PICK to \in {"point"} : ImporterTo(h, to)
    BY DEF SealBootstrap
  <1>3. /\ importer' \in Importers
        /\ importer'[h].pc = to /\ importer'[h].copy = importer[h].copy
        /\ \A g \in Helpers \ {h} : importer'[g] = importer[g]
    BY <1>1, <1>2, ImporterMoves DEF Places
  <1>4. ImportTypes'
    BY <1>1, <1>2, <1>3 DEF SealBootstrap, ImportTypes, Importers
  <1>5. OneImporter'
    BY <1>1, <1>2, <1>3 DEF SealBootstrap, OneImporter, Locked, ImporterAt
  <1>6. ImporterKnows'
    BY <1>1, <1>2, <1>3 DEF SealBootstrap, ImporterKnows, SealComesFirst,
        ImporterAt, SealedBootstrap, OneImporter, Locked
  <1>7. SealComesFirst'
    BY <1>1, <1>2, <1>3 DEF SealBootstrap, SealComesFirst, SealedBootstrap,
        ImporterKnows, ImporterAt
  <1>8. CopyIsCurrent'
    BY <1>1, <1>2, <1>3 DEF SealBootstrap, CopyIsCurrent, SealedBootstrap,
        ImporterAt
  <1>9. MakersAreKnown'
    BY <1>1, <1>2, <1>3 DEF SealBootstrap, MakersAreKnown, ImporterAt
  <1> QED BY <1>4, <1>5, <1>6, <1>7, <1>8, <1>9 DEF BootstrapInv

LEMMA PointBootstrapInv ==
  ASSUME BootstrapInv, NEW h \in Helpers, PointBootstrap(h)
  PROVE  BootstrapInv'
  <1>1. /\ ImportTypes /\ OneImporter /\ ImporterKnows
        /\ SealComesFirst /\ CopyIsCurrent /\ MakersAreKnown
    BY DEF BootstrapInv
  <1>2. PICK to \in {"links"} : ImporterTo(h, to)
    BY DEF PointBootstrap
  <1>3. /\ importer' \in Importers
        /\ importer'[h].pc = to /\ importer'[h].copy = importer[h].copy
        /\ \A g \in Helpers \ {h} : importer'[g] = importer[g]
    BY <1>1, <1>2, ImporterMoves DEF Places
  <1>4. ImportTypes'
    BY <1>1, <1>2, <1>3 DEF PointBootstrap, ImportTypes, Importers
  <1>5. OneImporter'
    BY <1>1, <1>2, <1>3 DEF PointBootstrap, OneImporter, Locked, ImporterAt
  <1>6. ImporterKnows'
    BY <1>1, <1>2, <1>3 DEF PointBootstrap, ImporterKnows, SealComesFirst,
        ImporterAt, SealedBootstrap, OneImporter, Locked
  <1>7. SealComesFirst'
    BY <1>1, <1>2, <1>3 DEF PointBootstrap, SealComesFirst, SealedBootstrap,
        ImporterKnows, ImporterAt
  <1>8. CopyIsCurrent'
    BY <1>1, <1>2, <1>3 DEF PointBootstrap, CopyIsCurrent, SealedBootstrap,
        ImporterAt
  <1>9. MakersAreKnown'
    BY <1>1, <1>2, <1>3 DEF PointBootstrap, MakersAreKnown, ImporterAt
  <1> QED BY <1>4, <1>5, <1>6, <1>7, <1>8, <1>9 DEF BootstrapInv

LEMMA LinkedInv ==
  ASSUME BootstrapInv, NEW h \in Helpers, Linked(h)
  PROVE  BootstrapInv'
  <1>1. /\ ImportTypes /\ OneImporter /\ ImporterKnows
        /\ SealComesFirst /\ CopyIsCurrent /\ MakersAreKnown
    BY DEF BootstrapInv
  <1>2. PICK to \in {"state"} : ImporterTo(h, to)
    BY DEF Linked
  <1>3. /\ importer' \in Importers
        /\ importer'[h].pc = to /\ importer'[h].copy = importer[h].copy
        /\ \A g \in Helpers \ {h} : importer'[g] = importer[g]
    BY <1>1, <1>2, ImporterMoves DEF Places
  <1>4. ImportTypes'
    BY <1>1, <1>2, <1>3 DEF Linked, ImportTypes, Importers
  <1>5. OneImporter'
    BY <1>1, <1>2, <1>3 DEF Linked, OneImporter, Locked, ImporterAt
  <1>6. ImporterKnows'
    BY <1>1, <1>2, <1>3 DEF Linked, ImporterKnows, SealComesFirst, ImporterAt,
        SealedBootstrap, OneImporter, Locked
  <1>7. SealComesFirst'
    BY <1>1, <1>2, <1>3 DEF Linked, SealComesFirst, SealedBootstrap, ImporterKnows,
        ImporterAt
  <1>8. CopyIsCurrent'
    BY <1>1, <1>2, <1>3 DEF Linked, CopyIsCurrent, SealedBootstrap, ImporterAt
  <1>9. MakersAreKnown'
    BY <1>1, <1>2, <1>3 DEF Linked, MakersAreKnown, ImporterAt
  <1> QED BY <1>4, <1>5, <1>6, <1>7, <1>8, <1>9 DEF BootstrapInv

LEMMA WriteFirstStateInv ==
  ASSUME BootstrapInv, NEW h \in Helpers, WriteFirstState(h)
  PROVE  BootstrapInv'
  <1>1. /\ ImportTypes /\ OneImporter /\ ImporterKnows
        /\ SealComesFirst /\ CopyIsCurrent /\ MakersAreKnown
    BY DEF BootstrapInv
  <1>2. NoImporter \in [pc : Places,
      copy : [Configs -> Nat]] /\ NoImporter.pc = "idle"
    BY DEF NoImporter, Places
  <1>3. importer' = [importer EXCEPT ![h] = NoImporter]
    BY DEF WriteFirstState, ImporterLeaves
  <1>4. /\ importer' \in Importers /\ importer'[h].pc = "idle"
        /\ \A g \in Helpers \ {h} : importer'[g] = importer[g]
    BY <1>1, <1>2, <1>3, OneMoves
  <1>5. ImportTypes'
    BY <1>1, <1>2, <1>3, <1>4 DEF WriteFirstState, ImportTypes, Importers
  <1>6. OneImporter'
    BY <1>1, <1>2, <1>3, <1>4 DEF WriteFirstState, OneImporter, Locked, ImporterAt
  <1>7. ImporterKnows'
    BY <1>1, <1>2, <1>3, <1>4 DEF WriteFirstState, ImporterKnows, SealComesFirst,
        ImporterAt, SealedBootstrap, OneImporter, Locked
  <1>8. SealComesFirst'
    BY <1>1, <1>2, <1>3, <1>4 DEF WriteFirstState, SealComesFirst, SealedBootstrap,
        ImporterKnows, ImporterAt
  <1>9. CopyIsCurrent'
    BY <1>1, <1>2, <1>3, <1>4 DEF WriteFirstState, CopyIsCurrent, SealedBootstrap,
        ImporterAt
  <1>10. MakersAreKnown'
    BY <1>1, <1>2, <1>3, <1>4 DEF WriteFirstState, MakersAreKnown, ImporterAt
  <1> QED BY <1>5, <1>6, <1>7, <1>8, <1>9, <1>10 DEF BootstrapInv

LEMMA RefuseImportInv ==
  ASSUME BootstrapInv, NEW h \in Helpers, RefuseImport(h)
  PROVE  BootstrapInv'
  <1>1. /\ ImportTypes /\ OneImporter /\ ImporterKnows
        /\ SealComesFirst /\ CopyIsCurrent /\ MakersAreKnown
    BY DEF BootstrapInv
  <1>2. NoImporter \in [pc : Places,
      copy : [Configs -> Nat]] /\ NoImporter.pc = "idle"
    BY DEF NoImporter, Places
  <1>3. importer' = [importer EXCEPT ![h] = NoImporter]
    BY DEF RefuseImport, ImporterLeaves
  <1>4. /\ importer' \in Importers /\ importer'[h].pc = "idle"
        /\ \A g \in Helpers \ {h} : importer'[g] = importer[g]
    BY <1>1, <1>2, <1>3, OneMoves
  <1>5. ImportTypes'
    BY <1>1, <1>2, <1>3, <1>4 DEF RefuseImport, ImportTypes, Importers
  <1>6. OneImporter'
    BY <1>1, <1>2, <1>3, <1>4 DEF RefuseImport, OneImporter, Locked, ImporterAt
  <1>7. ImporterKnows'
    BY <1>1, <1>2, <1>3, <1>4 DEF RefuseImport, ImporterKnows, SealComesFirst,
        ImporterAt, SealedBootstrap, OneImporter, Locked
  <1>8. SealComesFirst'
    BY <1>1, <1>2, <1>3, <1>4 DEF RefuseImport, SealComesFirst, SealedBootstrap,
        ImporterKnows, ImporterAt
  <1>9. CopyIsCurrent'
    BY <1>1, <1>2, <1>3, <1>4 DEF RefuseImport, CopyIsCurrent, SealedBootstrap,
        ImporterAt
  <1>10. MakersAreKnown'
    BY <1>1, <1>2, <1>3, <1>4 DEF RefuseImport, MakersAreKnown, ImporterAt
  <1> QED BY <1>5, <1>6, <1>7, <1>8, <1>9, <1>10 DEF BootstrapInv

LEMMA KillHelperInv ==
  ASSUME BootstrapInv, NEW h \in Helpers, KillHelper(h)
  PROVE  BootstrapInv'
  <1>1. /\ ImportTypes /\ OneImporter /\ ImporterKnows
        /\ SealComesFirst /\ CopyIsCurrent /\ MakersAreKnown
    BY DEF BootstrapInv
  <1>2. NoImporter \in [pc : Places,
      copy : [Configs -> Nat]] /\ NoImporter.pc = "idle"
    BY DEF NoImporter, Places
  <1>3. importer' = [importer EXCEPT ![h] = NoImporter]
    BY DEF KillHelper, ImporterLeaves
  <1>4. /\ importer' \in Importers /\ importer'[h].pc = "idle"
        /\ \A g \in Helpers \ {h} : importer'[g] = importer[g]
    BY <1>1, <1>2, <1>3, OneMoves
  <1>5. ImportTypes'
    BY <1>1, <1>2, <1>3, <1>4 DEF KillHelper, ImportTypes, Importers
  <1>6. OneImporter'
    BY <1>1, <1>2, <1>3, <1>4 DEF KillHelper, OneImporter, Locked, ImporterAt
  <1>7. ImporterKnows'
    BY <1>1, <1>2, <1>3, <1>4 DEF KillHelper, ImporterKnows, SealComesFirst,
        ImporterAt, SealedBootstrap, OneImporter, Locked
  <1>8. SealComesFirst'
    BY <1>1, <1>2, <1>3, <1>4 DEF KillHelper, SealComesFirst, SealedBootstrap,
        ImporterKnows, ImporterAt
  <1>9. CopyIsCurrent'
    BY <1>1, <1>2, <1>3, <1>4 DEF KillHelper, CopyIsCurrent, SealedBootstrap,
        ImporterAt
  <1>10. MakersAreKnown'
    BY <1>1, <1>2, <1>3, <1>4 DEF KillHelper, MakersAreKnown, ImporterAt
  <1> QED BY <1>5, <1>6, <1>7, <1>8, <1>9, <1>10 DEF BootstrapInv

LEMMA LinkLiveInv ==
  ASSUME BootstrapInv, NEW h \in Helpers, NEW c \in Configs, LinkLive(h, c)
  PROVE  BootstrapInv'
  BY DEF LinkLive, BootstrapInv, ImportTypes, OneImporter, ImporterKnows,
      SealComesFirst,
         CopyIsCurrent, MakersAreKnown, Locked, ImporterAt, SealedBootstrap

LEMMA EditLiveInv ==
  ASSUME BootstrapInv, NEW c \in Configs, EditLive(c)
  PROVE  BootstrapInv'
  BY DEF EditLive, BootstrapInv, ImportTypes, OneImporter, ImporterKnows,
      SealComesFirst,
         CopyIsCurrent, MakersAreKnown, Locked, ImporterAt, SealedBootstrap

LEMMA SameBootstrapInv ==
  ASSUME BootstrapInv, UNCHANGED bootstrapVars
  PROVE  BootstrapInv'
  BY DEF bootstrapVars, BootstrapInv, ImportTypes, OneImporter, ImporterKnows,
         SealComesFirst, CopyIsCurrent, MakersAreKnown, Locked, ImporterAt,
             SealedBootstrap

LEMMA BootstrapNextInv ==
  ASSUME BootstrapInv, [BootstrapNext]_bootstrapVars
  PROVE  BootstrapInv'
  BY CallHelperInv, MakeDirectoryInv, LockRuntimeInv,
      InitialiseInv,
     BuildBootstrapInv, SealBootstrapInv, PointBootstrapInv, LinkedInv,
     WriteFirstStateInv, RefuseImportInv, KillHelperInv,
     LinkLiveInv, EditLiveInv, SameBootstrapInv DEF BootstrapNext

(* At every step of every helper, killed or not, a live file that has been  *)
(* replaced leads to what the operator last wrote, unless he wrote it after *)
(* the copy was taken (_initialize, _install_live_links).                   *)
THEOREM LiveConfigurationAlwaysStays == BootstrapSpec => []LiveConfigurationStays
  <1>1. BootstrapInv => LiveConfigurationStays
    BY DEF BootstrapInv, ImportTypes, SealComesFirst, CopyIsCurrent,
           LiveConfigurationStays, SealedBootstrap
  <1>2. BootstrapInv /\ [BootstrapNext]_bootstrapVars => BootstrapInv'
    BY BootstrapNextInv
  <1> QED BY BootstrapInitInv, <1>1, <1>2, PTL DEF BootstrapSpec

(* With no helper at work and none that died while it filled the directory, *)
(* the next one finds nothing half made (_initialize, _build_bootstrap).    *)
THEOREM ImportCanAlwaysGoOn == BootstrapSpec => []ImportCanGoOn
  <1>1. BootstrapInv => ImportCanGoOn
    BY DEF BootstrapInv, ImportTypes, SealComesFirst, MakersAreKnown, ImportCanGoOn,
           SealedBootstrap, ImporterAt
  <1>2. BootstrapInv /\ [BootstrapNext]_bootstrapVars => BootstrapInv'
    BY BootstrapNextInv
  <1> QED BY BootstrapInitInv, <1>1, <1>2, PTL DEF BootstrapSpec

(* The node keeps a configuration through the import, which can go on.      *)
THEOREM ImportAlwaysSafe == BootstrapSpec => []ImportIsSafe
  <1>1. LiveConfigurationStays /\ ImportCanGoOn => ImportIsSafe
    BY DEF ImportIsSafe
  <1> QED BY <1>1, LiveConfigurationAlwaysStays, ImportCanAlwaysGoOn, PTL

(* BootstrapTypeOK needs more than BootstrapInv says of who has come how    *)
(* far: directories are made and files linked before what follows them.     *)
Copies == [Configs -> 0..MaxEdits]

BootstrapFits ==
  /\ slotsDir \in {"absent", "made"} /\ activeLink \in {"absent", "bootstrap"}
  /\ bootstrapDir \in [seal : {"absent", "partial", "sealed"}, copy : Copies]
  /\ liveFile \in Copies /\ linked \subseteq Configs /\ debris \subseteq {"release", "edit"}
  /\ importer \in [Helpers -> [pc : Places, copy : Copies]]
  /\ stateWritten => linked = Configs /\ slotsDir = "made"
  /\ \A h \in Helpers :
       /\ importer[h].pc \notin {"idle", "mkdir", "refused"} => slotsDir = "made"
       /\ importer[h].pc = "state" => linked = Configs

LEMMA BootstrapInitFits == BootstrapInit => BootstrapFits
  <1> SUFFICES ASSUME BootstrapInit PROVE BootstrapFits
    OBVIOUS
  <1>1. [c \in Configs |-> 0] \in Copies
    BY BootstrapConstants DEF Copies
  <1>2. NoImporter \in [pc : Places, copy : Copies] /\ NoImporter.pc = "idle"
    BY <1>1 DEF NoImporter, Places
  <1> QED BY <1>1, <1>2 DEF BootstrapInit, BootstrapFits

(* A helper that goes somewhere changes nobody else's place.                *)
LEMMA ImporterGoes ==
  ASSUME BootstrapFits, NEW h \in Helpers, NEW pc \in Places, ImporterTo(h, pc)
  PROVE  /\ importer' \in [Helpers -> [pc : Places, copy : Copies]]
         /\ importer'[h].pc = pc
         /\ \A g \in Helpers : g # h => importer'[g] = importer[g]
  BY DEF BootstrapFits, ImporterTo

LEMMA ImporterGone ==
  ASSUME BootstrapFits, NEW h \in Helpers, ImporterLeaves(h)
  PROVE  /\ importer' \in [Helpers -> [pc : Places, copy : Copies]]
         /\ importer'[h].pc = "idle"
         /\ \A g \in Helpers : g # h => importer'[g] = importer[g]
  <1>1. [c \in Configs |-> 0] \in Copies
    BY BootstrapConstants DEF Copies
  <1>2. NoImporter \in [pc : Places, copy : Copies] /\ NoImporter.pc = "idle"
    BY <1>1 DEF NoImporter, Places
  <1> QED BY <1>2 DEF BootstrapFits, ImporterLeaves

LEMMA BootstrapNextFits ==
  ASSUME BootstrapFits, [BootstrapNext]_bootstrapVars PROVE BootstrapFits'
  <1>1. ASSUME NEW h \in Helpers, CallHelper(h) PROVE BootstrapFits'
    <2>1. CASE slotsDir = "absent"
      <3>1. ImporterTo(h, "mkdir") /\ "mkdir" \in Places
        BY <1>1, <2>1 DEF CallHelper, Places
      <3> QED BY <1>1, <3>1, ImporterGoes DEF BootstrapFits, CallHelper
    <2>2. CASE slotsDir # "absent"
      <3>1. ImporterTo(h, "lock") /\ "lock" \in Places /\ slotsDir = "made"
        BY <1>1, <2>2 DEF CallHelper, Places, BootstrapFits
      <3> QED BY <1>1, <3>1, ImporterGoes DEF BootstrapFits, CallHelper
    <2> QED BY <2>1, <2>2
  <1>2. ASSUME NEW h \in Helpers, MakeDirectory(h) PROVE BootstrapFits'
    <2>1. PICK pc \in {"lock", "refused"} : ImporterTo(h, pc)
      BY <1>2 DEF MakeDirectory
    <2>2. pc \in Places /\ slotsDir' = "made"
      BY <1>2 DEF MakeDirectory, Places, BootstrapFits
    <2> QED BY <1>2, <2>1, <2>2, ImporterGoes DEF BootstrapFits, MakeDirectory
  <1>3. ASSUME NEW h \in Helpers, LockRuntime(h) PROVE BootstrapFits'
    <2>1. ImporterTo(h, "init") /\ "init" \in Places
      BY <1>3 DEF LockRuntime, Places
    <2> QED BY <1>3, <2>1, ImporterGoes DEF BootstrapFits, LockRuntime, ImporterAt
  <1>4. ASSUME NEW h \in Helpers, Initialise(h) PROVE BootstrapFits'
    <2>1. CASE \E pc \in {"links", "point", "refused"} : ImporterTo(h, pc)
      <3>1. PICK pc \in {"links", "point", "refused"} : ImporterTo(h, pc)
        BY <2>1
      <3>2. pc \in Places
        BY DEF Places
      <3> QED BY <1>4, <3>1, <3>2, ImporterGoes DEF BootstrapFits, Initialise, ImporterAt
    <2>2. CASE importer' = [importer EXCEPT ![h] = [pc |-> "build", copy |-> liveFile]]
      BY <1>4, <2>2 DEF BootstrapFits, Initialise, ImporterAt, Places
    <2> QED BY <1>4, <2>1, <2>2 DEF Initialise
  <1>5. ASSUME NEW h \in Helpers, BuildBootstrap(h) PROVE BootstrapFits'
    <2>1. ImporterTo(h, "seal") /\ "seal" \in Places
      BY <1>5 DEF BuildBootstrap, Places
    <2> QED BY <1>5, <2>1, ImporterGoes DEF BootstrapFits, BuildBootstrap, ImporterAt
  <1>6. ASSUME NEW h \in Helpers, SealBootstrap(h) PROVE BootstrapFits'
    <2>1. ImporterTo(h, "point") /\ "point" \in Places
      BY <1>6 DEF SealBootstrap, Places
    <2> QED BY <1>6, <2>1, ImporterGoes DEF BootstrapFits, SealBootstrap, ImporterAt
  <1>7. ASSUME NEW h \in Helpers, PointBootstrap(h) PROVE BootstrapFits'
    <2>1. ImporterTo(h, "links") /\ "links" \in Places
      BY <1>7 DEF PointBootstrap, Places
    <2> QED BY <1>7, <2>1, ImporterGoes DEF BootstrapFits, PointBootstrap, ImporterAt
  <1>8. ASSUME NEW h \in Helpers, Linked(h) PROVE BootstrapFits'
    <2>1. ImporterTo(h, "state") /\ "state" \in Places /\ linked = Configs
      BY <1>8 DEF Linked, LinkedAll, Places
    <2> QED BY <1>8, <2>1, ImporterGoes DEF BootstrapFits, Linked, ImporterAt
  <1>9. ASSUME NEW h \in Helpers, WriteFirstState(h) PROVE BootstrapFits'
    <2>1. ImporterLeaves(h) /\ linked = Configs /\ slotsDir = "made"
      BY <1>9 DEF WriteFirstState, BootstrapFits, ImporterAt
    <2> QED BY <1>9, <2>1, ImporterGone DEF BootstrapFits, WriteFirstState
  <1>10. ASSUME NEW h \in Helpers, RefuseImport(h) \/ KillHelper(h)
         PROVE  BootstrapFits'
    <2>1. ImporterLeaves(h) /\ debris' \subseteq {"release", "edit"}
      BY <1>10 DEF RefuseImport, KillHelper, BootstrapFits
    <2> QED BY <1>10, <2>1, ImporterGone DEF BootstrapFits, RefuseImport, KillHelper
  <1>11. ASSUME NEW h \in Helpers, NEW c \in Configs, LinkLive(h, c) PROVE BootstrapFits'
    BY <1>11 DEF LinkLive, BootstrapFits
  <1>12. ASSUME NEW c \in Configs, EditLive(c) PROVE BootstrapFits'
    <2>1. liveFile' \in Copies
      BY <1>12, BootstrapConstants DEF EditLive, BootstrapFits, Copies
    <2> QED BY <1>12, <2>1 DEF EditLive, BootstrapFits
  <1>13. CASE UNCHANGED bootstrapVars
    BY <1>13 DEF bootstrapVars, BootstrapFits
  <1> QED BY <1>1, <1>2, <1>3, <1>4, <1>5, <1>6, <1>7, <1>8, <1>9, <1>10, <1>11, <1>12,
             <1>13 DEF BootstrapNext

(* The files of the import hold what they may, and its state is written     *)
(* when the directories are made and every live file is linked.             *)
THEOREM BootstrapTypesHold == BootstrapSpec => []BootstrapTypeOK
  <1>1. BootstrapFits => BootstrapTypeOK
    BY DEF BootstrapFits, BootstrapTypeOK, Copies
  <1>2. BootstrapFits /\ [BootstrapNext]_bootstrapVars => BootstrapFits'
    BY BootstrapNextFits
  <1> QED BY BootstrapInitFits, <1>1, <1>2, PTL DEF BootstrapSpec

-----------------------------------------------------------------------------

IsNode(s) ==
  {"generation", "highest", "active", "pending", "aborted", "floor"} \subseteq DOMAIN s

IsShelved(s) == "release" \in DOMAIN s

PublicationShape ==
  /\ seed = [owner |-> seed.owner, links |-> seed.links]
  /\ generating \in [Generators -> {"ready", "temporary", "linked", "over"}]
  /\ DOMAIN shelf = Dirs /\ DOMAIN fleet = Nodes
  /\ shelf = [d \in Dirs |-> shelf[d]] /\ fleet = [n \in Nodes |-> fleet[n]]
  /\ \A d \in Dirs : shelf[d] # Nothing => IsShelved(shelf[d])
  /\ \A n \in Nodes : IsNode(fleet[n])

(* A run that has linked the seed linked its own.                           *)
LinkedIsOwner == \A g \in Generators : generating[g] = "linked" => seed.owner = g

AnnouncedIsOwner == announced \subseteq {seed.owner}

(* r is no release, or is signed by the seed in the file.                   *)
Signed(r) == r # Nothing => r.signer = seed.owner

ReleasesAreSigned ==
  /\ \A d \in Dirs : shelf[d] # Nothing => shelf[d].release.signer = seed.owner
  /\ \A n \in Nodes : /\ Signed(fleet[n].active) /\ Signed(fleet[n].pending)
                      /\ Signed(fleet[n].aborted)

(* OneSigningKey says nothing of the time before there is a seed: then      *)
(* nothing has been announced, shelved or staged.                           *)
NothingBeforeTheSeed ==
  seed.owner = Nothing =>
    /\ announced = {}
    /\ \A d \in Dirs : shelf[d] = Nothing
    /\ \A n \in Nodes : /\ fleet[n].active = Nothing /\ fleet[n].pending = Nothing
                        /\ fleet[n].aborted = Nothing

KeyInv ==
  /\ PublicationShape /\ LinkedIsOwner /\ AnnouncedIsOwner /\ ReleasesAreSigned
  /\ NothingBeforeTheSeed

LEMMA KeyInitInv == PublicationInit => KeyInv
  BY DEF PublicationInit, KeyInv, PublicationShape, LinkedIsOwner, AnnouncedIsOwner,
         ReleasesAreSigned, NothingBeforeTheSeed, NewNode, IsNode, Signed

(* The runs of generate-key do not touch releases.                          *)
LEMMA GeneratorInv ==
  ASSUME KeyInv, NEW g \in Generators,
         \/ StartGenerate(g) \/ LinkSeed(g) \/ RefuseLink(g)
         \/ UnlinkTemporary(g) \/ KillGenerator(g)
  PROVE  KeyInv'
  <1> USE DEF KeyInv, PublicationShape, LinkedIsOwner, AnnouncedIsOwner,
              ReleasesAreSigned, NothingBeforeTheSeed, Signed, IsNode, IsShelved
  <1>1. CASE StartGenerate(g)
    BY <1>1 DEF StartGenerate
  <1>2. CASE LinkSeed(g)
    BY <1>2, PublicationConstants DEF LinkSeed
  <1>3. CASE RefuseLink(g)
    BY <1>3 DEF RefuseLink
  <1>4. CASE UnlinkTemporary(g)
    <2>1. /\ generating[g] = "linked" /\ seed' = [seed EXCEPT !.links = 1]
          /\ announced' \in {announced, announced \cup {g}}
          /\ generating' = [generating EXCEPT ![g] = "over"]
          /\ UNCHANGED <<shelf, fleet, clock>>
      BY <1>4 DEF UnlinkTemporary
    <2>2. seed.owner = g /\ seed'.owner = seed.owner /\ g # Nothing
      BY <2>1, PublicationConstants
    <2> QED BY <2>1, <2>2
  <1>5. CASE KillGenerator(g)
    BY <1>5 DEF KillGenerator
  <1> QED BY <1>1, <1>2, <1>3, <1>4, <1>5

(* A release is signed with the seed in the file, or was there before.      *)
LEMMA ShelfInv ==
  ASSUME KeyInv, NEW d \in Dirs,
         \/ \E n \in Nodes, b \in Bodies : Materialize(d, n, b)
         \/ WriteFile(d) \/ KillWriter(d) \/ RemoveDirectory(d)
  PROVE  KeyInv'
  <1> USE DEF KeyInv, PublicationShape, LinkedIsOwner, AnnouncedIsOwner,
              ReleasesAreSigned, NothingBeforeTheSeed, Signed, IsNode, IsShelved
  <1>1. ASSUME NEW n \in Nodes, NEW b \in Bodies, Materialize(d, n, b)
        PROVE  KeyInv'
    <2>1. PICK r : /\ r.signer = seed.owner
                   /\ shelf' = [shelf EXCEPT ![d] =
                                  [release |-> r, files |-> {}, writing |-> TRUE]]
      BY <1>1 DEF Materialize, SignedRelease
    <2>2. seed.owner # Nothing
      BY <1>1 DEF Materialize, SeedReadable
    <2>3. UNCHANGED <<seed, generating, announced, fleet>>
      BY <1>1 DEF Materialize
    <2> QED BY <2>1, <2>2, <2>3
  <1>2. ASSUME NEW new, IsShelved(new), shelf[d] # Nothing,
               new.release = shelf[d].release, shelf' = [shelf EXCEPT ![d] = new],
               UNCHANGED <<seed, generating, announced, fleet>>
        PROVE  KeyInv'
    BY <1>2
  <1>3. CASE WriteFile(d)
    <2> DEFINE written == Cardinality(shelf[d].files) + 1
               new == [shelf[d] EXCEPT !.files = @ \cup {FileOrder[written]},
                                       !.writing = written < 4]
    <2>1. shelf[d] # Nothing /\ shelf' = [shelf EXCEPT ![d] = new]
      BY <1>3 DEF WriteFile
    <2>2. new.release = shelf[d].release /\ IsShelved(new)
      BY <2>1
    <2>3. UNCHANGED <<seed, generating, announced, fleet>>
      BY <1>3 DEF WriteFile
    <2> HIDE DEF new
    <2> QED BY <1>2, <2>1, <2>2, <2>3
  <1>4. CASE KillWriter(d)
    <2> DEFINE new == [shelf[d] EXCEPT !.writing = FALSE]
    <2>1. shelf[d] # Nothing /\ shelf' = [shelf EXCEPT ![d] = new]
      BY <1>4 DEF KillWriter
    <2>2. new.release = shelf[d].release /\ IsShelved(new)
      BY <2>1
    <2>3. UNCHANGED <<seed, generating, announced, fleet>>
      BY <1>4 DEF KillWriter
    <2> HIDE DEF new
    <2> QED BY <1>2, <2>1, <2>2, <2>3
  <1>5. CASE RemoveDirectory(d)
    BY <1>5 DEF RemoveDirectory
  <1> QED BY <1>1, <1>3, <1>4, <1>5

(* A node only ever moves what it holds, or takes from a shelf.             *)
LEMMA NodeInv ==
  ASSUME KeyInv, NEW n \in Nodes,
         \/ \E d \in Dirs : StageRelease(n, d)
         \/ CommitRelease(n) \/ AbortRelease(n) \/ ReplaceNode(n)
  PROVE  KeyInv'
  <1> DEFINE old == fleet[n]
             Sound(r) == Signed(r) /\ (seed.owner = Nothing => r = Nothing)
  <1>1. \A d \in Dirs : shelf[d] # Nothing => Sound(shelf[d].release)
    BY DEF KeyInv, ReleasesAreSigned, NothingBeforeTheSeed, Signed
  <1>2. IsNode(old)
    BY DEF KeyInv, PublicationShape
  <1>3. Sound(old.active) /\ Sound(old.pending) /\ Sound(old.aborted) /\ Sound(Nothing)
    BY DEF KeyInv, ReleasesAreSigned, NothingBeforeTheSeed, Signed
  <1>4. UNCHANGED <<seed, generating, announced, shelf>>
    BY DEF StageRelease, CommitRelease, AbortRelease, ReplaceNode
  <1>5. ASSUME NEW new, IsNode(new), fleet' = [fleet EXCEPT ![n] = new],
               Sound(new.active), Sound(new.pending), Sound(new.aborted)
        PROVE  KeyInv'
    BY <1>4, <1>5
    DEF KeyInv, PublicationShape, LinkedIsOwner, AnnouncedIsOwner, ReleasesAreSigned,
        NothingBeforeTheSeed, Signed
  <1>6. ASSUME NEW d \in Dirs, StageRelease(n, d)
        PROVE  KeyInv'
    <2> DEFINE r == shelf[d].release
               new == [old EXCEPT !.pending = r, !.highest = r.sequence]
    <2>1. fleet' = [fleet EXCEPT ![n] = new] /\ Sound(r)
      BY <1>1, <1>6 DEF StageRelease
    <2>2. /\ new.active = old.active /\ new.pending = r /\ new.aborted = old.aborted
          /\ IsNode(new)
      BY <1>2 DEF IsNode
    <2> HIDE DEF new, r
    <2> QED BY <1>3, <1>5, <2>1, <2>2
  <1>7. CASE CommitRelease(n)
    <2> DEFINE new == [old EXCEPT !.active = old.pending, !.pending = Nothing,
                                  !.floor = old.pending.sequence]
    <2>1. fleet' = [fleet EXCEPT ![n] = new]
      BY <1>7 DEF CommitRelease
    <2>2. /\ new.active = old.pending /\ new.pending = Nothing /\ new.aborted = old.aborted
          /\ IsNode(new)
      BY <1>2 DEF IsNode
    <2> HIDE DEF new
    <2> QED BY <1>3, <1>5, <2>1, <2>2
  <1>8. CASE AbortRelease(n)
    <2>1. PICK floor : fleet' = [fleet EXCEPT ![n] = [old EXCEPT !.aborted = old.pending,
                                                                !.pending = Nothing,
                                                                !.floor = floor]]
      BY <1>8 DEF AbortRelease
    <2> DEFINE new == [old EXCEPT !.aborted = old.pending, !.pending = Nothing,
                                  !.floor = floor]
    <2>2. /\ new.active = old.active /\ new.pending = Nothing /\ new.aborted = old.pending
          /\ IsNode(new)
      BY <1>2 DEF IsNode
    <2>3. fleet' = [fleet EXCEPT ![n] = new]
      BY <2>1
    <2> HIDE DEF new
    <2> QED BY <1>3, <1>5, <2>2, <2>3
  <1>9. CASE ReplaceNode(n)
    <2> DEFINE new == NewNode(old.generation + 1)
    <2>1. fleet' = [fleet EXCEPT ![n] = new]
      BY <1>9 DEF ReplaceNode
    <2>2. /\ new.active = Nothing /\ new.pending = Nothing /\ new.aborted = Nothing
          /\ IsNode(new)
      BY DEF NewNode, IsNode
    <2> HIDE DEF new
    <2> QED BY <1>3, <1>5, <2>1, <2>2
  <1> QED BY <1>6, <1>7, <1>8, <1>9

LEMMA KeyNextInv ==
  ASSUME KeyInv, [PublicationNext]_publicationVars
  PROVE  KeyInv'
  <1>1. CASE Tick \/ UNCHANGED publicationVars
    BY <1>1
    DEF Tick, publicationVars, KeyInv, PublicationShape, LinkedIsOwner,
        AnnouncedIsOwner, ReleasesAreSigned, NothingBeforeTheSeed, Signed, IsNode,
        IsShelved
  <1> QED BY <1>1, GeneratorInv, ShelfInv, NodeInv DEF PublicationNext

(* There is one signing key for good, however many runs of generate-key     *)
(* race or are killed (generate_private_seed, _read_private_seed): what was *)
(* announced to be pinned, and what signed any release on a shelf or on a   *)
(* node, is the seed in the file.                                           *)
THEOREM OneSigningKeyAlways == PublicationSpec => []OneSigningKey
  <1>1. KeyInv => OneSigningKey
    <2> SUFFICES ASSUME KeyInv PROVE OneSigningKey
      OBVIOUS
    <2>1. ASSUME NEW r \in Shelved PROVE r.signer = seed.owner
      <3>1. PICK d \in Dirs : shelf[d] # Nothing /\ r = shelf[d].release
        BY DEF Shelved
      <3> QED BY <3>1 DEF KeyInv, ReleasesAreSigned
    <2>2. ASSUME NEW n \in Nodes, NEW r \in Held(n) PROVE r.signer = seed.owner
      BY DEF KeyInv, ReleasesAreSigned, Signed, Held
    <2> QED BY <2>1, <2>2 DEF KeyInv, AnnouncedIsOwner, OneSigningKey, Known
  <1>2. KeyInv /\ [PublicationNext]_publicationVars => KeyInv'
    BY KeyNextInv
  <1> QED BY KeyInitInv, <1>1, <1>2, PTL DEF PublicationSpec

-----------------------------------------------------------------------------
(* Lineage.                                                                 *)

(* The control plane compiled and checked a release before it signed it.    *)
CheckedFirst(r) ==
  Checked(r.body, FactsOf[r.node][r.generation], r.parent, r.issued, r.signer)

(* What every release satisfies that the control plane ever signed.         *)
Made(r) ==
  /\ r.node \in Nodes /\ r.generation \in DOMAIN FactsOf[r.node] /\ r.body \in Bodies
  /\ MayMaterialize(r.body, FactsOf[r.node][r.generation], r.parent)
  /\ r.sequence = NextSequence(r.parent) /\ r.sequence \in 1..MaxSequence
  /\ r.issued \in 0..(MaxTime * Step)

(* r is no release, or one for node n in its state s, of one kind with its  *)
(* parent and not above the floor.                                          *)
Fits(n, s, r) ==
  r # Nothing =>
    /\ Made(r) /\ r.node = n /\ r.generation = s.generation /\ r.sequence <= s.highest
    /\ r.parent # Nothing =>
         r.parent.generation = r.generation /\ r.parent.body.kind = r.body.kind

(* The pending release continues the active one until it replaces it.       *)
NodeHolds(n, s) ==
  /\ s.generation \in DOMAIN FactsOf[n]
  /\ s.highest \in Nat /\ s.floor \in Nat /\ s.floor <= s.highest
  /\ Fits(n, s, s.active) /\ Fits(n, s, s.pending) /\ Fits(n, s, s.aborted)
  /\ s.active # Nothing => s.active.body.kind = AuthorityOf[n][s.generation].profile
  /\ s.pending # Nothing => s.pending.parent = s.active

SeedTypes ==
  /\ seed.owner \in Generators \cup {Nothing} /\ seed.links \in 0..2
  /\ announced \subseteq Generators /\ clock \in 0..MaxTime

LineageInv ==
  /\ KeyInv /\ SeedTypes
  /\ \A d \in Dirs : shelf[d] # Nothing => Made(shelf[d].release)
  /\ \A n \in Nodes : NodeHolds(n, fleet[n])

(* Sources and range of the facts tell the kind of a profile.               *)
LEMMA KindsDiffer ==
  ASSUME NEW b, NEW f, NEW accepted, MayMaterialize(b, f, accepted)
  PROVE  /\ b.kind \in Kinds
         /\ b.kind = "synthetic" => f.sources = {FixtureNet} /\ f.range.start = 21000
         /\ b.kind = "private" => f.sources = {FixtureNet} /\ f.range.start = 30000
         /\ b.kind = "direct" => f.sources # {} /\ FixtureNet \notin f.sources
  <1>1. b.kind \in Kinds /\ PbxOK(b) /\ b.sources = f.sources /\ SameRange(b.range, f.range)
    BY DEF MayMaterialize, ProfileOK, Bound
  <1>2. FixtureRange.start = 21000 /\ CarrierRange.start = 30000
    BY DEF FixtureRange, CarrierRange
  <1>3. CASE b.kind = "synthetic"
    BY <1>1, <1>2, <1>3 DEF PbxOK, SameRange
  <1>4. CASE b.kind = "private"
    BY <1>1, <1>2, <1>4 DEF PbxOK, SameRange
  <1>5. CASE b.kind = "direct"
    BY <1>1, <1>5, FixtureIsPrivate DEF PbxOK, PublicSources
  <1> QED BY <1>1, <1>3, <1>4, <1>5 DEF Kinds

LEMMA OneKindPerNode ==
  ASSUME NEW b, NEW c, NEW f, NEW r, NEW s,
         MayMaterialize(b, f, r), MayMaterialize(c, f, s)
  PROVE  b.kind = c.kind
  <1>1. /\ b.kind \in Kinds
        /\ b.kind = "synthetic" => f.sources = {FixtureNet} /\ f.range.start = 21000
        /\ b.kind = "private" => f.sources = {FixtureNet} /\ f.range.start = 30000
        /\ b.kind = "direct" => f.sources # {} /\ FixtureNet \notin f.sources
    BY KindsDiffer
  <1>2. /\ c.kind \in Kinds
        /\ c.kind = "synthetic" => f.sources = {FixtureNet} /\ f.range.start = 21000
        /\ c.kind = "private" => f.sources = {FixtureNet} /\ f.range.start = 30000
        /\ c.kind = "direct" => f.sources # {} /\ FixtureNet \notin f.sources
    BY KindsDiffer
  <1> QED BY <1>1, <1>2 DEF Kinds

(* What the runtime runs is of the kind its authority names.                *)
LEMMA RuntimeKnowsTheKind ==
  ASSUME NEW n, NEW e, NEW now, RuntimeTakes(n, e, now),
         NEW b, NEW accepted, MayMaterialize(b, FactsNow(n), accepted)
  PROVE  b.kind = AuthorityNow(n).profile
  <1> DEFINE f == FactsNow(n)
             a == AuthorityNow(n)
             route == HandOff(e, f).files["OPENSIPS"]
  <1>1. FactsOK(f) /\ AuthorityOK(a) /\ ProfileFits(f, a, route)
    BY DEF RuntimeTakes, ValidateCandidate
  <1>2. /\ b.kind \in Kinds
        /\ b.kind = "synthetic" => f.sources = {FixtureNet} /\ f.range.start = 21000
        /\ b.kind = "private" => f.sources = {FixtureNet} /\ f.range.start = 30000
        /\ b.kind = "direct" => f.sources # {} /\ FixtureNet \notin f.sources
    BY KindsDiffer
  <1> HIDE DEF f, a, route
  <1>3. /\ a.profile \in Kinds /\ f.sources # {}
        /\ a.profile = "synthetic" => f.sources = {FixtureNet} /\ f.range.start = 21000
        /\ a.profile = "private" => f.sources = {FixtureNet} /\ f.range.start = 30000
        /\ a.profile = "direct" => FixtureNet \notin f.sources
    <2>1. a.profile \in Kinds /\ f.sources # {}
      BY <1>1 DEF FactsOK, AuthorityOK
    <2>2. FixtureRange.start = 21000 /\ CarrierRange.start = 30000
      BY DEF FixtureRange, CarrierRange
    <2>3. CASE a.profile = "synthetic"
      BY <1>1, <2>1, <2>2, <2>3 DEF ProfileFits, SyntheticOK, SameRange
    <2>4. CASE a.profile = "private"
      BY <1>1, <2>1, <2>2, <2>4 DEF ProfileFits, PrivateOK, SameRange
    <2>5. CASE a.profile = "direct"
      BY <1>1, <2>1, <2>5, FixtureIsPrivate DEF ProfileFits, DirectOK
    <2> QED BY <2>1, <2>3, <2>4, <2>5 DEF Kinds
  <1>4. b.kind = a.profile
    BY <1>2, <1>3 DEF Kinds
  <1> QED BY <1>4 DEF a

LEMMA ManifestIs ==
  ASSUME NEW b, NEW f, NEW accepted, NEW issued
  PROVE  /\ BuildManifest(b, f, accepted, issued).target = Target(f)
         /\ BuildManifest(b, f, accepted, issued).previous = accepted
         /\ BuildManifest(b, f, accepted, issued).sequence = NextSequence(accepted)
  <1> DEFINE draft == Draft(b, f, accepted, issued)
             artifacts == Declared(draft, Render(draft, f), f)
             gates == HealthGates(draft)
  <1>1. /\ draft.target = Target(f) /\ draft.previous = accepted
        /\ draft.sequence = NextSequence(accepted)
    BY DEF Draft
  <1>2. BuildManifest(b, f, accepted, issued)
          = [draft EXCEPT !.artifacts = artifacts, !.gates = gates]
    BY DEF BuildManifest
  <1> HIDE DEF draft, artifacts, gates
  <1> QED BY <1>1, <1>2

(* The agent takes only what continues its active release: one that claims  *)
(* no parent has sequence 1.                                                *)
LEMMA TakenContinues ==
  ASSUME NEW n \in Nodes, NodeHolds(n, fleet[n]), NEW r, Made(r), AgentTakes(n, r)
  PROVE  /\ r.node = n /\ r.generation = fleet[n].generation /\ r.parent = fleet[n].active
         /\ r.sequence > fleet[n].highest
  <1> DEFINE m == ManifestOf(r)
             old == fleet[n]
             ctx == NodeContext(FactsNow(n), old.active, clock * Step)
             f == FactsOf[r.node][r.generation]
  <1>1. /\ r.sequence > old.highest /\ EnvelopeOf(r).manifest = m
        /\ TargetsContext(EnvelopeOf(r).manifest, ctx)
        /\ AcceptedOK(EnvelopeOf(r).manifest, ctx.accepted)
    <2>1. EnvelopeOf(r).manifest = m
      BY DEF EnvelopeOf, Envelope
    <2>2. ValidateEnvelope(EnvelopeOf(r).manifest, ctx) /\ r.sequence > old.highest
      BY DEF AgentTakes, AgentVerifies
    <2> HIDE DEF m, ctx
    <2> QED BY <2>1, <2>2 DEF ValidateEnvelope
  <1>2. m.target = Target(f) /\ m.previous = r.parent
    BY ManifestIs DEF ManifestOf
  <1>3. /\ ctx.node = FactsNow(n).node /\ ctx.generation = FactsNow(n).generation
        /\ ctx.accepted = IF old.active = Nothing THEN Nothing
                          ELSE [sequence |-> old.active.sequence, digest |-> old.active]
    BY DEF NodeContext, FactsContext
  <1> HIDE DEF m, ctx
  <1>4. r.node = n /\ r.generation = old.generation
    <2>1. f.node = r.node /\ f.generation = r.generation
      BY PublicationConstants DEF Made
    <2>2. FactsNow(n).node = n /\ FactsNow(n).generation = old.generation
      BY PublicationConstants DEF FactsNow, NodeHolds
    <2>3. m.target.node = ctx.node /\ m.target.generation = ctx.generation
      BY <1>1 DEF TargetsContext
    <2> HIDE DEF f
    <2> QED BY <1>2, <1>3, <2>1, <2>2, <2>3 DEF Target
  <1>5. CASE old.active = Nothing
    BY <1>1, <1>2, <1>3, <1>4, <1>5 DEF AcceptedOK
  <1>6. CASE old.active # Nothing
    <2>1. r.sequence > 1
      BY <1>1, <1>6 DEF NodeHolds, Fits, Made
    <2>2. r.parent # Nothing
      BY <2>1 DEF Made, NextSequence
    <2>3. m.previous = ctx.accepted.digest
      BY <1>1, <1>2, <2>2 DEF AcceptedOK
    <2>4. r.parent = old.active
      BY <1>2, <1>3, <1>6, <2>2, <2>3, <1>1 DEF AcceptedOK
    <2> QED BY <1>1, <1>4, <2>4
  <1> QED BY <1>5, <1>6

LEMMA LineageInitInv == PublicationInit => LineageInv
  <1> SUFFICES ASSUME PublicationInit PROVE LineageInv
    OBVIOUS
  <1>1. KeyInv /\ SeedTypes
    BY KeyInitInv, PublicationConstants DEF PublicationInit, SeedTypes
  <1>2. ASSUME NEW n \in Nodes PROVE NodeHolds(n, NewNode(1))
    <2>1. 1 \in DOMAIN FactsOf[n]
      BY PublicationConstants
    <2> QED BY <2>1 DEF NodeHolds, NewNode, Fits
  <1> QED BY <1>1, <1>2 DEF PublicationInit, LineageInv

(* Time counts up by steps.                                                 *)
LEMMA StepsAddUp ==
  ASSUME NEW t \in Nat, NEW last \in Nat, t <= last, NEW s \in Nat
  PROVE  t * s \in 0..(last * s)
  <1>1. PICK k \in Nat : last = t + k
    BY last - t \in Nat
  <1>2. t * s \in Nat /\ k * s \in Nat /\ last * s = t * s + k * s
    BY <1>1
  <1> QED BY <1>2

LEMMA KnownAreMade ==
  ASSUME LineageInv, NEW r \in Known
  PROVE  Made(r)
  <1>1. CASE r \in Shelved
    BY <1>1 DEF LineageInv, Shelved
  <1>2. ASSUME NEW n \in Nodes, r \in Held(n) PROVE Made(r)
    BY <1>2 DEF LineageInv, NodeHolds, Fits, Held
  <1> QED BY <1>1, <1>2 DEF Known

LEMMA SignedIsMade ==
  ASSUME LineageInv, NEW d \in Dirs, NEW n \in Nodes, NEW b \in Bodies, Materialize(d, n, b)
  PROVE  \E r : /\ Made(r) /\ CheckedFirst(r)
                /\ shelf' = [shelf EXCEPT ![d] =
                               [release |-> r, files |-> {}, writing |-> TRUE]]
  <1>1. PICK g \in 1..fleet[n].generation, accepted \in Known \cup {Nothing} :
          /\ NextSequence(accepted) <= MaxSequence
          /\ Materializes(b, FactsOf[n][g], accepted, clock * Step, seed.owner)
          /\ shelf' = [shelf EXCEPT ![d] =
               [release |-> SignedRelease(n, g, b, accepted), files |-> {},
                writing |-> TRUE]]
    BY DEF Materialize
  <1> DEFINE r == SignedRelease(n, g, b, accepted)
  <1>2. /\ r.node = n /\ r.generation = g /\ r.body = b /\ r.parent = accepted
        /\ r.sequence = NextSequence(accepted) /\ r.issued = clock * Step
        /\ r.signer = seed.owner
    BY DEF SignedRelease
  <1>3. g \in DOMAIN FactsOf[n]
    <2>1. fleet[n].generation \in DOMAIN FactsOf[n] /\ FactsOf[n] \in Seq(NodeFacts)
      BY PublicationConstants DEF LineageInv, NodeHolds
    <2> QED BY <2>1
  <1>4. NextSequence(accepted) \in 1..MaxSequence
    <2>1. accepted # Nothing => accepted.sequence \in 1..MaxSequence
      BY KnownAreMade DEF Made
    <2> QED BY <1>1, <2>1, PublicationConstants DEF NextSequence
  <1>5. clock * Step \in 0..(MaxTime * Step)
    BY StepsAddUp, PublicationConstants DEF LineageInv, SeedTypes
  <1>6. MayMaterialize(b, FactsOf[n][g], accepted)
    BY <1>1 DEF Materializes
  <1> HIDE DEF r
  <1>7. Made(r)
    BY <1>2, <1>3, <1>4, <1>5, <1>6 DEF Made
  <1>8. CheckedFirst(r)
    BY <1>1, <1>2 DEF Materializes, CheckedFirst
  <1> QED BY <1>1, <1>7, <1>8 DEF r

(* Steps that touch no node.                                                *)
LEMMA ShelvesKeepLineage ==
  ASSUME LineageInv, NEW d \in Dirs,
         \/ \E n \in Nodes, b \in Bodies : Materialize(d, n, b)
         \/ WriteFile(d) \/ KillWriter(d) \/ RemoveDirectory(d)
  PROVE  LineageInv'
  <1>1. KeyInv'
    BY ShelfInv DEF LineageInv
  <1>2. UNCHANGED <<seed, generating, announced, fleet, clock>>
    BY DEF Materialize, WriteFile, KillWriter, RemoveDirectory
  <1>3. \A e \in Dirs : shelf'[e] # Nothing => Made(shelf'[e].release)
    <2>1. ASSUME NEW n \in Nodes, NEW b \in Bodies, Materialize(d, n, b)
          PROVE  \A e \in Dirs : shelf'[e] # Nothing => Made(shelf'[e].release)
      <3>1. PICK r : /\ Made(r)
                     /\ shelf' = [shelf EXCEPT ![d] =
                                    [release |-> r, files |-> {}, writing |-> TRUE]]
        BY <2>1, SignedIsMade
      <3> QED BY <3>1 DEF LineageInv, KeyInv, PublicationShape
    <2>2. ASSUME NEW new, shelf[d] # Nothing, new.release = shelf[d].release,
                 shelf' = [shelf EXCEPT ![d] = new]
          PROVE  \A e \in Dirs : shelf'[e] # Nothing => Made(shelf'[e].release)
      BY <2>2 DEF LineageInv, KeyInv, PublicationShape
    <2>3. CASE WriteFile(d) \/ KillWriter(d)
      <3>1. IsShelved(shelf[d]) /\ shelf[d] # Nothing
        BY <2>3 DEF WriteFile, KillWriter, LineageInv, KeyInv, PublicationShape
      <3>2. CASE WriteFile(d)
        <4> DEFINE written == Cardinality(shelf[d].files) + 1
                   new == [shelf[d] EXCEPT !.files = @ \cup {FileOrder[written]},
                                           !.writing = written < 4]
        <4>1. new.release = shelf[d].release
          BY <3>1 DEF IsShelved
        <4>2. shelf' = [shelf EXCEPT ![d] = new]
          BY <3>2 DEF WriteFile
        <4> HIDE DEF new
        <4> QED BY <2>2, <3>1, <4>1, <4>2
      <3>3. CASE KillWriter(d)
        <4> DEFINE new == [shelf[d] EXCEPT !.writing = FALSE]
        <4>1. new.release = shelf[d].release
          BY <3>1 DEF IsShelved
        <4>2. shelf' = [shelf EXCEPT ![d] = new]
          BY <3>3 DEF KillWriter
        <4> HIDE DEF new
        <4> QED BY <2>2, <3>1, <4>1, <4>2
      <3> QED BY <2>3, <3>2, <3>3
    <2>4. CASE RemoveDirectory(d)
      BY <2>4 DEF RemoveDirectory, LineageInv, KeyInv, PublicationShape
    <2> QED BY <2>1, <2>3, <2>4
  <1> QED BY <1>1, <1>2, <1>3 DEF LineageInv, SeedTypes

LEMMA GeneratorsKeepLineage ==
  ASSUME LineageInv, NEW g \in Generators,
         \/ StartGenerate(g) \/ LinkSeed(g) \/ RefuseLink(g)
         \/ UnlinkTemporary(g) \/ KillGenerator(g)
  PROVE  LineageInv'
  <1>1. KeyInv'
    BY GeneratorInv DEF LineageInv
  <1>2. UNCHANGED <<shelf, fleet, clock>>
    BY DEF StartGenerate, LinkSeed, RefuseLink, UnlinkTemporary, KillGenerator
  <1>3. SeedTypes'
    <2>1. seed' = seed \/ seed' = [owner |-> g, links |-> 2]
            \/ seed' = [seed EXCEPT !.links = 1]
      BY DEF StartGenerate, LinkSeed, RefuseLink, UnlinkTemporary, KillGenerator
    <2>2. announced' \subseteq Generators
      BY DEF StartGenerate, LinkSeed, RefuseLink, UnlinkTemporary, KillGenerator,
             LineageInv, SeedTypes
    <2>3. seed = [owner |-> seed.owner, links |-> seed.links]
      BY DEF LineageInv, KeyInv, PublicationShape
    <2>4. seed'.owner \in Generators \cup {Nothing} /\ seed'.links \in 0..2
      BY <2>1, <2>3 DEF LineageInv, SeedTypes
    <2> QED BY <1>2, <2>2, <2>4 DEF LineageInv, SeedTypes
  <1> QED BY <1>1, <1>2, <1>3 DEF LineageInv

(* The step property of ReleasesContinue.                                   *)
Continues ==
  \A n \in Nodes :
    fleet'[n].active # fleet[n].active /\ fleet'[n].active # Nothing =>
      /\ fleet'[n].active.parent = fleet[n].active
      /\ fleet'[n].active.sequence = NextSequence(fleet[n].active)

LEMMA NodesKeepLineage ==
  ASSUME LineageInv, NEW n \in Nodes,
         \/ \E d \in Dirs : StageRelease(n, d)
         \/ CommitRelease(n) \/ AbortRelease(n) \/ ReplaceNode(n)
  PROVE  LineageInv' /\ Continues
  <1> DEFINE old == fleet[n]
  <1>1. KeyInv'
    BY NodeInv DEF LineageInv
  <1>2. UNCHANGED <<seed, generating, announced, shelf, clock>>
    BY DEF StageRelease, CommitRelease, AbortRelease, ReplaceNode
  <1>3. IsNode(old) /\ NodeHolds(n, old)
    BY DEF LineageInv, KeyInv, PublicationShape
  <1>4. ASSUME NEW new, NodeHolds(n, new), fleet' = [fleet EXCEPT ![n] = new],
               \/ new.active \in {old.active, Nothing}
               \/ /\ new.active.parent = old.active
                  /\ new.active.sequence = NextSequence(old.active)
        PROVE  LineageInv' /\ Continues
    <2>1. \A k \in Nodes : fleet'[k] = IF k = n THEN new ELSE fleet[k]
      BY <1>4 DEF LineageInv, KeyInv, PublicationShape
    <2> QED BY <1>1, <1>2, <1>4, <2>1 DEF LineageInv, SeedTypes, Continues
  <1> HIDE DEF old
  <1>5. ASSUME NEW d \in Dirs, StageRelease(n, d)
        PROVE  LineageInv' /\ Continues
    <2> DEFINE r == shelf[d].release
               new == [old EXCEPT !.pending = r, !.highest = r.sequence]
    <2>1. fleet' = [fleet EXCEPT ![n] = new] /\ Made(r) /\ AgentTakes(n, r)
      BY <1>5 DEF StageRelease, LineageInv, old
    <2>2. /\ r.node = n /\ r.generation = old.generation /\ r.parent = old.active
          /\ r.sequence > old.highest
      BY <1>3, <2>1, TakenContinues DEF old
    <2> HIDE DEF r
    <2>3. /\ new.active = old.active /\ new.pending = r /\ new.aborted = old.aborted
          /\ new.floor = old.floor /\ new.highest = r.sequence
          /\ new.generation = old.generation
      BY <1>3 DEF IsNode
    <2> HIDE DEF new
    <2>4. r.parent # Nothing =>
            r.parent.generation = r.generation /\ r.parent.body.kind = r.body.kind
      BY <1>3, <2>1, <2>2, OneKindPerNode DEF NodeHolds, Fits, Made
    <2>5. r.sequence \in Nat
      BY <2>1 DEF Made
    <2>6. NodeHolds(n, new)
      BY <1>3, <2>1, <2>2, <2>3, <2>4, <2>5 DEF NodeHolds, Fits, Made
    <2> QED BY <1>4, <2>1, <2>3, <2>6
  <1>6. CASE CommitRelease(n)
    <2> DEFINE new == [old EXCEPT !.active = old.pending, !.pending = Nothing,
                                  !.floor = old.pending.sequence]
    <2>1. /\ fleet' = [fleet EXCEPT ![n] = new] /\ old.pending # Nothing
          /\ RuntimeTakes(n, EnvelopeOf(old.pending), clock * Step)
      BY <1>6 DEF CommitRelease, old
    <2>2. /\ new.active = old.pending /\ new.pending = Nothing /\ new.aborted = old.aborted
          /\ new.floor = old.pending.sequence /\ new.highest = old.highest
          /\ new.generation = old.generation
      BY <1>3 DEF IsNode
    <2> HIDE DEF new
    <2>3. /\ Made(old.pending) /\ old.pending.node = n /\ old.pending.parent = old.active
          /\ old.pending.generation = old.generation
          /\ old.pending.sequence <= old.highest /\ old.pending.sequence \in Nat
          /\ old.pending.sequence = NextSequence(old.active)
      BY <1>3, <2>1 DEF NodeHolds, Fits, Made
    <2>4. old.pending.body.kind = AuthorityOf[n][old.generation].profile
      <3>1. MayMaterialize(old.pending.body, FactsNow(n), old.pending.parent)
        BY <2>3 DEF Made, FactsNow, old
      <3> QED BY <2>1, <3>1, RuntimeKnowsTheKind DEF AuthorityNow, old
    <2>5. NodeHolds(n, new)
      BY <1>3, <2>1, <2>2, <2>3, <2>4 DEF NodeHolds, Fits
    <2> QED BY <1>4, <2>1, <2>2, <2>3, <2>5
  <1>7. CASE AbortRelease(n)
    <2>1. PICK floor \in {old.floor, old.pending.sequence} :
            fleet' = [fleet EXCEPT ![n] = [old EXCEPT !.aborted = old.pending,
                                                      !.pending = Nothing,
                                                      !.floor = floor]]
      BY <1>7 DEF AbortRelease, old
    <2> DEFINE new == [old EXCEPT !.aborted = old.pending, !.pending = Nothing,
                                  !.floor = floor]
    <2>2. fleet' = [fleet EXCEPT ![n] = new] /\ old.pending # Nothing
      BY <1>7, <2>1 DEF AbortRelease, old
    <2>3. /\ new.active = old.active /\ new.pending = Nothing /\ new.aborted = old.pending
          /\ new.floor = floor /\ new.highest = old.highest
          /\ new.generation = old.generation
      BY <1>3 DEF IsNode
    <2> HIDE DEF new
    <2>4. NodeHolds(n, new)
      BY <1>3, <2>1, <2>2, <2>3 DEF NodeHolds, Fits, Made
    <2> QED BY <1>4, <2>2, <2>3, <2>4
  <1>8. CASE ReplaceNode(n)
    <2> DEFINE new == NewNode(old.generation + 1)
    <2>1. fleet' = [fleet EXCEPT ![n] = new] /\ old.generation < Len(FactsOf[n])
      BY <1>8 DEF ReplaceNode, old
    <2>2. old.generation + 1 \in DOMAIN FactsOf[n]
      <3>1. FactsOf[n] \in Seq(NodeFacts) /\ old.generation \in DOMAIN FactsOf[n]
        BY <1>3, PublicationConstants DEF NodeHolds
      <3> QED BY <2>1, <3>1
    <2>3. /\ new.active = Nothing /\ new.pending = Nothing /\ new.aborted = Nothing
          /\ new.floor = 0 /\ new.highest = 0 /\ new.generation = old.generation + 1
      BY DEF NewNode
    <2> HIDE DEF new
    <2>4. NodeHolds(n, new)
      BY <2>2, <2>3 DEF NodeHolds, Fits
    <2> QED BY <1>4, <2>1, <2>3, <2>4
  <1> QED BY <1>5, <1>6, <1>7, <1>8

LEMMA LineageNextInv ==
  ASSUME LineageInv, [PublicationNext]_publicationVars
  PROVE  LineageInv' /\ [Continues]_publicationVars
  <1>1. CASE Tick \/ UNCHANGED publicationVars
    <2>1. KeyInv'
      BY <1>1, KeyNextInv DEF LineageInv
    <2>2. UNCHANGED <<seed, announced, shelf, fleet>> /\ clock' \in 0..MaxTime
      BY <1>1, PublicationConstants DEF Tick, publicationVars, LineageInv, SeedTypes
    <2> QED BY <2>1, <2>2 DEF LineageInv, SeedTypes, Continues
  <1>2. ASSUME NEW d \in Dirs,
               \/ \E n \in Nodes, b \in Bodies : Materialize(d, n, b)
               \/ WriteFile(d) \/ KillWriter(d) \/ RemoveDirectory(d)
        PROVE  LineageInv' /\ Continues
    <2>1. fleet' = fleet
      BY <1>2 DEF Materialize, WriteFile, KillWriter, RemoveDirectory
    <2> QED BY <1>2, <2>1, ShelvesKeepLineage DEF Continues
  <1>3. ASSUME NEW g \in Generators,
               \/ StartGenerate(g) \/ LinkSeed(g) \/ RefuseLink(g)
               \/ UnlinkTemporary(g) \/ KillGenerator(g)
        PROVE  LineageInv' /\ Continues
    <2>1. fleet' = fleet
      BY <1>3 DEF StartGenerate, LinkSeed, RefuseLink, UnlinkTemporary, KillGenerator
    <2> QED BY <1>3, <2>1, GeneratorsKeepLineage DEF Continues
  <1> QED BY <1>1, <1>2, <1>3, NodesKeepLineage DEF PublicationNext

(* Every variable of the publication keeps its type, and the runtime's      *)
(* floor never passes the agent's.                                          *)
THEOREM PublicationTypesHold == PublicationSpec => []PublicationTypeOK
  <1>1. LineageInv => PublicationTypeOK
    BY KnownAreMade DEF LineageInv, SeedTypes, KeyInv, PublicationShape, NodeHolds,
       PublicationTypeOK, Made
  <1>2. LineageInv /\ [PublicationNext]_publicationVars => LineageInv'
    BY LineageNextInv
  <1> QED BY LineageInitInv, <1>1, <1>2, PTL DEF PublicationSpec

(* A node's releases are for its own identity and generation, of one kind   *)
(* with their parents, those it runs of the kind its root authority names,  *)
(* and every commit continues the active release by one step (_stage,       *)
(* validate_candidate), whichever releases were signed, copied or removed.  *)
THEOREM LineageAlwaysOne == PublicationSpec => LineageIsOne
  <1>1. LineageInv => OwnLineage
    BY DEF LineageInv, NodeHolds, Fits, OwnLineage, Held, AuthorityNow
  <1>2. LineageInv /\ [PublicationNext]_publicationVars =>
          LineageInv' /\ [Continues]_publicationVars
    BY LineageNextInv
  <1>3. PublicationSpec => []OwnLineage
    BY LineageInitInv, <1>1, <1>2, PTL DEF PublicationSpec
  <1>4. PublicationSpec => ReleasesContinue
    <2>1. PublicationSpec => [][Continues]_publicationVars
      BY LineageInitInv, <1>2, PTL DEF PublicationSpec
    <2> QED BY <2>1 DEF ReleasesContinue, Continues
  <1> QED BY <1>3, <1>4 DEF LineageIsOne

-----------------------------------------------------------------------------
(* What the agent would stage.                                              *)

AllFiles == {"artifacts", "evidence", "envelope", "public key"}

(* The files of a release directory are written in the order of their names.*)
FilesSoFar ==
  {{}, {"artifacts"}, {"artifacts", "evidence"}, {"artifacts", "evidence", "envelope"},
   AllFiles}

LEMMA NextFile ==
  ASSUME NEW files \in FilesSoFar, files # AllFiles, NEW written,
         written = Cardinality(files) + 1
  PROVE  /\ files \cup {FileOrder[written]} \in FilesSoFar
         /\ written < 4 => files \cup {FileOrder[written]} # AllFiles
  <1>1. Cardinality({}) = 0 /\ IsFiniteSet({})
    BY FS_EmptySet
  <1>2. Cardinality({"artifacts"}) = 1 /\ IsFiniteSet({"artifacts"})
    BY FS_Singleton
  <1>3. /\ Cardinality({"artifacts", "evidence"}) = 2
        /\ IsFiniteSet({"artifacts", "evidence"})
    <2>1. {"artifacts", "evidence"} = {"artifacts"} \cup {"evidence"}
      OBVIOUS
    <2> QED BY <1>2, <2>1, FS_AddElement
  <1>4. Cardinality({"artifacts", "evidence", "envelope"}) = 3
    <2>1. {"artifacts", "evidence", "envelope"} = {"artifacts", "evidence"} \cup {"envelope"}
      OBVIOUS
    <2> QED BY <1>3, <2>1, FS_AddElement
  <1>5. /\ FileOrder[1] = "artifacts" /\ FileOrder[2] = "evidence"
        /\ FileOrder[3] = "envelope" /\ FileOrder[4] = "public key"
    BY DEF FileOrder
  <1> DEFINE file == FileOrder[written]
  <1>6. CASE files = {}
    <2>1. written = 1
      BY <1>1, <1>6
    <2>2. file = "artifacts"
      BY <1>5, <2>1
    <2> HIDE DEF file
    <2>3. files \cup {file} = {"artifacts"}
      BY <1>6, <2>2
    <2>4. {"artifacts"} \in FilesSoFar
      BY DEF FilesSoFar
    <2>5. "public key" \notin {"artifacts"}
      OBVIOUS
    <2>6. "public key" \in AllFiles
      BY DEF AllFiles
    <2> QED BY <2>3, <2>4, <2>5, <2>6 DEF file
  <1>7. CASE files = {"artifacts"}
    <2>1. written = 2
      BY <1>2, <1>7
    <2>2. file = "evidence"
      BY <1>5, <2>1
    <2> HIDE DEF file
    <2>3. files \cup {file} = {"artifacts", "evidence"}
      BY <1>7, <2>2
    <2>4. {"artifacts", "evidence"} \in FilesSoFar
      BY DEF FilesSoFar
    <2>5. "public key" \notin {"artifacts", "evidence"}
      OBVIOUS
    <2>6. "public key" \in AllFiles
      BY DEF AllFiles
    <2> QED BY <2>3, <2>4, <2>5, <2>6 DEF file
  <1>8. CASE files = {"artifacts", "evidence"}
    <2>1. written = 3
      BY <1>3, <1>8
    <2>2. file = "envelope"
      BY <1>5, <2>1
    <2> HIDE DEF file
    <2>3. files \cup {file} = {"artifacts", "evidence", "envelope"}
      BY <1>8, <2>2
    <2>4. {"artifacts", "evidence", "envelope"} \in FilesSoFar
      BY DEF FilesSoFar
    <2>5. "public key" \notin {"artifacts", "evidence", "envelope"}
      OBVIOUS
    <2>6. "public key" \in AllFiles
      BY DEF AllFiles
    <2> QED BY <2>3, <2>4, <2>5, <2>6 DEF file
  <1>9. CASE files = {"artifacts", "evidence", "envelope"}
    <2>1. written = 4
      BY <1>4, <1>9
    <2>2. file = "public key"
      BY <1>5, <2>1
    <2> HIDE DEF file
    <2>3. files \cup {file} = AllFiles
      BY <1>9, <2>2 DEF AllFiles
    <2> QED BY <2>1, <2>3 DEF FilesSoFar, file
  <1> QED BY <1>6, <1>7, <1>8, <1>9 DEF FilesSoFar

(* The envelope is written when the artifacts are.                          *)
LEMMA EnvelopeIsLast ==
  ASSUME NEW files \in FilesSoFar, "envelope" \in files
  PROVE  "artifacts" \in files
  <1>1. files = {"artifacts", "evidence", "envelope"} \/ files = AllFiles
    BY DEF FilesSoFar
  <1> QED BY <1>1 DEF AllFiles

(* s is a directory of a release that was checked, with its files so far.   *)
ShelfOK(s) ==
  /\ DOMAIN s = {"release", "files", "writing"}
  /\ CheckedFirst(s.release)
  /\ s.files \in FilesSoFar
  /\ s.writing => s.files # AllFiles

(* The directory s with other files, and when its writer is done.           *)
Rewritten(s, files, w) == [s EXCEPT !.files = files, !.writing = w]

Closed(s) == [s EXCEPT !.writing = FALSE]

LEMMA RewrittenIs ==
  ASSUME NEW s, DOMAIN s = {"release", "files", "writing"}, NEW files, NEW w
  PROVE  /\ Rewritten(s, files, w).release = s.release
         /\ Rewritten(s, files, w).files = files
         /\ Rewritten(s, files, w).writing = w
         /\ DOMAIN Rewritten(s, files, w) = {"release", "files", "writing"}
  BY DEF Rewritten

LEMMA ClosedIs ==
  ASSUME NEW s, DOMAIN s = {"release", "files", "writing"}
  PROVE  /\ Closed(s).release = s.release
         /\ Closed(s).files = s.files
         /\ Closed(s).writing = FALSE
         /\ DOMAIN Closed(s) = {"release", "files", "writing"}
  BY DEF Closed

(* What StageableBuilds needs of the past: a shelf knows no other releases   *)
(* than those checked before they were signed.                              *)
WorkInv == LineageInv /\ \A d \in Dirs : shelf[d] # Nothing => ShelfOK(shelf[d])

LEMMA ShelvesStayOK ==
  ASSUME WorkInv, NEW d \in Dirs,
         \/ \E n \in Nodes, b \in Bodies : Materialize(d, n, b)
         \/ WriteFile(d) \/ KillWriter(d) \/ RemoveDirectory(d)
  PROVE  WorkInv'
  <1>1. LineageInv'
    BY ShelvesKeepLineage DEF WorkInv
  <1>2. ASSUME NEW new, ShelfOK(new) \/ new = Nothing, shelf' = [shelf EXCEPT ![d] = new]
        PROVE  WorkInv'
    BY <1>1, <1>2 DEF WorkInv, LineageInv, KeyInv, PublicationShape
  <1>3. ASSUME NEW n \in Nodes, NEW b \in Bodies, Materialize(d, n, b)
        PROVE  WorkInv'
    <2>1. PICK r : /\ Made(r) /\ CheckedFirst(r)
                   /\ shelf' = [shelf EXCEPT ![d] =
                                  [release |-> r, files |-> {}, writing |-> TRUE]]
      BY <1>3, SignedIsMade DEF WorkInv
    <2>2. ShelfOK([release |-> r, files |-> {}, writing |-> TRUE])
      BY <2>1 DEF ShelfOK, FilesSoFar, AllFiles
    <2> QED BY <1>2, <2>1, <2>2
  <1>4. CASE WriteFile(d)
    <2> DEFINE old == shelf[d]
               written == Cardinality(old.files) + 1
               files == old.files \cup {FileOrder[written]}
               more == written < 4
    <2>1. /\ old # Nothing /\ old.writing
          /\ shelf' = [shelf EXCEPT ![d] = Rewritten(old, files, more)]
      BY <1>4 DEF WriteFile, Rewritten
    <2>2. ShelfOK(old) /\ DOMAIN shelf = Dirs
      BY <2>1 DEF WorkInv, LineageInv, KeyInv, PublicationShape
    <2>3. files \in FilesSoFar /\ (more => files # AllFiles)
      <3> HIDE DEF old
      <3>1. old.files \in FilesSoFar /\ old.files # AllFiles
        BY <2>1, <2>2 DEF ShelfOK
      <3> HIDE DEF written
      <3> QED BY <3>1, NextFile DEF written
    <2> HIDE DEF files, written, old, more
    <2>4. ShelfOK(Rewritten(old, files, more))
      <3>1. DOMAIN old = {"release", "files", "writing"} /\ CheckedFirst(old.release)
        BY <2>2 DEF ShelfOK
      <3>2. /\ Rewritten(old, files, more).release = old.release
            /\ Rewritten(old, files, more).files = files
            /\ Rewritten(old, files, more).writing = more
            /\ DOMAIN Rewritten(old, files, more) = {"release", "files", "writing"}
        BY <3>1, RewrittenIs
      <3> QED BY <2>3, <3>1, <3>2 DEF ShelfOK
    <2> QED BY <1>2, <2>1, <2>4
  <1>5. CASE KillWriter(d)
    <2> DEFINE old == shelf[d]
    <2>1. ShelfOK(old) /\ shelf' = [shelf EXCEPT ![d] = Closed(old)]
      BY <1>5 DEF KillWriter, WorkInv, Closed
    <2> HIDE DEF old
    <2>2. ShelfOK(Closed(old))
      <3>1. DOMAIN old = {"release", "files", "writing"}
        BY <2>1 DEF ShelfOK
      <3> QED BY <2>1, <3>1, ClosedIs DEF ShelfOK
    <2> QED BY <1>2, <2>1, <2>2
  <1>6. CASE RemoveDirectory(d)
    BY <1>2, <1>6 DEF RemoveDirectory
  <1> QED BY <1>3, <1>4, <1>5, <1>6

LEMMA WorkInitInv == PublicationInit => WorkInv
  BY LineageInitInv DEF PublicationInit, WorkInv

LEMMA WorkNextInv == WorkInv /\ [PublicationNext]_publicationVars => WorkInv'
  <1> SUFFICES ASSUME WorkInv, [PublicationNext]_publicationVars
               PROVE  WorkInv'
    OBVIOUS
  <1>1. LineageInv'
    BY LineageNextInv DEF WorkInv
  <1>2. CASE UNCHANGED shelf
    BY <1>1, <1>2 DEF WorkInv
  <1>3. \/ UNCHANGED shelf
        \/ \E d \in Dirs : \/ \E n \in Nodes, b \in Bodies : Materialize(d, n, b)
                           \/ WriteFile(d) \/ KillWriter(d) \/ RemoveDirectory(d)
    BY DEF PublicationNext, publicationVars, StartGenerate, LinkSeed, RefuseLink,
       UnlinkTemporary, KillGenerator, StageRelease, CommitRelease, AbortRelease,
       ReplaceNode, Tick
  <1> QED BY <1>2, <1>3, ShelvesStayOK

(* What the agent takes was signed for the facts the node has now, and the  *)
(* control plane compiled it with them.                                     *)
LEMMA TakenBuilds ==
  ASSUME WorkInv, NEW n \in Nodes, NEW d \in Dirs, Deliverable(d),
         AgentTakes(n, shelf[d].release)
  PROVE  /\ "artifacts" \in shelf[d].files
         /\ Compiles(EnvelopeOf(shelf[d].release), FactsNow(n),
                     Receipt(EnvelopeOf(shelf[d].release)))
         /\ Made(shelf[d].release)
         /\ FactsOf[shelf[d].release.node][shelf[d].release.generation] = FactsNow(n)
  <1> DEFINE r == shelf[d].release
  <1>1. ShelfOK(shelf[d]) /\ Made(r)
    BY DEF WorkInv, LineageInv, Deliverable
  <1>2. "artifacts" \in shelf[d].files
    <2>1. shelf[d].files \in FilesSoFar /\ "envelope" \in shelf[d].files
      BY <1>1 DEF ShelfOK, Deliverable
    <2> QED BY <2>1, EnvelopeIsLast
  <1>3. FactsOf[r.node][r.generation] = FactsNow(n)
    <2>1. NodeHolds(n, fleet[n])
      BY DEF WorkInv, LineageInv
    <2> HIDE DEF r
    <2>2. AgentTakes(n, r)
      BY DEF r
    <2>3. r.node = n /\ r.generation = fleet[n].generation
      BY <1>1, <2>1, <2>2, TakenContinues
    <2> QED BY <2>3 DEF FactsNow
  <1> HIDE DEF r
  <1>4. Compiles(EnvelopeOf(r), FactsOf[r.node][r.generation], Receipt(EnvelopeOf(r)))
    BY <1>1 DEF ShelfOK, CheckedFirst, Checked, EnvelopeOf, ManifestOf, r
  <1> QED BY <1>1, <1>2, <1>3, <1>4 DEF r


(* The build, part by part.                                                 *)
LEMMA BuiltIs ==
  ASSUME NEW b, NEW f, NEW accepted, NEW issued
  PROVE  /\ BuildManifest(b, f, accepted, issued).lifecycle = "ACTIVE"
         /\ BuildManifest(b, f, accepted, issued).resources = Resources(b, f)
  <1> DEFINE draft == Draft(b, f, accepted, issued)
             artifacts == Declared(draft, Render(draft, f), f)
             gates == HealthGates(draft)
  <1>1. draft.lifecycle = "ACTIVE" /\ draft.resources = Resources(b, f)
    BY DEF Draft
  <1>2. BuildManifest(b, f, accepted, issued)
          = [draft EXCEPT !.artifacts = artifacts, !.gates = gates]
    BY DEF BuildManifest
  <1> HIDE DEF draft, artifacts, gates
  <1> QED BY <1>1, <1>2

LEMMA ResourceIs ==
  ASSUME NEW f, NEW type, NEW id, NEW artifacts, NEW spec
  PROVE  /\ Resource(f, type, id, artifacts, spec).type = type
         /\ Resource(f, type, id, artifacts, spec).id = id
         /\ Resource(f, type, id, artifacts, spec).spec = spec
  BY DEF Resource

LEMMA OnlyOne == ASSUME NEW c PROVE (CHOOSE r \in {c} : TRUE) = c
  OBVIOUS

(* The resources of a manifest are what its specifications and identifiers  *)
(* are read from.                                                           *)
LEMMA ResourcesAre ==
  ASSUME NEW b, NEW f, NEW m, m.resources = Resources(b, f)
  PROVE  /\ Spec(m, "connector") = Connector(b)
         /\ Spec(m, "listener") = Listener(b, f)
         /\ Spec(m, "media") = Media(b, f)
         /\ (CHOOSE r \in Of(m, "route") : TRUE).spec.prefix = b.prefix
         /\ {r.id : r \in m.resources} =
              {<<type, b.kind>> : type \in {"connector", "listener", "TEAMS_TO_PBX",
                                            "PBX_TO_TEAMS"}} \cup {MediaId, CapacityId}
  <1> DEFINE ids == ResourceIds(b.kind)
             c == Resource(f, "connector", ids["connector"], {"OPENSIPS"}, Connector(b))
             l == Resource(f, "listener", ids["listener"], {"OPENSIPS", "NFTABLES"},
                           Listener(b, f))
             media == Resource(f, "media", MediaId, {"RTPENGINE", "NFTABLES"}, Media(b, f))
             capacity == Resource(f, "capacity", CapacityId, {"OPENSIPS", "RTPENGINE"},
                                  [maximum |-> b.maximum, reserved |-> b.reserved])
             route(d) == Resource(f, "route", ids[d], {"OPENSIPS"}, Route(b, d))
  <1>1. m.resources = {c, l, media, capacity}
                        \cup {route(d) : d \in {"TEAMS_TO_PBX", "PBX_TO_TEAMS"}}
    BY Zenon DEF Resources
  <1>2. /\ c.type = "connector" /\ c.id = ids["connector"] /\ c.spec = Connector(b)
        /\ l.type = "listener" /\ l.id = ids["listener"] /\ l.spec = Listener(b, f)
        /\ media.type = "media" /\ media.id = MediaId /\ media.spec = Media(b, f)
        /\ capacity.type = "capacity" /\ capacity.id = CapacityId
        /\ \A d : route(d).type = "route" /\ route(d).id = ids[d] /\ route(d).spec = Route(b, d)
    BY ResourceIs
  <1>3. \A type \in {"connector", "listener", "TEAMS_TO_PBX", "PBX_TO_TEAMS"} :
          ids[type] = <<type, b.kind>>
    BY DEF ResourceIds
  <1>4. \A d : Route(b, d).prefix = b.prefix
    BY DEF Route
  <1> HIDE DEF ids, c, l, media, capacity, route
  <1> DEFINE to == route("TEAMS_TO_PBX")
             from == route("PBX_TO_TEAMS")
  <1>5. m.resources = {c, l, media, capacity, to, from}
    BY <1>1
  <1>6. to.type = "route" /\ from.type = "route"
    BY <1>2
  <1>7. to.spec.prefix = b.prefix /\ from.spec.prefix = b.prefix
    BY <1>2, <1>4
  <1>8. to.id = <<"TEAMS_TO_PBX", b.kind>> /\ from.id = <<"PBX_TO_TEAMS", b.kind>>
    BY <1>2, <1>3
  <1>9. c.id = <<"connector", b.kind>> /\ l.id = <<"listener", b.kind>>
    BY <1>2, <1>3
  <1> HIDE DEF to, from
  <1>10. /\ Spec(m, "connector") = c.spec /\ Spec(m, "listener") = l.spec
         /\ Spec(m, "media") = media.spec /\ Of(m, "route") = {to, from}
    <2>1. /\ c.type = "connector" /\ l.type = "listener" /\ media.type = "media"
          /\ capacity.type = "capacity"
      BY <1>2
    <2>2. Of(m, "connector") = {c} /\ Of(m, "listener") = {l}
      BY <1>5, <1>6, <2>1 DEF Of
    <2>3. Of(m, "media") = {media} /\ Of(m, "route") = {to, from}
      BY <1>5, <1>6, <2>1 DEF Of
    <2> QED BY <2>2, <2>3, OnlyOne DEF Spec
  <1>11. (CHOOSE r \in Of(m, "route") : TRUE).spec.prefix = b.prefix
    <2>1. (CHOOSE r \in Of(m, "route") : TRUE) \in {to, from}
      BY <1>10
    <2> QED BY <1>7, <2>1
  <1>12. {r.id : r \in m.resources} =
           {c.id, l.id, media.id, capacity.id, to.id, from.id}
    BY <1>5
  <1>13. {<<type, b.kind>> : type \in {"connector", "listener", "TEAMS_TO_PBX", "PBX_TO_TEAMS"}}
           = {c.id, l.id, to.id, from.id}
    BY <1>8, <1>9
  <1>14. {r.id : r \in m.resources} =
           {<<type, b.kind>> : type \in {"connector", "listener", "TEAMS_TO_PBX",
                                         "PBX_TO_TEAMS"}} \cup {MediaId, CapacityId}
    BY <1>2, <1>12, <1>13, Zenon
  <1> QED BY <1>2, <1>10, <1>11, <1>14

Gates == {"ARTIFACT_DIGESTS", "OPENSIPS_CONFIG", "RTPENGINE_READY"}

(* A gate plan the compiler takes is one the runtime takes.                 *)
LEMMA PlanIsTaken ==
  ASSUME NEW m, m.lifecycle = "ACTIVE", StructureOK(m), GatePlanOK(m)
  PROVE  LocalHealthGatePlan(PlanOf(m), m)
  <1>1. /\ Len(m.gates) = 3
        /\ \A i \in DOMAIN m.gates : m.gates[i].refs = GateRefs(m, m.gates[i].type)
    BY DEF StructureOK, GatesOK
  <1>2. /\ DOMAIN m.gates = DOMAIN HealthOrder
        /\ \A i \in DOMAIN m.gates : m.gates[i].type = HealthOrder[i]
    BY DEF GatePlanOK
  <1>3. DOMAIN HealthOrder = 1..3
    BY DEF HealthOrder
  <1>4. \A i \in 1..3 : /\ m.gates[i].timeout = GateParameters[HealthOrder[i]].timeout
                        /\ m.gates[i].attempts = GateParameters[HealthOrder[i]].attempts
    BY <1>2, <1>3 DEF GatePlanOK
  <1>5. \A i \in 1..3 : GateParameters[HealthOrder[i]].timeout = 30
    BY DEF GateParameters, HealthOrder
  <1>6. \A type \in {"connector", "media"} : \E r \in m.resources : r.type = type
    <2> SUFFICES ASSUME NEW type \in {"connector", "media"}
                 PROVE  Of(m, type) # {}
      BY DEF Of
    <2>1. Cardinality(Of(m, type)) = 1
      BY DEF StructureOK, InventoryOK, TenantResourceTypes
    <2> QED BY <2>1, FS_EmptySet
  <1>7. \A type \in Gates : GateRefs(m, type) # {}
    <2>1. GateRefs(m, "ARTIFACT_DIGESTS") # {}
      BY <1>6 DEF GateRefs
    <2>2. GateRefs(m, "OPENSIPS_CONFIG") # {}
      BY <1>6 DEF GateRefs
    <2>3. GateRefs(m, "RTPENGINE_READY") # {}
      BY <1>6 DEF GateRefs
    <2> QED BY <2>1, <2>2, <2>3 DEF Gates
  <1>8. \A i \in 1..3 : HealthOrder[i] \in Gates
    BY DEF HealthOrder, Gates
  <1>9. \A i \in 1..3 : m.gates[i].refs # {} /\ m.gates[i].type = HealthOrder[i]
    BY <1>1, <1>2, <1>3, <1>7, <1>8
  <1>10. PlanOf(m).manifest = m /\ PlanOf(m).gates = m.gates
    BY DEF PlanOf
  <1> QED BY <1>1, <1>4, <1>5, <1>9, <1>10 DEF LocalHealthGatePlan

(* Identifiers name the kind, and the authority is of that kind.            *)
LEMMA IdentityIs ==
  ASSUME NEW b, NEW f, NEW a, NEW m, m.resources = Resources(b, f), a.profile = b.kind
  PROVE  ProfileIdentityOK(m, a)
  <1> DEFINE Types == {"connector", "listener", "TEAMS_TO_PBX", "PBX_TO_TEAMS"}
             private == {ResourceIds("private")[t] : t \in DOMAIN ResourceIds("private")}
             ids == {r.id : r \in m.resources}
             own == {<<type, b.kind>> : type \in Types}
  <1>1. private = {<<type, "private">> : type \in Types}
    BY DEF ResourceIds
  <1>2. ids = own \cup {MediaId, CapacityId}
    BY ResourcesAre
  <1>3. ProfileIdentityOK(m, a) <=>
          IF a.profile # "private" THEN ids \cap private = {}
          ELSE ids = private \cup {MediaId, CapacityId}
    BY DEF ProfileIdentityOK
  <1>4. CASE b.kind = "private"
    <2>1. own = private
      BY <1>1, <1>4
    <2> HIDE DEF own, private, ids
    <2> QED BY <1>2, <1>3, <1>4, <2>1
  <1>5. CASE b.kind # "private"
    <2>1. ASSUME NEW x \in private PROVE x \notin own
      <3>1. PICK type \in Types : x = <<type, "private">>
        BY <1>1, <2>1
      <3>2. ASSUME NEW other, x = <<other, b.kind>> PROVE FALSE
        BY <1>5, <3>1, <3>2
      <3> QED BY <3>2
    <2>2. MediaId \notin private /\ CapacityId \notin private
      <3>1. ASSUME NEW type \in Types
            PROVE  MediaId # <<type, "private">> /\ CapacityId # <<type, "private">>
        BY DEF MediaId, CapacityId
      <3> QED BY <1>1, <3>1
    <2>3. ids \cap private = {}
      <3> HIDE DEF own, private, ids
      <3> QED BY <1>2, <2>1, <2>2
    <2> HIDE DEF own, private, ids
    <2> QED BY <1>3, <1>5, <2>3
  <1> QED BY <1>4, <1>5

(* The fragment says of its route what the profile said.                    *)
LEMMA FragmentIs ==
  ASSUME NEW b, NEW f, NEW m, m.resources = Resources(b, f)
  PROVE  /\ OpensipsFragment(m, f).token = [tenant |-> f.tenant, node |-> f.node]
         /\ OpensipsFragment(m, f).pbx = [host |-> b.host, port |-> b.port]
         /\ OpensipsFragment(m, f).prefix = b.prefix
         /\ OpensipsFragment(m, f).range = f.range
  <1> DEFINE prefix == (CHOOSE r \in Of(m, "route") : TRUE).spec.prefix
             connector == Spec(m, "connector")
  <1>1. connector = Connector(b) /\ prefix = b.prefix
    BY ResourcesAre
  <1>2. OpensipsFragment(m, f) =
          [token |-> [tenant |-> f.tenant, node |-> f.node],
           pbx |-> [host |-> connector.host, port |-> connector.port],
           prefix |-> prefix, range |-> f.range]
    BY DEF OpensipsFragment
  <1>3. connector.host = b.host /\ connector.port = b.port
    BY <1>1 DEF Connector
  <1> HIDE DEF prefix, connector
  <1> QED BY <1>1, <1>2, <1>3

(* A profile that the control plane takes for the facts is one that the     *)
(* runtime takes for an authority of its kind, the known differences aside. *)
LEMMA ProfileIsTaken ==
  ASSUME NEW b, b \in ProfileBody, NEW f, NEW accepted, MayMaterialize(b, f, accepted),
         NEW a, a.profile = b.kind, a.generation = f.generation,
         NEW route, route.pbx = [host |-> b.host, port |-> b.port],
         route.prefix = b.prefix, route.range = f.range, ~RuntimeIsStricter(b)
  PROVE  ProfileFits(f, a, route)
  <1>1. /\ ProfileOK(b) /\ b.kind \in Kinds /\ f.synthetic = {} /\ b.sources = f.sources
        /\ f.range.start = b.range.start /\ f.range.end = b.range.end
        /\ b.kind \in Live => f.generation >= MinimumGeneration(b.kind)
    BY DEF MayMaterialize, Bound, ProfileOK, SameRange
  <1>2. PbxOK(b) /\ (b.kind \in Live => b.prefix = "+971")
    BY <1>1 DEF ProfileOK, RoutingOK
  <1>3. \A range : SameRange(b.range, range) => SameRange(f.range, range)
    BY <1>1 DEF SameRange
  <1>4. CASE b.kind = "synthetic"
    <2>1. /\ b.host = FixtureHost /\ b.port = FixturePort /\ b.sources = {FixtureNet}
          /\ SameRange(b.range, FixtureRange)
      BY <1>2, <1>4 DEF PbxOK
    <2> QED BY <1>1, <1>3, <1>4, <2>1 DEF ProfileFits, SyntheticOK
  <1>5. CASE b.kind = "private"
    <2>1. /\ b.host = CarrierHost /\ b.port = PbxPort /\ b.sources = {FixtureNet}
          /\ SameRange(b.range, CarrierRange)
      BY <1>2, <1>5 DEF PbxOK
    <2>2. a.generation >= 3 /\ b.prefix = "+971"
      BY <1>1, <1>2, <1>5 DEF Live, MinimumGeneration
    <2> QED BY <1>1, <1>3, <1>5, <2>1, <2>2 DEF ProfileFits, PrivateOK
  <1>6. CASE b.kind = "direct"
    <2>1. b.host \in PublicHosts /\ b.port = PbxPort /\ b.sources \subseteq PublicNets
      BY <1>2, <1>6 DEF PbxOK, PublicSources
    <2>2. a.generation >= 2 /\ b.prefix = "+971"
      BY <1>1, <1>2, <1>6 DEF Live, MinimumGeneration
    <2>3. b.host \notin MicrosoftHosts /\ ~SameRange(b.range, FixtureRange)
      BY <1>6 DEF RuntimeIsStricter
    <2>4. Size(f.range) >= 100
      <3>1. ~(Size(b.range) < 100)
        BY <1>6 DEF RuntimeIsStricter
      <3>2. b.range.start \in Nat /\ b.range.end \in Nat
        BY DEF ProfileBody
      <3>3. Size(f.range) = Size(b.range)
        BY <1>1 DEF Size
      <3>4. Size(b.range) \in Int
        BY <3>2 DEF Size
      <3> QED BY <3>1, <3>3, <3>4
    <2>5. ~SameRange(route.range, FixtureRange)
      BY <1>1, <2>3 DEF SameRange
    <2> QED BY <1>1, <1>6, <2>1, <2>2, <2>3, <2>4, <2>5 DEF ProfileFits, DirectOK
  <1> QED BY <1>1, <1>4, <1>5, <1>6 DEF Kinds

LEMMA RouteIsTaken ==
  ASSUME NEW b, b \in ProfileBody, NEW f, NEW accepted, MayMaterialize(b, f, accepted),
         NEW a, a.profile = b.kind, a.generation = f.generation,
         NEW m, m.resources = Resources(b, f), ~RuntimeIsStricter(b)
  PROVE  ProfileFits(f, a, OpensipsFragment(m, f))
  <1>1. PICK route : route = OpensipsFragment(m, f)
    OBVIOUS
  <1>2. /\ route.token = [tenant |-> f.tenant, node |-> f.node]
        /\ route.pbx = [host |-> b.host, port |-> b.port]
        /\ route.prefix = b.prefix /\ route.range = f.range
    BY <1>1, FragmentIs
  <1>3. ProfileFits(f, a, route)
    BY <1>2, ProfileIsTaken
  <1> QED BY <1>1, <1>3

LEMMA RouteIsParsed ==
  ASSUME NEW b, NEW f, NEW accepted, MayMaterialize(b, f, accepted),
         NEW m, m.resources = Resources(b, f)
  PROVE  ParsedFragment(OpensipsFragment(m, f), f)
  <1>1. PbxOK(b) /\ b.kind \in Kinds
    BY DEF MayMaterialize, ProfileOK
  <1>2. b.port = FixturePort \/ b.port = PbxPort
    <2>1. CASE b.kind = "synthetic"
      BY <1>1, <2>1 DEF PbxOK
    <2>2. CASE b.kind = "direct"
      BY <1>1, <2>2 DEF PbxOK
    <2>3. CASE b.kind = "private"
      BY <1>1, <2>3 DEF PbxOK
    <2> QED BY <1>1, <2>1, <2>2, <2>3 DEF Kinds
  <1>3. 1024 <= b.port /\ b.port <= 65535
    BY <1>2 DEF FixturePort, PbxPort
  <1>4. PICK route : route = OpensipsFragment(m, f)
    OBVIOUS
  <1>5. /\ route.token = [tenant |-> f.tenant, node |-> f.node]
        /\ route.pbx = [host |-> b.host, port |-> b.port] /\ route.range = f.range
    BY <1>4, FragmentIs
  <1>6. 1024 <= route.pbx.port /\ route.pbx.port <= 65535
    BY <1>3, <1>5
  <1>7. ParsedFragment(route, f)
    BY <1>5, <1>6 DEF ParsedFragment
  <1> QED BY <1>4, <1>7

(* What the agent takes the runtime takes.                                  *)
LEMMA TakenRuns ==
  ASSUME WorkInv, NEW n \in Nodes, NEW d \in Dirs, Deliverable(d),
         AgentTakes(n, shelf[d].release),
         AuthorityNow(n).profile = shelf[d].release.body.kind, SecretsFresh(n),
         ~RuntimeIsStricter(shelf[d].release.body)
  PROVE  RuntimeTakes(n, EnvelopeOf(shelf[d].release), clock * Step)
  <1> DEFINE r == shelf[d].release
             e == EnvelopeOf(r)
             m == ManifestOf(r)
             f == FactsNow(n)
             a == AuthorityNow(n)
             b == r.body
             now == clock * Step
             root == [highest |-> fleet[n].floor, active |-> fleet[n].active]
             h == HandOff(e, f)
             files == Render(m, f)
  <1>1. /\ Compiles(e, f, Receipt(e)) /\ Made(r)
        /\ FactsOf[r.node][r.generation] = f
    BY TakenBuilds
  <1>2. e.manifest = m /\ e.keys = {r.signer}
    BY DEF EnvelopeOf, Envelope
  <1>3. m = BuildManifest(b, f, r.parent, r.issued)
    BY <1>1 DEF ManifestOf
  <1>4. m.lifecycle = "ACTIVE" /\ m.resources = Resources(b, f)
    BY <1>3, BuiltIs
  <1>5. MayMaterialize(b, f, r.parent) /\ b \in ProfileBody
    BY <1>1, PublicationConstants DEF Made
  <1>6. /\ m.sequence > fleet[n].highest
        /\ ValidateEnvelope(m, NodeContext(f, fleet[n].active, now))
        /\ \E key \in announced : SignedBy(e, key)
    BY <1>2 DEF AgentTakes, AgentVerifies
  <1>7. NodeHolds(n, fleet[n])
    BY DEF WorkInv, LineageInv
  <1>8. /\ AuthorityOK(a) /\ a.node = n /\ a.generation = fleet[n].generation
        /\ f.node = n /\ f.generation = fleet[n].generation
    BY <1>7, PublicationConstants DEF NodeHolds, FactsNow, AuthorityNow
  <1>9. m.sequence > fleet[n].floor
    <2>1. m.sequence = NextSequence(r.parent)
      BY <1>3, ManifestIs
    <2>2. m.sequence \in Int
      BY <1>1, <2>1 DEF Made
    <2> HIDE DEF m
    <2> QED BY <1>6, <1>7, <2>2 DEF NodeHolds
  <1>10. a.profile = b.kind /\ SecretsFresh(n) /\ ~RuntimeIsStricter(b)
    OBVIOUS
  <1>11. SecretMaterialOK(f, a, a.secrets, now)
    BY <1>10 DEF SecretsFresh
  <1> HIDE DEF r, m, f, a, b, now
  <1>12. /\ FactsOK(f) /\ GatePlanOK(m) /\ ReceiptOK(e, Receipt(e))
         /\ MatchDeclarations(m, files) /\ ExtractOK(m, f)
    BY <1>1, <1>2 DEF Compiles
  <1>13. /\ h.envelope = e /\ h.receipt = Receipt(e) /\ h.evidence = CompileEvidence(e, f)
         /\ h.files = files
    BY <1>2 DEF HandOff
  <1>14. /\ Receipt(e).manifest = m /\ Receipt(e).plan = PlanOf(m)
         /\ CompileEvidence(e, f).manifest = m /\ CompileEvidence(e, f).facts = f
         /\ CompileEvidence(e, f).artifacts = files
         /\ CompileEvidence(e, f).plan = PlanOf(m)
         /\ CompileEvidence(e, f).range = f.range
         /\ CompileEvidence(e, f).synthetic = (f.synthetic # {})
    BY <1>2 DEF Receipt, CompileEvidence
  <1>15. /\ files["OPENSIPS"] = OpensipsFragment(m, f)
         /\ files["RTPENGINE"] = RtpengineConfig(m, f)
         /\ files["NFTABLES"] = NftablesPolicy(m, f)
    BY DEF Render
  <1>16. root.highest = fleet[n].floor /\ root.active = fleet[n].active
    OBVIOUS
  <1> HIDE DEF e, h, files, root
  <1>17. LocalHealthGatePlan(PlanOf(m), m)
    BY <1>4, <1>6, <1>12, PlanIsTaken DEF ValidateEnvelope
  <1>18. {x.kind : x \in m.artifacts} = TenantArtifactKinds
    BY <1>12 DEF ExtractOK
  <1>19. \A key : SignedBy(e, key) => RootVerifies(e, f, root, key, now)
    BY <1>2, <1>6, <1>9, <1>16, <1>17, <1>18 DEF RootVerifies
  <1>20. EvidenceOK(h.evidence, f, h.files, h.receipt)
    BY <1>13, <1>14, <1>17 DEF EvidenceOK
  <1>21. ProfileIdentityOK(m, a)
    BY <1>4, <1>10, IdentityIs
  <1>22. a.generation = f.generation
    BY <1>8
  <1>23. ProfileFits(f, a, OpensipsFragment(m, f))
    BY <1>4, <1>5, <1>10, <1>22, RouteIsTaken
  <1>24. ParsedFragment(OpensipsFragment(m, f), f)
    BY <1>4, <1>5, RouteIsParsed
  <1>25. ParsedRtpengine(RtpengineConfig(m, f), f)
    <2>1. Spec(m, "media") = Media(b, f)
      BY <1>4, ResourcesAre
    <2>2. Media(b, f).sessions = b.sessions
      BY DEF Media
    <2>3. b.sessions \in 1..64
      BY <1>5 DEF MayMaterialize, ProfileOK, RoutingOK
    <2> QED BY <2>1, <2>2, <2>3 DEF ParsedRtpengine, RtpengineConfig
  <1>26. NftablesPolicy(m, f) = ExpectedPolicy(f)
    <2>1. Spec(m, "listener").sources = f.sources
      BY <1>12 DEF ExtractOK, NetworksExact
    <2> QED BY <2>1 DEF NftablesPolicy, ExpectedPolicy
  <1>27. \A key : SignedBy(e, key)
                    => ValidateCandidate(h, f, a, a.secrets, root, key, now)
    BY <1>2, <1>8, <1>11, <1>12, <1>13, <1>15, <1>19, <1>20, <1>21, <1>23, <1>24, <1>25,
       <1>26 DEF ValidateCandidate
  <1>28. \E key \in announced : ValidateCandidate(h, f, a, a.secrets, root, key, now)
    BY <1>6, <1>27
  <1> QED BY <1>1, <1>28 DEF RuntimeTakes, r, e, f, a, now, root, h

LEMMA WorkInvHolds == WorkInv => StagedReleasesWork
  <1> SUFFICES ASSUME WorkInv PROVE StagedReleasesWork
    OBVIOUS
  <1>1. StageableBuilds
    BY TakenBuilds DEF StageableBuilds
  <1>2. StageableRuns
    BY TakenRuns DEF StageableRuns
  <1> QED BY <1>1, <1>2 DEF StagedReleasesWork

(* Whatever the agent would stage, half-written directories included, the   *)
(* node's compiler builds to the signed digests, and the root runtime runs  *)
(* it, on a node whose authority is of its kind and whose secrets are fresh *)
(* (verify_and_stage, compile_tenant_bundle, validate_candidate).           *)
THEOREM StagedReleasesAlwaysWork == PublicationSpec => []StagedReleasesWork
  <1>1. PublicationInit => WorkInv
    BY WorkInitInv
  <1>2. WorkInv /\ [PublicationNext]_publicationVars => WorkInv'
    BY WorkNextInv
  <1>3. WorkInv => StagedReleasesWork
    BY WorkInvHolds
  <1> QED BY <1>1, <1>2, <1>3, PTL DEF PublicationSpec

-----------------------------------------------------------------------------
(* What a node runs.                                                        *)

LEMMA FactsAreFacts ==
  ASSUME LineageInv, NEW n \in Nodes
  PROVE  FactsNow(n) \in NodeFacts
  <1>1. fleet[n].generation \in DOMAIN FactsOf[n]
    BY DEF LineageInv, NodeHolds
  <1>2. FactsOf[n] \in Seq(NodeFacts)
    BY PublicationConstants
  <1> QED BY <1>1, <1>2 DEF FactsNow

(* What a node would serve by m, as OnlyTheFactsDecide has it.              *)
Decided(n, m) ==
  LET f == FactsNow(n)
      c == Configuration(f, AuthorityNow(n), Render(m, f))
  IN  /\ c.opensips.pbxSources = Spec(m, "listener").sources
      /\ Spec(m, "connector").sources = f.sources
      /\ c.rtpengine.media = f.media
      /\ 4 * c.rtpengine.sessions <= Size(f.media)
      /\ 2 * c.rtpengine.sessions <= Size(f.range)
      /\ m.gates[3].attempts = 3
      /\ \A r \in Of(m, "route") : r.spec.enabled

(* A release that agent, compiler and runtime took, whoever built it, says  *)
(* nothing that the facts and the authority do not say.                     *)
LEMMA FactsDecide ==
  ASSUME NEW n, FactsNow(n) \in NodeFacts,
         NEW m, NEW keys, NEW now, RuntimeTakes(n, Envelope(m, keys), now)
  PROVE  Decided(n, m)
  <1> DEFINE f == FactsNow(n)
             a == AuthorityNow(n)
             e == Envelope(m, keys)
             files == Render(m, f)
             c == Configuration(f, a, files)
             sessions == Spec(m, "media").sessions
  <1>0. f \in NodeFacts
    OBVIOUS
  <1>1. e.manifest = m
    BY DEF Envelope
  <1>2. /\ FactsOK(f) /\ ExtractOK(m, f) /\ LocalHealthGatePlan(PlanOf(m), m)
        /\ ParsedRtpengine(HandOff(e, f).files["RTPENGINE"], f)
    BY <1>1 DEF RuntimeTakes, Compiles, ValidateCandidate, RootVerifies, HandOff
  <1>3. HandOff(e, f).files = files
    BY <1>1 DEF HandOff
  <1>4. files["RTPENGINE"] = RtpengineConfig(m, f)
    BY DEF Render
  <1>5. c.opensips.pbxSources = f.sources
    BY DEF Configuration, Opensips
  <1>6. c.rtpengine.media = files["RTPENGINE"].media
        /\ c.rtpengine.sessions = files["RTPENGINE"].sessions
    BY DEF Configuration, RuntimeRtpengine
  <1>7. files["RTPENGINE"].media = f.media /\ files["RTPENGINE"].sessions = sessions
    BY <1>4 DEF RtpengineConfig
  <1>8. sessions \in 1..64
    BY <1>2, <1>3, <1>7 DEF ParsedRtpengine
  <1> HIDE DEF c, files, e, sessions, f, a
  <1>9. SessionsExact(m, f) /\ NetworksExact(m, f) /\ RoutesExact(m)
    BY <1>2 DEF ExtractOK
  <1>10. sessions <= Size(f.media) \div 4 /\ sessions <= Size(f.range) \div 2
    BY <1>9 DEF SessionsExact, sessions
  <1>11. Size(f.media) \in Int /\ Size(f.range) \in Int
    <2>1. f.media.start \in Int /\ f.media.end \in Int
      BY <1>2 DEF FactsOK, SameRange, TenantMedia
    <2>2. f.range.start \in Int /\ f.range.end \in Int
      BY <1>0 DEF NodeFacts
    <2> QED BY <2>1, <2>2 DEF Size
  <1>12. 4 * sessions <= Size(f.media) /\ 2 * sessions <= Size(f.range)
    BY <1>8, <1>10, <1>11
  <1>13. m.gates[3].attempts = 3
    <2>1. PlanOf(m).gates[3].attempts = GateParameters[HealthOrder[3]].attempts
      BY <1>2 DEF LocalHealthGatePlan
    <2>2. GateParameters[HealthOrder[3]].attempts = 3
      BY DEF GateParameters, HealthOrder
    <2> QED BY <2>1, <2>2 DEF PlanOf
  <1>14. /\ Spec(m, "listener").sources = f.sources
         /\ Spec(m, "connector").sources = f.sources
    BY <1>9 DEF NetworksExact
  <1>15. \A r \in Of(m, "route") : r.spec.enabled
    BY <1>9 DEF RoutesExact
  <1>16. /\ c.opensips.pbxSources = Spec(m, "listener").sources
         /\ c.rtpengine.media = f.media
         /\ 4 * c.rtpengine.sessions <= Size(f.media)
         /\ 2 * c.rtpengine.sessions <= Size(f.range)
    BY <1>5, <1>6, <1>7, <1>12, <1>14
  <1> QED BY <1>13, <1>14, <1>15, <1>16 DEF Decided, c, f, a, files

LEMMA OnlyTheFactsAlwaysDecide ==
  ASSUME LineageInv
  PROVE  OnlyTheFactsDecide
  <1>1. ASSUME NEW n \in Nodes, NEW m, NEW keys, NEW now,
               RuntimeTakes(n, Envelope(m, keys), now)
        PROVE  Decided(n, m)
    BY <1>1, FactsAreFacts, FactsDecide
  <1>2. ASSUME NEW n \in Nodes, NEW d \in Dirs, NEW variant \in Variants
        PROVE  LET m == Redeclare(Vary(ManifestOf(shelf[d].release), variant), FactsNow(n))
                   e == Envelope(m, {shelf[d].release.signer})
               IN  RuntimeTakes(n, e, clock * Step) => Decided(n, m)
    BY <1>1, Zenon
  <1>3. \A n \in Nodes, d \in Dirs, variant \in Variants :
          LET m == Redeclare(Vary(ManifestOf(shelf[d].release), variant), FactsNow(n))
              e == Envelope(m, {shelf[d].release.signer})
          IN  Deliverable(d) /\ ForNode(n, shelf[d].release)
                => (AgentVerifies(n, e, clock * Step) /\ RuntimeTakes(n, e, clock * Step)
                      => Decided(n, m))
    BY <1>2, Zenon
  <1> QED BY <1>3, Zenon DEF OnlyTheFactsDecide, Decided

LEMMA RuleIs ==
  ASSUME NEW sources, NEW protocol, NEW to, NEW from
  PROVE  /\ Rule(sources, protocol, to, from).sources = sources
         /\ Rule(sources, protocol, to, from).protocol = protocol
         /\ Rule(sources, protocol, to, from).to = to
         /\ Rule(sources, protocol, to, from).from = from
  BY DEF Rule

LEMMA OneSource ==
  ASSUME NEW rules, NEW port, NEW sources,
         \E r \in rules : r.protocol = "tcp" /\ Inside(port, r.to) /\ r.sources = sources,
         \A r \in rules : r.protocol = "tcp" /\ Inside(port, r.to) => r.sources = sources
  PROVE  SourcesTo(rules, port) = sources
  BY DEF SourcesTo

TeamsNetworks(f, a) == IF a.profile = "synthetic" THEN f.sources ELSE f.signaling

(* The rules that let in, and one of each but for the administrators'.      *)
LEMMA InputIs ==
  ASSUME NEW f, NEW a, a.profile \in Kinds
  PROVE  /\ \A r \in NftablesInput(f, a) :
              \/ r.protocol = "tcp" /\ r.to = Port(22)
              \/ r.protocol = "tcp" /\ r.to = Port(ListenerPort) /\ r.sources = f.sources
              \/ /\ r.protocol = "tcp" /\ r.to = Port(TeamsPort)
                 /\ r.sources = TeamsNetworks(f, a)
              \/ r.protocol = "udp" /\ r.to = f.media
         /\ \E r \in NftablesInput(f, a) :
              r.protocol = "tcp" /\ r.to = Port(ListenerPort) /\ r.sources = f.sources
         /\ \E r \in NftablesInput(f, a) :
              /\ r.protocol = "tcp" /\ r.to = Port(TeamsPort)
              /\ r.sources = TeamsNetworks(f, a)
         /\ \E r \in NftablesInput(f, a) :
              /\ r.protocol = "udp" /\ r.to = f.media /\ r.from = f.range
              /\ r.sources = f.sources
  <1> DEFINE admin == Rule(a.administrators, "tcp", Port(22), AnyPort)
             listener == Rule(f.sources, "tcp", Port(ListenerPort), AnyPort)
             pbxMedia == Rule(f.sources, "udp", f.media, f.range)
             signaling == Rule(f.signaling, "tcp", Port(TeamsPort), AnyPort)
             teamsMedia(r) == Rule(f.teamsMedia, "udp", f.media, r)
             fixture == Rule(f.sources, "tcp", Port(TeamsPort), AnyPort)
             fixtureMedia == Rule(f.sources, "udp", f.media, AnyPort)
  <1>1. NftablesInput(f, a) =
          {admin, listener, pbxMedia}
            \cup (IF a.profile \in Live
                  THEN {signaling} \cup {teamsMedia(r) : r \in MicrosoftMedia}
                  ELSE {fixture, fixtureMedia})
    BY Zenon DEF NftablesInput
  <1>2. /\ admin.protocol = "tcp" /\ admin.to = Port(22)
        /\ listener.protocol = "tcp" /\ listener.to = Port(ListenerPort)
        /\ listener.sources = f.sources
        /\ pbxMedia.protocol = "udp" /\ pbxMedia.to = f.media /\ pbxMedia.from = f.range
        /\ pbxMedia.sources = f.sources
    BY RuleIs
  <1>3. /\ signaling.protocol = "tcp" /\ signaling.to = Port(TeamsPort)
        /\ signaling.sources = f.signaling
        /\ \A r : teamsMedia(r).protocol = "udp" /\ teamsMedia(r).to = f.media
        /\ fixture.protocol = "tcp" /\ fixture.to = Port(TeamsPort)
        /\ fixture.sources = f.sources
        /\ fixtureMedia.protocol = "udp" /\ fixtureMedia.to = f.media
    BY RuleIs
  <1>4. a.profile \in Live <=> a.profile # "synthetic"
    BY DEF Kinds, Live
  <1> HIDE DEF admin, listener, pbxMedia, signaling, teamsMedia, fixture, fixtureMedia
  <1>5. CASE a.profile = "synthetic"
    <2>1. NftablesInput(f, a) = {admin, listener, pbxMedia, fixture, fixtureMedia}
      BY <1>1, <1>4, <1>5
    <2>2. TeamsNetworks(f, a) = f.sources
      BY <1>5 DEF TeamsNetworks
    <2> QED BY <1>2, <1>3, <2>1, <2>2
  <1>6. CASE a.profile # "synthetic"
    <2>1. NftablesInput(f, a) = {admin, listener, pbxMedia, signaling}
                                  \cup {teamsMedia(r) : r \in MicrosoftMedia}
      BY <1>1, <1>4, <1>6
    <2>2. TeamsNetworks(f, a) = f.signaling
      BY <1>6 DEF TeamsNetworks
    <2> QED BY <1>2, <1>3, <2>1, <2>2
  <1> QED BY <1>5, <1>6

LEMMA PortsAre ==
  /\ TeamsPort = 5061 /\ ListenerPort = 15061 /\ TenantMedia = [start |-> 20000, end |-> 20255]
  /\ \A p, q \in Int : Inside(p, Port(q)) <=> p = q
  <1>1. \A p, q \in Int : Inside(p, Port(q)) <=> p = q
    BY DEF Inside, Port
  <1> QED BY <1>1 DEF TeamsPort, ListenerPort, TenantMedia

(* Firewall and OpenSIPS let in the same networks.                          *)
LEMMA NetworksGetIn ==
  ASSUME NEW f, NEW a, a.profile \in Kinds, SameRange(f.media, TenantMedia)
  PROVE  /\ SourcesTo(NftablesInput(f, a), TeamsPort) = TeamsNetworks(f, a)
         /\ SourcesTo(NftablesInput(f, a), ListenerPort) = f.sources
         /\ \A r \in NftablesInput(f, a), p \in {2223, 2224} : ~Inside(p, r.to)
  <1> DEFINE input == NftablesInput(f, a)
             teams == TeamsNetworks(f, a)
  <1>1. /\ \A r \in input :
             \/ r.protocol = "tcp" /\ r.to = Port(22)
             \/ r.protocol = "tcp" /\ r.to = Port(ListenerPort) /\ r.sources = f.sources
             \/ r.protocol = "tcp" /\ r.to = Port(TeamsPort) /\ r.sources = teams
             \/ r.protocol = "udp" /\ r.to = f.media
        /\ \E r \in input :
             r.protocol = "tcp" /\ r.to = Port(ListenerPort) /\ r.sources = f.sources
        /\ \E r \in input :
             r.protocol = "tcp" /\ r.to = Port(TeamsPort) /\ r.sources = teams
    BY InputIs
  <1> HIDE DEF input, teams
  <1>2. /\ Inside(TeamsPort, Port(TeamsPort)) /\ ~Inside(TeamsPort, Port(22))
        /\ ~Inside(TeamsPort, Port(ListenerPort))
        /\ Inside(ListenerPort, Port(ListenerPort)) /\ ~Inside(ListenerPort, Port(22))
        /\ ~Inside(ListenerPort, Port(TeamsPort))
    BY PortsAre
  <1>3. SourcesTo(input, TeamsPort) = teams
    <2>1. \E r \in input : r.protocol = "tcp" /\ Inside(TeamsPort, r.to) /\ r.sources = teams
      BY <1>1, <1>2
    <2>2. \A r \in input : r.protocol = "tcp" /\ Inside(TeamsPort, r.to) => r.sources = teams
      BY <1>1, <1>2
    <2> QED BY <2>1, <2>2, OneSource
  <1>4. SourcesTo(input, ListenerPort) = f.sources
    <2>1. \E r \in input :
            r.protocol = "tcp" /\ Inside(ListenerPort, r.to) /\ r.sources = f.sources
      BY <1>1, <1>2
    <2>2. \A r \in input :
            r.protocol = "tcp" /\ Inside(ListenerPort, r.to) => r.sources = f.sources
      BY <1>1, <1>2
    <2> QED BY <2>1, <2>2, OneSource
  <1>5. \A r \in input, p \in {2223, 2224} : ~Inside(p, r.to)
    <2> TAKE r \in input, p \in {2223, 2224}
    <2>1. /\ ~Inside(p, Port(22)) /\ ~Inside(p, Port(ListenerPort))
          /\ ~Inside(p, Port(TeamsPort))
      BY PortsAre
    <2>2. ~Inside(p, f.media)
      BY DEF SameRange, TenantMedia, Inside
    <2>3. r.to = Port(22) \/ r.to = Port(ListenerPort) \/ r.to = Port(TeamsPort)
          \/ r.to = f.media
      BY <1>1
    <2> QED BY <2>1, <2>2, <2>3
  <1> QED BY <1>3, <1>4, <1>5 DEF input, teams

LEMMA Reached ==
  ASSUME NEW rules, NEW target, NEW networks, NEW p, p \in Int,
         target = [networks |-> networks, port |-> p],
         Rule(networks, "tcp", Port(p), AnyPort) \in rules
  PROVE  Reaches(rules, target)
  <1> DEFINE r == Rule(networks, "tcp", Port(p), AnyPort)
  <1>1. r \in rules /\ r.protocol = "tcp" /\ r.to = Port(p) /\ r.sources = networks
    BY RuleIs
  <1>2. target.port = p /\ target.networks = networks
    OBVIOUS
  <1>3. Inside(p, Port(p))
    BY PortsAre
  <1> HIDE DEF r
  <1> QED BY <1>1, <1>2, <1>3 DEF Reaches

(* What a profile must be to run, and where its calls go.                   *)
LEMMA TargetsAre ==
  ASSUME NEW f, NEW a, a.profile \in Kinds, NEW route, ProfileFits(f, a, route)
  PROVE  /\ PbxTarget(f, a, route) =
              [networks |-> f.sources,
               port |-> IF a.profile = "synthetic" THEN FixturePort ELSE PbxPort]
         /\ TeamsTarget(f, a) =
              IF a.profile = "synthetic"
              THEN [networks |-> f.sources, port |-> FixtureTeamsPort]
              ELSE [networks |-> f.signaling, port |-> TeamsPort]
         /\ a.profile \in Live => route.pbx.port = PbxPort
         /\ a.profile = "synthetic" =>
              f.sources = {FixtureNet} /\ SameRange(f.range, FixtureRange)
  <1>1. CASE a.profile = "synthetic"
    <2>1. f.sources = {FixtureNet} /\ SameRange(f.range, FixtureRange)
      BY <1>1 DEF ProfileFits, SyntheticOK
    <2> QED BY <1>1, <2>1 DEF PbxTarget, TeamsTarget, Live
  <1>2. CASE a.profile = "private"
    <2>1. f.sources = {FixtureNet} /\ route.pbx = [host |-> CarrierHost, port |-> PbxPort]
      BY <1>2 DEF ProfileFits, PrivateOK
    <2>2. route.pbx.port = PbxPort
      BY <2>1
    <2> QED BY <1>2, <2>1, <2>2 DEF PbxTarget, TeamsTarget
  <1>3. CASE a.profile = "direct"
    <2>1. route.pbx.port = PbxPort
      BY <1>3 DEF ProfileFits, DirectOK
    <2> QED BY <1>3, <2>1 DEF PbxTarget, TeamsTarget
  <1> QED BY <1>1, <1>2, <1>3 DEF Kinds

(* Every destination is let out, and the PBX's media where it comes in.     *)
LEMMA CallsGetOut ==
  ASSUME NEW f, NEW a, a.profile \in Kinds, NEW route, ProfileFits(f, a, route)
  PROVE  /\ Reaches(NftablesOutput(f, a, route), PbxTarget(f, a, route))
         /\ Reaches(NftablesOutput(f, a, route), TeamsTarget(f, a))
         /\ \E o \in NftablesOutput(f, a, route) :
              /\ o.protocol = "udp" /\ o.sources = f.sources /\ o.from = f.media
              /\ SameRange(f.range, o.to)
  <1> DEFINE output == NftablesOutput(f, a, route)
             pbxPort == IF a.profile = "synthetic" THEN FixturePort ELSE PbxPort
  <1>1. /\ PbxTarget(f, a, route) = [networks |-> f.sources, port |-> pbxPort]
        /\ TeamsTarget(f, a) =
             IF a.profile = "synthetic"
             THEN [networks |-> f.sources, port |-> FixtureTeamsPort]
             ELSE [networks |-> f.signaling, port |-> TeamsPort]
        /\ a.profile \in Live => route.pbx.port = PbxPort
        /\ a.profile = "synthetic" =>
             f.sources = {FixtureNet} /\ SameRange(f.range, FixtureRange)
    BY TargetsAre
  <1>2. /\ FixturePort \in Int /\ PbxPort \in Int /\ FixtureTeamsPort \in Int
        /\ TeamsPort \in Int
    BY DEF FixturePort, PbxPort, FixtureTeamsPort, TeamsPort
  <1>3. a.profile \in Live <=> a.profile # "synthetic"
    BY DEF Kinds, Live
  <1> DEFINE Out(o) == /\ o.protocol = "udp" /\ o.sources = f.sources /\ o.from = f.media
                       /\ SameRange(f.range, o.to)
  <1>4. CASE a.profile = "synthetic"
    <2>1. output = {Rule({FixtureNet}, "tcp", Port(p), AnyPort) :
                      p \in {FixturePort, FixtureTeamsPort}}
                     \cup {Rule({FixtureNet}, "udp", r, f.media) : r \in FixtureMedia}
      BY <1>3, <1>4, Zenon DEF NftablesOutput
    <2>2. /\ Rule(f.sources, "tcp", Port(FixturePort), AnyPort) \in output
          /\ Rule(f.sources, "tcp", Port(FixtureTeamsPort), AnyPort) \in output
          /\ \A r \in FixtureMedia : Rule(f.sources, "udp", r, f.media) \in output
      <3> HIDE DEF output
      <3> QED BY <1>1, <1>4, <2>1
    <2>3. FixtureRange \in FixtureMedia
      BY DEF FixtureRange, FixtureMedia
    <2>4. Rule(f.sources, "udp", FixtureRange, f.media) \in output
      BY <2>2, <2>3, Zenon
    <2>5. Out(Rule(f.sources, "udp", FixtureRange, f.media))
      BY <1>1, <1>4, RuleIs
    <2>6. /\ PbxTarget(f, a, route) = [networks |-> f.sources, port |-> FixturePort]
          /\ TeamsTarget(f, a) = [networks |-> f.sources, port |-> FixtureTeamsPort]
      BY <1>1, <1>4
    <2> HIDE DEF output, Out
    <2>7. Reaches(output, PbxTarget(f, a, route)) /\ Reaches(output, TeamsTarget(f, a))
      BY <1>2, <2>2, <2>6, Reached
    <2>8. \E o \in output : Out(o)
      BY <2>4, <2>5
    <2> QED BY <2>7, <2>8 DEF output, Out
  <1>5. CASE a.profile # "synthetic"
    <2>1. output = {Rule(f.signaling, "tcp", Port(TeamsPort), AnyPort),
                    Rule(f.sources, "tcp", Port(route.pbx.port), AnyPort),
                    Rule(f.sources, "udp", f.range, f.media)}
                     \cup {Rule(f.teamsMedia, "udp", r, f.media) : r \in MicrosoftMedia}
      BY <1>3, <1>5, Zenon DEF NftablesOutput
    <2>2. route.pbx.port = PbxPort
      BY <1>1, <1>3, <1>5
    <2>3. /\ Rule(f.signaling, "tcp", Port(TeamsPort), AnyPort) \in output
          /\ Rule(f.sources, "tcp", Port(PbxPort), AnyPort) \in output
          /\ Rule(f.sources, "udp", f.range, f.media) \in output
      <3> HIDE DEF output
      <3> QED BY <2>1, <2>2
    <2>4. Out(Rule(f.sources, "udp", f.range, f.media))
      BY RuleIs DEF SameRange
    <2>5. /\ PbxTarget(f, a, route) = [networks |-> f.sources, port |-> PbxPort]
          /\ TeamsTarget(f, a) = [networks |-> f.signaling, port |-> TeamsPort]
      BY <1>1, <1>5
    <2> HIDE DEF output, Out
    <2>6. Reaches(output, PbxTarget(f, a, route)) /\ Reaches(output, TeamsTarget(f, a))
      BY <1>2, <2>3, <2>5, Reached
    <2>7. \E o \in output : Out(o)
      BY <2>3, <2>4
    <2> QED BY <2>6, <2>7 DEF output, Out
  <1> QED BY <1>4, <1>5

(* PeersHaveTheirListener of one configuration.                             *)
Peers(c) ==
  LET s == c.opensips
  IN  /\ SourcesTo(c.input, TeamsPort) = s.teamsSources
      /\ SourcesTo(c.input, ListenerPort) = s.pbxSources
      /\ s.teamsSources \cap s.pbxSources \subseteq {FixtureNet}
      /\ \A t \in {s.pbx, s.teams} \cup s.options : Reaches(c.output, t)
      /\ \E i \in c.input, o \in c.output :
           /\ i.protocol = "udp" /\ o.protocol = "udp"
           /\ SameRange(i.to, o.from) /\ SameRange(i.from, o.to)
           /\ i.sources = s.pbxSources /\ o.sources = s.pbxSources
      /\ s.domains.teams = "fixture CA" => s.teamsSources = {FixtureNet}
      /\ \A r \in c.input, p \in {2223, 2224} : ~Inside(p, r.to)

(* Files that fit the facts and the authority make services and firewall    *)
(* that fit each other.                                                     *)
LEMMA PeersFit ==
  ASSUME NEW f, NEW a, FactsOK(f), AuthorityOK(a), NEW files,
         ProfileFits(f, a, files["OPENSIPS"])
  PROVE  Peers(Configuration(f, a, files))
  <1> DEFINE c == Configuration(f, a, files)
             s == c.opensips
             route == files["OPENSIPS"]
             input == NftablesInput(f, a)
             output == NftablesOutput(f, a, route)
  <1>1. /\ c.opensips = Opensips(f, a, route) /\ c.input = input /\ c.output = output
    BY DEF Configuration
  <1>2. /\ s.teamsSources = TeamsNetworks(f, a) /\ s.pbxSources = f.sources
        /\ s.pbx = PbxTarget(f, a, route) /\ s.teams = TeamsTarget(f, a)
        /\ s.options = OptionsTargets(f, a, route) /\ s.domains = TlsDomains(a)
    BY <1>1 DEF Opensips, TeamsNetworks
  <1>3. ProfileFits(f, a, route) /\ a.profile \in Kinds
    BY DEF AuthorityOK
  <1> HIDE DEF c, s, route, input, output
  <1>4. /\ SameRange(f.media, TenantMedia)
        /\ f.sources \cap (f.signaling \cup f.teamsMedia) = {}
    BY DEF FactsOK
  <1>5. a.profile = "synthetic" => f.sources = {FixtureNet}
    BY <1>3, TargetsAre
  <1>6. /\ SourcesTo(input, TeamsPort) = TeamsNetworks(f, a)
        /\ SourcesTo(input, ListenerPort) = f.sources
        /\ \A r \in input, p \in {2223, 2224} : ~Inside(p, r.to)
    BY <1>3, <1>4, NetworksGetIn DEF input
  <1>7. /\ Reaches(output, PbxTarget(f, a, route)) /\ Reaches(output, TeamsTarget(f, a))
        /\ \E o \in output : /\ o.protocol = "udp" /\ o.sources = f.sources
                             /\ o.from = f.media /\ SameRange(f.range, o.to)
    BY <1>3, CallsGetOut DEF output
  <1>8. TeamsNetworks(f, a) \cap f.sources \subseteq {FixtureNet}
    BY <1>4, <1>5 DEF TeamsNetworks
  <1>9. \A t \in {s.pbx, s.teams} \cup s.options : Reaches(output, t)
    <2>1. s.options \subseteq {TeamsTarget(f, a), PbxTarget(f, a, route)}
      BY <1>2 DEF OptionsTargets
    <2> QED BY <1>2, <1>7, <2>1
  <1>10. \E i \in input, o \in output :
           /\ i.protocol = "udp" /\ o.protocol = "udp"
           /\ SameRange(i.to, o.from) /\ SameRange(i.from, o.to)
           /\ i.sources = f.sources /\ o.sources = f.sources
    <2>1. PICK i \in input : /\ i.protocol = "udp" /\ i.to = f.media /\ i.from = f.range
                             /\ i.sources = f.sources
      BY <1>3, InputIs DEF input
    <2>2. PICK o \in output : /\ o.protocol = "udp" /\ o.sources = f.sources
                              /\ o.from = f.media /\ SameRange(f.range, o.to)
      BY <1>7
    <2>3. SameRange(i.to, o.from) /\ SameRange(i.from, o.to)
      BY <2>1, <2>2 DEF SameRange
    <2> QED BY <2>1, <2>2, <2>3
  <1>11. s.domains.teams = "fixture CA" => a.profile = "synthetic"
    <2>1. a.profile # "synthetic" => TlsDomains(a).teams = "microsoft CA"
      BY DEF TlsDomains
    <2>2. s.domains.teams = TlsDomains(a).teams
      BY <1>2
    <2> QED BY <2>1, <2>2
  <1>12. s.domains.teams = "fixture CA" => TeamsNetworks(f, a) = {FixtureNet}
    BY <1>5, <1>11 DEF TeamsNetworks
  <1>13. c.opensips = s /\ c.input = input /\ c.output = output
    BY <1>1 DEF s
  <1>14. s.teamsSources = TeamsNetworks(f, a) /\ s.pbxSources = f.sources
    BY <1>2
  <1>15. /\ SourcesTo(c.input, TeamsPort) = s.teamsSources
         /\ SourcesTo(c.input, ListenerPort) = s.pbxSources
         /\ s.teamsSources \cap s.pbxSources \subseteq {FixtureNet}
         /\ \A r \in c.input, p \in {2223, 2224} : ~Inside(p, r.to)
    BY <1>6, <1>8, <1>13, <1>14
  <1>16. \A t \in {s.pbx, s.teams} \cup s.options : Reaches(c.output, t)
    BY <1>9, <1>13
  <1>17. \E i \in c.input, o \in c.output :
           /\ i.protocol = "udp" /\ o.protocol = "udp"
           /\ SameRange(i.to, o.from) /\ SameRange(i.from, o.to)
           /\ i.sources = s.pbxSources /\ o.sources = s.pbxSources
    BY <1>10, <1>13, <1>14
  <1>18. s.domains.teams = "fixture CA" => s.teamsSources = {FixtureNet}
    BY <1>12, <1>14
  <1> QED BY <1>15, <1>16, <1>17, <1>18, Zenon DEF Peers, c, s

(* r fits what node n of generation g is and may do.                        *)
RunsAt(n, g, r) ==
  /\ FactsOK(FactsOf[n][g]) /\ AuthorityOK(AuthorityOf[n][g])
  /\ ProfileFits(FactsOf[n][g], AuthorityOf[n][g],
                 Render(ManifestOf(r), FactsOf[n][g])["OPENSIPS"])

(* What PeersHaveTheirListener needs of the past: the active release was    *)
(* validated, by the facts and the authority that the node still has.       *)
ServesInv ==
  LineageInv /\ \A n \in Nodes : fleet[n].active # Nothing
                                   => RunsAt(n, fleet[n].generation, fleet[n].active)

(* A step leaves the active release of a node and its generation alone,     *)
(* takes the release away, or commits the pending one.                      *)
LEMMA ActiveMoves ==
  ASSUME LineageInv, NEW n \in Nodes, [PublicationNext]_publicationVars
  PROVE  \/ fleet'[n].active = Nothing
         \/ fleet'[n].active = fleet[n].active /\ fleet'[n].generation = fleet[n].generation
         \/ /\ fleet'[n].active = fleet[n].pending
            /\ fleet'[n].generation = fleet[n].generation
            /\ RuntimeTakes(n, EnvelopeOf(fleet[n].pending), clock * Step)
  <1> DEFINE Same == fleet'[n].active = fleet[n].active
                       /\ fleet'[n].generation = fleet[n].generation
  <1>1. /\ DOMAIN fleet = Nodes /\ \A k \in Nodes : IsNode(fleet[k])
    BY DEF LineageInv, KeyInv, PublicationShape
  <1>2. CASE UNCHANGED fleet
    BY <1>2
  <1>3. ASSUME NEW k \in Nodes, NEW d \in Dirs, StageRelease(k, d)
        PROVE  Same
    BY <1>1, <1>3 DEF StageRelease, IsNode
  <1>4. ASSUME NEW k \in Nodes, CommitRelease(k)
        PROVE  Same \/ /\ fleet'[n].active = fleet[n].pending
                       /\ fleet'[n].generation = fleet[n].generation
                       /\ RuntimeTakes(n, EnvelopeOf(fleet[n].pending), clock * Step)
    BY <1>1, <1>4 DEF CommitRelease, IsNode
  <1>5. ASSUME NEW k \in Nodes, AbortRelease(k)
        PROVE  Same
    <2>1. PICK floor : fleet' = [fleet EXCEPT ![k].aborted = fleet[k].pending,
                                              ![k].pending = Nothing, ![k].floor = floor]
      BY <1>5 DEF AbortRelease
    <2> QED BY <1>1, <2>1 DEF IsNode
  <1>6. ASSUME NEW k \in Nodes, ReplaceNode(k)
        PROVE  Same \/ fleet'[n].active = Nothing
    BY <1>1, <1>6 DEF ReplaceNode, NewNode
  <1>7. \/ UNCHANGED fleet
        \/ \E k \in Nodes : \/ \E d \in Dirs : StageRelease(k, d)
                            \/ CommitRelease(k) \/ AbortRelease(k) \/ ReplaceNode(k)
    BY DEF PublicationNext, publicationVars, StartGenerate, LinkSeed, RefuseLink,
       UnlinkTemporary, KillGenerator, Materialize, WriteFile, KillWriter,
       RemoveDirectory, Tick
  <1> HIDE DEF Same
  <1>8. \/ Same \/ fleet'[n].active = Nothing
        \/ /\ fleet'[n].active = fleet[n].pending
           /\ fleet'[n].generation = fleet[n].generation
           /\ RuntimeTakes(n, EnvelopeOf(fleet[n].pending), clock * Step)
    BY <1>2, <1>3, <1>4, <1>5, <1>6, <1>7 DEF Same
  <1> QED BY <1>8 DEF Same

LEMMA TakenFits ==
  ASSUME NEW n, NEW r, NEW now, RuntimeTakes(n, EnvelopeOf(r), now)
  PROVE  RunsAt(n, fleet[n].generation, r)
  <1> DEFINE f == FactsNow(n)
             e == EnvelopeOf(r)
  <1>1. HandOff(e, f).files = Render(ManifestOf(r), f)
    BY DEF HandOff, EnvelopeOf, Envelope
  <1>2. /\ FactsOK(f) /\ AuthorityOK(AuthorityNow(n))
        /\ ProfileFits(f, AuthorityNow(n), HandOff(e, f).files["OPENSIPS"])
    BY DEF RuntimeTakes, ValidateCandidate
  <1> HIDE DEF e
  <1> QED BY <1>1, <1>2 DEF RunsAt, FactsNow, AuthorityNow

LEMMA ServesNextInv == ServesInv /\ [PublicationNext]_publicationVars => ServesInv'
  <1> SUFFICES ASSUME ServesInv, [PublicationNext]_publicationVars
               PROVE  ServesInv'
    OBVIOUS
  <1>1. LineageInv'
    BY LineageNextInv DEF ServesInv
  <1>2. ASSUME NEW n \in Nodes, fleet'[n].active # Nothing
        PROVE  RunsAt(n, fleet'[n].generation, fleet'[n].active)
    <2>1. CASE /\ fleet'[n].active = fleet[n].active
               /\ fleet'[n].generation = fleet[n].generation
      BY <1>2, <2>1 DEF ServesInv
    <2>2. CASE /\ fleet'[n].active = fleet[n].pending
               /\ fleet'[n].generation = fleet[n].generation
               /\ RuntimeTakes(n, EnvelopeOf(fleet[n].pending), clock * Step)
      BY <2>2, TakenFits
    <2> QED BY <1>2, <2>1, <2>2, ActiveMoves DEF ServesInv
  <1>3. \A n \in Nodes : (fleet[n].active # Nothing
                            => RunsAt(n, fleet[n].generation, fleet[n].active))'
    BY <1>2 DEF RunsAt, ManifestOf
  <1> QED BY <1>1, <1>3 DEF ServesInv

LEMMA ServesInvHolds == ServesInv => NodesRunTheirFacts
  <1> SUFFICES ASSUME ServesInv PROVE NodesRunTheirFacts
    OBVIOUS
  <1>1. OnlyTheFactsDecide
    BY OnlyTheFactsAlwaysDecide DEF ServesInv
  <1>2. ASSUME NEW n \in Nodes, fleet[n].active # Nothing
        PROVE  Peers(ConfigurationOf(n))
    <2>1. RunsAt(n, fleet[n].generation, fleet[n].active)
      BY <1>2 DEF ServesInv
    <2>2. /\ FactsOK(FactsNow(n)) /\ AuthorityOK(AuthorityNow(n))
          /\ ProfileFits(FactsNow(n), AuthorityNow(n),
                         Render(ManifestOf(fleet[n].active), FactsNow(n))["OPENSIPS"])
      BY <2>1 DEF RunsAt, FactsNow, AuthorityNow
    <2> QED BY <2>2, PeersFit DEF ConfigurationOf
  <1>3. PeersHaveTheirListener
    BY <1>2 DEF PeersHaveTheirListener, Peers
  <1> QED BY <1>1, <1>3 DEF NodesRunTheirFacts

(* Whatever the key signs, a node serves what its own facts and authority   *)
(* say, and what it runs fits together: OpenSIPS, its firewall and its      *)
(* media (_extract_effective, expected_nft_policy, render_nftables,         *)
(* render_opensips).                                                        *)
THEOREM NodesAlwaysRunTheirFacts == PublicationSpec => []NodesRunTheirFacts
  <1>1. PublicationInit => ServesInv
    <2> SUFFICES ASSUME PublicationInit PROVE ServesInv
      OBVIOUS
    <2>1. \A n \in Nodes : fleet[n].active = Nothing
      BY DEF PublicationInit, NewNode
    <2> QED BY <2>1, LineageInitInv DEF ServesInv
  <1>2. ServesInv /\ [PublicationNext]_publicationVars => ServesInv'
    BY ServesNextInv
  <1>3. ServesInv => NodesRunTheirFacts
    BY ServesInvHolds
  <1> QED BY <1>1, <1>2, <1>3, PTL DEF PublicationSpec

-----------------------------------------------------------------------------
(* The three gates, spelled out.                                            *)
ChecksAt(i) == Checks[GateOrder[i]]

TriesAt(i) == MaxAttempts[GateOrder[i]]

LEMMA GatesAre ==
  /\ Len(GateOrder) = 3
  /\ TriesAt(1) = 1 /\ TriesAt(2) = 1 /\ TriesAt(3) = 3
  /\ ChecksAt(1) = <<"release", "binding">>
  /\ ChecksAt(2) = <<"offline parse", "active parse", "opensips content">>
  /\ ChecksAt(3) = <<"service", "ping", "sockets", "rtpengine content">>
  BY DEF GateOrder, TriesAt, ChecksAt, Checks, MaxAttempts

CheckNames ==
  Commands \cup {"release", "binding", "opensips content", "rtpengine content"}

LEMMA PairIs ==
  ASSUME NEW s, NEW a, NEW b, s = <<a, b>>
  PROVE  Len(s) = 2 /\ s[1] = a /\ s[2] = b
  OBVIOUS

LEMMA TripleIs ==
  ASSUME NEW s, NEW a, NEW b, NEW c, s = <<a, b, c>>
  PROVE  Len(s) = 3 /\ s[1] = a /\ s[2] = b /\ s[3] = c
  OBVIOUS

LEMMA QuadrupleIs ==
  ASSUME NEW s, NEW a, NEW b, NEW c, NEW d, s = <<a, b, c, d>>
  PROVE  Len(s) = 4 /\ s[1] = a /\ s[2] = b /\ s[3] = c /\ s[4] = d
  OBVIOUS

LEMMA ChecksAre ==
  /\ Len(ChecksAt(1)) = 2 /\ Len(ChecksAt(2)) = 3 /\ Len(ChecksAt(3)) = 4
  /\ \A i \in 1..3 : \A k \in 1..Len(ChecksAt(i)) :
       /\ ChecksAt(i)[k] \in CheckNames
       /\ i # 1 /\ k < Len(ChecksAt(i)) => ChecksAt(i)[k] \in Commands
  <1>1. /\ Len(ChecksAt(1)) = 2
        /\ ChecksAt(1)[1] = "release" /\ ChecksAt(1)[2] = "binding"
    <2> DEFINE first == ChecksAt(1)
    <2>1. first = <<"release", "binding">>
      BY GatesAre
    <2> HIDE DEF first
    <2>2. Len(first) = 2 /\ first[1] = "release" /\ first[2] = "binding"
      BY <2>1, PairIs
    <2> QED BY <2>2 DEF first
  <1>2. /\ Len(ChecksAt(2)) = 3
        /\ ChecksAt(2)[1] = "offline parse" /\ ChecksAt(2)[2] = "active parse"
        /\ ChecksAt(2)[3] = "opensips content"
    <2> DEFINE second == ChecksAt(2)
    <2>1. second = <<"offline parse", "active parse", "opensips content">>
      BY GatesAre
    <2> HIDE DEF second
    <2>2. /\ Len(second) = 3 /\ second[1] = "offline parse"
          /\ second[2] = "active parse" /\ second[3] = "opensips content"
      BY <2>1, TripleIs
    <2> QED BY <2>2 DEF second
  <1>3. /\ Len(ChecksAt(3)) = 4
        /\ ChecksAt(3)[1] = "service" /\ ChecksAt(3)[2] = "ping"
        /\ ChecksAt(3)[3] = "sockets" /\ ChecksAt(3)[4] = "rtpengine content"
    <2> DEFINE third == ChecksAt(3)
    <2>1. third = <<"service", "ping", "sockets", "rtpengine content">>
      BY GatesAre
    <2> HIDE DEF third
    <2>2. Len(third) = 4
      BY <2>1, QuadrupleIs
    <2>3. third[1] = "service" /\ third[2] = "ping"
      BY <2>1, QuadrupleIs
    <2>4. third[3] = "sockets" /\ third[4] = "rtpengine content"
      BY <2>1, QuadrupleIs
    <2> QED BY <2>2, <2>3, <2>4 DEF third
  <1>4. \A k \in 1..2 : ChecksAt(1)[k] \in CheckNames
    <2>1. \A k \in 1..2 : k = 1 \/ k = 2
      OBVIOUS
    <2> QED BY <1>1, <2>1 DEF CheckNames
  <1>5. \A k \in 1..3 : /\ ChecksAt(2)[k] \in CheckNames
                        /\ k < 3 => ChecksAt(2)[k] \in Commands
    <2>1. \A k \in 1..3 : k = 1 \/ k = 2 \/ k = 3
      OBVIOUS
    <2>2. SUFFICES ASSUME NEW k \in 1..3
                   PROVE  /\ ChecksAt(2)[k] \in CheckNames
                          /\ k < 3 => ChecksAt(2)[k] \in Commands
      OBVIOUS
    <2>3. CASE k = 1
      BY <1>2, <2>3 DEF Commands, CheckNames
    <2>4. CASE k = 2
      BY <1>2, <2>4 DEF Commands, CheckNames
    <2>5. CASE k = 3
      <3>1. ~(k < 3)
        BY <2>5
      <3>2. "opensips content" \in CheckNames
        BY DEF CheckNames
      <3> QED BY <1>2, <2>5, <3>1, <3>2
    <2> QED BY <2>1, <2>3, <2>4, <2>5
  <1>6. \A k \in 1..4 : /\ ChecksAt(3)[k] \in CheckNames
                        /\ k < 4 => ChecksAt(3)[k] \in Commands
    <2>1. \A k \in 1..4 : k = 1 \/ k = 2 \/ k = 3 \/ k = 4
      OBVIOUS
    <2>2. SUFFICES ASSUME NEW k \in 1..4
                   PROVE  /\ ChecksAt(3)[k] \in CheckNames
                          /\ k < 4 => ChecksAt(3)[k] \in Commands
      OBVIOUS
    <2>3. CASE k = 1
      BY <1>3, <2>3 DEF Commands, CheckNames
    <2>4. CASE k = 2
      BY <1>3, <2>4 DEF Commands, CheckNames
    <2>5. CASE k = 3
      BY <1>3, <2>5 DEF Commands, CheckNames
    <2>6. CASE k = 4
      <3>1. ~(k < 4)
        BY <2>6
      <3>2. "rtpengine content" \in CheckNames
        BY DEF CheckNames
      <3> QED BY <1>3, <2>6, <3>1, <3>2
    <2> QED BY <2>1, <2>3, <2>4, <2>5, <2>6
  <1>7. \A i \in 1..3 : i = 1 \/ i = 2 \/ i = 3
    OBVIOUS
  <1> QED BY <1>1, <1>2, <1>3, <1>4, <1>5, <1>6, <1>7

LEMMA GatesNamed == \A i \in 1..3 : GateOrder[i] \in Gates
  <1>1. /\ GateOrder[1] = "ARTIFACT_DIGESTS" /\ GateOrder[2] = "OPENSIPS_CONFIG"
        /\ GateOrder[3] = "RTPENGINE_READY"
    BY TripleIs DEF GateOrder
  <1>2. \A i \in 1..3 : i = 1 \/ i = 2 \/ i = 3
    OBVIOUS
  <1> QED BY <1>1, <1>2 DEF Gates

Proof == [check : CheckNames, at : Nat]

GateRun == [gate : 1..3, attempt : 1..3, done : Seq(Proof), start : Nat,
            verdict : {"running", "passed", "failed", "refused"}]

GateResult == [type : Gates, attempts : Nat, start : Nat, end : Nat, proofs : Seq(Proof)]

(* Proofs of gate i, made from start to end.                                *)
ProofsFit(i, proofs, start, end) ==
  \A k \in 1..Len(proofs) : proofs[k].check = ChecksAt(i)[k] /\ proofs[k].at \in start..end

ResultFits(i, r) ==
  /\ r.type = GateOrder[i] /\ r.attempts \in 1..TriesAt(i)
  /\ Len(r.proofs) = Len(ChecksAt(i)) /\ r.end - r.start < Timeout
  /\ ProofsFit(i, r.proofs, r.start, r.end)

HealthTypes ==
  /\ hostPasses \subseteq AllChecks /\ flips \in 0..MaxFlips /\ gateClock \in Nat
  /\ gateRun \in GateRun /\ gateResults \in Seq(GateResult)

(* The attempt under way.  Only the last check of a gate may be a read that *)
(* begins late.                                                             *)
AttemptFits ==
  /\ gateRun.attempt <= TriesAt(gateRun.gate)
  /\ Len(gateRun.done) <= Len(ChecksAt(gateRun.gate))
  /\ gateRun.start <= gateClock
  /\ ProofsFit(gateRun.gate, gateRun.done, gateRun.start, gateClock)
  /\ gateClock - gateRun.start <= Timeout + SlowRead
  /\ Testing /\ Len(gateRun.done) = 0 => gateClock = gateRun.start
  /\ Testing /\ Len(gateRun.done) < Len(ChecksAt(gateRun.gate)) =>
       gateClock - gateRun.start <= Timeout

(* Earlier attempts took no longer than they may, one attempt each before   *)
(* the last gate.                                                           *)
StartsInTime ==
  gateRun.start <= (gateRun.gate + gateRun.attempt - 2) * (Timeout + SlowRead)

ResultsFit ==
  /\ Len(gateResults) = IF gateRun.verdict = "passed" THEN 3 ELSE gateRun.gate - 1
  /\ \A i \in 1..Len(gateResults) : ResultFits(i, gateResults[i])

HealthInv == HealthTypes /\ AttemptFits /\ StartsInTime /\ ResultsFit

LEMMA HealthInitInv == HealthInit => HealthInv
  <1> SUFFICES ASSUME HealthInit PROVE HealthInv
    OBVIOUS
  <1>1. gateRun = [gate |-> 1, attempt |-> 1, done |-> <<>>, start |-> 0,
                   verdict |-> "running"]
    BY DEF HealthInit, FirstAttempt
  <1>2. HealthTypes
    <2>1. hostPasses \subseteq AllChecks /\ flips \in 0..MaxFlips /\ gateClock \in Nat
      BY HealthConstants DEF HealthInit
    <2>2. gateRun \in GateRun
      BY <1>1 DEF GateRun
    <2>3. gateResults \in Seq(GateResult)
      BY DEF HealthInit
    <2> QED BY <2>1, <2>2, <2>3 DEF HealthTypes
  <1>3. AttemptFits
    <2>1. /\ gateRun.gate = 1 /\ gateRun.attempt = 1 /\ gateRun.start = 0
          /\ Len(gateRun.done) = 0 /\ gateClock = 0
      BY <1>1 DEF HealthInit
    <2>2. Len(ChecksAt(1)) = 2 /\ TriesAt(1) = 1
      BY ChecksAre, GatesAre
    <2>3. gateClock - gateRun.start = 0
      BY <2>1
    <2> QED BY <2>1, <2>2, <2>3, HealthConstants DEF AttemptFits, ProofsFit
  <1>5. StartsInTime
    BY <1>1, HealthConstants DEF StartsInTime
  <1>4. ResultsFit
    BY <1>1 DEF HealthInit, ResultsFit
  <1> QED BY <1>2, <1>3, <1>4, <1>5 DEF HealthInv

(* The next check of an unfinished attempt, and whether it is a command.    *)
LEMMA NextCheckIs ==
  ASSUME HealthInv, Testing, ~AllDone
  PROVE  /\ Len(gateRun.done) \in 0..(Len(ChecksAt(gateRun.gate)) - 1)
         /\ NextCheck = ChecksAt(gateRun.gate)[Len(gateRun.done) + 1]
         /\ NextCheck \in CheckNames
         /\ NextCheck \in Commands \/ Len(gateRun.done) + 1 = Len(ChecksAt(gateRun.gate))
              \/ Len(gateRun.done) = 0
  <1>1. gateRun \in GateRun /\ Len(gateRun.done) <= Len(ChecksAt(gateRun.gate))
    BY DEF HealthInv, HealthTypes, AttemptFits
  <1>2. /\ AllDone <=> Len(gateRun.done) = Len(ChecksAt(gateRun.gate))
        /\ NextCheck = ChecksAt(gateRun.gate)[Len(gateRun.done) + 1]
    BY DEF AllDone, NextCheck, ChecksAt, GateOf
  <1>3. gateRun.gate \in 1..3 /\ gateRun.done \in Seq(Proof) /\ Len(gateRun.done) \in Nat
    BY <1>1 DEF GateRun
  <1>4. Len(gateRun.done) + 1 \in 1..Len(ChecksAt(gateRun.gate))
    BY <1>1, <1>2, <1>3, ChecksAre
  <1>5. Len(gateRun.done) = 0 \/ gateRun.gate # 1 \/ Len(gateRun.done) + 1 = 2
    BY <1>3, <1>4, ChecksAre
  <1> QED BY <1>2, <1>3, <1>4, <1>5, ChecksAre

(* A check that begins in an attempt ends in the time of it.                *)
LEMMA CheckTakes ==
  ASSUME HealthInv, Testing, ~AllDone,
         NEW d \in Int,
         \/ NextCheck \in Commands /\ Remaining > 0 /\ d \in 0..Limit(NextCheck)
         \/ NextCheck \notin Commands /\ d \in 0..SlowRead
  PROVE  /\ d >= 0
         /\ gateClock + d - gateRun.start <= Timeout + SlowRead
         /\ Len(gateRun.done) + 1 < Len(ChecksAt(gateRun.gate)) =>
              gateClock + d - gateRun.start <= Timeout
  <1>1. /\ gateRun.start \in Nat /\ gateClock \in Nat /\ gateRun.start <= gateClock
        /\ Len(gateRun.done) = 0 => gateClock = gateRun.start
        /\ gateClock - gateRun.start <= Timeout
    BY NextCheckIs DEF HealthInv, HealthTypes, AttemptFits, GateRun
  <1>2. CASE NextCheck \in Commands
    BY <1>1, <1>2, HealthConstants DEF Limit, Remaining
  <1>3. CASE NextCheck \notin Commands
    BY <1>1, <1>3, HealthConstants, NextCheckIs
  <1> QED BY <1>2, <1>3

LEMMA ProofsFitLater ==
  ASSUME NEW i, NEW proofs, NEW start \in Int, NEW end \in Int, NEW later \in Int,
         end <= later, ProofsFit(i, proofs, start, end)
  PROVE  ProofsFit(i, proofs, start, later)
  BY DEF ProofsFit

LEMMA EveryGate ==
  \A i \in 1..3 : /\ TriesAt(i) \in 1..3 /\ Len(ChecksAt(i)) \in 2..4
                  /\ i < 3 => TriesAt(i) = 1
  <1>1. SUFFICES ASSUME NEW i \in 1..3
                 PROVE  /\ TriesAt(i) \in 1..3 /\ Len(ChecksAt(i)) \in 2..4
                        /\ i < 3 => TriesAt(i) = 1
    OBVIOUS
  <1>2. (i = 1 \/ i = 2 \/ i = 3) /\ (i < 3 => i = 1 \/ i = 2)
    BY <1>1
  <1>3. TriesAt(i) = 1 \/ TriesAt(i) = 3
    BY <1>2, GatesAre
  <1>4. i < 3 => TriesAt(i) = 1
    BY <1>2, GatesAre
  <1>5. Len(ChecksAt(i)) = 2 \/ Len(ChecksAt(i)) = 3 \/ Len(ChecksAt(i)) = 4
    BY <1>2, ChecksAre
  <1> QED BY <1>3, <1>4, <1>5

LEMMA GatesAtMostThree ==
  ASSUME gateRun \in GateRun
  PROVE  /\ gateRun.gate \in 1..3 /\ TriesAt(gateRun.gate) \in 1..3
         /\ gateRun.gate < 3 => TriesAt(gateRun.gate) = 1
         /\ Len(ChecksAt(gateRun.gate)) \in 2..4
  <1>1. gateRun.gate \in 1..3
    BY DEF GateRun
  <1> QED BY <1>1, EveryGate

(* One more attempt is one more time T.                                     *)
LEMMA OneMore ==
  ASSUME NEW n \in Int, NEW t \in Int, NEW start \in Int, NEW end \in Int,
         start <= n * t, end <= start + t
  PROVE  end <= (n + 1) * t
  <1>1. (n + 1) * t = n * t + t
    OBVIOUS
  <1>2. n * t \in Int
    OBVIOUS
  <1> QED BY <1>1, <1>2

(* Whatever ends an attempt, the next one begins in time, or the plan ends. *)
LEMMA RetryKeeps ==
  ASSUME HealthInv, Testing, Retry,
         gateClock' \in Nat, gateClock <= gateClock',
         gateClock' - gateRun.start <= Timeout + SlowRead,
         UNCHANGED <<hostPasses, flips, gateResults>>
  PROVE  HealthInv'
  <1>1. /\ gateRun \in GateRun /\ gateClock \in Nat
        /\ gateRun.gate \in 1..3 /\ gateRun.attempt \in 1..3 /\ gateRun.start \in Nat
        /\ gateRun.done \in Seq(Proof)
    BY DEF HealthInv, HealthTypes, GateRun
  <1>2. gateRun.verdict = "running" /\ MaxAttempts[GateOf] = TriesAt(gateRun.gate)
    BY DEF Testing, GateOf, TriesAt
  <1>3. CASE gateRun.attempt < MaxAttempts[GateOf]
    <2>1. gateRun' = [gateRun EXCEPT !.attempt = gateRun.attempt + 1, !.done = <<>>,
                                     !.start = gateClock']
      BY <1>3 DEF Retry, NextAttempt
    <2>2. /\ gateRun'.gate = gateRun.gate /\ gateRun'.attempt = gateRun.attempt + 1
          /\ gateRun'.done = <<>> /\ gateRun'.start = gateClock'
          /\ gateRun'.verdict = "running"
      BY <1>1, <1>2, <2>1 DEF GateRun
    <2>3. gateRun.attempt + 1 \in 1..3 /\ gateRun.attempt + 1 <= TriesAt(gateRun.gate)
      <3>1. TriesAt(gateRun.gate) \in 1..3
        BY <1>1, GatesAtMostThree
      <3>2. gateRun.attempt < TriesAt(gateRun.gate)
        BY <1>2, <1>3
      <3> QED BY <1>1, <3>1, <3>2
    <2>4. gateRun' \in GateRun
      <3>1. gateRun = [gate |-> gateRun.gate, attempt |-> gateRun.attempt,
                       done |-> gateRun.done, start |-> gateRun.start,
                       verdict |-> gateRun.verdict]
        BY <1>1 DEF GateRun
      <3>2. gateRun' = [gate |-> gateRun.gate, attempt |-> gateRun.attempt + 1,
                        done |-> <<>>, start |-> gateClock', verdict |-> "running"]
        BY <1>2, <2>1, <3>1
      <3>3. <<>> \in Seq(Proof)
        OBVIOUS
      <3> QED BY <1>1, <2>3, <3>2, <3>3 DEF GateRun
    <2>5. HealthTypes'
      BY <2>4 DEF HealthInv, HealthTypes
    <2>6. AttemptFits'
      <3>1. Len(gateRun'.done) = 0
        BY <2>2
      <3>2. ProofsFit(gateRun'.gate, gateRun'.done, gateRun'.start, gateClock')
        BY <3>1 DEF ProofsFit
      <3>3. gateClock' - gateRun'.start = 0 /\ gateRun'.start <= gateClock'
        <4>1. \A t \in Nat : t - t = 0 /\ t <= t
          OBVIOUS
        <4> QED BY <2>2, <4>1
      <3>4. 0 <= Len(ChecksAt(gateRun.gate)) /\ 0 <= Timeout /\ 0 <= Timeout + SlowRead
        BY <1>1, GatesAtMostThree, HealthConstants
      <3> QED BY <2>2, <2>3, <3>1, <3>2, <3>3, <3>4 DEF AttemptFits
    <2>7. StartsInTime'
      <3>1. gateRun.start <= (gateRun.gate + gateRun.attempt - 2) * (Timeout + SlowRead)
        BY DEF HealthInv, StartsInTime
      <3>2. gateClock' <= (gateRun.gate + gateRun.attempt - 2 + 1) * (Timeout + SlowRead)
        <4> DEFINE n == gateRun.gate + gateRun.attempt - 2
                   t == Timeout + SlowRead
        <4>1. /\ n \in Int /\ t \in Int /\ gateRun.start \in Int /\ gateClock' \in Int
              /\ gateRun.start <= n * t /\ gateClock' <= gateRun.start + t
          BY <1>1, <3>1, HealthConstants
        <4> HIDE DEF n, t
        <4>2. gateClock' <= (n + 1) * t
          BY <4>1, OneMore
        <4> QED BY <4>2 DEF n, t
      <3>3. gateRun'.gate + gateRun'.attempt - 2 = gateRun.gate + gateRun.attempt - 2 + 1
        BY <1>1, <2>2
      <3> QED BY <2>2, <3>2, <3>3 DEF StartsInTime
    <2>8. ResultsFit'
      BY <1>2, <2>2 DEF HealthInv, ResultsFit
    <2> QED BY <2>5, <2>6, <2>7, <2>8 DEF HealthInv
  <1>4. CASE ~(gateRun.attempt < MaxAttempts[GateOf])
    <2>1. gateRun' = [gateRun EXCEPT !.verdict = "failed"]
      BY <1>4 DEF Retry
    <2>2. /\ gateRun'.gate = gateRun.gate /\ gateRun'.attempt = gateRun.attempt
          /\ gateRun'.done = gateRun.done /\ gateRun'.start = gateRun.start
          /\ gateRun'.verdict = "failed" /\ gateRun' \in GateRun
      BY <1>1, <2>1 DEF GateRun
    <2>3. HealthTypes'
      BY <2>2 DEF HealthInv, HealthTypes
    <2>4. AttemptFits'
      <3>1. /\ gateRun.attempt <= TriesAt(gateRun.gate)
            /\ Len(gateRun.done) <= Len(ChecksAt(gateRun.gate))
            /\ gateRun.start <= gateClock
            /\ ProofsFit(gateRun.gate, gateRun.done, gateRun.start, gateClock)
        BY DEF HealthInv, AttemptFits
      <3>2. ProofsFit(gateRun.gate, gateRun.done, gateRun.start, gateClock')
        BY <1>1, <3>1, ProofsFitLater
      <3> QED BY <1>1, <2>2, <3>1, <3>2 DEF AttemptFits, Testing
    <2>5. StartsInTime'
      BY <2>2 DEF HealthInv, StartsInTime
    <2>6. ResultsFit'
      BY <1>2, <2>2 DEF HealthInv, ResultsFit
    <2> QED BY <2>3, <2>4, <2>5, <2>6 DEF HealthInv
  <1> QED BY <1>3, <1>4

LEMMA CheckPassesKeeps == ASSUME HealthInv, CheckPasses PROVE HealthInv'
  <1>1. /\ Testing /\ ~AllDone /\ (NextCheck \in Commands => Remaining > 0)
        /\ UNCHANGED <<hostPasses, flips, gateResults>>
    BY DEF CheckPasses
  <1>2. PICK d \in 0..(IF NextCheck \in Commands THEN Limit(NextCheck) ELSE SlowRead) :
          /\ gateClock' = gateClock + d
          /\ gateRun' = [gateRun EXCEPT
                           !.done = Append(gateRun.done, [check |-> NextCheck,
                                                          at |-> gateClock'])]
    BY DEF CheckPasses
  <1>3. /\ gateRun \in GateRun /\ gateClock \in Nat
        /\ gateRun.gate \in 1..3 /\ gateRun.attempt \in 1..3 /\ gateRun.start \in Nat
        /\ gateRun.done \in Seq(Proof) /\ gateRun.verdict = "running"
        /\ d \in Int
    BY <1>1, <1>2 DEF HealthInv, HealthTypes, GateRun, Testing
  <1>4. /\ d >= 0
        /\ gateClock + d - gateRun.start <= Timeout + SlowRead
        /\ Len(gateRun.done) + 1 < Len(ChecksAt(gateRun.gate)) =>
             gateClock + d - gateRun.start <= Timeout
    BY <1>1, <1>2, <1>3, CheckTakes
  <1>5. /\ gateRun'.gate = gateRun.gate /\ gateRun'.attempt = gateRun.attempt
        /\ gateRun'.start = gateRun.start /\ gateRun'.verdict = "running"
        /\ gateRun'.done = Append(gateRun.done, [check |-> NextCheck, at |-> gateClock'])
    BY <1>2, <1>3 DEF GateRun
  <1>6. /\ Len(gateRun.done) \in 0..(Len(ChecksAt(gateRun.gate)) - 1)
        /\ NextCheck = ChecksAt(gateRun.gate)[Len(gateRun.done) + 1]
        /\ NextCheck \in CheckNames
    BY <1>1, NextCheckIs
  <1>7. gateClock' \in Nat /\ gateClock <= gateClock'
    BY <1>2, <1>3, <1>4
  <1>8. [check |-> NextCheck, at |-> gateClock'] \in Proof
    BY <1>6, <1>7 DEF Proof
  <1>9. HealthTypes'
    <2>1. gateRun'.done \in Seq(Proof)
      BY <1>3, <1>5, <1>8
    <2>2. gateRun' \in GateRun
      BY <1>2, <1>3, <1>5, <2>1 DEF GateRun
    <2> QED BY <1>1, <1>7, <2>2 DEF HealthInv, HealthTypes
  <1>10. AttemptFits'
    <2>1. /\ gateRun.attempt <= TriesAt(gateRun.gate)
          /\ gateRun.start <= gateClock
          /\ ProofsFit(gateRun.gate, gateRun.done, gateRun.start, gateClock)
      BY DEF HealthInv, AttemptFits
    <2>2. Len(gateRun'.done) = Len(gateRun.done) + 1
      BY <1>3, <1>5
    <2>3. ProofsFit(gateRun.gate, gateRun'.done, gateRun.start, gateClock')
      <3>1. SUFFICES ASSUME NEW k \in 1..(Len(gateRun.done) + 1)
                     PROVE  /\ gateRun'.done[k].check = ChecksAt(gateRun.gate)[k]
                            /\ gateRun'.done[k].at \in gateRun.start..gateClock'
        BY <2>2 DEF ProofsFit
      <3>2. CASE k \in 1..Len(gateRun.done)
        <4>1. gateRun'.done[k] = gateRun.done[k]
          BY <1>3, <1>5, <1>8, <3>2
        <4>2. ProofsFit(gateRun.gate, gateRun.done, gateRun.start, gateClock')
          BY <1>3, <1>7, <2>1, ProofsFitLater
        <4> QED BY <3>2, <4>1, <4>2 DEF ProofsFit
      <3>3. CASE k = Len(gateRun.done) + 1
        <4>1. gateRun'.done[k] = [check |-> NextCheck, at |-> gateClock']
          BY <1>3, <1>5, <1>8, <3>3
        <4> QED BY <1>3, <1>6, <1>7, <2>1, <3>3, <4>1
      <3> QED BY <1>6, <3>2, <3>3
    <2>4. Len(gateRun.done) + 1 # 0
      BY <1>6
    <2> QED BY <1>2, <1>3, <1>4, <1>5, <1>6, <1>7, <2>1, <2>2, <2>3, <2>4
            DEF AttemptFits
  <1>11. StartsInTime'
    BY <1>5 DEF HealthInv, StartsInTime
  <1>12. ResultsFit'
    BY <1>1, <1>3, <1>5 DEF HealthInv, ResultsFit
  <1> QED BY <1>9, <1>10, <1>11, <1>12 DEF HealthInv

LEMMA CheckFailsKeeps == ASSUME HealthInv, CheckFails PROVE HealthInv'
  <1>1. /\ Testing /\ ~AllDone /\ Retry
        /\ UNCHANGED <<hostPasses, flips, gateResults>>
    BY DEF CheckFails
  <1>2. /\ gateClock \in Nat /\ gateRun.start \in Nat
        /\ gateClock - gateRun.start <= Timeout + SlowRead
    BY DEF HealthInv, HealthTypes, AttemptFits, GateRun
  <1>3. /\ gateClock' \in Nat /\ gateClock <= gateClock'
        /\ gateClock' - gateRun.start <= Timeout + SlowRead
    <2>1. CASE UNCHANGED gateClock
      BY <1>2, <2>1
    <2>2. CASE /\ NextCheck \in Commands /\ Remaining > 0
               /\ \E d \in 0..Limit(NextCheck) : gateClock' = gateClock + d
      <3>1. PICK d \in 0..Limit(NextCheck) : gateClock' = gateClock + d
        BY <2>2
      <3> QED BY <1>1, <1>2, <2>2, <3>1, CheckTakes
    <2>3. CASE /\ NextCheck \notin Commands
               /\ \E d \in 0..SlowRead : gateClock' = gateClock + d
      <3>1. PICK d \in 0..SlowRead : gateClock' = gateClock + d
        BY <2>3
      <3> QED BY <1>1, <1>2, <2>3, <3>1, CheckTakes
    <2> QED BY <2>1, <2>2, <2>3 DEF CheckFails
  <1> QED BY <1>1, <1>3, RetryKeeps

LEMMA GateLateKeeps == ASSUME HealthInv, GateLate PROVE HealthInv'
  <1>1. gateClock' = gateClock /\ gateClock \in Nat
    BY DEF GateLate, HealthInv, HealthTypes
  <1>2. gateClock - gateRun.start <= Timeout + SlowRead
    BY DEF HealthInv, AttemptFits
  <1>3. gateClock' \in Nat /\ gateClock <= gateClock'
    BY <1>1
  <1>4. Testing /\ Retry /\ UNCHANGED <<hostPasses, flips, gateResults>>
    BY DEF GateLate
  <1> QED BY <1>1, <1>2, <1>3, <1>4, RetryKeeps

LEMMA CheckRefusesKeeps == ASSUME HealthInv, CheckRefuses PROVE HealthInv'
  <1>1. /\ gateRun \in GateRun /\ gateRun.verdict = "running"
        /\ gateRun' = [gateRun EXCEPT !.verdict = "refused"]
        /\ UNCHANGED <<hostPasses, flips, gateClock, gateResults>>
    BY DEF CheckRefuses, Testing, HealthInv, HealthTypes
  <1>2. /\ gateRun'.gate = gateRun.gate /\ gateRun'.attempt = gateRun.attempt
        /\ gateRun'.done = gateRun.done /\ gateRun'.start = gateRun.start
        /\ gateRun'.verdict = "refused" /\ gateRun' \in GateRun
    BY <1>1 DEF GateRun
  <1> QED BY <1>1, <1>2 DEF HealthInv, HealthTypes, AttemptFits, StartsInTime,
             ResultsFit, Testing

LEMMA HostChangesKeeps == ASSUME HealthInv, HostChanges PROVE HealthInv'
  <1>1. hostPasses' \subseteq AllChecks /\ flips' \in 0..MaxFlips
    BY HealthConstants DEF HostChanges, HealthInv, HealthTypes
  <1>2. UNCHANGED <<gateClock, gateRun, gateResults>>
    BY DEF HostChanges
  <1> QED BY <1>1, <1>2 DEF HealthInv, HealthTypes, AttemptFits, StartsInTime,
             ResultsFit, Testing

(* A gate is passed with the proofs of the attempt under way.               *)
LEMMA ResultIs ==
  ASSUME HealthInv, Testing, MayPass
  PROVE  /\ Result \in GateResult /\ ResultFits(gateRun.gate, Result)
         /\ gateClock - gateRun.start < Timeout
  <1>1. /\ gateRun \in GateRun /\ gateClock \in Nat
        /\ gateRun.gate \in 1..3 /\ gateRun.attempt \in 1..3 /\ gateRun.start \in Nat
        /\ gateRun.done \in Seq(Proof)
    BY DEF HealthInv, HealthTypes, GateRun
  <1>2. /\ Result.type = GateOrder[gateRun.gate] /\ Result.attempts = gateRun.attempt
        /\ Result.start = gateRun.start /\ Result.end = gateClock
        /\ Result.proofs = gateRun.done
    BY DEF Result, GateOf
  <1>3. Len(gateRun.done) = Len(ChecksAt(gateRun.gate))
    BY DEF MayPass, AllDone, GateOf, ChecksAt
  <1>4. gateClock - gateRun.start < Timeout
    BY <1>1, HealthConstants DEF MayPass, Remaining
  <1>5. /\ gateRun.attempt <= TriesAt(gateRun.gate)
        /\ ProofsFit(gateRun.gate, gateRun.done, gateRun.start, gateClock)
    BY DEF HealthInv, AttemptFits
  <1>6. gateRun.attempt \in 1..TriesAt(gateRun.gate)
    BY <1>1, <1>5, GatesAtMostThree
  <1>7. GateOrder[gateRun.gate] \in Gates
    BY <1>1, GatesNamed
  <1>8. Result \in GateResult
    BY <1>1, <1>7 DEF Result, GateResult, GateOf
  <1> QED BY <1>2, <1>3, <1>4, <1>5, <1>6, <1>8 DEF ResultFits

LEMMA GatePassesKeeps == ASSUME HealthInv, GatePasses PROVE HealthInv'
  <1>1. /\ Testing /\ MayPass /\ gateRun.verdict = "running"
        /\ gateResults' = Append(gateResults, Result)
        /\ UNCHANGED <<hostPasses, flips, gateClock>>
    BY DEF GatePasses, Testing
  <1>2. /\ gateRun \in GateRun /\ gateClock \in Nat
        /\ gateRun.gate \in 1..3 /\ gateRun.attempt \in 1..3 /\ gateRun.start \in Nat
        /\ gateRun.done \in Seq(Proof) /\ gateResults \in Seq(GateResult)
    BY DEF HealthInv, HealthTypes, GateRun
  <1>3. /\ Result \in GateResult /\ ResultFits(gateRun.gate, Result)
        /\ gateClock - gateRun.start < Timeout
    BY <1>1, ResultIs
  <1>4. Len(gateResults) = gateRun.gate - 1
    BY <1>1 DEF HealthInv, ResultsFit
  <1>5. /\ gateResults' \in Seq(GateResult) /\ Len(gateResults') = gateRun.gate
        /\ \A i \in 1..(gateRun.gate - 1) : gateResults'[i] = gateResults[i]
        /\ gateResults'[gateRun.gate] = Result
    BY <1>1, <1>2, <1>3, <1>4
  <1>6. \A i \in 1..Len(gateResults') : ResultFits(i, gateResults'[i])
    <2> SUFFICES ASSUME NEW i \in 1..gateRun.gate PROVE ResultFits(i, gateResults'[i])
      BY <1>5
    <2>1. CASE i = gateRun.gate
      BY <1>3, <1>5, <2>1
    <2>2. CASE i \in 1..(gateRun.gate - 1)
      <3>1. ResultFits(i, gateResults[i])
        BY <1>4, <2>2 DEF HealthInv, ResultsFit
      <3> QED BY <1>5, <2>2, <3>1
    <2> QED BY <1>2, <2>1, <2>2
  <1>7. CASE gateRun.gate = 3
    <2>1. gateRun' = [gateRun EXCEPT !.verdict = "passed"]
      BY <1>7, GatesAre DEF GatePasses
    <2>2. /\ gateRun'.gate = gateRun.gate /\ gateRun'.attempt = gateRun.attempt
          /\ gateRun'.done = gateRun.done /\ gateRun'.start = gateRun.start
          /\ gateRun'.verdict = "passed" /\ gateRun' \in GateRun
      BY <1>2, <2>1 DEF GateRun
    <2>3. ResultsFit'
      BY <1>5, <1>6, <1>7, <2>2 DEF ResultsFit
    <2> QED BY <1>1, <1>5, <2>2, <2>3
            DEF HealthInv, HealthTypes, AttemptFits, StartsInTime, Testing
  <1>8. CASE gateRun.gate < 3
    <2>1. gateRun' = [gate |-> gateRun.gate + 1, attempt |-> 1, done |-> <<>>,
                      start |-> gateClock, verdict |-> "running"]
      <3>1. gateRun.gate # Len(GateOrder)
        <4>1. gateRun.gate # 3
          BY <1>2, <1>8
        <4> QED BY <4>1, GatesAre
      <3>2. gateRun' = Begin(gateRun.gate + 1)
        BY <3>1 DEF GatePasses
      <3> QED BY <3>2 DEF Begin, FirstAttempt
    <2>2. gateRun.attempt = 1
      <3>1. gateRun.attempt <= 1
        BY <1>2, <1>8, GatesAtMostThree DEF HealthInv, AttemptFits
      <3> QED BY <1>2, <3>1
    <2>3. gateRun.gate + 1 \in 1..3
      BY <1>2, <1>8
    <2>4. gateRun' \in GateRun
      <3>1. <<>> \in Seq(Proof)
        OBVIOUS
      <3> QED BY <1>2, <2>1, <2>3, <3>1 DEF GateRun
    <2>5. /\ gateRun'.gate = gateRun.gate + 1 /\ gateRun'.attempt = 1
          /\ gateRun'.done = <<>> /\ gateRun'.start = gateClock
          /\ gateRun'.verdict = "running"
      BY <2>1
    <2>6. HealthTypes'
      BY <1>1, <1>5, <2>4 DEF HealthInv, HealthTypes
    <2>7. AttemptFits'
      <3>1. Len(gateRun'.done) = 0
        BY <2>5
      <3>2. ProofsFit(gateRun'.gate, gateRun'.done, gateRun'.start, gateClock')
        BY <3>1 DEF ProofsFit
      <3>3. gateClock' - gateRun'.start = 0 /\ gateRun'.start <= gateClock'
        <4>1. \A t \in Nat : t - t = 0 /\ t <= t
          OBVIOUS
        <4> QED BY <1>1, <1>2, <2>5, <4>1
      <3>4. /\ 1 <= TriesAt(gateRun'.gate) /\ 0 <= Len(ChecksAt(gateRun'.gate))
            /\ 0 <= Timeout /\ 0 <= Timeout + SlowRead
        <4>1. /\ TriesAt(gateRun.gate + 1) \in 1..3
              /\ Len(ChecksAt(gateRun.gate + 1)) \in 2..4
          BY <2>3, EveryGate
        <4>2. /\ \A t \in 1..3 : 1 <= t
              /\ \A l \in 2..4 : 0 <= l
          OBVIOUS
        <4>3. /\ 1 <= TriesAt(gateRun.gate + 1) /\ 0 <= Len(ChecksAt(gateRun.gate + 1))
          BY <4>1, <4>2
        <4>4. gateRun'.gate = gateRun.gate + 1
          BY <2>5
        <4>5. 0 <= Timeout /\ 0 <= Timeout + SlowRead
          BY HealthConstants
        <4> QED BY <4>3, <4>4, <4>5
      <3> QED BY <1>1, <2>5, <3>1, <3>2, <3>3, <3>4 DEF AttemptFits
    <2>8. StartsInTime'
      <3>1. gateRun.start <= (gateRun.gate - 1) * (Timeout + SlowRead)
        <4>1. gateRun.gate + gateRun.attempt - 2 = gateRun.gate - 1
          BY <1>2, <2>2
        <4> QED BY <4>1 DEF HealthInv, StartsInTime
      <3>2. gateClock <= gateRun.start + (Timeout + SlowRead)
        BY <1>2, <1>3, HealthConstants
      <3>3. gateClock <= (gateRun.gate - 1 + 1) * (Timeout + SlowRead)
        BY <1>2, <3>1, <3>2, HealthConstants, OneMore
      <3>4. gateRun'.gate + gateRun'.attempt - 2 = gateRun.gate - 1 + 1
        BY <1>2, <2>5
      <3> QED BY <2>5, <3>3, <3>4 DEF StartsInTime
    <2>9. ResultsFit'
      BY <1>2, <1>5, <1>6, <2>5 DEF ResultsFit
    <2> QED BY <2>6, <2>7, <2>8, <2>9 DEF HealthInv
  <1> QED BY <1>2, <1>7, <1>8

LEMMA HealthNextInv == HealthInv /\ [HealthNext]_healthVars => HealthInv'
  <1> SUFFICES ASSUME HealthInv, [HealthNext]_healthVars PROVE HealthInv'
    OBVIOUS
  <1>1. CASE CheckPasses
    BY <1>1, CheckPassesKeeps
  <1>2. CASE CheckFails
    BY <1>2, CheckFailsKeeps
  <1>3. CASE CheckRefuses
    BY <1>3, CheckRefusesKeeps
  <1>4. CASE GatePasses
    BY <1>4, GatePassesKeeps
  <1>5. CASE GateLate
    BY <1>5, GateLateKeeps
  <1>6. CASE HostChanges
    BY <1>6, HostChangesKeeps
  <1>7. CASE UNCHANGED healthVars
    BY <1>7 DEF healthVars, HealthInv, HealthTypes, AttemptFits, StartsInTime,
       ResultsFit, Testing
  <1> QED BY <1>1, <1>2, <1>3, <1>4, <1>5, <1>6, <1>7 DEF HealthNext

LEMMA HealthImpliesTypes == HealthInv => HealthTypeOK
  <1> SUFFICES ASSUME HealthInv PROVE HealthTypeOK
    OBVIOUS
  <1>1. /\ hostPasses \subseteq AllChecks /\ flips \in 0..MaxFlips /\ gateClock \in Nat
        /\ gateRun \in GateRun
    BY DEF HealthInv, HealthTypes
  <1>2. /\ gateRun.gate \in 1..3 /\ gateRun.attempt \in 1..3
        /\ gateRun.verdict \in {"running", "passed", "failed", "refused"}
    BY <1>1 DEF GateRun
  <1>3. /\ gateRun.attempt <= TriesAt(gateRun.gate)
        /\ Len(gateRun.done) <= Len(ChecksAt(gateRun.gate))
    BY DEF HealthInv, AttemptFits
  <1>4. TriesAt(gateRun.gate) \in 1..3
    BY <1>1, GatesAtMostThree
  <1>5. gateRun.attempt \in 1..TriesAt(gateRun.gate)
    BY <1>2, <1>3, <1>4
  <1>6. Len(gateResults) <= 3
    BY <1>2 DEF HealthInv, ResultsFit
  <1> QED BY <1>1, <1>2, <1>3, <1>5, <1>6 DEF HealthTypeOK, TriesAt, ChecksAt, GateOf

LEMMA HealthImpliesResults == HealthInv => GateResultsHold
  <1> SUFFICES ASSUME HealthInv PROVE GateResultsHold
    OBVIOUS
  <1>1. /\ gateRun \in GateRun /\ gateRun.gate \in 1..3 /\ gateRun.attempt \in 1..3
        /\ gateRun.start \in Nat /\ gateClock \in Nat /\ gateResults \in Seq(GateResult)
    BY DEF HealthInv, HealthTypes, GateRun
  <1>2. Len(gateResults) \in 0..3
    BY <1>1 DEF HealthInv, ResultsFit
  <1>3. DOMAIN gateResults = 1..Len(gateResults)
    BY <1>1
  <1>4. \A i \in 1..Len(gateResults) : ResultFits(i, gateResults[i]) /\ i \in 1..3
    BY <1>2 DEF HealthInv, ResultsFit
  <1>5. PassedIsAccepted
    <2> SUFFICES ASSUME gateRun.verdict = "passed" PROVE AgentAccepts(gateResults)
      BY DEF PassedIsAccepted
    <2>1. Len(gateResults) = 3
      BY DEF HealthInv, ResultsFit
    <2> QED BY <1>3, <1>4, <2>1, GatesAre DEF AgentAccepts, ResultFits, ChecksAt, TriesAt
  <1>6. ProofsAreOfOneAttempt
    <2> SUFFICES ASSUME NEW i \in 1..Len(gateResults)
                 PROVE  /\ gateResults[i].end - gateResults[i].start < Timeout
                        /\ \A k \in DOMAIN gateResults[i].proofs :
                             /\ gateResults[i].proofs[k].check
                                  = Checks[gateResults[i].type][k]
                             /\ gateResults[i].proofs[k].at
                                  \in gateResults[i].start..gateResults[i].end
      BY <1>3 DEF ProofsAreOfOneAttempt
    <2>1. gateResults[i] \in GateResult
      BY <1>1
    <2>2. DOMAIN gateResults[i].proofs = 1..Len(gateResults[i].proofs)
      BY <2>1 DEF GateResult
    <2> QED BY <1>4, <2>2 DEF ResultFits, ProofsFit, ChecksAt
  <1>7. PlanEndsInTime
    <2>1. gateRun.start <= (gateRun.gate + gateRun.attempt - 2) * (Timeout + SlowRead)
      BY DEF HealthInv, StartsInTime
    <2>2. gateClock - gateRun.start <= Timeout + SlowRead
      BY DEF HealthInv, AttemptFits
    <2>3. gateClock <= gateRun.start + (Timeout + SlowRead)
      BY <1>1, <2>2, HealthConstants
    <2>4. gateClock <= (gateRun.gate + gateRun.attempt - 2 + 1) * (Timeout + SlowRead)
      <3>1. /\ gateRun.gate + gateRun.attempt - 2 \in Int /\ Timeout + SlowRead \in Int
            /\ gateRun.start \in Int /\ gateClock \in Int
        BY <1>1, HealthConstants
      <3> DEFINE n == gateRun.gate + gateRun.attempt - 2
                 t == Timeout + SlowRead
      <3>2. n \in Int /\ t \in Int /\ gateRun.start <= n * t /\ gateClock <= gateRun.start + t
        BY <2>1, <2>3, <3>1
      <3> HIDE DEF n, t
      <3>3. gateClock <= (n + 1) * t
        BY <3>1, <3>2, OneMore
      <3> QED BY <3>3 DEF n, t
    <2>5. gateRun.gate - 1 + gateRun.attempt = gateRun.gate + gateRun.attempt - 2 + 1
      BY <1>1
    <2> QED BY <2>2, <2>4, <2>5 DEF PlanEndsInTime
  <1> QED BY <1>5, <1>6, <1>7 DEF GateResultsHold

LEMMA HealthInvAlways == HealthSpec => []HealthInv
  BY HealthInitInv, HealthNextInv, PTL DEF HealthSpec

(* Whatever the host answers and however long it takes, gate, attempt,      *)
(* verdict and proofs are what _execute_signed_health_plan can be at.       *)
THEOREM HealthTypesHold == HealthSpec => []HealthTypeOK
  BY HealthInvAlways, HealthImpliesTypes, PTL

(* _execute_signed_health_plan reports true results: the proofs of a passed *)
(* gate are of one attempt within its deadline, a passed plan is accepted   *)
(* by _validate_health_gate_results, and the plan takes no longer than its  *)
(* attempts may.                                                            *)
THEOREM GateResultsAlwaysHold == HealthSpec => []GateResultsHold
  BY HealthInvAlways, HealthImpliesResults, PTL

-----------------------------------------------------------------------------

(* Every behaviour of the machine is one of each part, which goes on or     *)
(* stands still: what is proved of a part holds of the machine.             *)
THEOREM PartsRunTheirSpecs ==
  EdgeSpec => AgentSpec /\ PublicationSpec /\ HealthSpec /\ BootstrapSpec
  <1>1. EdgeInit => AgentInit /\ PublicationInit /\ HealthInit /\ BootstrapInit
    BY DEF EdgeInit
  <1>2. [EdgeNext]_partVars =>
          /\ [AgentNext]_agentVars /\ [PublicationNext]_publicationVars
          /\ [HealthNext]_healthVars /\ [BootstrapNext]_bootstrapVars
    BY DEF EdgeNext, partVars
  <1> QED BY <1>1, <1>2, PTL DEF EdgeSpec, AgentSpec, PublicationSpec, HealthSpec,
                                 BootstrapSpec

(* The types of all four parts hold in the machine that runs any of them.   *)
THEOREM EdgeTypesHold == EdgeSpec => []EdgeTypesOK
  <1>1. AgentTypeOK /\ PublicationTypeOK /\ HealthTypeOK /\ BootstrapTypeOK => EdgeTypesOK
    BY DEF EdgeTypesOK
  <1> QED BY <1>1, PartsRunTheirSpecs, AgentTypeCorrect, PublicationTypesHold,
             HealthTypesHold, BootstrapTypesHold, PTL
=============================================================================
