----------------------- MODULE CredentialRotationProofs ------------------------
(***************************************************************************)
(* Proofs about CredentialRotation, for all file sets, generations and     *)
(* numbers of upsets: the type invariant, and every part of                *)
(* CredentialsAreSound.                                                    *)
(***************************************************************************)
EXTENDS CredentialRotation, TLAPS

(* What a helper does next, field by field.                                 *)
LEMMA GoToFields ==
  ASSUME RotationAssumption, rotation \in Rotations, NEW p \in Places
  PROVE  /\ GoTo(p) \in Rotations
         /\ GoTo(p).who = Helper /\ GoTo(p).at = p /\ GoTo(p).todo = Mine
         /\ GoTo(p).phase = rotation.phase /\ GoTo(p).why = rotation.why
         /\ GoTo(p).wasActive = rotation.wasActive /\ GoTo(p).answer = rotation.answer
  BY DEF GoTo, Rotations, Helper, Mine, FilesOf, Credentials, Helpers

(* A helper that ends keeps everything but its place and its answer.        *)
LEMMA EndedFields ==
  ASSUME rotation \in Rotations, NEW a \in RotationAnswers
  PROVE  /\ Ended(a) \in Rotations
         /\ Ended(a).who = Helper /\ Ended(a).at = "idle" /\ Ended(a).answer = a
         /\ Ended(a).todo = rotation.todo /\ Ended(a).why = rotation.why
  BY DEF Ended, Rotations, Helper

(* One file less to do, at the same place.                                  *)
LEMMA WithoutFields ==
  ASSUME rotation \in Rotations, NEW f
  PROVE  /\ Without(f) \in Rotations
         /\ Without(f).who = Helper /\ Without(f).at = rotation.at
         /\ Without(f).todo = rotation.todo \ {f}
         /\ Without(f).phase = rotation.phase /\ Without(f).why = rotation.why
         /\ Without(f).wasActive = rotation.wasActive
  BY DEF Without, Rotations, Helper

(* The work of a phase is done and its successor is to be journalled.       *)
LEMMA NotingFields ==
  ASSUME RotationAssumption, rotation \in Rotations
  PROVE  /\ Noting \in Rotations
         /\ Noting.who = Helper /\ Noting.at = "note" /\ Noting.todo = Mine
         /\ Noting.phase = PhaseAfter(rotation.phase) /\ Noting.why = rotation.why
         /\ Noting.wasActive = rotation.wasActive
<1>1. PhaseAfter(rotation.phase) \in RotationPhases
  BY DEF PhaseAfter, RotationPhases
<1> HIDE DEF PhaseAfter
<1>2. GoTo("note") \in Rotations
  BY GoToFields DEF Places
<1> QED
  BY <1>1, <1>2, GoToFields DEF Noting, Rotations, Places

(* An exception in the protected block leads to the restore, any other out. *)
LEMMA ErrorFields ==
  ASSUME RotationAssumption, rotation \in Rotations, NEW j,
         rotation.at \in {"work", "note"} /\ Helper = "fixture" =>
           j[Helper].phase \in RotationPhases
  PROVE  /\ AfterError(j) \in Rotations
         /\ AfterError(j).who = Helper
         /\ rotation.at \in {"work", "note"} =>
              /\ AfterError(j).at = "recover" /\ AfterError(j).why = "undo"
              /\ AfterError(j).wasActive = rotation.wasActive
              /\ AfterError(j).todo = Mine
              /\ AfterError(j).phase =
                   IF Helper = "fixture" THEN j[Helper].phase ELSE rotation.phase
         /\ rotation.at \notin {"work", "note"} =>
              AfterError(j).at = "idle" /\ AfterError(j).answer = "rejected"
<1>1. CASE rotation.at \in {"work", "note"}
  <2> DEFINE r == GoTo("recover")
             p == IF Helper = "fixture" THEN j[Helper].phase ELSE rotation.phase
  <2>1. /\ r \in Rotations /\ r.who = Helper /\ r.at = "recover" /\ r.todo = Mine
        /\ r.phase = rotation.phase /\ r.wasActive = rotation.wasActive
    BY GoToFields DEF Places
  <2>2. p \in RotationPhases
    BY <1>1 DEF Rotations
  <2>3. AfterError(j) = [r EXCEPT !.why = "undo", !.phase = p]
    BY <1>1, <2>1 DEF AfterError
  <2> HIDE DEF r, p
  <2>4. /\ AfterError(j) \in Rotations
        /\ AfterError(j).who = Helper
        /\ AfterError(j).at = "recover" /\ AfterError(j).why = "undo"
        /\ AfterError(j).wasActive = rotation.wasActive
        /\ AfterError(j).todo = Mine /\ AfterError(j).phase = p
    BY <2>1, <2>2, <2>3 DEF Rotations
  <2> QED
    BY <1>1, <2>4 DEF p
<1>2. CASE rotation.at \notin {"work", "note"}
  BY <1>2, EndedFields DEF AfterError, RotationAnswers
<1> QED
  BY <1>1, <1>2

Open(h) == txn[h] # Absent
Undoing(h) == Open(h) /\ txn[h].phase # "HEALTHY"

(* Where the helper is agrees with its journal and with what is staged.     *)
PlacesAgree ==
  /\ \A h \in Helpers : incoming[h] \in {Absent, staged[h]} /\ issued[h] <= staged[h]
  /\ Busy => rotation.todo \subseteq Mine
  /\ rotation.at \in {"check", "copy", "prepare", "dropIncoming"} => ~Open(Helper)
  /\ rotation.at \in {"copy", "prepare", "work", "note", "evidence"} => incoming[Helper] # Absent
  /\ rotation.at \in {"recover", "putBack", "checkBack", "work", "note"} =>
       Open(Helper) /\ rotation.wasActive = txn[Helper].wasActive
  /\ rotation.at \in {"clean", "dropJournal", "evidence"} => Open(Helper)
  /\ AtPlace("recover") /\ rotation.phase # "HEALTHY" => Undoing(Helper)
  /\ rotation.at \in {"putBack", "checkBack"} => Undoing(Helper)
  /\ AtPlace("work") => Undoing(Helper) /\ rotation.phase = txn[Helper].phase
  /\ AtPlace("note") => Undoing(Helper) /\ rotation.phase = PhaseAfter(txn[Helper].phase)
  /\ AtPlace("evidence") => ~Undoing(Helper)
  /\ rotation.at \in {"work", "note", "evidence", "dropIncoming"} => rotation.why = "rotate"
  /\ rotation.at \in {"recover", "putBack", "checkBack"} => rotation.why # "rotate"
  /\ rotation.at \in {"clean", "dropJournal"} /\ rotation.why = "rotate" => ~Undoing(Helper)

(* OpenSIPS is down wherever live files or the authority may change.        *)
StoppedToChange ==
  /\ rotation.at \in {"putBack", "checkBack"} => loaded = Absent
  /\ AtPlace("work") /\ rotation.phase \notin {"PREPARED", "AUTHORITY_RECONCILED"} =>
       loaded = Absent
  /\ AtPlace("note") /\ rotation.phase # "HEALTHY" => loaded = Absent

(* How far the new files are in.                                            *)
FilesAreIn ==
  /\ Working("SERVICE_STOPPED") => \A f \in Mine \ rotation.todo : pem[f] = staged[Helper]
  /\ \/ AtPlace("work") /\ rotation.phase \in {"INSTALLED", "AUTHORITY_RECONCILED"}
     \/ AtPlace("note") /\ rotation.phase \in {"INSTALLED", "AUTHORITY_RECONCILED", "HEALTHY"}
     \/ rotation.at \in {"evidence", "dropIncoming"}
     \/ rotation.at \in {"clean", "dropJournal"} /\ rotation.why = "rotate"
     => \A f \in Mine : pem[f] = staged[Helper]

(* A backup that may be put back is not older than the evidence.            *)
BackupsAreRecent ==
  /\ EvidenceStands
  /\ AtPlace("copy") => \A f \in Mine \ rotation.todo : backup[f] = pem[f]
  /\ AtPlace("prepare") => \A f \in Mine : backup[f] = pem[f]
  /\ \A h \in Helpers : Undoing(h) =>
       \A f \in FilesOf(h) : backup[f] # Absent => issued[h] <= backup[f]

Served ==
  /\ pem = pins /\ loaded = pem
  /\ \A h \in Helpers : OneGeneration(h)

(* The backups of h are all there.                                          *)
BackedUp(h) ==
  backupPins[h] # Absent /\ \A f \in FilesOf(h) : backup[f] = backupPins[h][f]

(* An open journal that is not HEALTHY: the other helper's files are        *)
(* untouched, and what is left of the backups is one consistent state.      *)
CanBeUndone(h) ==
  /\ txn[h].wasActive
  /\ OneGeneration(OtherHelper(h))
  /\ \A f \in FilesOf(OtherHelper(h)) : pem[f] = pins[f]
  /\ backupPins[h] # Absent =>
       /\ \A f \in FilesOf(OtherHelper(h)) : backupPins[h][f] = pem[f]
       /\ \A f \in FilesOf(h) : backup[f] \in {Absent, backupPins[h][f]}
       /\ \A f, g \in FilesOf(h) : backupPins[h][f] = backupPins[h][g]

(* While no journal has been opened over another.                           *)
JournalsHold ==
  /\ \A h \in Helpers : Open(h) => ~Open(OtherHelper(h))
  /\ (\A h \in Helpers : ~Open(h)) => Served
  /\ \A h \in Helpers : Open(h) /\ ~Undoing(h) => Served
  /\ \A h \in Helpers : Undoing(h) => CanBeUndone(h)

(* What the place of the helper adds.                                       *)
PlacesHold ==
  /\ rotation.at \in {"clean", "dropJournal", "evidence"} => Served
  /\ AtPlace("recover") /\ rotation.phase = "HEALTHY" => Served
  /\ AtPlace("note") /\ rotation.phase = "HEALTHY" => Served
  /\ rotation.at \in {"copy", "prepare"} => pem = pins
  /\ AtPlace("prepare") => backupPins[Helper] = pins
  /\ AtPlace("putBack") => \A f \in Mine \ rotation.todo :
       backup[f] # Absent /\ (backupPins[Helper] # Absent => pem[f] = backupPins[Helper][f])
  /\ AtPlace("checkBack") => pem = pins /\ \A h \in Helpers : OneGeneration(h)
  /\ rotation.at \in {"work", "note"} => BackedUp(Helper)
  /\ Working("AUTHORITY_RECONCILED") => pem = pins
  /\ AtPlace("note") /\ rotation.phase = "AUTHORITY_RECONCILED" => pem = pins

RotationInv ==
  /\ RotationTypeOK /\ PlacesAgree /\ StoppedToChange /\ FilesAreIn /\ BackupsAreRecent
  /\ overtook \/ (JournalsHold /\ PlacesHold)

--------------------------------------------------------------------------------
(* The ways a step moves the helper.                                        *)

Keeps == rotation' \in Rotations /\ rotation'.who = Helper

Moves(place) ==
  /\ Keeps /\ rotation'.at = place /\ rotation'.todo = Mine
  /\ rotation'.phase = rotation.phase /\ rotation'.why = rotation.why
  /\ rotation'.wasActive = rotation.wasActive

Shrinks(f) ==
  /\ Keeps /\ rotation'.at = rotation.at /\ rotation'.todo = rotation.todo \ {f}
  /\ rotation'.phase = rotation.phase /\ rotation'.why = rotation.why
  /\ rotation'.wasActive = rotation.wasActive

Notes ==
  /\ Keeps /\ rotation'.at = "note" /\ rotation'.todo = Mine
  /\ rotation'.phase = PhaseAfter(rotation.phase) /\ rotation'.why = rotation.why
  /\ rotation'.wasActive = rotation.wasActive

Undoes ==
  /\ Keeps /\ rotation'.at = "recover" /\ rotation'.todo = Mine
  /\ rotation'.why = "undo" /\ rotation'.wasActive = rotation.wasActive
  /\ rotation'.phase = IF Helper = "fixture" THEN txn'[Helper].phase ELSE rotation.phase

Stops(answer) == Keeps /\ rotation'.at = "idle" /\ rotation'.answer = answer

(* An action that goes on to a place outside the protected block of main    *)
(* gets there, or out of the helper.                                        *)
LEMMA GoOnTo ==
  ASSUME RotationAssumption, RotationTypeOK, NEW p \in Places, GoOn(GoTo(p)),
         rotation.at \notin {"work", "note"}
  PROVE  (Moves(p) \/ Stops("rejected")) /\ upsets' \in 0..MaxUpsets
<1>1. rotation \in Rotations
  BY DEF RotationTypeOK
<1> QED
  BY <1>1, GoToFields, ErrorFields DEF GoOn, Upset, Moves, Stops, Keeps, RotationTypeOK,
     RotationAssumption

(* After one file the helper takes the next, or raises.                     *)
LEMMA GoOnWithout ==
  ASSUME RotationAssumption, RotationTypeOK, NEW f, GoOn(Without(f)),
         rotation.at \notin {"work", "note"}
  PROVE  (Shrinks(f) \/ Stops("rejected")) /\ upsets' \in 0..MaxUpsets
<1>1. rotation \in Rotations
  BY DEF RotationTypeOK
<1> QED
  BY <1>1, WithoutFields, ErrorFields DEF GoOn, Upset, Shrinks, Stops, Keeps,
     RotationTypeOK, RotationAssumption

(* After its last step a helper ends, or raises.                            *)
LEMMA GoOnEnded ==
  ASSUME RotationAssumption, RotationTypeOK, NEW a \in RotationAnswers, GoOn(Ended(a)),
         rotation.at \notin {"work", "note"}
  PROVE  (Stops(a) \/ Stops("rejected")) /\ upsets' \in 0..MaxUpsets
<1>1. rotation \in Rotations
  BY DEF RotationTypeOK
<1> QED
  BY <1>1, EndedFields, ErrorFields DEF GoOn, Upset, Stops, Keeps, RotationTypeOK,
     RotationAssumption

(* Inside the protected block an exception leads to the restore.            *)
LEMMA GoOnInside ==
  ASSUME RotationAssumption, RotationTypeOK, NEW next, GoOn(next),
         rotation.at \in {"work", "note"}, txn'[Helper].phase \in RotationPhases
  PROVE  (rotation' = next \/ Undoes) /\ upsets' \in 0..MaxUpsets
<1>1. rotation \in Rotations
  BY DEF RotationTypeOK
<1>2. /\ AfterError(txn') \in Rotations /\ AfterError(txn').who = Helper
      /\ AfterError(txn').at = "recover" /\ AfterError(txn').why = "undo"
      /\ AfterError(txn').wasActive = rotation.wasActive /\ AfterError(txn').todo = Mine
      /\ AfterError(txn').phase = IF Helper = "fixture" THEN txn'[Helper].phase ELSE rotation.phase
  BY <1>1, ErrorFields
<1> QED
  BY <1>2 DEF GoOn, Upset, Undoes, Keeps, RotationTypeOK, RotationAssumption

(* Going on without an effect that may raise: to another place ...          *)
LEMMA GoMoves ==
  ASSUME RotationAssumption, RotationTypeOK, NEW p \in Places, Go(GoTo(p))
  PROVE  Moves(p) /\ upsets' \in 0..MaxUpsets
<1>1. rotation \in Rotations
  BY DEF RotationTypeOK
<1> QED
  BY <1>1, GoToFields DEF Go, Moves, Keeps, RotationTypeOK

(* ... or out of the helper.                                                *)
LEMMA GoStops ==
  ASSUME RotationAssumption, RotationTypeOK, NEW a \in RotationAnswers, Go(Ended(a))
  PROVE  Stops(a) /\ upsets' \in 0..MaxUpsets
<1>1. rotation \in Rotations
  BY DEF RotationTypeOK
<1> QED
  BY <1>1, EndedFields DEF Go, Stops, Keeps, RotationTypeOK

(* The running helper and its files are among the helpers and credentials.  *)
LEMMA HelperFacts ==
  ASSUME RotationAssumption
  PROVE  \A h \in Helpers :
           /\ OtherHelper(h) \in Helpers /\ OtherHelper(h) # h
           /\ OtherHelper(OtherHelper(h)) = h
           /\ \A k \in Helpers : k \in {h, OtherHelper(h)}
           /\ FilesOf(h) \subseteq Credentials
           /\ \A f \in FilesOf(h) : f \notin FilesOf(OtherHelper(h))
           /\ \A f \in Credentials : f \in FilesOf(h) \/ f \in FilesOf(OtherHelper(h))
  BY DEF RotationAssumption, Helpers, OtherHelper, FilesOf, Credentials

(* The types a step of the helper relies on.                                *)
LEMMA HelperTypes ==
  ASSUME RotationAssumption, RotationTypeOK
  PROVE  /\ rotation \in Rotations /\ Helper \in Helpers
         /\ rotation.phase \in RotationPhases /\ rotation.wasActive \in BOOLEAN
         /\ rotation.todo \subseteq Credentials /\ Mine \subseteq Credentials
         /\ \A f \in Credentials : pem[f] \in Generations /\ pins[f] \in Generations
         /\ \A f \in Credentials : backup[f] \in Generations \cup {Absent}
         /\ \A h \in Helpers : /\ incoming[h] \in Generations \cup {Absent}
                              /\ backupPins[h] \in PinSets \cup {Absent}
                              /\ txn[h] \in Journal \cup {Absent}
                              /\ staged[h] \in Nat /\ issued[h] \in Nat
         /\ Absent \notin Generations /\ Absent \notin PinSets /\ Absent \notin Journal
         /\ Generations \subseteq Nat
<1>1. rotation \in Rotations /\ Helper \in Helpers /\ rotation.todo \subseteq Credentials
      /\ rotation.phase \in RotationPhases /\ rotation.wasActive \in BOOLEAN
  BY DEF RotationTypeOK, Rotations, Helper
<1>2. Mine \subseteq Credentials
  BY <1>1, HelperFacts DEF Mine
<1>3. Generations \subseteq Nat
  BY DEF Generations, RotationAssumption
<1> QED
  BY <1>1, <1>2, <1>3 DEF RotationTypeOK, RotationAssumption, PinSets

(* What CredentialsAreSound asks of a step.                                 *)
StepIsSafe ==
  /\ pem' # pem \/ pins' # pins => loaded = Absent /\ loaded' = Absent
  /\ (Busy /\ ~Busy' /\ rotation'.answer \in {"restored", "unchanged", "rotated"}
        /\ ~overtook /\ txn[OtherHelper(Helper)] = Absent) =>
       /\ pem' = pins' /\ loaded' = pem' /\ OneGeneration(Helper)'
       /\ rotation'.answer # "restored" => \A f \in Mine : pem'[f] = staged[Helper]

Prepared ==
  /\ Keeps /\ rotation'.at = "work" /\ rotation'.todo = Mine
  /\ rotation'.why = "rotate" /\ rotation'.phase = "PREPARED"
  /\ rotation'.wasActive = (loaded # Absent)

(* BeginRestore keeps the invariant. *)
LEMMA BeginRestoreKeeps ==
  ASSUME RotationAssumption, RotationInv, BeginRestore PROVE RotationInv' /\ StepIsSafe
<1> USE DEF RotationInv
<1>1. (Moves("putBack") \/ Stops("rejected")) /\ upsets' \in 0..MaxUpsets
  BY GoOnTo DEF BeginRestore, AtPlace, Places
<1>3. RotationTypeOK'
  BY <1>1 DEF BeginRestore, Moves, Stops, Keeps, AtPlace, Busy, RotationTypeOK, PlacesAgree,
     Credentials, Mine, FilesOf, Helper
<1>4. PlacesAgree'
  BY <1>1 DEF BeginRestore, Moves, Stops, Keeps, AtPlace, Busy, PlacesAgree, RotationTypeOK,
     Open, Undoing, Helper, Mine, FinalizeNew, PhaseAfter
<1>5. StoppedToChange'
  BY <1>1 DEF BeginRestore, Moves, Stops, Keeps, AtPlace, StoppedToChange
<1>6. FilesAreIn'
  BY <1>1 DEF BeginRestore, Moves, Stops, Keeps, AtPlace, Busy, Working, FilesAreIn,
     PlacesAgree, RotationTypeOK, PhaseAfter, Helper, Mine, Credentials, FilesOf
<1>7. BackupsAreRecent'
  BY <1>1 DEF BeginRestore, Moves, Stops, Keeps, AtPlace, Busy, BackupsAreRecent,
     EvidenceStands, PlacesAgree, RotationTypeOK, Open, Undoing, Helper, Mine, Credentials,
     FilesOf
<1>8. ASSUME ~overtook' PROVE JournalsHold'
  BY <1>1, <1>8, HelperTypes, HelperFacts DEF BeginRestore, Moves, Stops, Keeps, AtPlace,
     Busy, Working, JournalsHold, PlacesHold, PlacesAgree, Served, OneGeneration,
     CanBeUndone, FinalizeNew, RotationTypeOK, Open, Undoing, Mine
<1>9. ASSUME ~overtook' PROVE PlacesHold'
  BY <1>1, <1>9 DEF BeginRestore, Moves, Stops, Keeps, AtPlace, Busy, Working, JournalsHold,
     PlacesHold, PlacesAgree, StoppedToChange, FilesAreIn, Served, OneGeneration,
     CanBeUndone, BackedUp, FinalizeNew, RotationTypeOK, Open, Undoing, OtherHelper,
     Helpers, Helper, Mine, Credentials, FilesOf, PhaseAfter
<1>10. StepIsSafe
  BY <1>1 DEF BeginRestore, Moves, Stops, Keeps, AtPlace, Busy, StepIsSafe, PlacesAgree,
     StoppedToChange, RotationTypeOK, Helper
<1> QED
  BY <1>3, <1>4, <1>5, <1>6, <1>7, <1>8, <1>9, <1>10

(* FinalizeHealthy keeps the invariant. *)
LEMMA FinalizeHealthyKeeps ==
  ASSUME RotationAssumption, RotationInv, FinalizeHealthy PROVE RotationInv' /\ StepIsSafe
<1> USE DEF RotationInv
<1>1. /\ \/ Helper = "certificate" /\ Moves("dropJournal")
         \/ pem = pins /\ Moves("clean")
         \/ Stops("rejected")
      /\ upsets' \in 0..MaxUpsets
  BY GoMoves, GoStops DEF FinalizeHealthy, AtPlace, Places, RotationAnswers
<1>3. RotationTypeOK'
  BY <1>1 DEF FinalizeHealthy, Moves, Stops, Keeps, AtPlace, Busy, disk, RotationTypeOK,
     PlacesAgree, Credentials, Mine, FilesOf, Helper
<1>4. PlacesAgree'
  BY <1>1 DEF FinalizeHealthy, Moves, Stops, Keeps, AtPlace, Busy, disk, PlacesAgree,
     RotationTypeOK, Open, Undoing, Helper, Mine, FinalizeNew, PhaseAfter
<1>5. StoppedToChange'
  BY <1>1 DEF FinalizeHealthy, Moves, Stops, Keeps, AtPlace, disk, StoppedToChange
<1>6. FilesAreIn'
  BY <1>1 DEF FinalizeHealthy, Moves, Stops, Keeps, AtPlace, Busy, Working, disk,
     FilesAreIn, PlacesAgree, RotationTypeOK, PhaseAfter, Helper, Mine, Credentials, FilesOf
<1>7. BackupsAreRecent'
  BY <1>1 DEF FinalizeHealthy, Moves, Stops, Keeps, AtPlace, Busy, disk, BackupsAreRecent,
     EvidenceStands, PlacesAgree, RotationTypeOK, Open, Undoing, Helper, Mine, Credentials,
     FilesOf
<1>8. ASSUME ~overtook' PROVE JournalsHold'
  BY <1>1, <1>8 DEF FinalizeHealthy, Moves, Stops, Keeps, AtPlace, Busy, Working, disk,
     JournalsHold, PlacesHold, PlacesAgree, Served, OneGeneration, CanBeUndone, FinalizeNew,
     RotationTypeOK, Open, Undoing, OtherHelper, Helpers, Helper, Mine, Credentials, FilesOf
<1>9. ASSUME ~overtook' PROVE PlacesHold'
  BY <1>1, <1>9, HelperTypes, HelperFacts DEF FinalizeHealthy, Moves, Stops, Keeps, AtPlace,
     Busy, Working, disk, JournalsHold, PlacesHold, PlacesAgree, StoppedToChange,
     FilesAreIn, Served, OneGeneration, CanBeUndone, BackedUp, FinalizeNew, RotationTypeOK,
     Open, Undoing, Mine, PhaseAfter, Helper
<1>10. StepIsSafe
  BY <1>1 DEF FinalizeHealthy, Moves, Stops, Keeps, AtPlace, Busy, disk, StepIsSafe,
     PlacesAgree, StoppedToChange, RotationTypeOK, Helper
<1> QED
  BY <1>3, <1>4, <1>5, <1>6, <1>7, <1>8, <1>9, <1>10

(* PutBackFile keeps the invariant. *)
LEMMA PutBackFileKeeps ==
  ASSUME RotationAssumption, RotationInv, NEW f \in Credentials, PutBackFile(f)
  PROVE  RotationInv' /\ StepIsSafe
<1> USE DEF RotationInv
<1>1. (Shrinks(f) \/ Stops("rejected")) /\ upsets' \in 0..MaxUpsets
  BY GoOnWithout DEF PutBackFile, AtPlace
<1>2. /\ f \in Mine /\ backup[f] \in Generations
      /\ pem' \in PinSets /\ pem'[f] = backup[f]
      /\ \A g \in Credentials : g # f => pem'[g] = pem[g]
      /\ \A g \in FilesOf(OtherHelper(Helper)) : pem'[g] = pem[g]
      /\ Undoing(Helper)
  BY HelperTypes, HelperFacts DEF PutBackFile, RotationTypeOK, PinSets, PlacesAgree,
     AtPlace, Busy, Mine
<1>3. RotationTypeOK'
  BY <1>1, <1>2, HelperTypes, HelperFacts DEF PutBackFile, Shrinks, Stops, Keeps, AtPlace,
     RotationTypeOK, PinSets, Journal
<1>4. PlacesAgree'
  BY <1>1, <1>2 DEF PutBackFile, Shrinks, Stops, Keeps, AtPlace, Busy, PlacesAgree,
     RotationTypeOK, Open, Undoing, Helper, Mine, PhaseAfter
<1>5. StoppedToChange'
  BY <1>1, <1>2 DEF PutBackFile, Shrinks, Stops, Keeps, AtPlace, StoppedToChange
<1>6. FilesAreIn'
  BY <1>1, <1>2 DEF PutBackFile, Shrinks, Stops, Keeps, AtPlace, Busy, Working, FilesAreIn,
     PlacesAgree, RotationTypeOK, PhaseAfter, Helper, Mine, Credentials, FilesOf
<1>7. BackupsAreRecent'
  <2>1. ASSUME NEW h \in Helpers, NEW g \in FilesOf(h) PROVE issued'[h] <= pem'[g]
    <3>1. issued'[h] = issued[h] /\ issued[h] <= pem[g] /\ g \in Credentials
      BY <2>1, HelperFacts DEF PutBackFile, BackupsAreRecent, EvidenceStands
    <3>2. CASE g = f
      <4>1. h = Helper
        BY <1>2, <2>1, <3>2, HelperTypes, HelperFacts DEF Mine
      <4> QED
        BY <1>2, <3>1, <3>2, <4>1, HelperTypes DEF PutBackFile, BackupsAreRecent,
           PlacesAgree, Mine
    <3> QED
      BY <1>2, <3>1, <3>2
  <2>2. \A h \in Helpers : Undoing(h)' <=> Undoing(h)
    BY DEF PutBackFile, Undoing, Open
  <2> QED
    BY <1>1, <1>2, <2>1, <2>2 DEF PutBackFile, BackupsAreRecent, EvidenceStands, Shrinks,
       Stops, AtPlace
<1>8. ASSUME ~overtook' PROVE JournalsHold'
  BY <1>1, <1>2, <1>8, HelperTypes, HelperFacts DEF PutBackFile, Shrinks, Stops, Keeps,
     AtPlace, Busy, Working, JournalsHold, PlacesHold, PlacesAgree, Served, OneGeneration,
     CanBeUndone, RotationTypeOK, Open, Undoing, Mine
<1>9. ASSUME ~overtook' PROVE PlacesHold'
  BY <1>1, <1>2, <1>9, HelperTypes, HelperFacts DEF PutBackFile, Shrinks, Stops, Keeps,
     AtPlace, Busy, Working, JournalsHold, PlacesHold, PlacesAgree, StoppedToChange,
     FilesAreIn, Served, OneGeneration, CanBeUndone, BackedUp, RotationTypeOK, Open,
     Undoing, Mine, PhaseAfter, Helper
<1>10. StepIsSafe
  BY <1>1, <1>2 DEF PutBackFile, Shrinks, Stops, Keeps, AtPlace, Busy, StepIsSafe,
     PlacesAgree, StoppedToChange, RotationTypeOK, Helper
<1> QED
  BY <1>3, <1>4, <1>5, <1>6, <1>7, <1>8, <1>9, <1>10

(* PutBackPins keeps the invariant. *)
LEMMA PutBackPinsKeeps ==
  ASSUME RotationAssumption, RotationInv, PutBackPins PROVE RotationInv' /\ StepIsSafe
<1> USE DEF RotationInv
<1>1. (Moves("checkBack") \/ Stops("rejected")) /\ upsets' \in 0..MaxUpsets
  BY GoOnTo DEF PutBackPins, AtPlace, Places
<1>2. pins' \in PinSets /\ Undoing(Helper) /\ (~overtook => pins' = pem)
  <2>1. pins' = backupPins[Helper] /\ pins' \in PinSets /\ Undoing(Helper)
    BY HelperTypes DEF PutBackPins, AtPlace, PlacesAgree
  <2>2. ASSUME ~overtook, NEW f \in Credentials PROVE pins'[f] = pem[f]
    BY <2>1, <2>2, HelperTypes, HelperFacts DEF PutBackPins, AtPlace, PlacesHold,
       JournalsHold, CanBeUndone, Mine
  <2>3. pem \in PinSets
    BY DEF RotationTypeOK
  <2> QED
    BY <2>1, <2>2, <2>3 DEF PinSets
<1>3. RotationTypeOK'
  BY <1>1, <1>2, HelperTypes, HelperFacts DEF PutBackPins, Moves, Stops, Keeps, AtPlace,
     RotationTypeOK, PinSets, Journal
<1>4. PlacesAgree'
  BY <1>1, <1>2 DEF PutBackPins, Moves, Stops, Keeps, AtPlace, Busy, PlacesAgree,
     RotationTypeOK, Open, Undoing, Helper, Mine, PhaseAfter
<1>5. StoppedToChange'
  BY <1>1, <1>2 DEF PutBackPins, Moves, Stops, Keeps, AtPlace, StoppedToChange
<1>6. FilesAreIn'
  BY <1>1, <1>2 DEF PutBackPins, Moves, Stops, Keeps, AtPlace, Busy, Working, FilesAreIn,
     PlacesAgree, RotationTypeOK, PhaseAfter, Helper, Mine, Credentials, FilesOf
<1>7. BackupsAreRecent'
  BY <1>1, <1>2 DEF PutBackPins, Moves, Stops, Keeps, AtPlace, Busy, BackupsAreRecent,
     EvidenceStands, PlacesAgree, RotationTypeOK, Open, Undoing, Helper, Mine, Credentials,
     FilesOf
<1>8. ASSUME ~overtook' PROVE JournalsHold'
  BY <1>1, <1>2, <1>8, HelperTypes, HelperFacts DEF PutBackPins, Moves, Stops, Keeps,
     AtPlace, Busy, Working, JournalsHold, PlacesHold, PlacesAgree, Served, OneGeneration,
     CanBeUndone, RotationTypeOK, Open, Undoing, Mine
<1>9. ASSUME ~overtook' PROVE PlacesHold'
  BY <1>1, <1>2, <1>9, HelperTypes, HelperFacts DEF PutBackPins, Moves, Stops, Keeps,
     AtPlace, Busy, Working, JournalsHold, PlacesHold, PlacesAgree, StoppedToChange,
     FilesAreIn, Served, OneGeneration, CanBeUndone, BackedUp, RotationTypeOK, Open,
     Undoing, Mine, PhaseAfter, Helper
<1>10. StepIsSafe
  BY <1>1, <1>2 DEF PutBackPins, Moves, Stops, Keeps, AtPlace, Busy, StepIsSafe,
     PlacesAgree, StoppedToChange, RotationTypeOK, Helper
<1> QED
  BY <1>3, <1>4, <1>5, <1>6, <1>7, <1>8, <1>9, <1>10

(* RefuseWithoutBackup keeps the invariant. *)
LEMMA RefuseWithoutBackupKeeps ==
  ASSUME RotationAssumption, RotationInv, RefuseWithoutBackup
  PROVE  RotationInv' /\ StepIsSafe
<1> USE DEF RotationInv
<1>1. (Stops("rejected")) /\ upsets' \in 0..MaxUpsets
  BY GoStops DEF RefuseWithoutBackup, AtPlace, RotationAnswers
<1>3. RotationTypeOK'
  BY <1>1 DEF RefuseWithoutBackup, Stops, Keeps, AtPlace, Busy, disk, RotationTypeOK,
     PlacesAgree, Credentials, Mine, FilesOf, Helper
<1>4. PlacesAgree'
  BY <1>1 DEF RefuseWithoutBackup, Stops, Keeps, AtPlace, Busy, disk, PlacesAgree,
     RotationTypeOK, Open, Undoing, Helper, Mine, PhaseAfter
<1>5. StoppedToChange'
  BY <1>1 DEF RefuseWithoutBackup, Stops, Keeps, AtPlace, disk, StoppedToChange
<1>6. FilesAreIn'
  BY <1>1 DEF RefuseWithoutBackup, Stops, Keeps, AtPlace, Busy, Working, disk, FilesAreIn,
     PlacesAgree, RotationTypeOK, PhaseAfter, Helper, Mine, Credentials, FilesOf
<1>7. BackupsAreRecent'
  BY <1>1 DEF RefuseWithoutBackup, Stops, Keeps, AtPlace, Busy, disk, BackupsAreRecent,
     EvidenceStands, PlacesAgree, RotationTypeOK, Open, Undoing, Helper, Mine, Credentials,
     FilesOf
<1>8. ASSUME ~overtook' PROVE JournalsHold'
  BY <1>1, <1>8 DEF RefuseWithoutBackup, Stops, Keeps, AtPlace, Busy, Working, disk,
     JournalsHold, PlacesHold, PlacesAgree, Served, OneGeneration, CanBeUndone,
     RotationTypeOK, Open, Undoing, OtherHelper, Helpers, Helper, Mine, Credentials, FilesOf
<1>9. ASSUME ~overtook' PROVE PlacesHold'
  BY <1>1, <1>9 DEF RefuseWithoutBackup, Stops, Keeps, AtPlace, Busy, Working, disk,
     JournalsHold, PlacesHold, PlacesAgree, StoppedToChange, FilesAreIn, Served,
     OneGeneration, CanBeUndone, BackedUp, RotationTypeOK, Open, Undoing, OtherHelper,
     Helpers, Helper, Mine, Credentials, FilesOf, PhaseAfter
<1>10. StepIsSafe
  BY <1>1 DEF RefuseWithoutBackup, Stops, Keeps, AtPlace, Busy, disk, StepIsSafe,
     PlacesAgree, StoppedToChange, RotationTypeOK, Helper
<1> QED
  BY <1>3, <1>4, <1>5, <1>6, <1>7, <1>8, <1>9, <1>10

(* RefuseUnpinned keeps the invariant. *)
LEMMA RefuseUnpinnedKeeps ==
  ASSUME RotationAssumption, RotationInv, RefuseUnpinned PROVE RotationInv' /\ StepIsSafe
<1> USE DEF RotationInv
<1>1. (Stops("rejected")) /\ upsets' \in 0..MaxUpsets
  BY GoStops DEF RefuseUnpinned, AtPlace, RotationAnswers
<1>3. RotationTypeOK'
  BY <1>1 DEF RefuseUnpinned, Stops, Keeps, AtPlace, Busy, disk, RotationTypeOK,
     PlacesAgree, Credentials, Mine, FilesOf, Helper
<1>4. PlacesAgree'
  BY <1>1 DEF RefuseUnpinned, Stops, Keeps, AtPlace, Busy, disk, PlacesAgree,
     RotationTypeOK, Open, Undoing, Helper, Mine, PhaseAfter
<1>5. StoppedToChange'
  BY <1>1 DEF RefuseUnpinned, Stops, Keeps, AtPlace, disk, StoppedToChange
<1>6. FilesAreIn'
  BY <1>1 DEF RefuseUnpinned, Stops, Keeps, AtPlace, Busy, Working, disk, FilesAreIn,
     PlacesAgree, RotationTypeOK, PhaseAfter, Helper, Mine, Credentials, FilesOf
<1>7. BackupsAreRecent'
  BY <1>1 DEF RefuseUnpinned, Stops, Keeps, AtPlace, Busy, disk, BackupsAreRecent,
     EvidenceStands, PlacesAgree, RotationTypeOK, Open, Undoing, Helper, Mine, Credentials,
     FilesOf
<1>8. ASSUME ~overtook' PROVE JournalsHold'
  BY <1>1, <1>8 DEF RefuseUnpinned, Stops, Keeps, AtPlace, Busy, Working, disk,
     JournalsHold, PlacesHold, PlacesAgree, Served, OneGeneration, CanBeUndone,
     RotationTypeOK, Open, Undoing, OtherHelper, Helpers, Helper, Mine, Credentials, FilesOf
<1>9. ASSUME ~overtook' PROVE PlacesHold'
  BY <1>1, <1>9 DEF RefuseUnpinned, Stops, Keeps, AtPlace, Busy, Working, disk,
     JournalsHold, PlacesHold, PlacesAgree, StoppedToChange, FilesAreIn, Served,
     OneGeneration, CanBeUndone, BackedUp, RotationTypeOK, Open, Undoing, OtherHelper,
     Helpers, Helper, Mine, Credentials, FilesOf, PhaseAfter
<1>10. StepIsSafe
  BY <1>1 DEF RefuseUnpinned, Stops, Keeps, AtPlace, Busy, disk, StepIsSafe, PlacesAgree,
     StoppedToChange, RotationTypeOK, Helper
<1> QED
  BY <1>3, <1>4, <1>5, <1>6, <1>7, <1>8, <1>9, <1>10

(* StartRestored keeps the invariant. *)
LEMMA StartRestoredKeeps ==
  ASSUME RotationAssumption, RotationInv, StartRestored PROVE RotationInv' /\ StepIsSafe
<1> USE DEF RotationInv
<1>1. (Moves("clean") \/ Moves("dropJournal") \/ Stops("rejected")) /\ upsets' \in 0..MaxUpsets
  BY GoOnTo DEF StartRestored, AtPlace, Places
<1>3. RotationTypeOK'
  BY <1>1 DEF StartRestored, Moves, Stops, Keeps, AtPlace, Busy, RotationTypeOK,
     PlacesAgree, Credentials, Mine, FilesOf, Helper
<1>4. PlacesAgree'
  BY <1>1 DEF StartRestored, Moves, Stops, Keeps, AtPlace, Busy, PlacesAgree,
     RotationTypeOK, Open, Undoing, Helper, Mine, PhaseAfter
<1>5. StoppedToChange'
  BY <1>1 DEF StartRestored, Moves, Stops, Keeps, AtPlace, StoppedToChange
<1>6. FilesAreIn'
  BY <1>1 DEF StartRestored, Moves, Stops, Keeps, AtPlace, Busy, Working, FilesAreIn,
     PlacesAgree, RotationTypeOK, PhaseAfter, Helper, Mine, Credentials, FilesOf
<1>7. BackupsAreRecent'
  BY <1>1 DEF StartRestored, Moves, Stops, Keeps, AtPlace, Busy, BackupsAreRecent,
     EvidenceStands, PlacesAgree, RotationTypeOK, Open, Undoing, Helper, Mine, Credentials,
     FilesOf
<1>8. ASSUME ~overtook' PROVE JournalsHold'
  BY <1>1, <1>8 DEF StartRestored, Moves, Stops, Keeps, AtPlace, Busy, Working,
     JournalsHold, PlacesHold, PlacesAgree, Served, OneGeneration, CanBeUndone,
     RotationTypeOK, Open, Undoing, OtherHelper, Helpers, Helper, Mine, Credentials, FilesOf
<1>9. ASSUME ~overtook' PROVE PlacesHold'
  BY <1>1, <1>9, HelperTypes, HelperFacts DEF StartRestored, Moves, Stops, Keeps, AtPlace,
     Busy, Working, JournalsHold, PlacesHold, PlacesAgree, StoppedToChange, FilesAreIn,
     Served, OneGeneration, CanBeUndone, BackedUp, RotationTypeOK, Open, Undoing, Mine,
     PhaseAfter, Helper
<1>10. StepIsSafe
  BY <1>1 DEF StartRestored, Moves, Stops, Keeps, AtPlace, Busy, StepIsSafe, PlacesAgree,
     StoppedToChange, RotationTypeOK, Helper
<1> QED
  BY <1>3, <1>4, <1>5, <1>6, <1>7, <1>8, <1>9, <1>10

(* DropBackup keeps the invariant. *)
LEMMA DropBackupKeeps ==
  ASSUME RotationAssumption, RotationInv, NEW f \in Credentials, DropBackup(f)
  PROVE  RotationInv' /\ StepIsSafe
<1> USE DEF RotationInv
<1>1. (Shrinks(f) \/ Stops("rejected")) /\ upsets' \in 0..MaxUpsets
  BY GoOnWithout DEF DropBackup, AtPlace
<1>3. RotationTypeOK'
  BY <1>1 DEF DropBackup, Shrinks, Stops, Keeps, AtPlace, Busy, RotationTypeOK, PlacesAgree,
     Credentials, Mine, FilesOf, Helper
<1>4. PlacesAgree'
  BY <1>1 DEF DropBackup, Shrinks, Stops, Keeps, AtPlace, Busy, PlacesAgree, RotationTypeOK,
     Open, Undoing, Helper, Mine, PhaseAfter
<1>5. StoppedToChange'
  BY <1>1 DEF DropBackup, Shrinks, Stops, Keeps, AtPlace, StoppedToChange
<1>6. FilesAreIn'
  BY <1>1 DEF DropBackup, Shrinks, Stops, Keeps, AtPlace, Busy, Working, FilesAreIn,
     PlacesAgree, RotationTypeOK, PhaseAfter, Helper, Mine, Credentials, FilesOf
<1>7. BackupsAreRecent'
  BY <1>1 DEF DropBackup, Shrinks, Stops, Keeps, AtPlace, Busy, BackupsAreRecent,
     EvidenceStands, PlacesAgree, RotationTypeOK, Open, Undoing, Helper, Mine, Credentials,
     FilesOf
<1>8. ASSUME ~overtook' PROVE JournalsHold'
  BY <1>1, <1>8 DEF DropBackup, Shrinks, Stops, Keeps, AtPlace, Busy, Working, JournalsHold,
     PlacesHold, PlacesAgree, Served, OneGeneration, CanBeUndone, RotationTypeOK, Open,
     Undoing, OtherHelper, Helpers, Helper, Mine, Credentials, FilesOf
<1>9. ASSUME ~overtook' PROVE PlacesHold'
  BY <1>1, <1>9 DEF DropBackup, Shrinks, Stops, Keeps, AtPlace, Busy, Working, JournalsHold,
     PlacesHold, PlacesAgree, StoppedToChange, FilesAreIn, Served, OneGeneration,
     CanBeUndone, BackedUp, RotationTypeOK, Open, Undoing, OtherHelper, Helpers, Helper,
     Mine, Credentials, FilesOf, PhaseAfter
<1>10. StepIsSafe
  BY <1>1 DEF DropBackup, Shrinks, Stops, Keeps, AtPlace, Busy, StepIsSafe, PlacesAgree,
     StoppedToChange, RotationTypeOK, Helper
<1> QED
  BY <1>3, <1>4, <1>5, <1>6, <1>7, <1>8, <1>9, <1>10

(* DropBackupPins keeps the invariant. *)
LEMMA DropBackupPinsKeeps ==
  ASSUME RotationAssumption, RotationInv, DropBackupPins PROVE RotationInv' /\ StepIsSafe
<1> USE DEF RotationInv
<1>1. (Moves("dropJournal") \/ Stops("rejected")) /\ upsets' \in 0..MaxUpsets
  BY GoOnTo DEF DropBackupPins, AtPlace, Places
<1>3. RotationTypeOK'
  BY <1>1 DEF DropBackupPins, Moves, Stops, Keeps, AtPlace, Busy, RotationTypeOK,
     PlacesAgree, Credentials, Mine, FilesOf, Helper
<1>4. PlacesAgree'
  BY <1>1 DEF DropBackupPins, Moves, Stops, Keeps, AtPlace, Busy, PlacesAgree,
     RotationTypeOK, Open, Undoing, Helper, Mine, PhaseAfter
<1>5. StoppedToChange'
  BY <1>1 DEF DropBackupPins, Moves, Stops, Keeps, AtPlace, StoppedToChange
<1>6. FilesAreIn'
  BY <1>1 DEF DropBackupPins, Moves, Stops, Keeps, AtPlace, Busy, Working, FilesAreIn,
     PlacesAgree, RotationTypeOK, PhaseAfter, Helper, Mine, Credentials, FilesOf
<1>7. BackupsAreRecent'
  BY <1>1 DEF DropBackupPins, Moves, Stops, Keeps, AtPlace, Busy, BackupsAreRecent,
     EvidenceStands, PlacesAgree, RotationTypeOK, Open, Undoing, Helper, Mine, Credentials,
     FilesOf
<1>8. ASSUME ~overtook' PROVE JournalsHold'
  BY <1>1, <1>8 DEF DropBackupPins, Moves, Stops, Keeps, AtPlace, Busy, Working,
     JournalsHold, PlacesHold, PlacesAgree, Served, OneGeneration, CanBeUndone,
     RotationTypeOK, Open, Undoing, OtherHelper, Helpers, Helper, Mine, Credentials, FilesOf
<1>9. ASSUME ~overtook' PROVE PlacesHold'
  BY <1>1, <1>9 DEF DropBackupPins, Moves, Stops, Keeps, AtPlace, Busy, Working,
     JournalsHold, PlacesHold, PlacesAgree, StoppedToChange, FilesAreIn, Served,
     OneGeneration, CanBeUndone, BackedUp, RotationTypeOK, Open, Undoing, OtherHelper,
     Helpers, Helper, Mine, Credentials, FilesOf, PhaseAfter
<1>10. StepIsSafe
  BY <1>1 DEF DropBackupPins, Moves, Stops, Keeps, AtPlace, Busy, StepIsSafe, PlacesAgree,
     StoppedToChange, RotationTypeOK, Helper
<1> QED
  BY <1>3, <1>4, <1>5, <1>6, <1>7, <1>8, <1>9, <1>10

(* DropJournal keeps the invariant. *)
LEMMA DropJournalKeeps ==
  ASSUME RotationAssumption, RotationInv, DropJournal PROVE RotationInv' /\ StepIsSafe
<1> USE DEF RotationInv
<1>1. /\ \/ rotation.why = "resume" /\ Moves("check")
         \/ rotation.why = "rotate" /\ Helper = "certificate" /\ Moves("dropIncoming")
         \/ rotation.why = "rotate" /\ Stops("rotated")
         \/ Stops("restored") \/ Stops("rejected")
      /\ upsets' \in 0..MaxUpsets
  BY GoOnTo, GoOnEnded DEF DropJournal, AtPlace, Places, RotationAnswers
<1>2. /\ Helper \in Helpers /\ txn'[Helper] = Absent
      /\ \A h \in Helpers : h # Helper => txn'[h] = txn[h]
  BY HelperTypes DEF DropJournal, RotationTypeOK
<1>3. RotationTypeOK'
  BY <1>1, <1>2 DEF DropJournal, Moves, Stops, Keeps, AtPlace, Busy, RotationTypeOK,
     PlacesAgree, Credentials, Mine, FilesOf, Helper
<1>4. PlacesAgree'
  BY <1>1, <1>2, HelperTypes, HelperFacts DEF DropJournal, Moves, Stops, Keeps, AtPlace,
     Busy, PlacesAgree, Open, Undoing, Mine, PhaseAfter, Helper
<1>5. StoppedToChange'
  BY <1>1, <1>2 DEF DropJournal, Moves, Stops, Keeps, AtPlace, Busy, StoppedToChange
<1>6. FilesAreIn'
  BY <1>1, <1>2 DEF DropJournal, Moves, Stops, Keeps, AtPlace, Busy, Working, FilesAreIn,
     PlacesAgree, RotationTypeOK, PhaseAfter, Helper, Mine, Credentials, FilesOf
<1>7. BackupsAreRecent'
  BY <1>1, <1>2 DEF DropJournal, Moves, Stops, Keeps, AtPlace, Busy, BackupsAreRecent,
     EvidenceStands, PlacesAgree, RotationTypeOK, Open, Undoing, Helper, Mine, Credentials,
     FilesOf
<1>8. ASSUME ~overtook' PROVE JournalsHold'
  BY <1>1, <1>2, <1>8 DEF DropJournal, Moves, Stops, Keeps, AtPlace, Busy, Working,
     JournalsHold, PlacesHold, PlacesAgree, Served, OneGeneration, CanBeUndone,
     RotationTypeOK, Open, Undoing, OtherHelper, Helpers, Helper, Mine, Credentials, FilesOf
<1>9. ASSUME ~overtook' PROVE PlacesHold'
  BY <1>1, <1>2, <1>9 DEF DropJournal, Moves, Stops, Keeps, AtPlace, Busy, Working,
     JournalsHold, PlacesHold, PlacesAgree, StoppedToChange, FilesAreIn, Served,
     OneGeneration, CanBeUndone, BackedUp, RotationTypeOK, Open, Undoing, OtherHelper,
     Helpers, Helper, Mine, Credentials, FilesOf, PhaseAfter
<1>10. StepIsSafe
  <2>1. ~overtook => Served
    BY DEF DropJournal, PlacesHold, AtPlace
  <2>2. rotation.why = "rotate" => \A f \in Mine : pem[f] = staged[Helper]
    BY DEF DropJournal, FilesAreIn, AtPlace
  <2>3. UNCHANGED <<pem, pins, loaded>>
    BY DEF DropJournal
  <2>4. Busy /\ ~Busy' => /\ Helper' = Helper
                          /\ rotation'.answer = "rotated" => rotation.why = "rotate"
                          /\ rotation'.answer \in {"rotated", "restored", "rejected"}
    BY <1>1 DEF Moves, Stops, Keeps, Busy, AtPlace, Helper
  <2> QED
    BY <1>2, <2>1, <2>2, <2>3, <2>4 DEF StepIsSafe, Served, OneGeneration
<1> QED
  BY <1>3, <1>4, <1>5, <1>6, <1>7, <1>8, <1>9, <1>10

(* DropIncoming keeps the invariant. *)
LEMMA DropIncomingKeeps ==
  ASSUME RotationAssumption, RotationInv, DropIncoming PROVE RotationInv' /\ StepIsSafe
<1> USE DEF RotationInv
<1>1. (Stops("rotated") \/ Stops("rejected")) /\ upsets' \in 0..MaxUpsets
  BY GoOnEnded DEF DropIncoming, AtPlace, RotationAnswers
<1>3. RotationTypeOK'
  BY <1>1 DEF DropIncoming, Stops, Keeps, AtPlace, Busy, RotationTypeOK, PlacesAgree,
     Credentials, Mine, FilesOf, Helper
<1>4. PlacesAgree'
  BY <1>1 DEF DropIncoming, Stops, Keeps, AtPlace, Busy, PlacesAgree, RotationTypeOK, Open,
     Undoing, Helper, Mine, PhaseAfter
<1>5. StoppedToChange'
  BY <1>1 DEF DropIncoming, Stops, Keeps, AtPlace, StoppedToChange
<1>6. FilesAreIn'
  BY <1>1 DEF DropIncoming, Stops, Keeps, AtPlace, Busy, Working, FilesAreIn, PlacesAgree,
     RotationTypeOK, PhaseAfter, Helper, Mine, Credentials, FilesOf
<1>7. BackupsAreRecent'
  BY <1>1 DEF DropIncoming, Stops, Keeps, AtPlace, Busy, BackupsAreRecent, EvidenceStands,
     PlacesAgree, RotationTypeOK, Open, Undoing, Helper, Mine, Credentials, FilesOf
<1>8. ASSUME ~overtook' PROVE JournalsHold'
  BY <1>1, <1>8 DEF DropIncoming, Stops, Keeps, AtPlace, Busy, Working, JournalsHold,
     PlacesHold, PlacesAgree, Served, OneGeneration, CanBeUndone, RotationTypeOK, Open,
     Undoing, OtherHelper, Helpers, Helper, Mine, Credentials, FilesOf
<1>9. ASSUME ~overtook' PROVE PlacesHold'
  BY <1>1, <1>9 DEF DropIncoming, Stops, Keeps, AtPlace, Busy, Working, JournalsHold,
     PlacesHold, PlacesAgree, StoppedToChange, FilesAreIn, Served, OneGeneration,
     CanBeUndone, BackedUp, RotationTypeOK, Open, Undoing, OtherHelper, Helpers, Helper,
     Mine, Credentials, FilesOf, PhaseAfter
<1>10. StepIsSafe
  BY <1>1, HelperTypes, HelperFacts DEF DropIncoming, Stops, Keeps, AtPlace, Busy, Working,
     StepIsSafe, PlacesAgree, StoppedToChange, FilesAreIn, PlacesHold, JournalsHold, Served,
     OneGeneration, RotationTypeOK, Open, Undoing, Mine, Helper
<1> QED
  BY <1>3, <1>4, <1>5, <1>6, <1>7, <1>8, <1>9, <1>10

(* RefuseIncoming keeps the invariant. *)
LEMMA RefuseIncomingKeeps ==
  ASSUME RotationAssumption, RotationInv, RefuseIncoming PROVE RotationInv' /\ StepIsSafe
<1> USE DEF RotationInv
<1>1. (Stops("rejected")) /\ upsets' \in 0..MaxUpsets
  BY GoStops DEF RefuseIncoming, AtPlace, RotationAnswers
<1>3. RotationTypeOK'
  BY <1>1 DEF RefuseIncoming, Stops, Keeps, AtPlace, Busy, disk, RotationTypeOK,
     PlacesAgree, Credentials, Mine, FilesOf, Helper
<1>4. PlacesAgree'
  BY <1>1 DEF RefuseIncoming, Stops, Keeps, AtPlace, Busy, disk, PlacesAgree,
     RotationTypeOK, Open, Undoing, Helper, Mine, PhaseAfter
<1>5. StoppedToChange'
  BY <1>1 DEF RefuseIncoming, Stops, Keeps, AtPlace, disk, StoppedToChange
<1>6. FilesAreIn'
  BY <1>1 DEF RefuseIncoming, Stops, Keeps, AtPlace, Busy, Working, disk, FilesAreIn,
     PlacesAgree, RotationTypeOK, PhaseAfter, Helper, Mine, Credentials, FilesOf
<1>7. BackupsAreRecent'
  BY <1>1 DEF RefuseIncoming, Stops, Keeps, AtPlace, Busy, disk, BackupsAreRecent,
     EvidenceStands, PlacesAgree, RotationTypeOK, Open, Undoing, Helper, Mine, Credentials,
     FilesOf
<1>8. ASSUME ~overtook' PROVE JournalsHold'
  BY <1>1, <1>8 DEF RefuseIncoming, Stops, Keeps, AtPlace, Busy, Working, disk,
     JournalsHold, PlacesHold, PlacesAgree, Served, OneGeneration, CanBeUndone,
     RotationTypeOK, Open, Undoing, OtherHelper, Helpers, Helper, Mine, Credentials, FilesOf
<1>9. ASSUME ~overtook' PROVE PlacesHold'
  BY <1>1, <1>9 DEF RefuseIncoming, Stops, Keeps, AtPlace, Busy, Working, disk,
     JournalsHold, PlacesHold, PlacesAgree, StoppedToChange, FilesAreIn, Served,
     OneGeneration, CanBeUndone, BackedUp, RotationTypeOK, Open, Undoing, OtherHelper,
     Helpers, Helper, Mine, Credentials, FilesOf, PhaseAfter
<1>10. StepIsSafe
  BY <1>1 DEF RefuseIncoming, Stops, Keeps, AtPlace, Busy, disk, StepIsSafe, PlacesAgree,
     StoppedToChange, RotationTypeOK, Helper
<1> QED
  BY <1>3, <1>4, <1>5, <1>6, <1>7, <1>8, <1>9, <1>10

(* AcceptIncoming keeps the invariant. *)
LEMMA AcceptIncomingKeeps ==
  ASSUME RotationAssumption, RotationInv, AcceptIncoming PROVE RotationInv' /\ StepIsSafe
<1> USE DEF RotationInv
<1>1. (Moves("copy")) /\ upsets' \in 0..MaxUpsets
  BY GoMoves DEF AcceptIncoming, AtPlace, Places
<1>3. RotationTypeOK'
  BY <1>1 DEF AcceptIncoming, Moves, Keeps, AtPlace, Busy, disk, RotationTypeOK,
     PlacesAgree, Credentials, Mine, FilesOf, Helper
<1>4. PlacesAgree'
  BY <1>1 DEF AcceptIncoming, Moves, Keeps, AtPlace, Busy, disk, PlacesAgree,
     RotationTypeOK, Open, Undoing, Helper, Mine, PhaseAfter
<1>5. StoppedToChange'
  BY <1>1 DEF AcceptIncoming, Moves, Keeps, AtPlace, disk, StoppedToChange
<1>6. FilesAreIn'
  BY <1>1 DEF AcceptIncoming, Moves, Keeps, AtPlace, Busy, Working, disk, FilesAreIn,
     PlacesAgree, RotationTypeOK, PhaseAfter, Helper, Mine, Credentials, FilesOf
<1>7. BackupsAreRecent'
  BY <1>1 DEF AcceptIncoming, Moves, Keeps, AtPlace, Busy, disk, BackupsAreRecent,
     EvidenceStands, PlacesAgree, RotationTypeOK, Open, Undoing, Helper, Mine, Credentials,
     FilesOf
<1>8. ASSUME ~overtook' PROVE JournalsHold'
  BY <1>1, <1>8 DEF AcceptIncoming, Moves, Keeps, AtPlace, Busy, Working, disk,
     JournalsHold, PlacesHold, PlacesAgree, Served, OneGeneration, CanBeUndone,
     RotationTypeOK, Open, Undoing, OtherHelper, Helpers, Helper, Mine, Credentials, FilesOf
<1>9. ASSUME ~overtook' PROVE PlacesHold'
  BY <1>1, <1>9 DEF AcceptIncoming, Moves, Keeps, AtPlace, Busy, Working, disk,
     JournalsHold, PlacesHold, PlacesAgree, StoppedToChange, FilesAreIn, Served,
     OneGeneration, CanBeUndone, BackedUp, RotationTypeOK, Open, Undoing, OtherHelper,
     Helpers, Helper, Mine, Credentials, FilesOf, PhaseAfter
<1>10. StepIsSafe
  BY <1>1 DEF AcceptIncoming, Moves, Keeps, AtPlace, Busy, disk, StepIsSafe, PlacesAgree,
     StoppedToChange, RotationTypeOK, Helper
<1> QED
  BY <1>3, <1>4, <1>5, <1>6, <1>7, <1>8, <1>9, <1>10

(* KeepUnchanged keeps the invariant. *)
LEMMA KeepUnchangedKeeps ==
  ASSUME RotationAssumption, RotationInv, KeepUnchanged PROVE RotationInv' /\ StepIsSafe
<1> USE DEF RotationInv
<1>1. (Stops("unchanged") \/ Stops("rejected")) /\ upsets' \in 0..MaxUpsets
  BY GoOnEnded DEF KeepUnchanged, AtPlace, RotationAnswers
<1>3. RotationTypeOK'
  BY <1>1 DEF KeepUnchanged, Stops, Keeps, AtPlace, Busy, RotationTypeOK, PlacesAgree,
     Credentials, Mine, FilesOf, Helper
<1>4. PlacesAgree'
  BY <1>1 DEF KeepUnchanged, Stops, Keeps, AtPlace, Busy, PlacesAgree, RotationTypeOK, Open,
     Undoing, Helper, Mine, PhaseAfter
<1>5. StoppedToChange'
  BY <1>1 DEF KeepUnchanged, Stops, Keeps, AtPlace, StoppedToChange
<1>6. FilesAreIn'
  BY <1>1 DEF KeepUnchanged, Stops, Keeps, AtPlace, Busy, Working, FilesAreIn, PlacesAgree,
     RotationTypeOK, PhaseAfter, Helper, Mine, Credentials, FilesOf
<1>7. BackupsAreRecent'
  BY <1>1 DEF KeepUnchanged, Stops, Keeps, AtPlace, Busy, BackupsAreRecent, EvidenceStands,
     PlacesAgree, RotationTypeOK, Open, Undoing, Helper, Mine, Credentials, FilesOf
<1>8. ASSUME ~overtook' PROVE JournalsHold'
  BY <1>1, <1>8 DEF KeepUnchanged, Stops, Keeps, AtPlace, Busy, Working, JournalsHold,
     PlacesHold, PlacesAgree, Served, OneGeneration, CanBeUndone, RotationTypeOK, Open,
     Undoing, OtherHelper, Helpers, Helper, Mine, Credentials, FilesOf
<1>9. ASSUME ~overtook' PROVE PlacesHold'
  BY <1>1, <1>9 DEF KeepUnchanged, Stops, Keeps, AtPlace, Busy, Working, JournalsHold,
     PlacesHold, PlacesAgree, StoppedToChange, FilesAreIn, Served, OneGeneration,
     CanBeUndone, BackedUp, RotationTypeOK, Open, Undoing, OtherHelper, Helpers, Helper,
     Mine, Credentials, FilesOf, PhaseAfter
<1>10. StepIsSafe
  BY <1>1, HelperTypes, HelperFacts DEF KeepUnchanged, Stops, Keeps, AtPlace, Busy, Working,
     StepIsSafe, PlacesAgree, StoppedToChange, FilesAreIn, PlacesHold, JournalsHold, Served,
     OneGeneration, RotationTypeOK, Open, Undoing, Mine, Helper, Unchanged
<1> QED
  BY <1>3, <1>4, <1>5, <1>6, <1>7, <1>8, <1>9, <1>10

(* CopyFile keeps the invariant. *)
LEMMA CopyFileKeeps ==
  ASSUME RotationAssumption, RotationInv, NEW f \in Credentials, CopyFile(f)
  PROVE  RotationInv' /\ StepIsSafe
<1> USE DEF RotationInv
<1>1. (Shrinks(f) \/ Stops("rejected")) /\ upsets' \in 0..MaxUpsets
  BY GoOnWithout DEF CopyFile, AtPlace
<1>3. RotationTypeOK'
  BY <1>1, HelperTypes, HelperFacts DEF CopyFile, Shrinks, Stops, Keeps, AtPlace,
     RotationTypeOK, PinSets, Journal
<1>4. PlacesAgree'
  BY <1>1 DEF CopyFile, Shrinks, Stops, Keeps, AtPlace, Busy, PlacesAgree, RotationTypeOK,
     Open, Undoing, Helper, Mine, PhaseAfter
<1>5. StoppedToChange'
  BY <1>1 DEF CopyFile, Shrinks, Stops, Keeps, AtPlace, StoppedToChange
<1>6. FilesAreIn'
  BY <1>1 DEF CopyFile, Shrinks, Stops, Keeps, AtPlace, Busy, Working, FilesAreIn,
     PlacesAgree, RotationTypeOK, PhaseAfter, Helper, Mine, Credentials, FilesOf
<1>7. BackupsAreRecent'
  BY <1>1 DEF CopyFile, Shrinks, Stops, Keeps, AtPlace, Busy, BackupsAreRecent,
     EvidenceStands, PlacesAgree, RotationTypeOK, Open, Undoing, Helper, Mine, Credentials,
     FilesOf
<1>8. ASSUME ~overtook' PROVE JournalsHold'
  BY <1>1, <1>8, HelperTypes, HelperFacts DEF CopyFile, Shrinks, Stops, Keeps, AtPlace,
     Busy, Working, JournalsHold, PlacesHold, PlacesAgree, Served, OneGeneration,
     CanBeUndone, RotationTypeOK, Open, Undoing, Mine
<1>9. ASSUME ~overtook' PROVE PlacesHold'
  BY <1>1, <1>9 DEF CopyFile, Shrinks, Stops, Keeps, AtPlace, Busy, Working, JournalsHold,
     PlacesHold, PlacesAgree, StoppedToChange, FilesAreIn, Served, OneGeneration,
     CanBeUndone, BackedUp, RotationTypeOK, Open, Undoing, OtherHelper, Helpers, Helper,
     Mine, Credentials, FilesOf, PhaseAfter
<1>10. StepIsSafe
  BY <1>1 DEF CopyFile, Shrinks, Stops, Keeps, AtPlace, Busy, StepIsSafe, PlacesAgree,
     StoppedToChange, RotationTypeOK, Helper
<1> QED
  BY <1>3, <1>4, <1>5, <1>6, <1>7, <1>8, <1>9, <1>10

(* CopyPins keeps the invariant. *)
LEMMA CopyPinsKeeps ==
  ASSUME RotationAssumption, RotationInv, CopyPins PROVE RotationInv' /\ StepIsSafe
<1> USE DEF RotationInv
<1>1. (Moves("prepare") \/ Stops("rejected")) /\ upsets' \in 0..MaxUpsets
  BY GoOnTo DEF CopyPins, AtPlace, Places
<1>3. RotationTypeOK'
  BY <1>1 DEF CopyPins, Moves, Stops, Keeps, AtPlace, Busy, RotationTypeOK, PlacesAgree,
     Credentials, Mine, FilesOf, Helper
<1>4. PlacesAgree'
  BY <1>1 DEF CopyPins, Moves, Stops, Keeps, AtPlace, Busy, PlacesAgree, RotationTypeOK,
     Open, Undoing, Helper, Mine, PhaseAfter
<1>5. StoppedToChange'
  BY <1>1 DEF CopyPins, Moves, Stops, Keeps, AtPlace, StoppedToChange
<1>6. FilesAreIn'
  BY <1>1 DEF CopyPins, Moves, Stops, Keeps, AtPlace, Busy, Working, FilesAreIn,
     PlacesAgree, RotationTypeOK, PhaseAfter, Helper, Mine, Credentials, FilesOf
<1>7. BackupsAreRecent'
  BY <1>1 DEF CopyPins, Moves, Stops, Keeps, AtPlace, Busy, BackupsAreRecent,
     EvidenceStands, PlacesAgree, RotationTypeOK, Open, Undoing, Helper, Mine, Credentials,
     FilesOf
<1>8. ASSUME ~overtook' PROVE JournalsHold'
  BY <1>1, <1>8 DEF CopyPins, Moves, Stops, Keeps, AtPlace, Busy, Working, JournalsHold,
     PlacesHold, PlacesAgree, Served, OneGeneration, CanBeUndone, RotationTypeOK, Open,
     Undoing, OtherHelper, Helpers, Helper, Mine, Credentials, FilesOf
<1>9. ASSUME ~overtook' PROVE PlacesHold'
  BY <1>1, <1>9, HelperTypes, HelperFacts DEF CopyPins, Moves, Stops, Keeps, AtPlace, Busy,
     Working, JournalsHold, PlacesHold, PlacesAgree, StoppedToChange, FilesAreIn, Served,
     OneGeneration, CanBeUndone, BackedUp, RotationTypeOK, Open, Undoing, Mine, PhaseAfter,
     Helper
<1>10. StepIsSafe
  BY <1>1 DEF CopyPins, Moves, Stops, Keeps, AtPlace, Busy, StepIsSafe, PlacesAgree,
     StoppedToChange, RotationTypeOK, Helper
<1> QED
  BY <1>3, <1>4, <1>5, <1>6, <1>7, <1>8, <1>9, <1>10

(* RefuseStopped keeps the invariant. *)
LEMMA RefuseStoppedKeeps ==
  ASSUME RotationAssumption, RotationInv, RefuseStopped PROVE RotationInv' /\ StepIsSafe
<1> USE DEF RotationInv
<1>1. (Stops("rejected")) /\ upsets' \in 0..MaxUpsets
  BY GoStops DEF RefuseStopped, AtPlace, RotationAnswers
<1>3. RotationTypeOK'
  BY <1>1 DEF RefuseStopped, Stops, Keeps, AtPlace, Busy, disk, RotationTypeOK, PlacesAgree,
     Credentials, Mine, FilesOf, Helper
<1>4. PlacesAgree'
  BY <1>1 DEF RefuseStopped, Stops, Keeps, AtPlace, Busy, disk, PlacesAgree, RotationTypeOK,
     Open, Undoing, Helper, Mine, PhaseAfter
<1>5. StoppedToChange'
  BY <1>1 DEF RefuseStopped, Stops, Keeps, AtPlace, disk, StoppedToChange
<1>6. FilesAreIn'
  BY <1>1 DEF RefuseStopped, Stops, Keeps, AtPlace, Busy, Working, disk, FilesAreIn,
     PlacesAgree, RotationTypeOK, PhaseAfter, Helper, Mine, Credentials, FilesOf
<1>7. BackupsAreRecent'
  BY <1>1 DEF RefuseStopped, Stops, Keeps, AtPlace, Busy, disk, BackupsAreRecent,
     EvidenceStands, PlacesAgree, RotationTypeOK, Open, Undoing, Helper, Mine, Credentials,
     FilesOf
<1>8. ASSUME ~overtook' PROVE JournalsHold'
  BY <1>1, <1>8 DEF RefuseStopped, Stops, Keeps, AtPlace, Busy, Working, disk, JournalsHold,
     PlacesHold, PlacesAgree, Served, OneGeneration, CanBeUndone, RotationTypeOK, Open,
     Undoing, OtherHelper, Helpers, Helper, Mine, Credentials, FilesOf
<1>9. ASSUME ~overtook' PROVE PlacesHold'
  BY <1>1, <1>9 DEF RefuseStopped, Stops, Keeps, AtPlace, Busy, Working, disk, JournalsHold,
     PlacesHold, PlacesAgree, StoppedToChange, FilesAreIn, Served, OneGeneration,
     CanBeUndone, BackedUp, RotationTypeOK, Open, Undoing, OtherHelper, Helpers, Helper,
     Mine, Credentials, FilesOf, PhaseAfter
<1>10. StepIsSafe
  BY <1>1 DEF RefuseStopped, Stops, Keeps, AtPlace, Busy, disk, StepIsSafe, PlacesAgree,
     StoppedToChange, RotationTypeOK, Helper
<1> QED
  BY <1>3, <1>4, <1>5, <1>6, <1>7, <1>8, <1>9, <1>10

(* StopService keeps the invariant. *)
LEMMA StopServiceKeeps ==
  ASSUME RotationAssumption, RotationInv, StopService PROVE RotationInv' /\ StepIsSafe
<1> USE DEF RotationInv
<1>1. txn'[Helper].phase \in RotationPhases
  BY HelperTypes DEF StopService, PlacesAgree, RotationTypeOK, Journal, Undoing, Open,
     AtPlace, Working
<1>2. (Notes \/ Undoes) /\ upsets' \in 0..MaxUpsets
  BY <1>1, HelperTypes, GoOnInside, NotingFields DEF StopService, AtPlace, Working, Notes,
     Keeps
<1>3. RotationTypeOK'
  BY <1>1, <1>2 DEF StopService, Notes, Undoes, Keeps, AtPlace, Busy, Working,
     RotationTypeOK, PlacesAgree, Credentials, Mine, FilesOf, Helper
<1>4. PlacesAgree'
  BY <1>1, <1>2 DEF StopService, Notes, Undoes, Keeps, AtPlace, Busy, Working, PlacesAgree,
     RotationTypeOK, Open, Undoing, Helper, Mine, PhaseAfter
<1>5. StoppedToChange'
  BY <1>1, <1>2 DEF StopService, Notes, Undoes, Keeps, AtPlace, Working, StoppedToChange,
     PhaseAfter
<1>6. FilesAreIn'
  BY <1>1, <1>2 DEF StopService, Notes, Undoes, Keeps, AtPlace, Busy, Working, FilesAreIn,
     PlacesAgree, RotationTypeOK, PhaseAfter, Helper, Mine, Credentials, FilesOf
<1>7. BackupsAreRecent'
  BY <1>1, <1>2 DEF StopService, Notes, Undoes, Keeps, AtPlace, Busy, Working,
     BackupsAreRecent, EvidenceStands, PlacesAgree, RotationTypeOK, Open, Undoing, Helper,
     Mine, Credentials, FilesOf
<1>8. ASSUME ~overtook' PROVE JournalsHold'
  BY <1>1, <1>2, <1>8, HelperTypes, HelperFacts DEF StopService, Notes, Undoes, Keeps,
     AtPlace, Busy, Working, JournalsHold, PlacesHold, PlacesAgree, Served, OneGeneration,
     CanBeUndone, RotationTypeOK, Open, Undoing, Mine
<1>9. ASSUME ~overtook' PROVE PlacesHold'
  BY <1>1, <1>2, <1>9 DEF StopService, Notes, Undoes, Keeps, AtPlace, Busy, Working,
     JournalsHold, PlacesHold, PlacesAgree, StoppedToChange, FilesAreIn, Served,
     OneGeneration, CanBeUndone, BackedUp, RotationTypeOK, Open, Undoing, OtherHelper,
     Helpers, Helper, Mine, Credentials, FilesOf, PhaseAfter
<1>10. StepIsSafe
  BY <1>1, <1>2 DEF StopService, Notes, Undoes, Keeps, AtPlace, Busy, Working, StepIsSafe,
     PlacesAgree, StoppedToChange, RotationTypeOK, Helper
<1> QED
  BY <1>3, <1>4, <1>5, <1>6, <1>7, <1>8, <1>9, <1>10

(* InstallFile keeps the invariant. *)
LEMMA InstallFileKeeps ==
  ASSUME RotationAssumption, RotationInv, NEW f \in Credentials, InstallFile(f)
  PROVE  RotationInv' /\ StepIsSafe
<1> USE DEF RotationInv
<1>1. txn'[Helper].phase \in RotationPhases
  BY HelperTypes DEF InstallFile, PlacesAgree, RotationTypeOK, Journal, Undoing, Open,
     AtPlace, Working
<1>2. /\ \/ rotation.todo = {f} /\ Notes
         \/ rotation.todo # {f} /\ Shrinks(f)
         \/ Undoes
      /\ upsets' \in 0..MaxUpsets
  BY <1>1, HelperTypes, GoOnInside, NotingFields, WithoutFields DEF InstallFile, AtPlace,
     Working, Notes, Shrinks, Keeps
<1>2a. /\ f \in Mine /\ staged[Helper] \in Generations
       /\ pem' \in PinSets /\ pem'[f] = staged[Helper]
       /\ \A g \in Credentials : g # f => pem'[g] = pem[g]
       /\ \A g \in FilesOf(OtherHelper(Helper)) : pem'[g] = pem[g]
       /\ Undoing(Helper)
  BY HelperTypes, HelperFacts DEF InstallFile, RotationTypeOK, PinSets, PlacesAgree,
     AtPlace, Busy, Mine, Working
<1>3. RotationTypeOK'
  BY <1>1, <1>2, <1>2a, HelperTypes DEF InstallFile, Shrinks, Notes, Undoes, Keeps, AtPlace,
     Working, RotationTypeOK, PinSets, Journal
<1>4. PlacesAgree'
  BY <1>1, <1>2, <1>2a DEF InstallFile, Shrinks, Notes, Undoes, Keeps, AtPlace, Busy,
     Working, PlacesAgree, RotationTypeOK, Open, Undoing, Helper, Mine, PhaseAfter
<1>5. StoppedToChange'
  BY <1>1, <1>2, <1>2a DEF InstallFile, Shrinks, Notes, Undoes, Keeps, AtPlace, Working,
     StoppedToChange, PhaseAfter
<1>6. FilesAreIn'
  BY <1>1, <1>2, <1>2a, HelperTypes DEF InstallFile, Shrinks, Notes, Undoes, Keeps, AtPlace,
     Busy, Working, FilesAreIn, PlacesAgree, RotationTypeOK, PhaseAfter, Mine, Helper
<1>7. BackupsAreRecent'
  <2>1. ASSUME NEW h \in Helpers, NEW g \in FilesOf(h) PROVE issued'[h] <= pem'[g]
    <3>1. issued'[h] = issued[h] /\ issued[h] <= pem[g] /\ g \in Credentials
      BY <2>1, HelperFacts DEF InstallFile, BackupsAreRecent, EvidenceStands
    <3>2. CASE g = f
      <4>1. h = Helper
        BY <1>2a, <2>1, <3>2, HelperTypes, HelperFacts DEF Mine
      <4> QED
        BY <1>2a, <3>1, <3>2, <4>1, HelperTypes DEF InstallFile, BackupsAreRecent,
           PlacesAgree, Mine
    <3> QED
      BY <1>2a, <3>1, <3>2
  <2>2. \A h \in Helpers : Undoing(h)' <=> Undoing(h)
    BY DEF InstallFile, Undoing, Open
  <2> QED
    BY <1>1, <1>2, <1>2a, <2>1, <2>2 DEF InstallFile, BackupsAreRecent, EvidenceStands,
       Shrinks, Notes, Undoes, AtPlace, Working
<1>8. ASSUME ~overtook' PROVE JournalsHold'
  BY <1>1, <1>2, <1>2a, <1>8, HelperTypes, HelperFacts DEF InstallFile, Shrinks, Notes,
     Undoes, Keeps, AtPlace, Busy, Working, JournalsHold, PlacesHold, PlacesAgree, Served,
     OneGeneration, CanBeUndone, RotationTypeOK, Open, Undoing, Mine
<1>9. ASSUME ~overtook' PROVE PlacesHold'
  BY <1>1, <1>2, <1>2a, <1>9 DEF InstallFile, Shrinks, Notes, Undoes, Keeps, AtPlace, Busy,
     Working, JournalsHold, PlacesHold, PlacesAgree, StoppedToChange, FilesAreIn, Served,
     OneGeneration, CanBeUndone, BackedUp, RotationTypeOK, Open, Undoing, OtherHelper,
     Helpers, Helper, Mine, Credentials, FilesOf, PhaseAfter
<1>10. StepIsSafe
  BY <1>1, <1>2, <1>2a DEF InstallFile, Shrinks, Notes, Undoes, Keeps, AtPlace, Busy,
     Working, StepIsSafe, PlacesAgree, StoppedToChange, RotationTypeOK, Helper
<1> QED
  BY <1>3, <1>4, <1>5, <1>6, <1>7, <1>8, <1>9, <1>10

(* ReconcilePins keeps the invariant. *)
LEMMA ReconcilePinsKeeps ==
  ASSUME RotationAssumption, RotationInv, ReconcilePins PROVE RotationInv' /\ StepIsSafe
<1> USE DEF RotationInv
<1>1. txn'[Helper].phase \in RotationPhases
  BY HelperTypes DEF ReconcilePins, PlacesAgree, RotationTypeOK, Journal, Undoing, Open,
     AtPlace, Working
<1>2. (Notes \/ Undoes) /\ upsets' \in 0..MaxUpsets
  BY <1>1, HelperTypes, GoOnInside, NotingFields DEF ReconcilePins, AtPlace, Working, Notes,
     Keeps
<1>2a. /\ pins' \in PinSets /\ pins' = pem
       /\ \A g \in FilesOf(OtherHelper(Helper)) : pins'[g] = pins[g]
       /\ Undoing(Helper)
  <2>1. /\ incoming[Helper] = staged[Helper] /\ Undoing(Helper)
        /\ \A f \in Mine : pem[f] = staged[Helper]
    BY HelperTypes DEF ReconcilePins, Working, AtPlace, PlacesAgree, FilesAreIn
  <2>2. pem = [f \in Credentials |-> pem[f]] /\ pem \in PinSets
    BY DEF RotationTypeOK, PinSets
  <2>3. \A f \in Credentials :
          (IF f \in Mine THEN incoming[Helper] ELSE pins[f]) = pem[f]
    BY <2>1 DEF ReconcilePins
  <2>4. pins' = pem
    BY <2>2, <2>3 DEF ReconcilePins
  <2> QED
    BY <2>1, <2>2, <2>3, <2>4, HelperTypes, HelperFacts DEF ReconcilePins, Mine
<1>3. RotationTypeOK'
  BY <1>1, <1>2, <1>2a, HelperTypes DEF ReconcilePins, Notes, Undoes, Keeps, AtPlace,
     Working, RotationTypeOK, PinSets, Journal
<1>4. PlacesAgree'
  BY <1>1, <1>2, <1>2a DEF ReconcilePins, Notes, Undoes, Keeps, AtPlace, Busy, Working,
     PlacesAgree, RotationTypeOK, Open, Undoing, Helper, Mine, PhaseAfter
<1>5. StoppedToChange'
  BY <1>1, <1>2, <1>2a DEF ReconcilePins, Notes, Undoes, Keeps, AtPlace, Working,
     StoppedToChange, PhaseAfter
<1>6. FilesAreIn'
  BY <1>1, <1>2, <1>2a DEF ReconcilePins, Notes, Undoes, Keeps, AtPlace, Busy, Working,
     FilesAreIn, PlacesAgree, RotationTypeOK, PhaseAfter, Helper, Mine, Credentials, FilesOf
<1>7. BackupsAreRecent'
  BY <1>1, <1>2, <1>2a DEF ReconcilePins, Notes, Undoes, Keeps, AtPlace, Busy, Working,
     BackupsAreRecent, EvidenceStands, PlacesAgree, RotationTypeOK, Open, Undoing, Helper,
     Mine, Credentials, FilesOf
<1>8. ASSUME ~overtook' PROVE JournalsHold'
  BY <1>1, <1>2, <1>2a, <1>8, HelperTypes, HelperFacts DEF ReconcilePins, Notes, Undoes,
     Keeps, AtPlace, Busy, Working, JournalsHold, PlacesHold, PlacesAgree, Served,
     OneGeneration, CanBeUndone, RotationTypeOK, Open, Undoing, Mine
<1>9. ASSUME ~overtook' PROVE PlacesHold'
  BY <1>1, <1>2, <1>2a, <1>9, HelperTypes, HelperFacts DEF ReconcilePins, Notes, Undoes,
     Keeps, AtPlace, Busy, Working, JournalsHold, PlacesHold, PlacesAgree, StoppedToChange,
     FilesAreIn, Served, OneGeneration, CanBeUndone, BackedUp, RotationTypeOK, Open,
     Undoing, Mine, PhaseAfter, Helper
<1>10. StepIsSafe
  BY <1>1, <1>2, <1>2a DEF ReconcilePins, Notes, Undoes, Keeps, AtPlace, Busy, Working,
     StepIsSafe, PlacesAgree, StoppedToChange, RotationTypeOK, Helper
<1> QED
  BY <1>3, <1>4, <1>5, <1>6, <1>7, <1>8, <1>9, <1>10

(* StartRotated keeps the invariant. *)
LEMMA StartRotatedKeeps ==
  ASSUME RotationAssumption, RotationInv, StartRotated PROVE RotationInv' /\ StepIsSafe
<1> USE DEF RotationInv
<1>1. txn'[Helper].phase \in RotationPhases
  BY HelperTypes DEF StartRotated, PlacesAgree, RotationTypeOK, Journal, Undoing, Open,
     AtPlace, Working
<1>2. (Notes \/ Undoes) /\ upsets' \in 0..MaxUpsets
  BY <1>1, HelperTypes, GoOnInside, NotingFields DEF StartRotated, AtPlace, Working, Notes,
     Keeps
<1>3. RotationTypeOK'
  BY <1>1, <1>2 DEF StartRotated, Notes, Undoes, Keeps, AtPlace, Busy, Working,
     RotationTypeOK, PlacesAgree, Credentials, Mine, FilesOf, Helper
<1>4. PlacesAgree'
  BY <1>1, <1>2 DEF StartRotated, Notes, Undoes, Keeps, AtPlace, Busy, Working, PlacesAgree,
     RotationTypeOK, Open, Undoing, Helper, Mine, PhaseAfter
<1>5. StoppedToChange'
  BY <1>1, <1>2 DEF StartRotated, Notes, Undoes, Keeps, AtPlace, Working, StoppedToChange,
     PhaseAfter
<1>6. FilesAreIn'
  BY <1>1, <1>2 DEF StartRotated, Notes, Undoes, Keeps, AtPlace, Busy, Working, FilesAreIn,
     PlacesAgree, RotationTypeOK, PhaseAfter, Helper, Mine, Credentials, FilesOf
<1>7. BackupsAreRecent'
  BY <1>1, <1>2 DEF StartRotated, Notes, Undoes, Keeps, AtPlace, Busy, Working,
     BackupsAreRecent, EvidenceStands, PlacesAgree, RotationTypeOK, Open, Undoing, Helper,
     Mine, Credentials, FilesOf
<1>8. ASSUME ~overtook' PROVE JournalsHold'
  BY <1>1, <1>2, <1>8 DEF StartRotated, Notes, Undoes, Keeps, AtPlace, Busy, Working,
     JournalsHold, PlacesHold, PlacesAgree, Served, OneGeneration, CanBeUndone,
     RotationTypeOK, Open, Undoing, OtherHelper, Helpers, Helper, Mine, Credentials, FilesOf
<1>9. ASSUME ~overtook' PROVE PlacesHold'
  BY <1>1, <1>2, <1>9, HelperTypes, HelperFacts DEF StartRotated, Notes, Undoes, Keeps,
     AtPlace, Busy, Working, JournalsHold, PlacesHold, PlacesAgree, StoppedToChange,
     FilesAreIn, Served, OneGeneration, CanBeUndone, BackedUp, RotationTypeOK, Open,
     Undoing, Mine, PhaseAfter, Helper
<1>10. StepIsSafe
  BY <1>1, <1>2 DEF StartRotated, Notes, Undoes, Keeps, AtPlace, Busy, Working, StepIsSafe,
     PlacesAgree, StoppedToChange, RotationTypeOK, Helper
<1> QED
  BY <1>3, <1>4, <1>5, <1>6, <1>7, <1>8, <1>9, <1>10

(* NotePhase keeps the invariant. *)
LEMMA NotePhaseKeeps ==
  ASSUME RotationAssumption, RotationInv, NotePhase PROVE RotationInv' /\ StepIsSafe
<1> USE DEF RotationInv
<1>1. txn'[Helper].phase \in RotationPhases
  BY HelperTypes DEF NotePhase, PlacesAgree, RotationTypeOK, Journal, Undoing, Open, AtPlace
<1>2. /\ \/ rotation.phase = "HEALTHY" /\ Moves("evidence")
         \/ rotation.phase # "HEALTHY" /\ Moves("work")
         \/ Undoes
      /\ upsets' \in 0..MaxUpsets
  BY <1>1, HelperTypes, GoOnInside, GoToFields DEF NotePhase, AtPlace, Places, Moves, Keeps
<1>2a. /\ txn'[Helper] \in Journal /\ txn'[Helper] # Absent
       /\ txn' \in [Helpers -> Journal \cup {Absent}]
       /\ txn'[Helper].phase = rotation.phase
       /\ txn'[Helper].wasActive = txn[Helper].wasActive
       /\ \A h \in Helpers : h # Helper => txn'[h] = txn[h]
  <2>1. txn[Helper] \in Journal /\ txn \in [Helpers -> Journal \cup {Absent}]
    BY HelperTypes DEF NotePhase, PlacesAgree, AtPlace, Open, Undoing, RotationTypeOK
  <2> DEFINE noted == [txn[Helper] EXCEPT !.phase = rotation.phase]
  <2>2. txn' = [txn EXCEPT ![Helper] = noted]
    BY DEF NotePhase
  <2>3. /\ noted \in Journal /\ noted.phase = rotation.phase
        /\ noted.wasActive = txn[Helper].wasActive
    BY <2>1, HelperTypes DEF Journal
  <2> HIDE DEF noted
  <2> QED
    BY <2>1, <2>2, <2>3, HelperTypes
<1>3. RotationTypeOK'
  BY <1>1, <1>2, <1>2a, HelperTypes DEF NotePhase, Moves, Undoes, Keeps, AtPlace,
     RotationTypeOK, PinSets, Journal
<1>4. PlacesAgree'
  BY <1>1, <1>2, <1>2a, HelperTypes DEF NotePhase, Moves, Undoes, Keeps, AtPlace, Busy,
     PlacesAgree, Open, Undoing, Mine, PhaseAfter, Helper
<1>5. StoppedToChange'
  BY <1>1, <1>2, <1>2a DEF NotePhase, Moves, Undoes, Keeps, AtPlace, StoppedToChange
<1>6. FilesAreIn'
  BY <1>1, <1>2, <1>2a DEF NotePhase, Moves, Undoes, Keeps, AtPlace, Busy, Working,
     FilesAreIn, PlacesAgree, RotationTypeOK, PhaseAfter, Helper, Mine, Credentials, FilesOf
<1>7. BackupsAreRecent'
  BY <1>1, <1>2, <1>2a DEF NotePhase, Moves, Undoes, Keeps, AtPlace, Busy, BackupsAreRecent,
     EvidenceStands, PlacesAgree, RotationTypeOK, Open, Undoing, Helper, Mine, Credentials,
     FilesOf
<1>8. ASSUME ~overtook' PROVE JournalsHold'
  BY <1>1, <1>2, <1>2a, <1>8, HelperTypes, HelperFacts DEF NotePhase, Moves, Undoes, Keeps,
     AtPlace, Busy, Working, JournalsHold, PlacesHold, PlacesAgree, Served, OneGeneration,
     CanBeUndone, RotationTypeOK, Open, Undoing, Mine
<1>9. ASSUME ~overtook' PROVE PlacesHold'
  BY <1>1, <1>2, <1>2a, <1>9 DEF NotePhase, Moves, Undoes, Keeps, AtPlace, Busy, Working,
     JournalsHold, PlacesHold, PlacesAgree, StoppedToChange, FilesAreIn, Served,
     OneGeneration, CanBeUndone, BackedUp, RotationTypeOK, Open, Undoing, OtherHelper,
     Helpers, Helper, Mine, Credentials, FilesOf, PhaseAfter
<1>10. StepIsSafe
  BY <1>1, <1>2, <1>2a DEF NotePhase, Moves, Undoes, Keeps, AtPlace, Busy, StepIsSafe,
     PlacesAgree, StoppedToChange, RotationTypeOK, Helper
<1> QED
  BY <1>3, <1>4, <1>5, <1>6, <1>7, <1>8, <1>9, <1>10

(* IssueEvidence keeps the invariant. *)
LEMMA IssueEvidenceKeeps ==
  ASSUME RotationAssumption, RotationInv, IssueEvidence PROVE RotationInv' /\ StepIsSafe
<1> USE DEF RotationInv
<1>1. /\ \/ Helper = "fixture" /\ Moves("clean")
         \/ Helper # "fixture" /\ Moves("dropJournal")
         \/ Stops("rejected")
      /\ upsets' \in 0..MaxUpsets
  BY GoOnTo DEF IssueEvidence, AtPlace, Places
<1>3. RotationTypeOK'
  <2>1. rotation' \in Rotations
    BY <1>1 DEF Moves, Stops, Keeps
  <2>2. incoming[Helper] \in Generations /\ Helper \in Helpers
    BY HelperTypes DEF IssueEvidence, AtPlace, PlacesAgree
  <2>3. issued' \in [Helpers -> Generations]
    BY <2>2 DEF IssueEvidence, RotationTypeOK
  <2> QED BY <1>1, <2>1, <2>3 DEF IssueEvidence, RotationTypeOK
<1>4. PlacesAgree'
  BY <1>1, HelperTypes, HelperFacts DEF IssueEvidence, Moves, Stops, Keeps, AtPlace, Busy,
     PlacesAgree, Open, Undoing, Mine, PhaseAfter, Helper
<1>5. StoppedToChange'
  BY <1>1 DEF IssueEvidence, Moves, Stops, Keeps, AtPlace, StoppedToChange
<1>6. FilesAreIn'
  BY <1>1 DEF IssueEvidence, Moves, Stops, Keeps, AtPlace, Busy, Working, FilesAreIn,
     PlacesAgree, RotationTypeOK, PhaseAfter, Helper, Mine, Credentials, FilesOf
<1>7. BackupsAreRecent'
  BY <1>1, HelperTypes, HelperFacts DEF IssueEvidence, Moves, Stops, Keeps, AtPlace, Busy,
     Working, BackupsAreRecent, FilesAreIn, EvidenceStands, PlacesAgree, RotationTypeOK,
     Open, Undoing, Mine, Helper
<1>8. ASSUME ~overtook' PROVE JournalsHold'
  BY <1>1, <1>8 DEF IssueEvidence, Moves, Stops, Keeps, AtPlace, Busy, Working,
     JournalsHold, PlacesHold, PlacesAgree, Served, OneGeneration, CanBeUndone,
     RotationTypeOK, Open, Undoing, OtherHelper, Helpers, Helper, Mine, Credentials, FilesOf
<1>9. ASSUME ~overtook' PROVE PlacesHold'
  BY <1>1, <1>9 DEF IssueEvidence, Moves, Stops, Keeps, AtPlace, Busy, Working,
     JournalsHold, PlacesHold, PlacesAgree, StoppedToChange, FilesAreIn, Served,
     OneGeneration, CanBeUndone, BackedUp, RotationTypeOK, Open, Undoing, OtherHelper,
     Helpers, Helper, Mine, Credentials, FilesOf, PhaseAfter
<1>10. StepIsSafe
  BY <1>1 DEF IssueEvidence, Moves, Stops, Keeps, AtPlace, Busy, StepIsSafe, PlacesAgree,
     StoppedToChange, RotationTypeOK, Helper
<1> QED
  BY <1>3, <1>4, <1>5, <1>6, <1>7, <1>8, <1>9, <1>10

(* StageCredentials keeps the invariant. *)
LEMMA StageCredentialsKeeps ==
  ASSUME RotationAssumption, RotationInv, NEW h \in Helpers, NEW g \in Generations,
         StageCredentials(h, g)
  PROVE  RotationInv' /\ StepIsSafe
<1> USE DEF RotationInv
<1>1. rotation' = rotation /\ UNCHANGED upsets
  BY DEF StageCredentials
<1>3. RotationTypeOK'
  BY <1>1 DEF StageCredentials, AtPlace, Busy, RotationTypeOK, PlacesAgree, Credentials,
     Mine, FilesOf, Helper
<1>4. PlacesAgree'
  <2>1. Busy => Helper # h
    BY DEF StageCredentials
  <2>2. /\ incoming'[h] = g /\ staged'[h] = g /\ issued'[h] <= g
        /\ \A k \in Helpers : k # h => incoming'[k] = incoming[k] /\ staged'[k] = staged[k]
    BY HelperTypes DEF StageCredentials, RotationTypeOK, PlacesAgree, Generations,
       RotationAssumption
  <2>3. incoming'[Helper] # Absent \/ incoming'[Helper] = incoming[Helper]
    BY <2>2, HelperTypes
  <2> QED
    BY <1>1, <2>2, <2>3, HelperTypes DEF StageCredentials, PlacesAgree, AtPlace, Busy,
       Helper, Mine, Open, Undoing, PhaseAfter
<1>5. StoppedToChange'
  BY <1>1 DEF StageCredentials, AtPlace, Busy, StoppedToChange
<1>6. FilesAreIn'
  BY <1>1 DEF StageCredentials, AtPlace, Busy, Working, FilesAreIn, PlacesAgree,
     RotationTypeOK, PhaseAfter, Helper, Mine, Credentials, FilesOf
<1>7. BackupsAreRecent'
  BY <1>1 DEF StageCredentials, AtPlace, Busy, BackupsAreRecent, EvidenceStands,
     PlacesAgree, RotationTypeOK, Open, Undoing, Helper, Mine, Credentials, FilesOf
<1>8. ASSUME ~overtook' PROVE JournalsHold'
  BY <1>1, <1>8 DEF StageCredentials, AtPlace, Busy, Working, JournalsHold, PlacesHold,
     PlacesAgree, Served, OneGeneration, CanBeUndone, RotationTypeOK, Open, Undoing,
     OtherHelper, Helpers, Helper, Mine, Credentials, FilesOf
<1>9. ASSUME ~overtook' PROVE PlacesHold'
  BY <1>1, <1>9 DEF StageCredentials, AtPlace, Busy, Working, JournalsHold, PlacesHold,
     PlacesAgree, StoppedToChange, FilesAreIn, Served, OneGeneration, CanBeUndone, BackedUp,
     RotationTypeOK, Open, Undoing, OtherHelper, Helpers, Helper, Mine, Credentials,
     FilesOf, PhaseAfter
<1>10. StepIsSafe
  BY <1>1 DEF StageCredentials, AtPlace, Busy, StepIsSafe, PlacesAgree, StoppedToChange,
     RotationTypeOK, Helper
<1> QED
  BY <1>3, <1>4, <1>5, <1>6, <1>7, <1>8, <1>9, <1>10

(* StartRotation keeps the invariant. *)
LEMMA StartRotationKeeps ==
  ASSUME RotationAssumption, RotationInv, NEW h \in Helpers, StartRotation(h)
  PROVE  RotationInv' /\ StepIsSafe
<1> USE DEF RotationInv
<1>1. /\ rotation' \in Rotations /\ rotation'.who = h /\ rotation'.todo = FilesOf(h)
      /\ rotation'.why = "resume" /\ UNCHANGED upsets
      /\ txn[h] # Absent => /\ rotation'.at = "recover" /\ rotation'.phase = txn[h].phase
                            /\ rotation'.wasActive = txn[h].wasActive
      /\ txn[h] = Absent => rotation'.at = "check"
  <2>1. txn[h] # Absent => txn[h].phase \in RotationPhases /\ txn[h].wasActive \in BOOLEAN
    BY HelperTypes DEF Journal
  <2>2. FilesOf(h) \subseteq Credentials
    BY HelperFacts
  <2> QED
    BY <2>1, <2>2 DEF StartRotation, Rotations, Places, RotationPhases, RotationAnswers
<1>3. RotationTypeOK'
  BY <1>1 DEF StartRotation, AtPlace, Busy, disk, RotationTypeOK, PlacesAgree, Credentials,
     Mine, FilesOf, Helper
<1>4. PlacesAgree'
  BY <1>1 DEF StartRotation, AtPlace, Busy, disk, PlacesAgree, RotationTypeOK, Open,
     Undoing, Helper, Mine, PhaseAfter
<1>5. StoppedToChange'
  BY <1>1 DEF StartRotation, AtPlace, Busy, disk, StoppedToChange
<1>6. FilesAreIn'
  BY <1>1 DEF StartRotation, AtPlace, Busy, Working, disk, FilesAreIn, PlacesAgree,
     RotationTypeOK, PhaseAfter, Helper, Mine, Credentials, FilesOf
<1>7. BackupsAreRecent'
  BY <1>1 DEF StartRotation, AtPlace, Busy, disk, BackupsAreRecent, EvidenceStands,
     PlacesAgree, RotationTypeOK, Open, Undoing, Helper, Mine, Credentials, FilesOf
<1>8. ASSUME ~overtook' PROVE JournalsHold'
  BY <1>1, <1>8 DEF StartRotation, AtPlace, Busy, Working, disk, JournalsHold, PlacesHold,
     PlacesAgree, Served, OneGeneration, CanBeUndone, RotationTypeOK, Open, Undoing,
     OtherHelper, Helpers, Helper, Mine, Credentials, FilesOf
<1>9. ASSUME ~overtook' PROVE PlacesHold'
  BY <1>1, <1>9 DEF StartRotation, AtPlace, Busy, Working, disk, JournalsHold, PlacesHold,
     PlacesAgree, StoppedToChange, FilesAreIn, Served, OneGeneration, CanBeUndone, BackedUp,
     RotationTypeOK, Open, Undoing, OtherHelper, Helpers, Helper, Mine, Credentials,
     FilesOf, PhaseAfter
<1>10. StepIsSafe
  BY <1>1 DEF StartRotation, AtPlace, Busy, disk, StepIsSafe, PlacesAgree, StoppedToChange,
     RotationTypeOK, Helper
<1> QED
  BY <1>3, <1>4, <1>5, <1>6, <1>7, <1>8, <1>9, <1>10

(* Prepare keeps the invariant. *)
LEMMA PrepareKeeps ==
  ASSUME RotationAssumption, RotationInv, Prepare PROVE RotationInv' /\ StepIsSafe
<1> USE DEF RotationInv
<1>1. /\ Prepared \/ Stops("rejected")
      /\ upsets' \in 0..MaxUpsets
  <2>1. rotation \in Rotations /\ GoTo("work") \in Rotations
    BY HelperTypes, GoToFields DEF Places
  <2> DEFINE next == [GoTo("work") EXCEPT !.why = "rotate", !.phase = "PREPARED",
                                          !.wasActive = loaded # Absent]
  <2>2. /\ next \in Rotations /\ next.who = Helper /\ next.at = "work" /\ next.todo = Mine
        /\ next.why = "rotate" /\ next.phase = "PREPARED" /\ next.wasActive = (loaded # Absent)
    <3>1. GoTo("work").who = Helper /\ GoTo("work").at = "work" /\ GoTo("work").todo = Mine
      BY <2>1, GoToFields DEF Places
    <3> QED
      BY <2>1, <3>1 DEF Rotations, RotationPhases
  <2>3. GoOn(next)
    BY DEF Prepare
  <2> HIDE DEF next
  <2> QED
    BY <2>1, <2>2, <2>3, ErrorFields DEF Prepare, AtPlace, GoOn, Upset, Prepared, Stops,
       Keeps, Prepared, RotationTypeOK, RotationAssumption
<1>2. /\ txn' \in [Helpers -> Journal \cup {Absent}]
      /\ txn'[Helper] # Absent /\ txn'[Helper].phase = "PREPARED"
      /\ Prepared => rotation'.wasActive = txn'[Helper].wasActive
      /\ loaded # Absent => txn'[Helper].wasActive
      /\ \A h \in Helpers : h # Helper => txn'[h] = txn[h]
      /\ \A f \in Mine : backup[f] = pem[f]
  <2> DEFINE opened == [phase |-> "PREPARED", wasActive |-> loaded # Absent]
  <2>1. /\ opened \in Journal /\ opened.phase = "PREPARED"
        /\ opened.wasActive = (loaded # Absent)
    BY DEF Journal, RotationPhases
  <2>2. txn' = [txn EXCEPT ![Helper] = opened] /\ txn \in [Helpers -> Journal \cup {Absent}]
    BY DEF Prepare, RotationTypeOK
  <2> HIDE DEF opened
  <2>3. \A f \in Mine : backup[f] = pem[f]
    BY DEF BackupsAreRecent, Prepare, AtPlace
  <2>4. /\ txn' \in [Helpers -> Journal \cup {Absent}] /\ txn'[Helper] = opened
        /\ \A h \in Helpers : h # Helper => txn'[h] = txn[h]
    BY <2>1, <2>2, HelperTypes
  <2> QED
    BY <2>1, <2>3, <2>4, HelperTypes DEF Prepared
<1>3. RotationTypeOK'
  BY <1>1, <1>2 DEF Prepare, Prepared, Stops, Keeps, Prepared, RotationTypeOK
<1>4. PlacesAgree'
  BY <1>1, <1>2, HelperTypes DEF Prepare, Prepared, Stops, Keeps, Prepared, AtPlace, Busy,
     PlacesAgree, Open, Undoing, Mine, Helper
<1>5. StoppedToChange'
  BY <1>1, <1>2 DEF Prepare, Stops, Keeps, Prepared, AtPlace, StoppedToChange
<1>6. FilesAreIn'
  BY <1>1, <1>2 DEF Prepare, Stops, Keeps, Prepared, AtPlace, Busy, Working, FilesAreIn,
     PlacesAgree, RotationTypeOK, PhaseAfter, Helper, Mine, Credentials, FilesOf
<1>7. BackupsAreRecent'
  BY <1>1, <1>2 DEF Prepare, Stops, Keeps, Prepared, AtPlace, Busy, BackupsAreRecent,
     EvidenceStands, PlacesAgree, RotationTypeOK, Open, Undoing, Helper, Mine, Credentials,
     FilesOf
<1>8. ASSUME ~overtook' PROVE JournalsHold'
  <2>1. ~overtook /\ txn[OtherHelper(Helper)] = Absent /\ txn[Helper] = Absent
    BY <1>8 DEF Prepare, PlacesAgree, AtPlace, Open
  <2>2. Served
    BY <2>1, HelperTypes, HelperFacts DEF JournalsHold, Open
  <2>3. pins \in PinSets /\ loaded # Absent /\ backupPins[Helper] = pins
    BY <2>1, <2>2, HelperTypes DEF Served, RotationTypeOK, PlacesHold, Prepare, AtPlace
  <2>4. ASSUME NEW h \in Helpers, h = Helper PROVE CanBeUndone(h)'
    <3>1. pem = pins /\ \A k \in Helpers : OneGeneration(k)
      BY <2>2 DEF Served
    <3>2. /\ UNCHANGED <<pem, pins, backup, backupPins>>
          /\ txn'[h].wasActive
      BY <1>2, <2>3, <2>4 DEF Prepare
    <3>3. \A f \in FilesOf(h) : backup'[f] = pem[f]
      BY <1>2, <2>4, <3>2 DEF Mine
    <3>4. backupPins'[h] = pem
      BY <2>3, <2>4, <3>1, <3>2
    <3>5. OtherHelper(h) \in Helpers
      BY HelperFacts
    <3> QED
      BY <2>4, <3>1, <3>2, <3>3, <3>4, <3>5 DEF CanBeUndone, OneGeneration
  <2>5. ASSUME NEW h \in Helpers, h # Helper PROVE txn'[h] = Absent
    BY <1>2, <2>1, <2>5, HelperTypes, HelperFacts
  <2>6. txn'[Helper] # Absent /\ Helper \in Helpers
    BY <1>2, HelperTypes
  <2>7. \A h \in Helpers : Open(h)' => h = Helper
    BY <2>5 DEF Open
  <2>8. \A h \in Helpers : Open(h)' => ~Open(OtherHelper(h))'
    BY <2>7, HelperFacts
  <2>9. \A h \in Helpers : Open(h)' => Undoing(h)'
    BY <1>2, <2>7 DEF Open, Undoing
  <2>10. ~(\A h \in Helpers : ~Open(h)')
    BY <2>6 DEF Open
  <2> QED
    BY <2>4, <2>7, <2>8, <2>9, <2>10 DEF JournalsHold, Undoing
<1>9. ASSUME ~overtook' PROVE PlacesHold'
  <2>1. ~overtook /\ txn[OtherHelper(Helper)] = Absent /\ txn[Helper] = Absent
    BY <1>9 DEF Prepare, PlacesAgree, AtPlace, Open
  <2>2. pins \in PinSets /\ pem = pins /\ backupPins[Helper] = pins
    BY <2>1 DEF RotationTypeOK, PlacesHold, Prepare, AtPlace
  <2>3. BackedUp(Helper)'
    BY <1>1, <1>2, <2>2, HelperTypes DEF Prepare, BackedUp, Mine, Prepared, Stops, Keeps,
       Prepared, Helper
  <2> QED
    BY <1>1, <1>2, <2>3, HelperTypes DEF PlacesHold, Prepared, Stops, Keeps, Prepared,
       AtPlace, Working, Helper
<1>10. StepIsSafe
  BY <1>1, <1>2 DEF Prepare, Stops, Keeps, Prepared, AtPlace, Busy, StepIsSafe, PlacesAgree,
     StoppedToChange, RotationTypeOK, Helper
<1> QED
  BY <1>3, <1>4, <1>5, <1>6, <1>7, <1>8, <1>9, <1>10

(* RaiseError keeps the invariant. *)
LEMMA RaiseErrorKeeps ==
  ASSUME RotationAssumption, RotationInv, RaiseError PROVE RotationInv' /\ StepIsSafe
<1> USE DEF RotationInv
<1>1. /\ \/ rotation.at \in {"work", "note"} /\ Undoes
         \/ rotation.at \notin {"work", "note"} /\ Stops("rejected")
      /\ upsets' \in 0..MaxUpsets
  <2>1. rotation.at \in {"work", "note"} => txn[Helper].phase \in RotationPhases
    BY HelperTypes DEF PlacesAgree, Journal, Open
  <2>2. rotation \in Rotations /\ rotation' = AfterError(txn) /\ txn' = txn
    BY HelperTypes DEF RaiseError, disk
  <2>3. CASE rotation.at \in {"work", "note"}
    BY <2>1, <2>2, <2>3, ErrorFields DEF RaiseError, Undoes, Keeps, Upset, RotationTypeOK,
       RotationAssumption
  <2>4. CASE rotation.at \notin {"work", "note"}
    BY <2>2, <2>4, ErrorFields DEF RaiseError, Stops, Keeps, Upset, RotationTypeOK,
       RotationAssumption
  <2> QED
    BY <2>3, <2>4
<1>3. RotationTypeOK'
  BY <1>1 DEF RaiseError, Undoes, Stops, Keeps, AtPlace, Busy, disk, RotationTypeOK,
     PlacesAgree, Credentials, Mine, FilesOf, Helper
<1>4. PlacesAgree'
  BY <1>1 DEF RaiseError, Undoes, Stops, Keeps, AtPlace, Busy, disk, PlacesAgree,
     RotationTypeOK, Open, Undoing, Helper, Mine, PhaseAfter
<1>5. StoppedToChange'
  BY <1>1 DEF RaiseError, Undoes, Stops, Keeps, AtPlace, Busy, disk, StoppedToChange
<1>6. FilesAreIn'
  BY <1>1 DEF RaiseError, Undoes, Stops, Keeps, AtPlace, Busy, Working, disk, FilesAreIn,
     PlacesAgree, RotationTypeOK, PhaseAfter, Helper, Mine, Credentials, FilesOf
<1>7. BackupsAreRecent'
  BY <1>1 DEF RaiseError, Undoes, Stops, Keeps, AtPlace, Busy, disk, BackupsAreRecent,
     EvidenceStands, PlacesAgree, RotationTypeOK, Open, Undoing, Helper, Mine, Credentials,
     FilesOf
<1>8. ASSUME ~overtook' PROVE JournalsHold'
  BY <1>1, <1>8 DEF RaiseError, Undoes, Stops, Keeps, AtPlace, Busy, Working, disk,
     JournalsHold, PlacesHold, PlacesAgree, Served, OneGeneration, CanBeUndone,
     RotationTypeOK, Open, Undoing, OtherHelper, Helpers, Helper, Mine, Credentials, FilesOf
<1>9. ASSUME ~overtook' PROVE PlacesHold'
  BY <1>1, <1>9 DEF RaiseError, Undoes, Stops, Keeps, AtPlace, Busy, Working, disk,
     JournalsHold, PlacesHold, PlacesAgree, StoppedToChange, FilesAreIn, Served,
     OneGeneration, CanBeUndone, BackedUp, RotationTypeOK, Open, Undoing, OtherHelper,
     Helpers, Helper, Mine, Credentials, FilesOf, PhaseAfter
<1>10. StepIsSafe
  BY <1>1 DEF RaiseError, Undoes, Stops, Keeps, AtPlace, Busy, disk, StepIsSafe,
     PlacesAgree, StoppedToChange, RotationTypeOK, Helper
<1> QED
  BY <1>3, <1>4, <1>5, <1>6, <1>7, <1>8, <1>9, <1>10

(* KillRotation keeps the invariant. *)
LEMMA KillRotationKeeps ==
  ASSUME RotationAssumption, RotationInv, KillRotation PROVE RotationInv' /\ StepIsSafe
<1> USE DEF RotationInv
<1>1. Stops("killed") /\ upsets' \in 0..MaxUpsets
  BY HelperTypes, EndedFields DEF KillRotation, RotationAnswers, Stops, Keeps, Upset,
     RotationTypeOK, RotationAssumption
<1>3. RotationTypeOK'
  BY <1>1 DEF KillRotation, Stops, Keeps, AtPlace, Busy, disk, RotationTypeOK, PlacesAgree,
     Credentials, Mine, FilesOf, Helper
<1>4. PlacesAgree'
  BY <1>1 DEF KillRotation, Stops, Keeps, AtPlace, Busy, disk, PlacesAgree, RotationTypeOK,
     Open, Undoing, Helper, Mine, PhaseAfter
<1>5. StoppedToChange'
  BY <1>1 DEF KillRotation, Stops, Keeps, AtPlace, Busy, disk, StoppedToChange
<1>6. FilesAreIn'
  BY <1>1 DEF KillRotation, Stops, Keeps, AtPlace, Busy, Working, disk, FilesAreIn,
     PlacesAgree, RotationTypeOK, PhaseAfter, Helper, Mine, Credentials, FilesOf
<1>7. BackupsAreRecent'
  BY <1>1 DEF KillRotation, Stops, Keeps, AtPlace, Busy, disk, BackupsAreRecent,
     EvidenceStands, PlacesAgree, RotationTypeOK, Open, Undoing, Helper, Mine, Credentials,
     FilesOf
<1>8. ASSUME ~overtook' PROVE JournalsHold'
  BY <1>1, <1>8 DEF KillRotation, Stops, Keeps, AtPlace, Busy, Working, disk, JournalsHold,
     PlacesHold, PlacesAgree, Served, OneGeneration, CanBeUndone, RotationTypeOK, Open,
     Undoing, OtherHelper, Helpers, Helper, Mine, Credentials, FilesOf
<1>9. ASSUME ~overtook' PROVE PlacesHold'
  BY <1>1, <1>9 DEF KillRotation, Stops, Keeps, AtPlace, Busy, Working, disk, JournalsHold,
     PlacesHold, PlacesAgree, StoppedToChange, FilesAreIn, Served, OneGeneration,
     CanBeUndone, BackedUp, RotationTypeOK, Open, Undoing, OtherHelper, Helpers, Helper,
     Mine, Credentials, FilesOf, PhaseAfter
<1>10. StepIsSafe
  BY <1>1 DEF KillRotation, Stops, Keeps, AtPlace, Busy, disk, StepIsSafe, PlacesAgree,
     StoppedToChange, RotationTypeOK, Helper
<1> QED
  BY <1>3, <1>4, <1>5, <1>6, <1>7, <1>8, <1>9, <1>10

(* RestartHost keeps the invariant. *)
LEMMA RestartHostKeeps ==
  ASSUME RotationAssumption, RotationInv, RestartHost PROVE RotationInv' /\ StepIsSafe
<1> USE DEF RotationInv
<1>1. Stops("killed") /\ upsets' \in 0..MaxUpsets
  BY HelperTypes, EndedFields DEF RestartHost, RotationAnswers, Stops, Keeps, Upset,
     RotationTypeOK, RotationAssumption
<1>3. RotationTypeOK'
  BY <1>1 DEF RestartHost, Stops, Keeps, AtPlace, Busy, RotationTypeOK, PlacesAgree,
     Credentials, Mine, FilesOf, Helper
<1>4. PlacesAgree'
  BY <1>1 DEF RestartHost, Stops, Keeps, AtPlace, Busy, PlacesAgree, RotationTypeOK, Open,
     Undoing, Helper, Mine, PhaseAfter
<1>5. StoppedToChange'
  BY <1>1 DEF RestartHost, Stops, Keeps, AtPlace, StoppedToChange
<1>6. FilesAreIn'
  BY <1>1 DEF RestartHost, Stops, Keeps, AtPlace, Busy, Working, FilesAreIn, PlacesAgree,
     RotationTypeOK, PhaseAfter, Helper, Mine, Credentials, FilesOf
<1>7. BackupsAreRecent'
  BY <1>1 DEF RestartHost, Stops, Keeps, AtPlace, Busy, BackupsAreRecent, EvidenceStands,
     PlacesAgree, RotationTypeOK, Open, Undoing, Helper, Mine, Credentials, FilesOf
<1>8. ASSUME ~overtook' PROVE JournalsHold'
  BY <1>1, <1>8 DEF RestartHost, Stops, Keeps, AtPlace, Busy, Working, JournalsHold,
     PlacesHold, PlacesAgree, Served, OneGeneration, CanBeUndone, RotationTypeOK, Open,
     Undoing, OtherHelper, Helpers, Helper, Mine, Credentials, FilesOf
<1>9. ASSUME ~overtook' PROVE PlacesHold'
  BY <1>1, <1>9 DEF RestartHost, Stops, Keeps, AtPlace, Busy, Working, JournalsHold,
     PlacesHold, PlacesAgree, StoppedToChange, FilesAreIn, Served, OneGeneration,
     CanBeUndone, BackedUp, RotationTypeOK, Open, Undoing, OtherHelper, Helpers, Helper,
     Mine, Credentials, FilesOf, PhaseAfter
<1>10. StepIsSafe
  BY <1>1 DEF RestartHost, Stops, Keeps, AtPlace, Busy, StepIsSafe, PlacesAgree,
     StoppedToChange, RotationTypeOK, Helper
<1> QED
  BY <1>3, <1>4, <1>5, <1>6, <1>7, <1>8, <1>9, <1>10

(* The invariant holds of an Edge in service with nothing staged.           *)
LEMMA RotationInitInv ==
  ASSUME RotationAssumption, RotationInit PROVE RotationInv
<1>1. RotationTypeOK
  <2>1. 0 \in Generations /\ upsets \in 0..MaxUpsets
    BY DEF RotationAssumption, RotationInit, Generations
  <2>2. pem \in PinSets /\ pins \in PinSets /\ loaded \in PinSets
    BY <2>1 DEF RotationInit, PinSets
  <2>3. rotation \in Rotations
    BY DEF RotationInit, Rotations, RotationPhases, RotationAnswers, Helpers
  <2> QED
    BY <2>1, <2>2, <2>3 DEF RotationInit, RotationTypeOK
<1>2. PlacesAgree /\ StoppedToChange /\ FilesAreIn
  BY DEF RotationInit, PlacesAgree, StoppedToChange, FilesAreIn, AtPlace, Busy, Working
<1>3. BackupsAreRecent
  BY HelperFacts DEF RotationInit, BackupsAreRecent, EvidenceStands, AtPlace, Undoing, Open
<1>4. JournalsHold /\ PlacesHold
  BY HelperFacts DEF RotationInit, JournalsHold, PlacesHold, AtPlace, Working, Undoing,
     Open, Served, OneGeneration
<1> QED
  BY <1>1, <1>2, <1>3, <1>4 DEF RotationInv

(* Every step keeps the invariant and is safe.                              *)
LEMMA RotationStepInv ==
  ASSUME RotationAssumption, RotationInv, [RotationNext]_rotationVars
  PROVE  RotationInv' /\ StepIsSafe
<1>1. CASE UNCHANGED rotationVars
  BY <1>1 DEF rotationVars, disk, RotationInv, RotationTypeOK, PlacesAgree, StoppedToChange,
     FilesAreIn, BackupsAreRecent, EvidenceStands, JournalsHold, PlacesHold, Served,
     OneGeneration, CanBeUndone, BackedUp, Open, Undoing, AtPlace, Busy, Working, Helper,
     Mine, StepIsSafe
<1>2. CASE RotationNext
  BY <1>2, BeginRestoreKeeps, FinalizeHealthyKeeps, PutBackFileKeeps, PutBackPinsKeeps,
     RefuseWithoutBackupKeeps, RefuseUnpinnedKeeps, StartRestoredKeeps, DropBackupKeeps,
     DropBackupPinsKeeps, DropJournalKeeps, DropIncomingKeeps, RefuseIncomingKeeps,
     AcceptIncomingKeeps, KeepUnchangedKeeps, CopyFileKeeps, CopyPinsKeeps,
     RefuseStoppedKeeps, StopServiceKeeps, InstallFileKeeps, ReconcilePinsKeeps,
     StartRotatedKeeps, NotePhaseKeeps, IssueEvidenceKeeps, StageCredentialsKeeps,
     StartRotationKeeps, PrepareKeeps, RaiseErrorKeeps, KillRotationKeeps, RestartHostKeeps
     DEF RotationNext, RotationStep, RestoreStep, RotateStep
<1> QED
  BY <1>1, <1>2

(* Hence it holds always, by induction over the steps.                      *)
LEMMA RotationAlways ==
  ASSUME RotationAssumption PROVE RotationSpec => [](RotationInv)
<1>1. RotationInit => RotationInv
  BY RotationInitInv
<1>2. RotationInv /\ [RotationNext]_rotationVars => RotationInv'
  BY RotationStepInv
<1> QED
  BY <1>1, <1>2, PTL DEF RotationSpec

(* Whatever is interrupted, wherever, and however often, the credentials,   *)
(* journals and backups of the two helpers are of the shape the code reads. *)
THEOREM RotationTypesAlways ==
  ASSUME RotationAssumption PROVE RotationSpec => []RotationTypeOK
<1>1. RotationInv => RotationTypeOK
  BY DEF RotationInv
<1> QED
  BY <1>1, RotationAlways, PTL

(* For every set of files and any number of generations, exceptions, kills  *)
(* and restarts: live credentials and the authority change only while       *)
(* OpenSIPS is stopped, evidenced generations are never taken back, and,    *)
(* unless a helper opened a journal over the other's, what is settled is    *)
(* served, what is served is pinned, and the answers are true.              *)
THEOREM CredentialsAlwaysSound ==
  ASSUME RotationAssumption PROVE RotationSpec => CredentialsAreSound
<1>1. RotationInv => EvidenceStands
  BY DEF RotationInv, BackupsAreRecent
<1>2. RotationInv => SettledIsServed
  BY DEF RotationInv, JournalsHold, Served, SettledIsServed, Open
<1>3. RotationInv => ServedIsPinned
  BY DEF RotationInv, JournalsHold, Served, ServedIsPinned, Open, Undoing, FinalizeNew
<1>4. RotationInv /\ [RotationNext]_rotationVars =>
        [pem' # pem \/ pins' # pins => loaded = Absent /\ loaded' = Absent]_rotationVars
  BY RotationStepInv DEF StepIsSafe
<1>5. RotationInv /\ [RotationNext]_rotationVars =>
        [(Busy /\ ~Busy' /\ rotation'.answer \in {"restored", "unchanged", "rotated"}
            /\ ~overtook /\ txn[OtherHelper(Helper)] = Absent) =>
           /\ pem' = pins' /\ loaded' = pem' /\ OneGeneration(Helper)'
           /\ rotation'.answer # "restored" =>
                \A f \in Mine : pem'[f] = staged[Helper]]_rotationVars
  BY RotationStepInv DEF StepIsSafe
<1> QED
  BY <1>1, <1>2, <1>3, <1>4, <1>5, RotationAlways, PTL DEF RotationSpec,
     CredentialsAreSound, ChangesWhileStopped, AnswersAreTrue
=============================================================================
