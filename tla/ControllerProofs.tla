---------------------------- MODULE ControllerProofs ----------------------------
(***************************************************************************)
(* Proofs about the two tools of the controller.                           *)
(*                                                                         *)
(* ControllerRestore, for every number of plays, overlapping or not,       *)
(* failing and lost at any task: the original database survives, and       *)
(* journal and database names are always true.  The second needs where     *)
(* each play is: the lemmas go from what a task does to the databases, to  *)
(* which row of the reconciliation table the next task needs, to what the  *)
(* plays do together.                                                      *)
(*                                                                         *)
(* ControllerInstaller, for every number of sources, settings, clients and *)
(* runs, killed at any step: what is on the machine is what was agreed,    *)
(* and the ledger is true.  The invariant says what each completed phase   *)
(* has left behind and what the running installer may rely on.             *)
(***************************************************************************)
EXTENDS MCController, FiniteSetTheorems, SequenceTheorems, WellFoundedInduction, TLAPS

(* OriginalSurvives counts; what every step keeps is where the original is: *)
(* it is the service database until a database holds the name `previous',   *)
(* and that is the original from then on.                                   *)
HostTypeOK ==
  cp1 \in [journal : Phases \cup {"NONE"}, serving : BOOLEAN, dump : BOOLEAN,
           db : [Databases -> Contents]]

OriginalIsPlaced(db) ==
  /\ db["previous"] \in {"none", "original"}
  /\ db["main"] = "original" <=> db["previous"] = "none"
  /\ db["main"] # "none"
  /\ db["import"] # "original" /\ db["failed"] # "original"

RestoreInv == HostTypeOK /\ OriginalIsPlaced(cp1.db)

LEMMA RestoreInitInv == RestoreInit => RestoreInv
  BY DEF RestoreInit, RestoreInv, HostTypeOK, OriginalIsPlaced, Databases, Contents

(* Every task that the host does not refuse keeps the invariant, whichever  *)
(* play it is of and whatever that play believes.                           *)
LEMMA EffectInv ==
  ASSUME RestoreInv, NEW p \in Plays, NEW t, CanDo(p, t), cp1' \in Effects(t)
  PROVE  RestoreInv'
  <1> DEFINE db == cp1.db
  <1>1. /\ cp1.journal \in Phases \cup {"NONE"} /\ cp1.serving \in BOOLEAN
        /\ cp1.dump \in BOOLEAN /\ db \in [Databases -> Contents]
    BY DEF RestoreInv, HostTypeOK
  <1>2. OriginalIsPlaced(db)
    BY DEF RestoreInv
  <1>3. CASE t \in Phases
    <2>1. cp1' = [cp1 EXCEPT !.journal = t]
      BY <1>3 DEF Effects, Phases
    <2> QED BY <1>1, <1>2, <1>3, <2>1 DEF RestoreInv, HostTypeOK
  <1>4. CASE t = "clear"
    <2>1. cp1' = [cp1 EXCEPT !.journal = "NONE"]
      BY <1>4 DEF Effects, Phases
    <2> QED BY <1>1, <1>2, <2>1 DEF RestoreInv, HostTypeOK
  <1>5. CASE t \in {"drop", "create", "load"}
    <2>1. PICK c \in {"none", "partial", "loaded"} : cp1' = [cp1 EXCEPT !.db["import"] = c]
      BY <1>5 DEF Effects, Phases, LoadResults
    <2> QED
      BY <1>1, <1>2, <2>1
      DEF RestoreInv, HostTypeOK, OriginalIsPlaced, Databases, Contents
  <1>6. CASE t = "swap"
    <2>1. db["main"] # "none" /\ db["previous"] = "none" /\ db["import"] # "none"
      BY <1>6 DEF CanDo, Phases
    <2>2. cp1' = [cp1 EXCEPT !.db = Rename(Rename(@, "main", "previous"), "import", "main")]
      BY <1>6 DEF Effects, Phases
    <2>3. /\ cp1'.db \in [Databases -> Contents]
          /\ cp1'.db["main"] = db["import"] /\ cp1'.db["previous"] = db["main"]
          /\ cp1'.db["import"] = "none" /\ cp1'.db["failed"] = db["failed"]
      BY <1>1, <2>2 DEF HostTypeOK, RestoreInv, Rename, Databases, Contents
    <2>4. HostTypeOK'
      BY <1>1, <2>2, <2>3 DEF RestoreInv, HostTypeOK
    <2> QED BY <1>2, <2>1, <2>3, <2>4 DEF RestoreInv, OriginalIsPlaced
  <1>7. CASE t = "back"
    <2>1. db["main"] # "none" /\ db["failed"] = "none" /\ db["previous"] # "none"
      BY <1>7 DEF CanDo, Phases
    <2>2. cp1' = [cp1 EXCEPT !.db = Rename(Rename(@, "main", "failed"), "previous", "main")]
      BY <1>7 DEF Effects, Phases
    <2>3. /\ cp1'.db \in [Databases -> Contents]
          /\ cp1'.db["main"] = db["previous"] /\ cp1'.db["failed"] = db["main"]
          /\ cp1'.db["previous"] = "none" /\ cp1'.db["import"] = db["import"]
      BY <1>1, <2>2 DEF HostTypeOK, RestoreInv, Rename, Databases, Contents
    <2>4. HostTypeOK'
      BY <1>1, <2>2, <2>3 DEF RestoreInv, HostTypeOK
    <2> QED BY <1>2, <2>1, <2>3, <2>4 DEF RestoreInv, OriginalIsPlaced
  <1>8. CASE t \in {"stop", "start"}
    <2>1. PICK up \in BOOLEAN : cp1' = [cp1 EXCEPT !.serving = up]
      BY <1>8 DEF Effects, Phases
    <2> QED BY <1>1, <1>2, <2>1 DEF RestoreInv, HostTypeOK
  <1>9. CASE t = "discard"
    <2>1. cp1' = [cp1 EXCEPT !.dump = FALSE]
      BY <1>9 DEF Effects, Phases
    <2> QED BY <1>1, <1>2, <2>1 DEF RestoreInv, HostTypeOK
  <1>10. CASE t \notin Phases \cup {"clear", "drop", "create", "load", "swap", "back",
                                     "stop", "start", "discard"}
    <2>1. cp1' = cp1
      BY <1>10 DEF Effects
    <2> QED BY <2>1 DEF RestoreInv, HostTypeOK, OriginalIsPlaced
  <1> QED BY <1>3, <1>4, <1>5, <1>6, <1>7, <1>8, <1>9, <1>10

LEMMA SameHostInv ==
  ASSUME RestoreInv, UNCHANGED cp1
  PROVE  RestoreInv'
  BY DEF RestoreInv, HostTypeOK, OriginalIsPlaced

(* Whatever is done, fails or dies, a step touches the host by one task at  *)
(* most.                                                                    *)
LEMMA RestoreNextInv ==
  ASSUME RestoreInv, [RestoreNext]_restoreVars
  PROVE  RestoreInv'
  <1>1. CASE UNCHANGED restoreVars
    BY <1>1, SameHostInv DEF restoreVars
  <1>2. ASSUME NEW p \in Plays, TakeLock(p)  PROVE RestoreInv'
    BY <1>2, SameHostInv DEF TakeLock
  <1>3. ASSUME NEW p \in Plays, DoTask(p)  PROVE RestoreInv'
    BY <1>3, EffectInv DEF DoTask
  <1>4. ASSUME NEW p \in Plays, FailTask(p)  PROVE RestoreInv'
    <2>1. UNCHANGED cp1 \/ (CanDo(p, NameOf(p)) /\ cp1' \in Effects(NameOf(p)))
      BY <1>4 DEF FailTask
    <2> QED BY <2>1, EffectInv, SameHostInv
  <1>5. ASSUME NEW p \in Plays, LosePlay(p)  PROVE RestoreInv'
    BY <1>5, SameHostInv DEF LosePlay
  <1>6. CASE ExpireLock
    BY <1>6, SameHostInv DEF ExpireLock
  <1>7. CASE RestoreCalms
    BY <1>7, SameHostInv DEF RestoreCalms
  <1>8. CASE Upload
    BY <1>8 DEF Upload, RestoreInv, HostTypeOK, OriginalIsPlaced
  <1> QED
    BY <1>1, <1>2, <1>3, <1>4, <1>5, <1>6, <1>7, <1>8 DEF RestoreNext, RestoreStep

(* The place of the original makes it the only one.                         *)
LEMMA PlacedIsOne ==
  ASSUME RestoreInv
  PROVE  OriginalSurvives
  <1>1. PICK d \in {"main", "previous"} :
          {e \in Databases : cp1.db[e] = "original"} = {d}
    BY DEF RestoreInv, OriginalIsPlaced, Databases
  <1>2. Cardinality({d}) = 1
    BY FS_Singleton
  <1> QED BY <1>1, <1>2 DEF OriginalSurvives, RestoreInv, OriginalIsPlaced

(* The database of before the import is never lost or doubled and there is  *)
(* always a service database, however many plays run together and wherever  *)
(* each of them fails or loses its host (restore-replacement-controller.yml *)
(* and controller_restore_journal.py).                                      *)
THEOREM OriginalSurvivesAlways == RestoreSpec => []OriginalSurvives
  <1>1. RestoreInv /\ [RestoreNext]_restoreVars => RestoreInv'
    BY RestoreNextInv
  <1> QED BY RestoreInitInv, <1>1, PlacedIsOne, PTL DEF RestoreSpec

-----------------------------------------------------------------------------
(* The CHOOSE of NextTask has a least task to choose.                      *)
LEMMA SmallestDue ==
  ASSUME NEW due \in SUBSET Nat, due # {}
  PROVE  \E k \in due : \A l \in due : k <= l
  <1>1. PICK k \in due : \A l \in due : ~(<<l, k>> \in OpToRel(<, Nat))
    BY WFMin, NatLessThanWellFounded
  <1>2. ASSUME NEW l \in due, l < k PROVE <<l, k>> \in OpToRel(<, Nat)
    BY <1>2, Zenon DEF OpToRel
  <1>3. \A l \in due : ~(l < k)
    BY <1>1, <1>2
  <1> QED BY <1>3

(* The first due task runs under the action, and none before it does.       *)
LEMMA NextTaskIs ==
  ASSUME NEW b \in DOMAIN Blocks, Len(Blocks[b]) \in Nat, NEW i \in Nat \ {0}, NEW a,
         NEW k, k = NextTask(b, i, a)
  PROVE  /\ k = 0 \/ (k \in i..Len(Blocks[b]) /\ a \in Blocks[b][k].when)
         /\ \A l \in i..Len(Blocks[b]) :
              a \in Blocks[b][l].when => k # 0 /\ k <= l
  <1> DEFINE due == {j \in i..Len(Blocks[b]) : a \in Blocks[b][j].when}
  <1>1. k = IF due = {} THEN 0 ELSE CHOOSE j \in due : \A l \in due : j <= l
    BY Zenon DEF NextTask
  <1>2. due # {} => \E j \in due : \A l \in due : j <= l
    <2>1. due \in SUBSET Nat
      OBVIOUS
    <2> HIDE DEF due
    <2> QED BY <2>1, SmallestDue
  <1>3. due # {} => k \in due /\ \A l \in due : k <= l
    <2> HIDE DEF due
    <2> QED BY <1>1, <1>2
  <1>4. due = {} => k = 0
    BY <1>1
  <1> QED BY <1>3, <1>4

(* The tasks of the blocks, one by one, for the steps that follow.         *)
LEMMA LookTasks ==
  /\ "look" \in DOMAIN Blocks /\ Len(Blocks["look"]) = 2
  /\ Blocks["look"][1] = Task("observe", EveryPlay)
  /\ Blocks["look"][2] = Task("inspect", EveryPlay)
  BY DEF Blocks

LEMMA RollbackTasks ==
  /\ "rollback" \in DOMAIN Blocks /\ Len(Blocks["rollback"]) = 6
  /\ Blocks["rollback"][1] = Task("stop", Actions)
  /\ Blocks["rollback"][2] = Task("back", {"RESUME_ROLLBACK"})
  /\ Blocks["rollback"][3] = Task("ROLLED_BACK", {"RESUME_ROLLBACK", "FINALIZE_ROLLBACK"})
  /\ Blocks["rollback"][4] = Task("start", Actions)
  /\ Blocks["rollback"][5] = Task("ready", Actions)
  /\ Blocks["rollback"][6] = Task("discard", Actions)
  BY DEF Blocks

LEMMA FinalizeTasks ==
  /\ "finalize" \in DOMAIN Blocks /\ Len(Blocks["finalize"]) = 4
  /\ Blocks["finalize"][1] = Task("COMPLETE", {"FINALIZE_COMPLETE"})
  /\ Blocks["finalize"][2] = Task("start", Actions)
  /\ Blocks["finalize"][3] = Task("ready", Actions)
  /\ Blocks["finalize"][4] = Task("discard", Actions)
  BY DEF Blocks

LEMMA MainTasks ==
  /\ "main" \in DOMAIN Blocks /\ Len(Blocks["main"]) = 15
  /\ Blocks["main"][1] = Task("archive", FromImport)
  /\ Blocks["main"][2] = Task("IMPORT_STARTED", {"START"})
  /\ Blocks["main"][3] = Task("drop", {"RESTART_IMPORT"})
  /\ Blocks["main"][4] = Task("create", FromImport)
  /\ Blocks["main"][5] = Task("load", FromImport)
  /\ Blocks["main"][6] = Task("verify", Actions)
  /\ Blocks["main"][7] = Task("PREPARED", FromImport)
  /\ Blocks["main"][8] = Task("SWAP_STARTED", FromImport \cup {"RESUME_PREPARED"})
  /\ Blocks["main"][9] = Task("stop", Actions)
  /\ Blocks["main"][10] = Task("swap", Unswapped)
  /\ Blocks["main"][11] = Task("SELECTED", Actions \ {"RESUME_READINESS"})
  /\ Blocks["main"][12] = Task("start", Actions)
  /\ Blocks["main"][13] = Task("ready", Actions)
  /\ Blocks["main"][14] = Task("READINESS_VERIFIED", Actions)
  /\ Blocks["main"][15] = Task("COMPLETE", Actions)
  BY DEF Blocks

LEMMA RescueTasks ==
  /\ "rescue" \in DOMAIN Blocks /\ Len(Blocks["rescue"]) = 10
  /\ Blocks["rescue"][1] = Task("stop", EveryPlay)
  /\ Blocks["rescue"][2] = Task("observe", EveryPlay)
  /\ Blocks["rescue"][3] = Task("inspect", EveryPlay)
  /\ Blocks["rescue"][4] = Task("SELECTED", {"RESUME_SELECTED_AFTER_SWAP"})
  /\ Blocks["rescue"][5] = Task("ROLLBACK_STARTED",
                                {"RESUME_SELECTED_AFTER_SWAP", "RESUME_READINESS"})
  /\ Blocks["rescue"][6] = Task("back", {"RESUME_SELECTED_AFTER_SWAP", "RESUME_READINESS",
                                         "RESUME_ROLLBACK"})
  /\ Blocks["rescue"][7] = Task("ROLLED_BACK",
                                {"RESUME_SELECTED_AFTER_SWAP", "RESUME_READINESS",
                                 "RESUME_ROLLBACK", "FINALIZE_ROLLBACK"})
  /\ Blocks["rescue"][8] = Task("drop", Unswapped \ {"START"})
  /\ Blocks["rescue"][9] = Task("clear", Unswapped \ {"START"})
  /\ Blocks["rescue"][10] = Task("start", Actions)
  BY DEF Blocks

LEMMA AlwaysTasks ==
  /\ "always" \in DOMAIN Blocks /\ Len(Blocks["always"]) = 1
  /\ Blocks["always"][1] = Task("discard", EveryPlay)
  BY DEF Blocks

LEMMA BlockNames ==
  DOMAIN Blocks = {"look", "rollback", "finalize", "main", "rescue", "always"}
  BY DEF Blocks

LEMMA ActionNames ==
  Actions = {"START", "BEGIN_IMPORT", "RESTART_IMPORT", "RESUME_PREPARED", "RESUME_SWAP",
             "RESUME_SELECTED_AFTER_SWAP", "RESUME_READINESS", "FINALIZE_COMPLETE",
             "RESUME_ROLLBACK", "FINALIZE_ROLLBACK", "ROLLED_BACK", "COMPLETE"}
  BY DEF Actions, SafeActions

-----------------------------------------------------------------------------
(* The names that hold a database.                                          *)
Names(db) == {d \in Databases : db[d] # "none"}

(* Journal and database names are those of the action's row.                *)
Row(j, db, a) == <<j, Names(db), a>> \in SafeActions

(* A row is its phase and which databases there are; there is always a     *)
(* service database.                                                       *)
LEMMA RowIs ==
  ASSUME NEW j, NEW db \in [Databases -> Contents], db["main"] # "none"
  PROVE  LET none(d) == db[d] = "none"
             fresh == none("import") /\ none("previous") /\ none("failed")
             importing == ~none("import") /\ none("previous") /\ none("failed")
             selected == none("import") /\ ~none("previous") /\ none("failed")
             back == none("import") /\ none("previous") /\ ~none("failed")
         IN  /\ Row(j, db, "START") <=> j = "NONE" /\ fresh
             /\ Row(j, db, "BEGIN_IMPORT") <=> j = "IMPORT_STARTED" /\ fresh
             /\ Row(j, db, "RESTART_IMPORT") <=> j = "IMPORT_STARTED" /\ importing
             /\ Row(j, db, "RESUME_PREPARED") <=> j = "PREPARED" /\ importing
             /\ Row(j, db, "RESUME_SWAP") <=> j = "SWAP_STARTED" /\ importing
             /\ Row(j, db, "RESUME_SELECTED_AFTER_SWAP") <=> j = "SWAP_STARTED" /\ selected
             /\ Row(j, db, "RESUME_READINESS") <=> j = "SELECTED" /\ selected
             /\ Row(j, db, "FINALIZE_COMPLETE") <=> j = "READINESS_VERIFIED" /\ selected
             /\ Row(j, db, "RESUME_ROLLBACK") <=> j = "ROLLBACK_STARTED" /\ selected
             /\ Row(j, db, "FINALIZE_ROLLBACK") <=> j = "ROLLBACK_STARTED" /\ back
             /\ Row(j, db, "ROLLED_BACK") <=> j = "ROLLED_BACK" /\ back
             /\ Row(j, db, "COMPLETE") <=> j = "COMPLETE" /\ selected
  <1> DEFINE N == Names(db)
  <1>1. /\ N = MainOnly <=>
             db["import"] = "none" /\ db["previous"] = "none" /\ db["failed"] = "none"
        /\ N = Importing <=>
             db["import"] # "none" /\ db["previous"] = "none" /\ db["failed"] = "none"
        /\ N = Selected <=>
             db["import"] = "none" /\ db["previous"] # "none" /\ db["failed"] = "none"
        /\ N = RolledBack <=>
             db["import"] = "none" /\ db["previous"] = "none" /\ db["failed"] # "none"
    <2>1. \A d \in Databases : d \in N <=> db[d] # "none"
      BY DEF Names
    <2>2. N \subseteq Databases
      BY DEF Names
    <2> HIDE DEF N
    <2> QED BY <2>1, <2>2 DEF Databases, MainOnly, Importing, Selected, RolledBack
  <1> HIDE DEF N
  <1>2. /\ MainOnly # Importing /\ MainOnly # Selected /\ MainOnly # RolledBack
        /\ Importing # Selected /\ Importing # RolledBack /\ Selected # RolledBack
    BY DEF MainOnly, Importing, Selected, RolledBack
  <1>3. \A a : Row(j, db, a) <=> <<j, N, a>> \in SafeActions
    BY DEF Row, N
  <1> QED BY <1>1, <1>2, <1>3 DEF SafeActions

(* What a task that the host does not refuse does to journal and databases. *)
Renaming == {"drop", "create", "load", "swap", "back"}

Moves(t, j, db, j2, db2) ==
  /\ j2 = IF t \in Phases THEN t ELSE IF t = "clear" THEN "NONE" ELSE j
  /\ t \notin Renaming => db2 = db
  /\ t \in {"drop", "create", "load"} =>
       \A d \in {"main", "previous", "failed"} : db2[d] = db[d]
  /\ t = "drop" => db2["import"] = "none"
  /\ t \in {"create", "load"} => db2["import"] # "none"
  /\ t = "swap" => /\ db2["main"] = db["import"] /\ db2["previous"] = db["main"]
                   /\ db2["import"] = "none" /\ db2["failed"] = db["failed"]
  /\ t = "back" => /\ db2["main"] = db["previous"] /\ db2["failed"] = db["main"]
                   /\ db2["previous"] = "none" /\ db2["import"] = db["import"]

(* Every effect of a task moves journal and databases as its name says.    *)
LEMMA EffectMoves ==
  ASSUME RestoreInv, NEW t, cp1' \in Effects(t)
  PROVE  Moves(t, cp1.journal, cp1.db, cp1'.journal, cp1'.db)
  <1>1. /\ cp1.journal \in Phases \cup {"NONE"} /\ cp1.db \in [Databases -> Contents]
        /\ cp1 = [journal |-> cp1.journal, serving |-> cp1.serving, dump |-> cp1.dump,
                  db |-> cp1.db]
    BY DEF RestoreInv, HostTypeOK
  <1>3. CASE t \in Phases
    <2>1. cp1' = [cp1 EXCEPT !.journal = t]
      BY <1>3 DEF Effects, Phases
    <2> QED BY <1>1, <1>3, <2>1 DEF Moves, Phases, Renaming
  <1>4. CASE t = "clear"
    <2>1. cp1' = [cp1 EXCEPT !.journal = "NONE"]
      BY <1>4 DEF Effects, Phases
    <2> QED BY <1>1, <1>4, <2>1 DEF Moves, Phases, Renaming
  <1>5. CASE t \in {"drop", "create", "load"}
    <2>1. PICK c \in {"none", "partial", "loaded"} :
            /\ cp1' = [cp1 EXCEPT !.db["import"] = c]
            /\ c = "none" <=> t = "drop"
      BY <1>5 DEF Effects, Phases, LoadResults
    <2> QED BY <1>1, <1>5, <2>1 DEF Moves, Phases, Renaming, Databases
  <1>6. CASE t = "swap"
    <2>2. cp1' = [cp1 EXCEPT !.db = Rename(Rename(@, "main", "previous"), "import", "main")]
      BY <1>6 DEF Effects, Phases
    <2> QED BY <1>1, <1>6, <2>2 DEF Moves, Phases, Renaming, Rename, Databases
  <1>7. CASE t = "back"
    <2>2. cp1' = [cp1 EXCEPT !.db = Rename(Rename(@, "main", "failed"), "previous", "main")]
      BY <1>7 DEF Effects, Phases
    <2> QED BY <1>1, <1>7, <2>2 DEF Moves, Phases, Renaming, Rename, Databases
  <1>8. CASE t \notin Phases \cup {"clear"} \cup Renaming
    <2>1. cp1'.journal = cp1.journal /\ cp1'.db = cp1.db
      BY <1>1, <1>8 DEF Effects, Renaming
    <2> QED BY <1>8, <2>1 DEF Moves, Renaming
  <1> QED BY <1>3, <1>4, <1>5, <1>6, <1>7, <1>8 DEF Renaming

-----------------------------------------------------------------------------
(* Where the play is in the rows of the reconciliation table.               *)

(* k2 is the first task from k on that runs under a.                        *)
First(b, k, a, k2) ==
  /\ k2 \in k..Len(Blocks[b]) /\ a \in Blocks[b][k2].when
  /\ \A l \in k..Len(Blocks[b]) : l < k2 => a \notin Blocks[b][l].when

(* The row the next task of a block needs, for a play under action a.      *)
MainFits(k, a, j, db) ==
  /\ k <= 3 => Row(j, db, a)
  /\ k = 4 => Row(j, db, "BEGIN_IMPORT")
  /\ k = 5 => Row(j, db, "RESTART_IMPORT")
  /\ k \in {6, 7} => Row(j, db, IF a \in FromImport THEN "RESTART_IMPORT" ELSE a)
  /\ k = 8 => Row(j, db, "RESUME_PREPARED")
  /\ k = 9 => Row(j, db, IF a \in Unswapped THEN "RESUME_SWAP" ELSE a)
  /\ k = 10 => Row(j, db, "RESUME_SWAP")
  /\ k = 11 => Row(j, db, "RESUME_SELECTED_AFTER_SWAP")
  /\ k \in 12..14 => Row(j, db, "RESUME_READINESS")
  /\ k = 15 => Row(j, db, "FINALIZE_COMPLETE")

RollbackFits(k, a, j, db) ==
  /\ k = 1 => Row(j, db, a)
  /\ k = 2 => Row(j, db, "RESUME_ROLLBACK")
  /\ k = 3 => Row(j, db, "FINALIZE_ROLLBACK")
  /\ k \in 4..6 => Row(j, db, "ROLLED_BACK")

FinalizeFits(k, a, j, db) ==
  Row(j, db, IF k = 1 THEN "FINALIZE_COMPLETE" ELSE "COMPLETE")

(* The rescue has dropped the import and is to clear the journal.          *)
ToClear(j, db) == j \in Clearable /\ Names(db) = MainOnly

RescueFits(k, a, j, db) ==
  /\ k = 4 => Row(j, db, "RESUME_SELECTED_AFTER_SWAP")
  /\ k = 5 => Row(j, db, "RESUME_READINESS")
  /\ k = 6 => Row(j, db, "RESUME_ROLLBACK")
  /\ k = 7 => Row(j, db, "FINALIZE_ROLLBACK")
  /\ k = 8 => Row(j, db, a)
  /\ k = 9 => ToClear(j, db)

(* Some rerun has a next action.                                            *)
Resumable(j, db) == \E a \in Actions : Row(j, db, a)

(* What is known of the databases before and after any step.               *)
TwoHosts(j, db, j2, db2) ==
  /\ db \in [Databases -> Contents] /\ db["main"] # "none"
  /\ db2 \in [Databases -> Contents] /\ db2["main"] # "none"

(* The main block begins with the archive, or with the gate.               *)
LEMMA MainFirst ==
  ASSUME NEW a \in Actions, BlockOf(a) = "main", NEW k2, First("main", 1, a, k2)
  PROVE  k2 = IF a \in FromImport THEN 1 ELSE 6
  <1>1. a \in {"START", "BEGIN_IMPORT", "RESTART_IMPORT", "RESUME_PREPARED", "RESUME_SWAP",
               "RESUME_SELECTED_AFTER_SWAP", "RESUME_READINESS"}
    BY ActionNames DEF BlockOf
  <1>2. \A l \in 1..15 : l < k2 => a \notin Blocks["main"][l].when
    BY MainTasks DEF First
  <1>3. k2 \in 1..15 /\ a \in Blocks["main"][k2].when
    BY MainTasks DEF First
  <1>4. k2 <= 6
    BY <1>2, <1>3, MainTasks DEF Task
  <1> QED BY <1>1, <1>2, <1>3, <1>4, MainTasks DEF Task, FromImport

(* A step that renames nothing and writes no phase keeps every row.         *)
LEMMA SameRow ==
  ASSUME NEW j, NEW db, NEW j2, NEW db2, NEW t, Moves(t, j, db, j2, db2),
         t \notin Phases \cup Renaming \cup {"clear"}
  PROVE  j2 = j /\ db2 = db
  BY DEF Moves

(* The steps forward, and the import begun again.                           *)
LEMMA NextRow ==
  ASSUME NEW j, NEW db, NEW j2, NEW db2, TwoHosts(j, db, j2, db2),
         NEW t, Moves(t, j, db, j2, db2)
  PROVE  LET Leads(name, from, to) ==
               t = name /\ Row(j, db, from) => Row(j2, db2, to)
         IN  /\ Leads("IMPORT_STARTED", "START", "BEGIN_IMPORT")
             /\ Leads("drop", "RESTART_IMPORT", "BEGIN_IMPORT")
             /\ Leads("create", "BEGIN_IMPORT", "RESTART_IMPORT")
             /\ Leads("load", "RESTART_IMPORT", "RESTART_IMPORT")
             /\ Leads("PREPARED", "RESTART_IMPORT", "RESUME_PREPARED")
             /\ Leads("SWAP_STARTED", "RESUME_PREPARED", "RESUME_SWAP")
             /\ Leads("swap", "RESUME_SWAP", "RESUME_SELECTED_AFTER_SWAP")
             /\ Leads("SELECTED", "RESUME_SELECTED_AFTER_SWAP", "RESUME_READINESS")
             /\ Leads("READINESS_VERIFIED", "RESUME_READINESS", "FINALIZE_COMPLETE")
             /\ Leads("COMPLETE", "FINALIZE_COMPLETE", "COMPLETE")
  <1>1. /\ db \in [Databases -> Contents] /\ db["main"] # "none"
        /\ db2 \in [Databases -> Contents] /\ db2["main"] # "none"
    BY DEF TwoHosts
  <1> DEFINE none(d, h) == h[d] = "none"
             fresh(h) == none("import", h) /\ none("previous", h) /\ none("failed", h)
             importing(h) == ~none("import", h) /\ none("previous", h) /\ none("failed", h)
             selected(h) == none("import", h) /\ ~none("previous", h) /\ none("failed", h)
  <1>2. /\ j2 = IF t \in Phases THEN t ELSE IF t = "clear" THEN "NONE" ELSE j
        /\ t \notin Renaming => db2 = db
        /\ t \in {"drop", "create", "load"} =>
             db2["previous"] = db["previous"] /\ db2["failed"] = db["failed"]
        /\ t = "drop" => db2["import"] = "none"
        /\ t \in {"create", "load"} => db2["import"] # "none"
        /\ t = "swap" => /\ db2["previous"] = db["main"] /\ db2["import"] = "none"
                         /\ db2["failed"] = db["failed"]
    BY DEF Moves
  <1>3. ASSUME t = "IMPORT_STARTED", Row(j, db, "START")
        PROVE  Row(j2, db2, "BEGIN_IMPORT")
    <2>1. j = "NONE" /\ fresh(db)
      BY <1>1, <1>3, RowIs
    <2>2. j2 = "IMPORT_STARTED" /\ fresh(db2)
      BY <1>1, <1>2, <1>3, <2>1 DEF Phases, Renaming
    <2> QED BY <1>1, <2>2, RowIs
  <1>4. ASSUME t = "drop", Row(j, db, "RESTART_IMPORT")
        PROVE  Row(j2, db2, "BEGIN_IMPORT")
    <2>1. j = "IMPORT_STARTED" /\ importing(db)
      BY <1>1, <1>4, RowIs
    <2>2. j2 = "IMPORT_STARTED" /\ fresh(db2)
      BY <1>1, <1>2, <1>4, <2>1 DEF Phases, Renaming
    <2> QED BY <1>1, <2>2, RowIs
  <1>5. ASSUME t = "create", Row(j, db, "BEGIN_IMPORT")
        PROVE  Row(j2, db2, "RESTART_IMPORT")
    <2>1. j = "IMPORT_STARTED" /\ fresh(db)
      BY <1>1, <1>5, RowIs
    <2>2. j2 = "IMPORT_STARTED" /\ importing(db2)
      BY <1>1, <1>2, <1>5, <2>1 DEF Phases, Renaming
    <2> QED BY <1>1, <2>2, RowIs
  <1>6. ASSUME t = "load", Row(j, db, "RESTART_IMPORT")
        PROVE  Row(j2, db2, "RESTART_IMPORT")
    <2>1. j = "IMPORT_STARTED" /\ importing(db)
      BY <1>1, <1>6, RowIs
    <2>2. j2 = "IMPORT_STARTED" /\ importing(db2)
      BY <1>1, <1>2, <1>6, <2>1 DEF Phases, Renaming
    <2> QED BY <1>1, <2>2, RowIs
  <1>7. ASSUME t = "PREPARED", Row(j, db, "RESTART_IMPORT")
        PROVE  Row(j2, db2, "RESUME_PREPARED")
    <2>1. j = "IMPORT_STARTED" /\ importing(db)
      BY <1>1, <1>7, RowIs
    <2>2. j2 = "PREPARED" /\ importing(db2)
      BY <1>1, <1>2, <1>7, <2>1 DEF Phases, Renaming
    <2> QED BY <1>1, <2>2, RowIs
  <1>8. ASSUME t = "SWAP_STARTED", Row(j, db, "RESUME_PREPARED")
        PROVE  Row(j2, db2, "RESUME_SWAP")
    <2>1. j = "PREPARED" /\ importing(db)
      BY <1>1, <1>8, RowIs
    <2>2. j2 = "SWAP_STARTED" /\ importing(db2)
      BY <1>1, <1>2, <1>8, <2>1 DEF Phases, Renaming
    <2> QED BY <1>1, <2>2, RowIs
  <1>9. ASSUME t = "swap", Row(j, db, "RESUME_SWAP")
        PROVE  Row(j2, db2, "RESUME_SELECTED_AFTER_SWAP")
    <2>1. j = "SWAP_STARTED" /\ importing(db)
      BY <1>1, <1>9, RowIs
    <2>2. j2 = "SWAP_STARTED" /\ selected(db2)
      BY <1>1, <1>2, <1>9, <2>1 DEF Phases, Renaming
    <2> QED BY <1>1, <2>2, RowIs
  <1>10. ASSUME t = "SELECTED", Row(j, db, "RESUME_SELECTED_AFTER_SWAP")
        PROVE  Row(j2, db2, "RESUME_READINESS")
    <2>1. j = "SWAP_STARTED" /\ selected(db)
      BY <1>1, <1>10, RowIs
    <2>2. j2 = "SELECTED" /\ selected(db2)
      BY <1>1, <1>2, <1>10, <2>1 DEF Phases, Renaming
    <2> QED BY <1>1, <2>2, RowIs
  <1>11. ASSUME t = "READINESS_VERIFIED", Row(j, db, "RESUME_READINESS")
        PROVE  Row(j2, db2, "FINALIZE_COMPLETE")
    <2>1. j = "SELECTED" /\ selected(db)
      BY <1>1, <1>11, RowIs
    <2>2. j2 = "READINESS_VERIFIED" /\ selected(db2)
      BY <1>1, <1>2, <1>11, <2>1 DEF Phases, Renaming
    <2> QED BY <1>1, <2>2, RowIs
  <1>12. ASSUME t = "COMPLETE", Row(j, db, "FINALIZE_COMPLETE")
        PROVE  Row(j2, db2, "COMPLETE")
    <2>1. j = "READINESS_VERIFIED" /\ selected(db)
      BY <1>1, <1>12, RowIs
    <2>2. j2 = "COMPLETE" /\ selected(db2)
      BY <1>1, <1>2, <1>12, <2>1 DEF Phases, Renaming
    <2> QED BY <1>1, <2>2, RowIs
  <1> QED BY <1>3, <1>4, <1>5, <1>6, <1>7, <1>8, <1>9, <1>10, <1>11, <1>12

(* Every task of the main block leads from its row to the row of the next  *)
(* one, and to a row in any case: a rerun may begin after it.              *)
LEMMA MainFlow ==
  ASSUME NEW j, NEW db, NEW j2, NEW db2, TwoHosts(j, db, j2, db2),
         NEW a \in Actions, BlockOf(a) = "main",
         NEW k \in 1..15, a \in Blocks["main"][k].when, MainFits(k, a, j, db),
         Moves(Blocks["main"][k].name, j, db, j2, db2)
  PROVE  /\ Resumable(j2, db2)
         /\ \A k2 : First("main", k + 1, a, k2) => MainFits(k2, a, j2, db2)
  <1> SUFFICES ASSUME NEW k2
               PROVE  /\ \E r \in Actions : Row(j2, db2, r)
                      /\ First("main", k + 1, a, k2) => MainFits(k2, a, j2, db2)
    BY DEF Resumable
  <1>1. a \in {"START", "BEGIN_IMPORT", "RESTART_IMPORT", "RESUME_PREPARED", "RESUME_SWAP",
               "RESUME_SELECTED_AFTER_SWAP", "RESUME_READINESS"}
    BY ActionNames DEF BlockOf
  <1>2. /\ db \in [Databases -> Contents] /\ db["main"] # "none"
        /\ db2 \in [Databases -> Contents] /\ db2["main"] # "none"
    BY DEF TwoHosts
  <1> DEFINE next == First("main", k + 1, a, k2)
  <1>3. next => /\ k2 \in (k + 1)..15 /\ a \in Blocks["main"][k2].when
                /\ \A l \in (k + 1)..15 : l < k2 => a \notin Blocks["main"][l].when
    BY MainTasks DEF First
  <1>k1. CASE k = 1
    <2>1. a \in FromImport /\ Moves("archive", j, db, j2, db2)
      BY <1>k1, <1>1, MainTasks DEF Task
    <2>2. next => k2 = IF a = "START" THEN 2 ELSE IF a = "RESTART_IMPORT" THEN 3 ELSE 4
      BY <1>k1, <1>1, <1>3, <2>1, MainTasks DEF Task, FromImport, Unswapped
    <2>3. j2 = j /\ db2 = db
      BY <2>1, SameRow DEF Phases, Renaming
    <2>4. MainFits(1, a, j, db)
      BY <1>k1
    <2> QED BY <1>1, <2>1, <2>2, <2>3, <2>4, ActionNames DEF MainFits, FromImport, Unswapped
  <1>k2. CASE k = 2
    <2>1. a = "START" /\ Moves("IMPORT_STARTED", j, db, j2, db2)
      BY <1>k2, <1>1, MainTasks DEF Task
    <2>2. next => k2 = 4
      BY <1>k2, <1>1, <1>3, <2>1, MainTasks DEF Task, FromImport, Unswapped
    <2>3. Row(j, db, "START")
      BY <1>k2, <2>1 DEF MainFits
    <2>4. Row(j2, db2, "BEGIN_IMPORT")
      BY <2>1, <2>3, NextRow
    <2> QED BY <1>1, <2>1, <2>2, <2>4, ActionNames DEF MainFits, FromImport, Unswapped
  <1>k3. CASE k = 3
    <2>1. a = "RESTART_IMPORT" /\ Moves("drop", j, db, j2, db2)
      BY <1>k3, <1>1, MainTasks DEF Task
    <2>2. next => k2 = 4
      BY <1>k3, <1>1, <1>3, <2>1, MainTasks DEF Task, FromImport, Unswapped
    <2>3. Row(j, db, "RESTART_IMPORT")
      BY <1>k3, <2>1 DEF MainFits
    <2>4. Row(j2, db2, "BEGIN_IMPORT")
      BY <2>1, <2>3, NextRow
    <2> QED BY <1>1, <2>1, <2>2, <2>4, ActionNames DEF MainFits, FromImport, Unswapped
  <1>k4. CASE k = 4
    <2>1. a \in FromImport /\ Moves("create", j, db, j2, db2)
      BY <1>k4, <1>1, MainTasks DEF Task
    <2>2. next => k2 = 5
      BY <1>k4, <1>1, <1>3, <2>1, MainTasks DEF Task, FromImport, Unswapped
    <2>3. Row(j, db, "BEGIN_IMPORT")
      BY <1>k4, <2>1 DEF MainFits
    <2>4. Row(j2, db2, "RESTART_IMPORT")
      BY <2>1, <2>3, NextRow
    <2> QED BY <1>1, <2>1, <2>2, <2>4, ActionNames DEF MainFits, FromImport, Unswapped
  <1>k5. CASE k = 5
    <2>1. a \in FromImport /\ Moves("load", j, db, j2, db2)
      BY <1>k5, <1>1, MainTasks DEF Task
    <2>2. next => k2 = 6
      BY <1>k5, <1>1, <1>3, <2>1, MainTasks DEF Task, FromImport, Unswapped
    <2>3. Row(j, db, "RESTART_IMPORT")
      BY <1>k5, <2>1 DEF MainFits
    <2>4. Row(j2, db2, "RESTART_IMPORT")
      BY <2>1, <2>3, NextRow
    <2> QED BY <1>1, <2>1, <2>2, <2>4, ActionNames DEF MainFits, FromImport, Unswapped
  <1>k6. CASE k = 6
    <2>1. Moves("verify", j, db, j2, db2)
      BY <1>k6, <1>1, MainTasks DEF Task
    <2>2. next => k2 = IF a \in FromImport THEN 7 ELSE IF a = "RESUME_PREPARED" THEN 8 ELSE 9
      BY <1>k6, <1>1, <1>3, <2>1, MainTasks DEF Task, FromImport, Unswapped
    <2>3. j2 = j /\ db2 = db
      BY <2>1, SameRow DEF Phases, Renaming
    <2>4. MainFits(6, a, j, db)
      BY <1>k6
    <2> QED BY <1>1, <2>1, <2>2, <2>3, <2>4, ActionNames DEF MainFits, FromImport, Unswapped
  <1>k7. CASE k = 7
    <2>1. a \in FromImport /\ Moves("PREPARED", j, db, j2, db2)
      BY <1>k7, <1>1, MainTasks DEF Task
    <2>2. next => k2 = 8
      BY <1>k7, <1>1, <1>3, <2>1, MainTasks DEF Task, FromImport, Unswapped
    <2>3. Row(j, db, "RESTART_IMPORT")
      BY <1>k7, <2>1 DEF MainFits
    <2>4. Row(j2, db2, "RESUME_PREPARED")
      BY <2>1, <2>3, NextRow
    <2> QED BY <1>1, <2>1, <2>2, <2>4, ActionNames DEF MainFits, FromImport, Unswapped
  <1>k8. CASE k = 8
    <2>1. a \in FromImport \cup {"RESUME_PREPARED"} /\ Moves("SWAP_STARTED", j, db, j2, db2)
      BY <1>k8, <1>1, MainTasks DEF Task
    <2>2. next => k2 = 9
      BY <1>k8, <1>1, <1>3, <2>1, MainTasks DEF Task, FromImport, Unswapped
    <2>3. Row(j, db, "RESUME_PREPARED")
      BY <1>k8, <2>1 DEF MainFits
    <2>4. Row(j2, db2, "RESUME_SWAP")
      BY <2>1, <2>3, NextRow
    <2> QED BY <1>1, <2>1, <2>2, <2>4, ActionNames DEF MainFits, FromImport, Unswapped
  <1>k9. CASE k = 9
    <2>1. Moves("stop", j, db, j2, db2)
      BY <1>k9, <1>1, MainTasks DEF Task
    <2>2. next => k2 = IF a \in Unswapped THEN 10
                       ELSE IF a = "RESUME_SELECTED_AFTER_SWAP" THEN 11 ELSE 12
      BY <1>k9, <1>1, <1>3, <2>1, MainTasks DEF Task, FromImport, Unswapped
    <2>3. j2 = j /\ db2 = db
      BY <2>1, SameRow DEF Phases, Renaming
    <2>4. MainFits(9, a, j, db)
      BY <1>k9
    <2> QED BY <1>1, <2>1, <2>2, <2>3, <2>4, ActionNames DEF MainFits, FromImport, Unswapped
  <1>k10. CASE k = 10
    <2>1. a \in Unswapped /\ Moves("swap", j, db, j2, db2)
      BY <1>k10, <1>1, MainTasks DEF Task
    <2>2. next => k2 = 11
      BY <1>k10, <1>1, <1>3, <2>1, MainTasks DEF Task, FromImport, Unswapped
    <2>3. Row(j, db, "RESUME_SWAP")
      BY <1>k10, <2>1 DEF MainFits
    <2>4. Row(j2, db2, "RESUME_SELECTED_AFTER_SWAP")
      BY <2>1, <2>3, NextRow
    <2> QED BY <1>1, <2>1, <2>2, <2>4, ActionNames DEF MainFits, FromImport, Unswapped
  <1>k11. CASE k = 11
    <2>1. a # "RESUME_READINESS" /\ Moves("SELECTED", j, db, j2, db2)
      BY <1>k11, <1>1, MainTasks DEF Task
    <2>2. next => k2 = 12
      BY <1>k11, <1>1, <1>3, <2>1, MainTasks DEF Task, FromImport, Unswapped
    <2>3. Row(j, db, "RESUME_SELECTED_AFTER_SWAP")
      BY <1>k11, <2>1 DEF MainFits
    <2>4. Row(j2, db2, "RESUME_READINESS")
      BY <2>1, <2>3, NextRow
    <2> QED BY <1>1, <2>1, <2>2, <2>4, ActionNames DEF MainFits, FromImport, Unswapped
  <1>k12. CASE k = 12
    <2>1. Moves("start", j, db, j2, db2)
      BY <1>k12, <1>1, MainTasks DEF Task
    <2>2. next => k2 = 13
      BY <1>k12, <1>1, <1>3, <2>1, MainTasks DEF Task, FromImport, Unswapped
    <2>3. j2 = j /\ db2 = db
      BY <2>1, SameRow DEF Phases, Renaming
    <2>4. MainFits(12, a, j, db)
      BY <1>k12
    <2> QED BY <1>1, <2>1, <2>2, <2>3, <2>4, ActionNames DEF MainFits, FromImport, Unswapped
  <1>k13. CASE k = 13
    <2>1. Moves("ready", j, db, j2, db2)
      BY <1>k13, <1>1, MainTasks DEF Task
    <2>2. next => k2 = 14
      BY <1>k13, <1>1, <1>3, <2>1, MainTasks DEF Task, FromImport, Unswapped
    <2>3. j2 = j /\ db2 = db
      BY <2>1, SameRow DEF Phases, Renaming
    <2>4. MainFits(13, a, j, db)
      BY <1>k13
    <2> QED BY <1>1, <2>1, <2>2, <2>3, <2>4, ActionNames DEF MainFits, FromImport, Unswapped
  <1>k14. CASE k = 14
    <2>1. Moves("READINESS_VERIFIED", j, db, j2, db2)
      BY <1>k14, <1>1, MainTasks DEF Task
    <2>2. next => k2 = 15
      BY <1>k14, <1>1, <1>3, <2>1, MainTasks DEF Task, FromImport, Unswapped
    <2>3. Row(j, db, "RESUME_READINESS")
      BY <1>k14, <2>1 DEF MainFits
    <2>4. Row(j2, db2, "FINALIZE_COMPLETE")
      BY <2>1, <2>3, NextRow
    <2> QED BY <1>1, <2>1, <2>2, <2>4, ActionNames DEF MainFits, FromImport, Unswapped
  <1>k15. CASE k = 15
    <2>1. Moves("COMPLETE", j, db, j2, db2)
      BY <1>k15, <1>1, MainTasks DEF Task
    <2>2. next => FALSE
      BY <1>k15, <1>1, <1>3, <2>1, MainTasks DEF Task, FromImport, Unswapped
    <2>3. Row(j, db, "FINALIZE_COMPLETE")
      BY <1>k15, <2>1 DEF MainFits
    <2>4. Row(j2, db2, "COMPLETE")
      BY <2>1, <2>3, NextRow
    <2> QED BY <1>1, <2>1, <2>2, <2>4, ActionNames DEF MainFits, FromImport, Unswapped
  <1> QED BY <1>k1, <1>k2, <1>k3, <1>k4, <1>k5, <1>k6, <1>k7, <1>k8,
      <1>k9, <1>k10, <1>k11, <1>k12, <1>k13, <1>k14, <1>k15

(* The same of the rollback block.                                         *)
LEMMA RollbackFlow ==
  ASSUME NEW j, NEW db, NEW j2, NEW db2, TwoHosts(j, db, j2, db2),
         NEW a \in Actions, BlockOf(a) = "rollback",
         NEW k \in 1..6, a \in Blocks["rollback"][k].when, RollbackFits(k, a, j, db),
         Moves(Blocks["rollback"][k].name, j, db, j2, db2)
  PROVE  /\ Resumable(j2, db2)
         /\ \A k2 : First("rollback", k + 1, a, k2) => RollbackFits(k2, a, j2, db2)
  <1> SUFFICES ASSUME NEW k2
               PROVE  /\ (\E r \in Actions : Row(j2, db2, r))
                      /\ First("rollback", k + 1, a, k2) => RollbackFits(k2, a, j2, db2)
    BY DEF Resumable
  <1>1. a \in {"RESUME_ROLLBACK", "FINALIZE_ROLLBACK", "ROLLED_BACK"}
    BY ActionNames DEF BlockOf
  <1>2. /\ db \in [Databases -> Contents] /\ db["main"] # "none"
        /\ db2 \in [Databases -> Contents] /\ db2["main"] # "none"
    BY DEF TwoHosts
  <1> DEFINE next == First("rollback", k + 1, a, k2)
  <1>3. next => /\ k2 \in (k + 1)..6 /\ a \in Blocks["rollback"][k2].when
                /\ \A l \in (k + 1)..6 : l < k2 => a \notin Blocks["rollback"][l].when
    BY RollbackTasks DEF First
  <1>k1. CASE k = 1
    <2>1. Moves("stop", j, db, j2, db2)
      BY <1>k1, <1>1, RollbackTasks DEF Task, Unswapped, FromImport
    <2>2. next => k2 = IF a = "RESUME_ROLLBACK" THEN 2
                       ELSE IF a = "FINALIZE_ROLLBACK" THEN 3 ELSE 4
      BY <1>k1, <1>1, <1>3, <2>1, RollbackTasks DEF Task, FromImport, Unswapped
    <2> QED BY <1>k1, <1>1, <1>2, <2>1, <2>2, RowIs, ActionNames
        DEF RollbackFits, Moves, Phases, Renaming, FromImport, Unswapped
  <1>k2. CASE k = 2
    <2>1. a = "RESUME_ROLLBACK" /\ Moves("back", j, db, j2, db2)
      BY <1>k2, <1>1, RollbackTasks DEF Task, Unswapped, FromImport
    <2>2. next => k2 = 3
      BY <1>k2, <1>1, <1>3, <2>1, RollbackTasks DEF Task, FromImport, Unswapped
    <2> QED BY <1>k2, <1>1, <1>2, <2>1, <2>2, RowIs, ActionNames
        DEF RollbackFits, Moves, Phases, Renaming, FromImport, Unswapped
  <1>k3. CASE k = 3
    <2>1. a # "ROLLED_BACK" /\ Moves("ROLLED_BACK", j, db, j2, db2)
      BY <1>k3, <1>1, RollbackTasks DEF Task, Unswapped, FromImport
    <2>2. next => k2 = 4
      BY <1>k3, <1>1, <1>3, <2>1, RollbackTasks DEF Task, FromImport, Unswapped
    <2> QED BY <1>k3, <1>1, <1>2, <2>1, <2>2, RowIs, ActionNames
        DEF RollbackFits, Moves, Phases, Renaming, FromImport, Unswapped
  <1>k4. CASE k = 4
    <2>1. Moves("start", j, db, j2, db2)
      BY <1>k4, <1>1, RollbackTasks DEF Task, Unswapped, FromImport
    <2>2. next => k2 = 5
      BY <1>k4, <1>1, <1>3, <2>1, RollbackTasks DEF Task, FromImport, Unswapped
    <2> QED BY <1>k4, <1>1, <1>2, <2>1, <2>2, RowIs, ActionNames
        DEF RollbackFits, Moves, Phases, Renaming, FromImport, Unswapped
  <1>k5. CASE k = 5
    <2>1. Moves("ready", j, db, j2, db2)
      BY <1>k5, <1>1, RollbackTasks DEF Task, Unswapped, FromImport
    <2>2. next => k2 = 6
      BY <1>k5, <1>1, <1>3, <2>1, RollbackTasks DEF Task, FromImport, Unswapped
    <2> QED BY <1>k5, <1>1, <1>2, <2>1, <2>2, RowIs, ActionNames
        DEF RollbackFits, Moves, Phases, Renaming, FromImport, Unswapped
  <1>k6. CASE k = 6
    <2>1. Moves("discard", j, db, j2, db2)
      BY <1>k6, <1>1, RollbackTasks DEF Task, Unswapped, FromImport
    <2>2. next => FALSE
      BY <1>k6, <1>1, <1>3, <2>1, RollbackTasks DEF Task, FromImport, Unswapped
    <2> QED BY <1>k6, <1>1, <1>2, <2>1, <2>2, RowIs, ActionNames
        DEF RollbackFits, Moves, Phases, Renaming, FromImport, Unswapped
  <1> QED BY <1>k1, <1>k2, <1>k3, <1>k4, <1>k5, <1>k6

(* The same of the finalize block.                                         *)
LEMMA FinalizeFlow ==
  ASSUME NEW j, NEW db, NEW j2, NEW db2, TwoHosts(j, db, j2, db2),
         NEW a \in Actions, BlockOf(a) = "finalize",
         NEW k \in 1..4, a \in Blocks["finalize"][k].when, FinalizeFits(k, a, j, db),
         Moves(Blocks["finalize"][k].name, j, db, j2, db2)
  PROVE  /\ Resumable(j2, db2)
         /\ \A k2 : First("finalize", k + 1, a, k2) => FinalizeFits(k2, a, j2, db2)
  <1> SUFFICES ASSUME NEW k2
               PROVE  /\ (\E r \in Actions : Row(j2, db2, r))
                      /\ First("finalize", k + 1, a, k2) => FinalizeFits(k2, a, j2, db2)
    BY DEF Resumable
  <1>1. a \in {"FINALIZE_COMPLETE", "COMPLETE"}
    BY ActionNames DEF BlockOf
  <1>2. /\ db \in [Databases -> Contents] /\ db["main"] # "none"
        /\ db2 \in [Databases -> Contents] /\ db2["main"] # "none"
    BY DEF TwoHosts
  <1> DEFINE next == First("finalize", k + 1, a, k2)
  <1>3. next => /\ k2 \in (k + 1)..4 /\ a \in Blocks["finalize"][k2].when
                /\ \A l \in (k + 1)..4 : l < k2 => a \notin Blocks["finalize"][l].when
    BY FinalizeTasks DEF First
  <1>k1. CASE k = 1
    <2>1. a = "FINALIZE_COMPLETE" /\ Moves("COMPLETE", j, db, j2, db2)
      BY <1>k1, <1>1, FinalizeTasks DEF Task, Unswapped, FromImport
    <2>2. next => k2 = 2
      BY <1>k1, <1>1, <1>3, <2>1, FinalizeTasks DEF Task, FromImport, Unswapped
    <2> QED BY <1>k1, <1>1, <1>2, <2>1, <2>2, RowIs, ActionNames
        DEF FinalizeFits, Moves, Phases, Renaming, FromImport, Unswapped
  <1>k2. CASE k = 2
    <2>1. Moves("start", j, db, j2, db2)
      BY <1>k2, <1>1, FinalizeTasks DEF Task, Unswapped, FromImport
    <2>2. next => k2 = 3
      BY <1>k2, <1>1, <1>3, <2>1, FinalizeTasks DEF Task, FromImport, Unswapped
    <2> QED BY <1>k2, <1>1, <1>2, <2>1, <2>2, RowIs, ActionNames
        DEF FinalizeFits, Moves, Phases, Renaming, FromImport, Unswapped
  <1>k3. CASE k = 3
    <2>1. Moves("ready", j, db, j2, db2)
      BY <1>k3, <1>1, FinalizeTasks DEF Task, Unswapped, FromImport
    <2>2. next => k2 = 4
      BY <1>k3, <1>1, <1>3, <2>1, FinalizeTasks DEF Task, FromImport, Unswapped
    <2> QED BY <1>k3, <1>1, <1>2, <2>1, <2>2, RowIs, ActionNames
        DEF FinalizeFits, Moves, Phases, Renaming, FromImport, Unswapped
  <1>k4. CASE k = 4
    <2>1. Moves("discard", j, db, j2, db2)
      BY <1>k4, <1>1, FinalizeTasks DEF Task, Unswapped, FromImport
    <2>2. next => FALSE
      BY <1>k4, <1>1, <1>3, <2>1, FinalizeTasks DEF Task, FromImport, Unswapped
    <2> QED BY <1>k4, <1>1, <1>2, <2>1, <2>2, RowIs, ActionNames
        DEF FinalizeFits, Moves, Phases, Renaming, FromImport, Unswapped
  <1> QED BY <1>k1, <1>k2, <1>k3, <1>k4

(* The same of the tasks of the rescue that go back to the original.       *)
LEMMA RescueFlow ==
  ASSUME NEW j, NEW db, NEW j2, NEW db2, TwoHosts(j, db, j2, db2),
         NEW a \in Actions,
         NEW k \in 4..7, a \in Blocks["rescue"][k].when, RescueFits(k, a, j, db),
         Moves(Blocks["rescue"][k].name, j, db, j2, db2)
  PROVE  /\ Resumable(j2, db2)
         /\ \A k2 : First("rescue", k + 1, a, k2) => RescueFits(k2, a, j2, db2)
  <1> SUFFICES ASSUME NEW k2
               PROVE  /\ (\E r \in Actions : Row(j2, db2, r))
                      /\ First("rescue", k + 1, a, k2) => RescueFits(k2, a, j2, db2)
    BY DEF Resumable
  <1>1. a \in Actions
    OBVIOUS
  <1>2. /\ db \in [Databases -> Contents] /\ db["main"] # "none"
        /\ db2 \in [Databases -> Contents] /\ db2["main"] # "none"
    BY DEF TwoHosts
  <1> DEFINE next == First("rescue", k + 1, a, k2)
  <1>3. next => /\ k2 \in (k + 1)..10 /\ a \in Blocks["rescue"][k2].when
                /\ \A l \in (k + 1)..10 : l < k2 => a \notin Blocks["rescue"][l].when
    BY RescueTasks DEF First
  <1>k4. CASE k = 4
    <2>1. a = "RESUME_SELECTED_AFTER_SWAP" /\ Moves("SELECTED", j, db, j2, db2)
      BY <1>k4, <1>1, RescueTasks DEF Task, Unswapped, FromImport
    <2>2. next => k2 = 5
      BY <1>k4, <1>1, <1>3, <2>1, RescueTasks DEF Task, FromImport, Unswapped
    <2> QED BY <1>k4, <1>1, <1>2, <2>1, <2>2, RowIs, ActionNames
        DEF RescueFits, Moves, Phases, Renaming
  <1>k5. CASE k = 5
    <2>1. /\ a \in {"RESUME_SELECTED_AFTER_SWAP", "RESUME_READINESS"}
          /\ Moves("ROLLBACK_STARTED", j, db, j2, db2)
      BY <1>k5, <1>1, RescueTasks DEF Task, Unswapped, FromImport
    <2>2. next => k2 = 6
      BY <1>k5, <1>1, <1>3, <2>1, RescueTasks DEF Task, FromImport, Unswapped
    <2> QED BY <1>k5, <1>1, <1>2, <2>1, <2>2, RowIs, ActionNames
        DEF RescueFits, Moves, Phases, Renaming
  <1>k6. CASE k = 6
    <2>1. /\ a \in {"RESUME_SELECTED_AFTER_SWAP", "RESUME_READINESS", "RESUME_ROLLBACK"}
          /\ Moves("back", j, db, j2, db2)
      BY <1>k6, <1>1, RescueTasks DEF Task, Unswapped, FromImport
    <2>2. next => k2 = 7
      BY <1>k6, <1>1, <1>3, <2>1, RescueTasks DEF Task, FromImport, Unswapped
    <2> QED BY <1>k6, <1>1, <1>2, <2>1, <2>2, RowIs, ActionNames
        DEF RescueFits, Moves, Phases, Renaming
  <1>k7. CASE k = 7
    <2>1. /\ a \in {"RESUME_SELECTED_AFTER_SWAP", "RESUME_READINESS", "RESUME_ROLLBACK",
                    "FINALIZE_ROLLBACK"}
          /\ Moves("ROLLED_BACK", j, db, j2, db2)
      BY <1>k7, <1>1, RescueTasks DEF Task, Unswapped, FromImport
    <2>2. next => k2 = 10
      BY <1>k7, <1>1, <1>3, <2>1, RescueTasks DEF Task, FromImport, Unswapped
    <2> QED BY <1>k7, <1>1, <1>2, <2>1, <2>2, RowIs, ActionNames
        DEF RescueFits, Moves, Phases, Renaming
  <1> QED BY <1>k4, <1>k5, <1>k6, <1>k7

(* A rescue that drops the import clears the journal next.                  *)
LEMMA RescueClears ==
  ASSUME NEW j, NEW db, NEW j2, NEW db2, TwoHosts(j, db, j2, db2), NEW a \in Actions,
         a \in Blocks["rescue"][8].when, Row(j, db, a)
  PROVE  /\ Moves("drop", j, db, j2, db2) => j2 = j /\ ToClear(j2, db2)
         /\ \A k2 : First("rescue", 9, a, k2) => k2 = 9
         /\ ToClear(j, db) /\ Moves("clear", j, db, j2, db2) => Resumable(j2, db2)
  <1>1. a \in {"BEGIN_IMPORT", "RESTART_IMPORT", "RESUME_PREPARED", "RESUME_SWAP"}
    BY RescueTasks DEF Task, Unswapped, FromImport
  <1>2. /\ db \in [Databases -> Contents] /\ db["main"] # "none"
        /\ db2 \in [Databases -> Contents] /\ db2["main"] # "none"
    BY DEF TwoHosts
  <1>3. j \in Clearable /\ db["previous"] = "none" /\ db["failed"] = "none"
    BY <1>1, <1>2, RowIs DEF Clearable
  <1>4. ASSUME Moves("drop", j, db, j2, db2)
        PROVE  j2 = j /\ ToClear(j2, db2)
    BY <1>2, <1>3, <1>4 DEF Moves, Phases, Renaming, ToClear, Names, Databases, MainOnly
  <1>5. ASSUME NEW k2, First("rescue", 9, a, k2)
        PROVE  k2 = 9
    BY <1>1, <1>5, RescueTasks DEF First, Task, Unswapped, FromImport
  <1>6. ASSUME ToClear(j, db), Moves("clear", j, db, j2, db2)
        PROVE  Row(j2, db2, "START")
    BY <1>6 DEF ToClear, Moves, Phases, Renaming, Row, SafeActions
  <1> QED BY <1>4, <1>5, <1>6, ActionNames DEF Resumable

(* The block an inspection leads to begins where the action says.           *)
LEMMA EntryFits ==
  ASSUME NEW j, NEW db \in [Databases -> Contents], db["main"] # "none",
         NEW a \in Actions, Row(j, db, a), NEW k2
  PROVE  /\ BlockOf(a) = "main" /\ First("main", 1, a, k2) => MainFits(k2, a, j, db)
         /\ BlockOf(a) = "rollback" /\ First("rollback", 1, a, k2) => RollbackFits(k2, a, j, db)
         /\ BlockOf(a) = "finalize" /\ First("finalize", 1, a, k2) => FinalizeFits(k2, a, j, db)
         /\ First("rescue", 4, a, k2) => RescueFits(k2, a, j, db) /\ k2 # 9
  <1>1. ASSUME BlockOf(a) = "main", First("main", 1, a, k2)
        PROVE  MainFits(k2, a, j, db)
    <2>1. k2 = IF a \in FromImport THEN 1 ELSE 6
      BY <1>1, MainFirst
    <2> QED BY <2>1 DEF MainFits
  <1>2. ASSUME BlockOf(a) = "rollback", First("rollback", 1, a, k2)
        PROVE  RollbackFits(k2, a, j, db)
    <2>1. k2 = 1
      BY <1>2, RollbackTasks DEF First, Task
    <2> QED BY <2>1 DEF RollbackFits
  <1>3. ASSUME BlockOf(a) = "finalize", First("finalize", 1, a, k2)
        PROVE  FinalizeFits(k2, a, j, db)
    <2>1. a \in {"FINALIZE_COMPLETE", "COMPLETE"}
      BY <1>3, ActionNames DEF BlockOf
    <2>2. k2 = IF a = "FINALIZE_COMPLETE" THEN 1 ELSE 2
      BY <1>3, <2>1, FinalizeTasks, ActionNames DEF First, Task
    <2> QED BY <2>1, <2>2 DEF FinalizeFits
  <1>4. ASSUME First("rescue", 4, a, k2)
        PROVE  RescueFits(k2, a, j, db) /\ k2 # 9
    <2>1. /\ k2 \in 4..10 /\ a \in Blocks["rescue"][k2].when
          /\ \A l \in 4..10 : l < k2 => a \notin Blocks["rescue"][l].when
      BY <1>4, RescueTasks DEF First
    <2>2. k2 # 9
      BY <2>1, RescueTasks DEF Task
    <2>3. /\ k2 = 4 => a = "RESUME_SELECTED_AFTER_SWAP"
          /\ k2 = 5 => a = "RESUME_READINESS"
          /\ k2 = 6 => a = "RESUME_ROLLBACK"
          /\ k2 = 7 => a = "FINALIZE_ROLLBACK"
      BY <2>1, RescueTasks DEF Task
    <2> QED BY <2>2, <2>3 DEF RescueFits
  <1> QED BY <1>1, <1>2, <1>3, <1>4

-----------------------------------------------------------------------------
(* What a play is, and the places it goes to.                               *)

PlayRec == [block : DOMAIN Blocks \cup {"idle"}, at : 1..15,
            action : Actions \cup {"NONE"}, phase : Phases \cup {"NONE"},
            seen : SUBSET Databases]

(* A play at its always and at its rescue section.                         *)
AlwaysPlay == [IdlePlay EXCEPT !.block = "always"]
RescuePlay == [IdlePlay EXCEPT !.block = "rescue"]

(* A running play is at a task of its block that runs under its action.     *)
PlaceOK(play) ==
  play.block # "idle" =>
    /\ play.at \in 1..Len(Blocks[play.block])
    /\ play.action \in Blocks[play.block][play.at].when
    /\ play.block = "look" => play.action = "NONE"
    /\ play.block \in {"main", "rollback", "finalize"} =>
         play.action \in Actions /\ BlockOf(play.action) = play.block
    /\ play.block = "rescue" => (play.action = "NONE" <=> play.at <= 3)
    /\ play.block = "always" => play.action = "NONE"

(* What is true of each play, and of the plays, whatever happens.          *)
PlayIs(play) ==
  /\ play \in PlayRec /\ PlaceOK(play)
  /\ play.block = "idle" => play = IdlePlay

PlaysOK ==
  /\ restorer \in [Plays -> PlayRec]
  /\ \A p \in Plays : PlayIs(restorer[p])
  /\ restoreLock \in Plays \cup {NoPlay}
  /\ restoreCalm \in BOOLEAN
  /\ restoreFlaws \subseteq {"overlap", "undropped", "uncleared"}

(* A place in a block is one of fifteen.                                   *)
LEMMA BlockLengths ==
  ASSUME NEW b \in DOMAIN Blocks
  PROVE  Len(Blocks[b]) \in 1..15
  BY BlockNames, LookTasks, RollbackTasks, FinalizeTasks, MainTasks, RescueTasks, AlwaysTasks

(* The plays that start over have learned nothing.                         *)
LEMMA RestPlaces ==
  PlayIs(IdlePlay) /\ PlayIs(AlwaysPlay) /\ PlayIs(RescuePlay)
  <1>1. IdlePlay \in PlayRec /\ AlwaysPlay \in PlayRec /\ RescuePlay \in PlayRec
    BY BlockNames DEF IdlePlay, AlwaysPlay, RescuePlay, PlayRec
  <1> QED BY <1>1, AlwaysTasks, RescueTasks
      DEF PlayIs, PlaceOK, IdlePlay, AlwaysPlay, RescuePlay, Task, EveryPlay

(* The play becomes new, and the lock is kept or given back.                *)
Arrives(p, new) ==
  /\ restorer' = [restorer EXCEPT ![p] = new]
  /\ restoreLock' \in {restoreLock, NoPlay}

(* No task from position i on runs under the action.                       *)
NothingDue(b, i, a) ==
  \A l \in i..Len(Blocks[b]) : a \notin Blocks[b][l].when

(* A play goes to the next task that is due, or out of its block.           *)
LEMMA GoToArrives ==
  ASSUME NEW p \in Plays, NEW play, NEW b \in DOMAIN Blocks, NEW i \in 1..16,
         GoTo(p, play, b, i)
  PROVE  \E new :
           /\ Arrives(p, new)
           /\ \/ new \in {IdlePlay, AlwaysPlay} /\ NothingDue(b, i, play.action)
              \/ \E k \in 1..15 : /\ First(b, i, play.action, k)
                                  /\ new = [play EXCEPT !.block = b, !.at = k]
  <1> DEFINE k == NextTask(b, i, play.action)
  <1>1. Len(Blocks[b]) \in 1..15 /\ Len(Blocks[b]) \in Nat /\ i \in Nat \ {0}
    BY BlockLengths
  <1>2. /\ k = 0 \/ (k \in i..Len(Blocks[b]) /\ play.action \in Blocks[b][k].when)
        /\ \A l \in i..Len(Blocks[b]) : play.action \in Blocks[b][l].when => k # 0 /\ k <= l
    BY <1>1, NextTaskIs
  <1>3. IF k # 0
        THEN restorer' = [restorer EXCEPT ![p] = [play EXCEPT !.block = b, !.at = k]]
               /\ UNCHANGED restoreLock
        ELSE \E new \in {IdlePlay, AlwaysPlay} : Arrives(p, new)
    BY DEF GoTo, EndPlay, AlwaysPlay, Arrives
  <1> HIDE DEF k
  <1>4. CASE k = 0
    <2>1. NothingDue(b, i, play.action)
      BY <1>2, <1>4 DEF NothingDue
    <2> QED BY <1>3, <1>4, <2>1
  <1>5. CASE k # 0
    <2>1. k \in 1..15 /\ First(b, i, play.action, k)
      BY <1>1, <1>2, <1>5 DEF First
    <2> QED BY <1>3, <1>5, <2>1 DEF Arrives
  <1> QED BY <1>4, <1>5

(* The three ways a task leads on: the play notes the database names, takes *)
(* up the action they say, or goes on with its block.                       *)
Observes(p, new) ==
  /\ NameOf(p) = "observe"
  /\ new = [restorer[p] EXCEPT !.seen = Observed, !.at = @ + 1]

(* The action an inspection of the play finds.                             *)
Action(p) == Reconcile(cp1.journal, restorer[p].seen)

Inspects(p, new) ==
  /\ NameOf(p) = "inspect" /\ CanDo(p, "inspect")
  /\ \/ /\ restorer[p].block = "look"
        /\ \E k \in 1..15 :
             /\ First(BlockOf(Action(p)), 1, Action(p), k)
             /\ new = [restorer[p] EXCEPT !.block = BlockOf(Action(p)), !.at = k,
                                          !.action = Action(p), !.seen = {}]
     \/ /\ restorer[p].block = "rescue"
        /\ \E k \in 1..15 :
             /\ First("rescue", 4, Action(p), k)
             /\ new = [restorer[p] EXCEPT !.at = k, !.action = Action(p), !.seen = {},
                                          !.phase = cp1.journal]

(* The play goes on with its block, or leaves it.                          *)
GoesOn(p, new) ==
  /\ NameOf(p) \notin {"observe", "inspect"}
  /\ \E k \in 1..15 :
       /\ First(restorer[p].block, restorer[p].at + 1, restorer[p].action, k)
       /\ new = [restorer[p] EXCEPT !.at = k]

Leaves(p, new) ==
  /\ new \in {IdlePlay, AlwaysPlay}
  /\ NothingDue(restorer[p].block, restorer[p].at + 1, restorer[p].action)

(* Where the tasks that only look are.                                      *)
LEMMA LookingPlaces ==
  ASSUME NEW play, PlayIs(play), play.block # "idle",
         Blocks[play.block][play.at].name \in {"observe", "inspect"}
  PROVE  /\ play.action = "NONE"
         /\ \/ /\ Blocks[play.block][play.at].name = "observe"
               /\ \/ play.block = "look" /\ play.at = 1
                  \/ play.block = "rescue" /\ play.at = 2
            \/ /\ Blocks[play.block][play.at].name = "inspect"
               /\ \/ play.block = "look" /\ play.at = 2
                  \/ play.block = "rescue" /\ play.at = 3
  <1>1. play.block \in DOMAIN Blocks /\ play.at \in 1..Len(Blocks[play.block])
    BY DEF PlayIs, PlaceOK, PlayRec
  <1>2. CASE play.block = "look"
    BY <1>1, <1>2, LookTasks DEF PlayIs, PlaceOK, Task
  <1>3. CASE play.block = "main"
    BY <1>1, <1>3, MainTasks DEF Task
  <1>4. CASE play.block = "rollback"
    BY <1>1, <1>4, RollbackTasks DEF Task
  <1>5. CASE play.block = "finalize"
    BY <1>1, <1>5, FinalizeTasks DEF Task
  <1>6. CASE play.block = "rescue"
    BY <1>1, <1>6, RescueTasks DEF PlayIs, PlaceOK, Task
  <1>7. CASE play.block = "always"
    BY <1>1, <1>7, AlwaysTasks DEF Task
  <1> QED BY <1>1, <1>2, <1>3, <1>4, <1>5, <1>6, <1>7, BlockNames

(* A task that is done leads on in one of these ways.                      *)
LEMMA DoArrives ==
  ASSUME PlaysOK, NEW p \in Plays, DoTask(p)
  PROVE  \E new :
           /\ Arrives(p, new)
           /\ Leaves(p, new) \/ Observes(p, new) \/ Inspects(p, new) \/ GoesOn(p, new)
  <1> DEFINE r == restorer[p]
  <1>1. PlayIs(r) /\ r.block # "idle" /\ r.block \in DOMAIN Blocks /\ r \in PlayRec
        /\ r.at \in 1..15
    BY DEF PlaysOK, DoTask, Running, PlayIs, PlayRec
  <1>2. CASE NameOf(p) \notin {"observe", "inspect"}
    <2>1. GoTo(p, r, r.block, r.at + 1)
      BY <1>2 DEF DoTask, Learned
    <2>2. PICK new :
            /\ Arrives(p, new)
            /\ \/ new \in {IdlePlay, AlwaysPlay} /\ NothingDue(r.block, r.at + 1, r.action)
               \/ \E k \in 1..15 : /\ First(r.block, r.at + 1, r.action, k)
                                   /\ new = [r EXCEPT !.block = r.block, !.at = k]
      <3>1. r.at + 1 \in 1..16
        BY <1>1
      <3> HIDE DEF r
      <3> QED BY <1>1, <2>1, <3>1, GoToArrives
    <2>3. ASSUME NEW k \in 1..15
          PROVE  [r EXCEPT !.block = r.block, !.at = k] = [r EXCEPT !.at = k]
      BY <1>1 DEF PlayRec
    <2> QED BY <1>2, <2>2, <2>3 DEF Leaves, GoesOn
  <1>3. CASE NameOf(p) = "observe"
    <2> DEFINE play == [r EXCEPT !.seen = Observed]
    <2>1. /\ r.action = "NONE"
          /\ (r.block = "look" /\ r.at = 1) \/ (r.block = "rescue" /\ r.at = 2)
      BY <1>1, <1>3, LookingPlaces DEF NameOf
    <2>2. GoTo(p, play, r.block, r.at + 1)
      BY <1>1, <1>3 DEF DoTask, Learned, PlayRec
    <2>3. play.action = r.action
      BY <1>1 DEF PlayRec
    <2>4. PICK new :
            /\ Arrives(p, new)
            /\ \/ new \in {IdlePlay, AlwaysPlay} /\ NothingDue(r.block, r.at + 1, r.action)
               \/ \E k \in 1..15 : /\ First(r.block, r.at + 1, r.action, k)
                                   /\ new = [play EXCEPT !.block = r.block, !.at = k]
      <3>1. r.at + 1 \in 1..16
        BY <1>1
      <3>2. \E new :
              /\ Arrives(p, new)
              /\ \/ /\ new \in {IdlePlay, AlwaysPlay}
                    /\ NothingDue(r.block, r.at + 1, play.action)
                 \/ \E k \in 1..15 : /\ First(r.block, r.at + 1, play.action, k)
                                     /\ new = [play EXCEPT !.block = r.block, !.at = k]
        <4> HIDE DEF r, play
        <4> QED BY <1>1, <2>2, <3>1, GoToArrives
      <3> HIDE DEF r, play
      <3> QED BY <2>3, <3>2
    <2>5. r.at + 1 \in 1..Len(Blocks[r.block]) /\ r.action \in Blocks[r.block][r.at + 1].when
      BY <1>1, <1>3, LookingPlaces, LookTasks, RescueTasks DEF NameOf, Task, EveryPlay
    <2>6. ASSUME NEW k \in 1..15, First(r.block, r.at + 1, r.action, k)
          PROVE  k = r.at + 1 /\ [play EXCEPT !.block = r.block, !.at = k]
                                   = [r EXCEPT !.seen = Observed, !.at = @ + 1]
      <3>1. k = r.at + 1
        <4> HIDE DEF r
        <4> QED BY <1>1, <2>5, <2>6 DEF First
      <3> QED BY <1>1, <3>1 DEF PlayRec
    <2>7. ~NothingDue(r.block, r.at + 1, r.action)
      <3>1. r.at + 1 \in (r.at + 1)..Len(Blocks[r.block])
        BY <1>1, <2>5, BlockLengths
      <3> QED BY <2>5, <3>1 DEF NothingDue
    <2> QED BY <1>3, <2>4, <2>6, <2>7 DEF Observes
  <1>4. CASE NameOf(p) = "inspect"
    <2> DEFINE a == Action(p)
               play == [r EXCEPT !.action = a, !.seen = {},
                                 !.phase = IF r.block = "rescue" THEN cp1.journal ELSE @]
    <2>1. /\ r.action = "NONE" /\ CanDo(p, "inspect")
          /\ (r.block = "look" /\ r.at = 2) \/ (r.block = "rescue" /\ r.at = 3)
      BY <1>1, <1>4, LookingPlaces DEF NameOf, DoTask
    <2>2. IF r.block = "look" THEN GoTo(p, play, BlockOf(play.action), 1)
                              ELSE GoTo(p, play, play.block, r.at + 1)
      BY <1>1, <1>4 DEF DoTask, Learned, PlayRec, Action
    <2>3. play.action = a /\ play.block = r.block
      BY <1>1 DEF PlayRec
    <2>4. /\ BlockOf(a) \in DOMAIN Blocks /\ "rescue" \in DOMAIN Blocks
          /\ 1 \in 1..16 /\ 4 \in 1..16
      BY BlockNames DEF BlockOf
    <2>5. CASE r.block = "look"
      <3>1. GoTo(p, play, BlockOf(a), 1)
        BY <2>2, <2>3, <2>5
      <3>2. PICK new :
              /\ Arrives(p, new)
              /\ \/ new \in {IdlePlay, AlwaysPlay} /\ NothingDue(BlockOf(a), 1, a)
                 \/ \E k \in 1..15 : /\ First(BlockOf(a), 1, a, k)
                                     /\ new = [play EXCEPT !.block = BlockOf(a), !.at = k]
        <4>1. \E new :
                /\ Arrives(p, new)
                /\ \/ new \in {IdlePlay, AlwaysPlay} /\ NothingDue(BlockOf(a), 1, play.action)
                   \/ \E k \in 1..15 : /\ First(BlockOf(a), 1, play.action, k)
                                       /\ new = [play EXCEPT !.block = BlockOf(a), !.at = k]
          <5> HIDE DEF r, play, a
          <5> QED BY <2>4, <3>1, GoToArrives
        <4> HIDE DEF r, play, a
        <4> QED BY <2>3, <4>1
      <3>3. ASSUME NEW k \in 1..15
            PROVE  [play EXCEPT !.block = BlockOf(a), !.at = k]
                     = [r EXCEPT !.block = BlockOf(a), !.at = k, !.action = a, !.seen = {}]
        BY <1>1, <2>5 DEF PlayRec
      <3>4. a \in Actions
        BY <2>1 DEF CanDo, Known, Action, Reconcile, Actions, Phases
      <3>5. ~NothingDue(BlockOf(a), 1, a)
        <4>1. a \in Blocks["main"][6].when
          BY <3>4, MainTasks DEF Task
        <4>2. a \in Blocks["rollback"][1].when /\ a \in Blocks["finalize"][2].when
          BY <3>4, RollbackTasks, FinalizeTasks DEF Task
        <4>3. BlockOf(a) \in {"main", "rollback", "finalize"}
          BY DEF BlockOf
        <4> HIDE DEF a
        <4> QED BY <4>1, <4>2, <4>3, MainTasks, RollbackTasks, FinalizeTasks DEF NothingDue
      <3>6. PICK k \in 1..15 :
              /\ First(BlockOf(a), 1, a, k)
              /\ new = [r EXCEPT !.block = BlockOf(a), !.at = k, !.action = a, !.seen = {}]
        BY <3>2, <3>3, <3>5
      <3>7. Inspects(p, new)
        BY <1>4, <2>1, <2>5, <3>6 DEF Inspects
      <3> QED BY <3>2, <3>7
    <2>6. CASE r.block = "rescue"
      <3>1. GoTo(p, play, "rescue", 4)
        BY <2>1, <2>2, <2>3, <2>6
      <3>2. PICK new :
              /\ Arrives(p, new)
              /\ \/ new \in {IdlePlay, AlwaysPlay} /\ NothingDue("rescue", 4, a)
                 \/ \E k \in 1..15 : /\ First("rescue", 4, a, k)
                                     /\ new = [play EXCEPT !.block = "rescue", !.at = k]
        <4>1. \E new :
                /\ Arrives(p, new)
                /\ \/ new \in {IdlePlay, AlwaysPlay} /\ NothingDue("rescue", 4, play.action)
                   \/ \E k \in 1..15 : /\ First("rescue", 4, play.action, k)
                                       /\ new = [play EXCEPT !.block = "rescue", !.at = k]
          <5> HIDE DEF r, play, a
          <5> QED BY <2>4, <3>1, GoToArrives
        <4> HIDE DEF r, play, a
        <4> QED BY <2>3, <4>1
      <3>3. ASSUME NEW k \in 1..15
            PROVE  [play EXCEPT !.block = "rescue", !.at = k]
                     = [r EXCEPT !.at = k, !.action = a, !.seen = {}, !.phase = cp1.journal]
        BY <1>1, <2>6 DEF PlayRec
      <3>4. a \in Actions
        BY <2>1 DEF CanDo, Known, Action, Reconcile, Actions, Phases
      <3>5. ~NothingDue("rescue", 4, a)
        <4>1. a \in Blocks["rescue"][10].when
          BY <3>4, RescueTasks DEF Task
        <4> HIDE DEF a
        <4> QED BY <4>1, RescueTasks DEF NothingDue
      <3>6. PICK k \in 1..15 :
              /\ First("rescue", 4, a, k)
              /\ new = [r EXCEPT !.at = k, !.action = a, !.seen = {}, !.phase = cp1.journal]
        BY <3>2, <3>3, <3>5
      <3>7. Inspects(p, new)
        BY <1>4, <2>1, <2>6, <3>6 DEF Inspects
      <3> QED BY <3>2, <3>7
    <2> QED BY <2>1, <2>5, <2>6
  <1> QED BY <1>2, <1>3, <1>4

(* A failure leads out of the block, but in the rescue and before a rollback*)
(* some are passed over.                                                    *)
LEMMA FailArrives ==
  ASSUME PlaysOK, NEW p \in Plays, FailTask(p)
  PROVE  \E new :
           /\ Arrives(p, new)
           /\ \/ /\ new \in {IdlePlay, AlwaysPlay, RescuePlay}
                 /\ ~IgnoresFailure(restorer[p].block, NameOf(p))
              \/ /\ IgnoresFailure(restorer[p].block, NameOf(p))
                 /\ Leaves(p, new) \/ GoesOn(p, new)
  <1> DEFINE r == restorer[p]
  <1>1. PlayIs(r) /\ r.block # "idle" /\ r.block \in DOMAIN Blocks /\ r \in PlayRec
        /\ r.at \in 1..15
    BY DEF PlaysOK, FailTask, Running, PlayIs, PlayRec
  <1>2. CASE IgnoresFailure(r.block, NameOf(p))
    <2>1. GoTo(p, r, r.block, r.at + 1)
      BY <1>2 DEF FailTask
    <2>2. PICK new :
            /\ Arrives(p, new)
            /\ \/ new \in {IdlePlay, AlwaysPlay} /\ NothingDue(r.block, r.at + 1, r.action)
               \/ \E k \in 1..15 : /\ First(r.block, r.at + 1, r.action, k)
                                   /\ new = [r EXCEPT !.block = r.block, !.at = k]
      <3>1. r.at + 1 \in 1..16
        BY <1>1
      <3> HIDE DEF r
      <3> QED BY <1>1, <2>1, <3>1, GoToArrives
    <2>3. ASSUME NEW k \in 1..15
          PROVE  [r EXCEPT !.block = r.block, !.at = k] = [r EXCEPT !.at = k]
      BY <1>1 DEF PlayRec
    <2>4. NameOf(p) \notin {"observe", "inspect"}
      BY <1>2 DEF IgnoresFailure
    <2> QED BY <1>2, <2>2, <2>3, <2>4 DEF Leaves, GoesOn
  <1>3. CASE ~IgnoresFailure(r.block, NameOf(p))
    <2>1. \/ GoTo(p, IdlePlay, "rescue", 1) \/ GoTo(p, IdlePlay, "always", 1)
          \/ EndPlay(p)
      BY <1>3 DEF FailTask
    <2>2. ASSUME NEW b \in {"rescue", "always"}, GoTo(p, IdlePlay, b, 1)
          PROVE  \E new \in {IdlePlay, AlwaysPlay, RescuePlay} : Arrives(p, new)
      <3>1. b \in DOMAIN Blocks /\ 1 \in 1..16
        BY BlockNames
      <3>2. PICK new :
              /\ Arrives(p, new)
              /\ \/ new \in {IdlePlay, AlwaysPlay}
                 \/ \E k \in 1..15 : /\ First(b, 1, IdlePlay.action, k)
                                     /\ new = [IdlePlay EXCEPT !.block = b, !.at = k]
        BY <2>2, <3>1, GoToArrives
      <3>3. ASSUME NEW k \in 1..15, First(b, 1, IdlePlay.action, k)
            PROVE  k = 1
        <4>1. IdlePlay.action = "NONE"
          BY DEF IdlePlay
        <4>2. "NONE" \in Blocks[b][1].when /\ Len(Blocks[b]) \in 1..15
          BY RescueTasks, AlwaysTasks DEF Task, EveryPlay
        <4> QED BY <3>3, <4>1, <4>2 DEF First
      <3>4. [IdlePlay EXCEPT !.block = b, !.at = 1] \in {AlwaysPlay, RescuePlay}
        <4>1. IdlePlay \in PlayRec /\ IdlePlay.at = 1
          BY BlockNames DEF IdlePlay, PlayRec
        <4>2. [IdlePlay EXCEPT !.block = b, !.at = 1] = [IdlePlay EXCEPT !.block = b]
          BY <4>1 DEF PlayRec
        <4> QED BY <4>2 DEF AlwaysPlay, RescuePlay
      <3> QED BY <3>2, <3>3, <3>4
    <2> QED BY <1>3, <2>1, <2>2 DEF EndPlay, Arrives
  <1> QED BY <1>2, <1>3

(* Wherever a task leads, the play is at a place of its own there.          *)
LEMMA NewPlace ==
  ASSUME PlaysOK, RestoreInv, NEW p \in Plays, Running(p), NEW new,
         Leaves(p, new) \/ Observes(p, new) \/ Inspects(p, new) \/ GoesOn(p, new)
  PROVE  PlayIs(new)
  <1> DEFINE r == restorer[p]
  <1>1. /\ PlayIs(r) /\ r.block \in DOMAIN Blocks /\ r \in PlayRec /\ r.at \in 1..15
        /\ r.at \in 1..Len(Blocks[r.block]) /\ r.block # "idle"
    BY DEF PlaysOK, Running, PlayIs, PlayRec, PlaceOK
  <1>2. CASE Leaves(p, new)
    BY <1>2, RestPlaces DEF Leaves
  <1>3. CASE Observes(p, new)
    <2>1. /\ r.action = "NONE"
          /\ (r.block = "look" /\ r.at = 1) \/ (r.block = "rescue" /\ r.at = 2)
      BY <1>1, <1>3, LookingPlaces DEF NameOf, Observes
    <2>2. new = [r EXCEPT !.seen = Observed, !.at = @ + 1]
      BY <1>3 DEF Observes
    <2>3. new \in PlayRec /\ new.block = r.block /\ new.at = r.at + 1 /\ new.action = "NONE"
      <3>1. Observed \in SUBSET Databases
        BY DEF Observed
      <3>2. r.at + 1 \in 1..15
        BY <2>1
      <3>3. r \in PlayRec
        BY <1>1
      <3> HIDE DEF r
      <3>4. new.block = r.block /\ new.at = r.at + 1 /\ new.action = "NONE"
        BY <2>1, <2>2, <3>3 DEF PlayRec
      <3>5. new \in PlayRec
        BY <2>2, <3>1, <3>2, <3>3 DEF PlayRec
      <3> QED BY <3>4, <3>5
    <2> HIDE DEF r
    <2> QED BY <2>1, <2>3, LookTasks, RescueTasks DEF PlayIs, PlaceOK, Task, EveryPlay
  <1>4. CASE Inspects(p, new)
    <2> DEFINE a == Action(p)
    <2>1. a \in Actions /\ a # "NONE"
      <3>1. a \in Actions
        BY <1>4 DEF Inspects, CanDo, Known, Action, Reconcile, Actions, Phases
      <3> QED BY <3>1, ActionNames
    <2>2. cp1.journal \in Phases \cup {"NONE"}
      BY DEF RestoreInv, HostTypeOK
    <2>3. CASE r.block = "look"
      <3>1. PICK k \in 1..15 :
              /\ First(BlockOf(a), 1, a, k)
              /\ new = [r EXCEPT !.block = BlockOf(a), !.at = k, !.action = a, !.seen = {}]
        BY <1>4, <2>3 DEF Inspects
      <3>2. BlockOf(a) \in {"main", "rollback", "finalize"}
        BY DEF BlockOf
      <3>3. /\ new \in PlayRec /\ new.block = BlockOf(a) /\ new.at = k /\ new.action = a
        <4> HIDE DEF a
        <4> QED BY <1>1, <2>1, <3>1, <3>2, BlockNames DEF PlayRec
      <3>4. k \in 1..Len(Blocks[BlockOf(a)]) /\ a \in Blocks[BlockOf(a)][k].when
        BY <3>1 DEF First
      <3> HIDE DEF a
      <3> QED BY <2>1, <3>2, <3>3, <3>4 DEF PlayIs, PlaceOK
    <2>4. CASE r.block = "rescue"
      <3>1. PICK k \in 1..15 :
              /\ First("rescue", 4, a, k)
              /\ new = [r EXCEPT !.at = k, !.action = a, !.seen = {}, !.phase = cp1.journal]
        BY <1>4, <2>4 DEF Inspects
      <3>2. new \in PlayRec /\ new.block = "rescue" /\ new.at = k /\ new.action = a
        <4> HIDE DEF a
        <4> QED BY <1>1, <2>1, <2>2, <2>4, <3>1 DEF PlayRec
      <3>3. k \in 4..10 /\ a \in Blocks["rescue"][k].when
        BY <3>1, RescueTasks DEF First
      <3> HIDE DEF a
      <3> QED BY <2>1, <3>2, <3>3, RescueTasks DEF PlayIs, PlaceOK
    <2> QED BY <1>4, <2>3, <2>4 DEF Inspects
  <1>5. CASE GoesOn(p, new)
    <2>1. PICK k \in 1..15 :
            First(r.block, r.at + 1, r.action, k) /\ new = [r EXCEPT !.at = k]
      BY <1>5 DEF GoesOn
    <2>2. /\ new \in PlayRec /\ new.block = r.block /\ new.at = k /\ new.action = r.action
      BY <1>1, <2>1 DEF PlayRec
    <2>3. k \in (r.at + 1)..Len(Blocks[r.block]) /\ r.action \in Blocks[r.block][k].when
      BY <2>1 DEF First
    <2>4. ASSUME r.block = "rescue"
          PROVE  r.action = "NONE" <=> k <= 3
      <3>1. r.at \in {1} \cup 4..10 /\ (r.action = "NONE" <=> r.at = 1)
        BY <1>1, <1>5, <2>4, RescueTasks DEF PlayIs, PlaceOK, GoesOn, NameOf, Task
      <3>2. r.at = 1 => k = 2
        BY <2>1, <2>3, <2>4, <3>1, RescueTasks DEF First, Task, EveryPlay
      <3> QED BY <2>3, <3>1, <3>2, RescueTasks
    <2>5. k \in 1..Len(Blocks[r.block])
      BY <1>1, <2>3, BlockLengths
    <2> HIDE DEF r
    <2> QED BY <1>1, <2>2, <2>3, <2>4, <2>5 DEF PlayIs, PlaceOK
  <1> QED BY <1>2, <1>3, <1>4, <1>5

(* A play that becomes what a play may be keeps the plays in order.        *)
LEMMA ArrivesOK ==
  ASSUME PlaysOK, NEW p \in Plays, NEW new, Arrives(p, new), PlayIs(new),
         restoreCalm' \in BOOLEAN,
         restoreFlaws' \subseteq {"overlap", "undropped", "uncleared"}
  PROVE  PlaysOK'
  BY DEF PlaysOK, Arrives, PlayIs

(* A turn of a play, done or failed, keeps every play at a task of its     *)
(* block that runs under its action.                                       *)
LEMMA TurnKeepsPlays ==
  ASSUME PlaysOK, RestoreInv, NEW p \in Plays, DoTask(p) \/ FailTask(p)
  PROVE  PlaysOK'
  <1>1. /\ restoreCalm' \in BOOLEAN
        /\ restoreFlaws' \subseteq {"overlap", "undropped", "uncleared"}
    BY DEF PlaysOK, DoTask, FailTask, Uncleared
  <1>2. Running(p)
    BY DEF DoTask, FailTask
  <1>3. CASE DoTask(p)
    BY <1>1, <1>2, <1>3, DoArrives, NewPlace, ArrivesOK
  <1>4. CASE FailTask(p)
    BY <1>1, <1>2, <1>4, FailArrives, NewPlace, ArrivesOK, RestPlaces
  <1> QED BY <1>3, <1>4

(* So does every other step.                                               *)
LEMMA NextKeepsPlays ==
  ASSUME PlaysOK, RestoreInv, [RestoreNext]_restoreVars
  PROVE  PlaysOK'
  <1>1. CASE UNCHANGED restoreVars
    BY <1>1 DEF restoreVars, PlaysOK
  <1>2. ASSUME NEW p \in Plays, TakeLock(p)
        PROVE  PlaysOK'
    <2> DEFINE new == [restorer[p] EXCEPT !.block = "look"]
    <2>1. restorer[p] = IdlePlay
      BY <1>2 DEF TakeLock, Running, PlaysOK, PlayIs
    <2>2. PlayIs(new)
      <3>1. new \in PlayRec /\ new.block = "look" /\ new.at = 1 /\ new.action = "NONE"
        BY <2>1, BlockNames DEF IdlePlay, PlayRec
      <3> HIDE DEF new
      <3> QED BY <3>1, LookTasks DEF PlayIs, PlaceOK, Task, EveryPlay
    <2>3. restorer' = [restorer EXCEPT ![p] = new]
      BY <1>2 DEF TakeLock, PlaysOK
    <2> HIDE DEF new
    <2> QED BY <1>2, <2>2, <2>3 DEF TakeLock, PlaysOK, PlayIs
  <1>3. ASSUME NEW p \in Plays, LosePlay(p)
        PROVE  PlaysOK'
    BY <1>3, RestPlaces DEF LosePlay, PlaysOK, PlayIs, Uncleared
  <1>4. CASE ExpireLock \/ Upload \/ RestoreCalms
    BY <1>4 DEF ExpireLock, Upload, RestoreCalms, PlaysOK
  <1> QED BY <1>1, <1>2, <1>3, <1>4, TurnKeepsPlays DEF RestoreNext, RestoreStep

LEMMA InitPlays == RestoreInit => PlaysOK
  BY RestPlaces DEF RestoreInit, PlaysOK, PlayIs

-----------------------------------------------------------------------------
(* As long as no two plays overlap.                                         *)

Alone == \A p, q \in Plays : Running(p) /\ Running(q) => p = q

(* From the integrity gate to the swap, the import is the verified one.     *)
GateOK(play, db) ==
  play.block = "main" /\ play.at \in 7..10 /\ play.action \in Unswapped =>
    db["import"] = "loaded"

(* One play at a time, no unverified service database, and an import that  *)
(* is the verified one wherever the gate was passed.                       *)
SingleOK ==
  "overlap" \notin restoreFlaws =>
    Alone /\ cp1.db["main"] # "partial" /\ \A p \in Plays : GateOK(restorer[p], cp1.db)

(* Which task renames or clears.                                            *)
LEMMA NamedPlaces ==
  ASSUME NEW play, PlayIs(play), play.block # "idle", NEW t,
         t = Blocks[play.block][play.at].name
  PROVE  /\ t = "swap" => play.block = "main" /\ play.at = 10 /\ play.action \in Unswapped
         /\ t = "clear" => play.block = "rescue" /\ play.at = 9
         /\ t = "drop" => play.block \in {"main", "rescue"}
         /\ play.block = "main" /\ play.at \in 6..9 => t \notin Renaming
         /\ play.block = "main" /\ play.at = 6 => t = "verify"
  <1>1. play.block \in DOMAIN Blocks /\ play.at \in 1..Len(Blocks[play.block])
        /\ play.action \in Blocks[play.block][play.at].when
    BY DEF PlayIs, PlaceOK, PlayRec
  <1>2. CASE play.block = "look"
    BY <1>1, <1>2, LookTasks DEF Task
  <1>3. CASE play.block = "main"
    BY <1>1, <1>3, MainTasks DEF Task, Renaming
  <1>4. CASE play.block = "rollback"
    BY <1>1, <1>4, RollbackTasks DEF Task
  <1>5. CASE play.block = "finalize"
    BY <1>1, <1>5, FinalizeTasks DEF Task
  <1>6. CASE play.block = "rescue"
    BY <1>1, <1>6, RescueTasks DEF Task
  <1>7. CASE play.block = "always"
    BY <1>1, <1>7, AlwaysTasks DEF Task
  <1> QED BY <1>1, <1>2, <1>3, <1>4, <1>5, <1>6, <1>7, BlockNames

(* The play is about to clear the journal after its rescue dropped the     *)
(* import.                                                                 *)
AtClear(play) == play.block = "rescue" /\ play.at = 9

(* The host did the task of the play.                                       *)
Done(p) ==
  /\ CanDo(p, NameOf(p))
  /\ Moves(NameOf(p), cp1.journal, cp1.db, cp1'.journal, cp1'.db)

(* The play ends its block: never at the drop of the rescue, whose failure  *)
(* is passed over, and at its clear only by a failure.                      *)
Ends(p, new) ==
  /\ new \in {IdlePlay, AlwaysPlay, RescuePlay} /\ (Done(p) \/ cp1' = cp1)
  /\ restorer[p].block = "rescue" => restorer[p].at # 8
  /\ AtClear(restorer[p]) => "uncleared" \in restoreFlaws'

(* The host did the task and the play goes on.                             *)
Advances(p, new) ==
  (Observes(p, new) \/ Inspects(p, new) \/ GoesOn(p, new)) /\ Done(p)

(* A failure that is passed over.                                           *)
PassesOver(p, new) ==
  /\ GoesOn(p, new) /\ IgnoresFailure(restorer[p].block, NameOf(p)) /\ cp1' = cp1
  /\ restorer[p].block = "rescue" /\ restorer[p].at = 8 /\ cp1.db["import"] # "none" =>
       "undropped" \in restoreFlaws'

(* A turn ends the block, advances in it, or passes a failure over.        *)
LEMMA TurnArrives ==
  ASSUME PlaysOK, RestoreInv, NEW p \in Plays, DoTask(p) \/ FailTask(p)
  PROVE  \E new : /\ Arrives(p, new) /\ PlayIs(new)
                  /\ Ends(p, new) \/ Advances(p, new) \/ PassesOver(p, new)
  <1> DEFINE r == restorer[p]
  <1>1. /\ PlayIs(r) /\ r.block # "idle" /\ Running(p)
        /\ r.block = "rescue" => /\ r.at >= 8 => r.action \in Actions
                                 /\ r.at = 8 => r.action \in Unswapped \ {"START"}
    BY RescueTasks DEF PlaysOK, DoTask, FailTask, Running, PlayIs, PlaceOK, PlayRec, Task
  <1>2. /\ r.block = "rescue" /\ r.at = 8 => NameOf(p) = "drop"
        /\ AtClear(r) => NameOf(p) = "clear"
    BY RescueTasks DEF NameOf, Task, AtClear
  <1>3. ASSUME NEW new, Leaves(p, new), r.block = "rescue", r.at \in {8, 9}
        PROVE  FALSE
    <2>1. r.at + 1 \in {9, 10} /\ r.action \in Blocks["rescue"][r.at + 1].when
      BY <1>1, <1>3, RescueTasks DEF Task
    <2> QED BY <1>3, <2>1, RescueTasks DEF Leaves, NothingDue
  <1>4. CASE DoTask(p)
    <2>1. PICK new : /\ Arrives(p, new)
                     /\ \/ Leaves(p, new) \/ Observes(p, new) \/ Inspects(p, new)
                        \/ GoesOn(p, new)
      BY <1>4, DoArrives
    <2>2. PlayIs(new)
      BY <1>1, <2>1, NewPlace
    <2>3. Done(p)
      <3>1. CanDo(p, NameOf(p)) /\ cp1' \in Effects(NameOf(p))
        BY <1>4 DEF DoTask
      <3> QED BY <3>1, EffectMoves DEF Done
    <2>4. Leaves(p, new) => Ends(p, new)
      BY <1>3, <2>3 DEF Leaves, Ends, AtClear
    <2> QED BY <2>1, <2>2, <2>3, <2>4 DEF Advances
  <1>5. CASE FailTask(p)
    <2>1. PICK new : /\ Arrives(p, new)
                     /\ \/ /\ new \in {IdlePlay, AlwaysPlay, RescuePlay}
                           /\ ~IgnoresFailure(r.block, NameOf(p))
                        \/ /\ IgnoresFailure(r.block, NameOf(p))
                           /\ Leaves(p, new) \/ GoesOn(p, new)
      BY <1>5, FailArrives
    <2>2. PlayIs(new)
      BY <1>1, <2>1, NewPlace, RestPlaces
    <2>3. Done(p) \/ cp1' = cp1
      <3>1. (CanDo(p, NameOf(p)) /\ cp1' \in Effects(NameOf(p))) \/ cp1' = cp1
        BY <1>5 DEF FailTask
      <3> QED BY <3>1, EffectMoves DEF Done
    <2>4. AtClear(r) => "uncleared" \in restoreFlaws'
      BY <1>2, <1>5 DEF FailTask, Uncleared, AtRescue, AtClear
    <2>5. r.block = "rescue" /\ r.at = 8 /\ cp1'.db["import"] # "none" =>
            "undropped" \in restoreFlaws'
      BY <1>2, <1>5 DEF FailTask, AtRescue
    <2>6. CASE ~IgnoresFailure(r.block, NameOf(p)) /\ new \in {IdlePlay, AlwaysPlay, RescuePlay}
      <3>1. r.block = "rescue" => r.at # 8
        BY <1>2, <2>6 DEF IgnoresFailure
      <3>2. Ends(p, new)
        BY <2>3, <2>4, <2>6, <3>1 DEF Ends
      <3> QED BY <2>1, <2>2, <3>2
    <2>7. CASE Leaves(p, new)
      <3>1. Ends(p, new)
        BY <1>3, <2>3, <2>4, <2>7 DEF Ends, Leaves
      <3> QED BY <2>1, <2>2, <3>1
    <2>8. CASE IgnoresFailure(r.block, NameOf(p)) /\ GoesOn(p, new)
      <3>1. Advances(p, new) \/ PassesOver(p, new)
        BY <2>3, <2>5, <2>8 DEF Advances, PassesOver
      <3> QED BY <2>1, <2>2, <3>1
    <2> QED BY <2>1, <2>6, <2>7, <2>8
  <1> QED BY <1>4, <1>5

(* A turn keeps the gate: only a new load could spoil the import, and that *)
(* is before the gate.                                                     *)
LEMMA TurnKeepsSingle ==
  ASSUME PlaysOK, RestoreInv, SingleOK, NEW p \in Plays, DoTask(p) \/ FailTask(p)
  PROVE  SingleOK'
  <1> SUFFICES ASSUME "overlap" \notin restoreFlaws'
               PROVE  (Alone /\ cp1.db["main"] # "partial"
                         /\ \A q \in Plays : GateOK(restorer[q], cp1.db))'
    BY DEF SingleOK
  <1> DEFINE r == restorer[p]
  <1>1. /\ Running(p) /\ Alone /\ cp1.db["main"] # "partial" /\ GateOK(r, cp1.db)
    BY DEF DoTask, FailTask, SingleOK
  <1>2. PICK new : /\ Arrives(p, new) /\ PlayIs(new)
                   /\ Ends(p, new) \/ Advances(p, new) \/ PassesOver(p, new)
    BY TurnArrives
  <1>3. /\ PlayIs(r) /\ r.block # "idle" /\ r \in PlayRec
    BY <1>1 DEF PlaysOK, Running, PlayIs
  <1>4. /\ restorer'[p] = new
        /\ \A q \in Plays : q # p => restorer'[q].block = "idle" /\ restorer'[q] = restorer[q]
    BY <1>1, <1>2 DEF Arrives, PlaysOK, Alone, Running
  <1>5. Alone'
    BY <1>4 DEF Alone, Running
  <1>6. cp1'.db["main"] # "partial"
    <2>1. CASE Done(p)
      <3>1. Moves(NameOf(p), cp1.journal, cp1.db, cp1'.journal, cp1'.db)
        BY <2>1 DEF Done
      <3>2. CASE NameOf(p) = "swap"
        <4>1. cp1.db["import"] = "loaded"
          BY <1>1, <1>3, <3>2, NamedPlaces DEF NameOf, GateOK
        <4> QED BY <3>1, <3>2, <4>1 DEF Moves
      <3>3. CASE NameOf(p) = "back"
        <4>1. cp1.db["previous"] # "none"
          BY <2>1, <3>3 DEF Done, CanDo, Phases
        <4> QED BY <3>1, <3>3, <4>1 DEF Moves, RestoreInv, OriginalIsPlaced
      <3> QED BY <1>1, <3>1, <3>2, <3>3 DEF Moves, Renaming
    <2>2. CASE cp1' = cp1
      BY <1>1, <2>2
    <2> QED BY <1>2, <2>1, <2>2 DEF Ends, Advances, PassesOver
  <1>7. GateOK(new, cp1'.db)
    <2>1. CASE Ends(p, new)
      BY <2>1 DEF Ends, GateOK, IdlePlay, AlwaysPlay, RescuePlay
    <2>2. CASE PassesOver(p, new)
      <3>1. r.block # "main" /\ new.block = r.block
        BY <1>3, <2>2 DEF PassesOver, IgnoresFailure, GoesOn, PlayRec
      <3> QED BY <3>1 DEF GateOK
    <2>3. CASE Advances(p, new) /\ Observes(p, new)
      <3>1. r.block \in {"look", "rescue"} /\ new.block = r.block
        BY <1>3, <2>3, LookingPlaces DEF Observes, NameOf, PlayRec
      <3> QED BY <3>1 DEF GateOK
    <2>4. CASE Advances(p, new) /\ Inspects(p, new)
      <3>1. CASE r.block = "look"
        <4> DEFINE a == Action(p)
        <4>1. PICK k \in 1..15 :
                /\ First(BlockOf(a), 1, a, k)
                /\ new = [r EXCEPT !.block = BlockOf(a), !.at = k, !.action = a, !.seen = {}]
          BY <2>4, <3>1 DEF Inspects
        <4>2. new.block = BlockOf(a) /\ new.at = k
          <5> HIDE DEF a
          <5> QED BY <1>3, <4>1 DEF PlayRec
        <4>3. a \in Actions
          BY <2>4 DEF Inspects, CanDo, Known, Action, Reconcile, Actions, Phases
        <4>4. BlockOf(a) = "main" => k \in {1, 6}
          <5> HIDE DEF a
          <5> QED BY <4>1, <4>3, MainFirst
        <4> QED BY <4>2, <4>4 DEF GateOK
      <3>2. CASE r.block = "rescue"
        <4>1. new.block = "rescue"
          BY <1>3, <2>4, <3>2 DEF Inspects, PlayRec
        <4> QED BY <4>1 DEF GateOK
      <3> QED BY <2>4, <3>1, <3>2 DEF Inspects
    <2>5. CASE Advances(p, new) /\ GoesOn(p, new)
      <3> SUFFICES ASSUME r.block = "main", new.at \in 7..10, new.action \in Unswapped
                   PROVE  cp1'.db["import"] = "loaded"
        BY <1>3, <2>5 DEF GateOK, GoesOn, PlayRec
      <3>1. PICK k \in 1..15 :
              First("main", r.at + 1, r.action, k) /\ new = [r EXCEPT !.at = k]
        BY <2>5 DEF GoesOn
      <3>2. new.at = k /\ new.action = r.action /\ r.at \in 1..15 /\ r.action \in Actions
        BY <1>3, <3>1 DEF PlayRec, PlayIs, PlaceOK
      <3>3. r.at \in 6..9
        <4>1. r.action \in Blocks["main"][6].when
          BY <3>2, MainTasks DEF Task
        <4>2. /\ k \in (r.at + 1)..15
              /\ \A l \in (r.at + 1)..15 : l < k => r.action \notin Blocks["main"][l].when
          BY <3>1, MainTasks DEF First
        <4> HIDE DEF r
        <4> QED BY <3>2, <4>1, <4>2
      <3>4. NameOf(p) \notin Renaming /\ (r.at = 6 => NameOf(p) = "verify")
        BY <1>3, <3>3, NamedPlaces DEF NameOf
      <3>5. cp1'.db = cp1.db
        BY <2>5, <3>4 DEF Advances, Done, Moves
      <3>6. CASE r.at = 6
        <4>1. PassesGate(p)
          BY <2>5, <3>4, <3>6 DEF Advances, Done, CanDo, Phases
        <4> QED BY <3>2, <3>5, <4>1 DEF PassesGate, GateDatabase, Unswapped, FromImport
      <3>7. CASE r.at \in 7..9
        BY <1>1, <3>2, <3>5, <3>7 DEF GateOK
      <3> QED BY <3>3, <3>6, <3>7
    <2> QED BY <1>2, <2>1, <2>2, <2>3, <2>4, <2>5 DEF Advances
  <1>8. ASSUME NEW q \in Plays
        PROVE  GateOK(restorer'[q], cp1'.db)
    BY <1>4, <1>7 DEF GateOK
  <1> QED BY <1>5, <1>6, <1>8

(* So does every other step: a second play is the flaw.                    *)
LEMMA NextKeepsSingle ==
  ASSUME PlaysOK, RestoreInv, SingleOK, [RestoreNext]_restoreVars
  PROVE  SingleOK'
  <1>1. CASE UNCHANGED restoreVars
    BY <1>1 DEF restoreVars, SingleOK, Alone, Running
  <1>2. ASSUME NEW p \in Plays, TakeLock(p)
        PROVE  SingleOK'
    <2> SUFFICES ASSUME "overlap" \notin restoreFlaws'
                 PROVE  (Alone /\ cp1.db["main"] # "partial"
                           /\ \A q \in Plays : GateOK(restorer[q], cp1.db))'
      BY DEF SingleOK
    <2>1. /\ \A q \in Plays : ~Running(q)
          /\ "overlap" \notin restoreFlaws /\ cp1' = cp1
      BY <1>2 DEF TakeLock
    <2>2. /\ restorer'[p].block = "look"
          /\ \A q \in Plays : q # p => restorer'[q] = restorer[q]
      BY <1>2 DEF TakeLock, PlaysOK, PlayRec
    <2> QED BY <2>1, <2>2 DEF SingleOK, Alone, Running, GateOK
  <1>3. ASSUME NEW p \in Plays, LosePlay(p)
        PROVE  SingleOK'
    <2>1. /\ restorer'[p] = IdlePlay /\ \A q \in Plays : q # p => restorer'[q] = restorer[q]
          /\ cp1' = cp1 /\ restoreFlaws \subseteq restoreFlaws'
      BY <1>3 DEF LosePlay, PlaysOK
    <2> QED BY <2>1 DEF SingleOK, Alone, Running, GateOK, IdlePlay
  <1>4. CASE ExpireLock \/ Upload \/ RestoreCalms
    <2>1. cp1'.db = cp1.db /\ restorer' = restorer /\ restoreFlaws' = restoreFlaws
      BY <1>4 DEF ExpireLock, Upload, RestoreCalms, RestoreInv, HostTypeOK
    <2> QED BY <2>1 DEF SingleOK, Alone, Running, GateOK
  <1> QED BY <1>1, <1>2, <1>3, <1>4, TurnKeepsSingle DEF RestoreNext, RestoreStep

LEMMA InitSingle == RestoreInit => SingleOK
  BY DEF RestoreInit, SingleOK, Alone, Running, GateOK, IdlePlay, Databases

-----------------------------------------------------------------------------
(* As long as nothing went wrong in an exceptional way, journal and database*)
(* names are those of a row, and of the row the running play needs.         *)

Fits(play, j, db) ==
  /\ \/ play.block = "look" /\ play.at = 2
     \/ play.block = "rescue" /\ play.at = 3
     => play.seen = Names(db)
  /\ play.block = "main" => MainFits(play.at, play.action, j, db)
  /\ play.block = "rollback" => RollbackFits(play.at, play.action, j, db)
  /\ play.block = "finalize" => FinalizeFits(play.at, play.action, j, db)
  /\ play.block = "rescue" => RescueFits(play.at, play.action, j, db)

(* The inductive invariant: as long as no flaw is recorded, journal and    *)
(* names are a row or a rescue is about to clear them into one, and the    *)
(* running play is where that row needs it.                                *)
FlowOK ==
  restoreFlaws = {} =>
    /\ \/ Resumable(cp1.journal, cp1.db)
       \/ \E p \in Plays : AtClear(restorer[p])
    /\ \A p \in Plays : Fits(restorer[p], cp1.journal, cp1.db)

RestoreFlowInv == RestoreInv /\ PlaysOK /\ SingleOK /\ FlowOK

(* An inspection takes up the action of the row.                            *)
LEMMA InspectedRow ==
  ASSUME NEW p \in Plays, CanDo(p, "inspect"), restorer[p].seen = Names(cp1.db)
  PROVE  Action(p) \in Actions /\ Row(cp1.journal, cp1.db, Action(p))
  <1> DEFINE row(s) == s \in SafeActions /\ s[1] = cp1.journal /\ s[2] = Names(cp1.db)
  <1>1. \E s : row(s)
    BY DEF CanDo, Known, Phases
  <1>2. PICK s : row(s) /\ Action(p) = s[3]
    BY <1>1 DEF Action, Reconcile
  <1>3. s = <<s[1], s[2], s[3]>>
    BY <1>2 DEF SafeActions
  <1> QED BY <1>2, <1>3 DEF Row, Actions

(* What the running play does to the row and where it stands then.          *)
LEMMA TurnFits ==
  ASSUME RestoreFlowInv, RestoreInv', NEW p \in Plays, NEW new, PlayIs(new), Running(p),
         restoreFlaws = {}, restoreFlaws' = {},
         \A q \in Plays : q # p => ~Running(q),
         Ends(p, new) \/ Advances(p, new) \/ PassesOver(p, new)
  PROVE  /\ Fits(new, cp1'.journal, cp1'.db)
         /\ Resumable(cp1'.journal, cp1'.db) \/ AtClear(new)
  <1> DEFINE r == restorer[p]
             j == cp1.journal
             db == cp1.db
             j2 == cp1'.journal
             db2 == cp1'.db
  <1>1. /\ PlayIs(r) /\ r \in PlayRec /\ PlaceOK(r) /\ r.block \in DOMAIN Blocks
        /\ r.at \in 1..Len(Blocks[r.block]) /\ r.action \in Blocks[r.block][r.at].when
        /\ r.block # "idle"
    BY DEF RestoreFlowInv, PlaysOK, Running, PlayIs, PlayRec, PlaceOK
  <1>2. Fits(r, j, db) /\ (Resumable(j, db) \/ AtClear(r))
    BY <1>1 DEF RestoreFlowInv, FlowOK, AtClear, Running
  <1>3. TwoHosts(j, db, j2, db2)
    BY DEF RestoreFlowInv, RestoreInv, HostTypeOK, OriginalIsPlaced, TwoHosts
  <1>4. cp1' = cp1 => j2 = j /\ db2 = db
    OBVIOUS
  <1>5. Done(p) => Moves(NameOf(p), j, db, j2, db2)
    BY DEF Done
  <1>6. Ends(p, new) => Fits(new, j2, db2)
    BY DEF Ends, Fits, IdlePlay, AlwaysPlay, RescuePlay, RescueFits
  <1>7. GoesOn(p, new) =>
          /\ new.block = r.block /\ new.action = r.action
          /\ First(r.block, r.at + 1, r.action, new.at)
    BY <1>1 DEF GoesOn, PlayRec
  <1>8. ~AtClear(r) => Resumable(j, db)
    BY <1>2
  <1>main. CASE r.block = "main"
    <2>1. r.action \in Actions /\ BlockOf(r.action) = "main" /\ MainFits(r.at, r.action, j, db)
          /\ r.at \in 1..15
      BY <1>1, <1>2, <1>main, MainTasks DEF PlaceOK, Fits
    <2>2. Done(p) => /\ Resumable(j2, db2)
                     /\ \A k2 : First("main", r.at + 1, r.action, k2) =>
                                  MainFits(k2, r.action, j2, db2)
      <3>1. NameOf(p) = Blocks["main"][r.at].name
        BY <1>main DEF NameOf
      <3>2. Done(p) => Moves(Blocks["main"][r.at].name, j, db, j2, db2)
        BY <1>5, <3>1
      <3>3. r.action \in Blocks["main"][r.at].when
        BY <1>1, <1>main
      <3> HIDE DEF r, j, db, j2, db2
      <3> QED BY <1>3, <2>1, <3>2, <3>3, MainFlow
    <2>3. ~PassesOver(p, new) /\ ~Observes(p, new) /\ ~Inspects(p, new)
      BY <1>1, <1>main, LookingPlaces DEF PassesOver, IgnoresFailure, Observes, Inspects, NameOf
    <2>4. CASE Ends(p, new)
      BY <1>4, <1>6, <1>8, <1>main, <2>2, <2>4 DEF Ends, AtClear
    <2>5. CASE Advances(p, new)
      BY <1>7, <1>main, <2>2, <2>3, <2>5 DEF Advances, Fits
    <2> QED BY <2>3, <2>4, <2>5
  <1>rollback. CASE r.block = "rollback"
    <2>1. /\ r.action \in Actions /\ BlockOf(r.action) = "rollback"
          /\ RollbackFits(r.at, r.action, j, db) /\ r.at \in 1..6
      BY <1>1, <1>2, <1>rollback, RollbackTasks DEF PlaceOK, Fits
    <2>2. Moves(NameOf(p), j, db, j2, db2) =>
            /\ Resumable(j2, db2)
            /\ \A k2 : First("rollback", r.at + 1, r.action, k2) =>
                         RollbackFits(k2, r.action, j2, db2)
      <3>1. NameOf(p) = Blocks["rollback"][r.at].name
        BY <1>rollback DEF NameOf
      <3> HIDE DEF r, j, db, j2, db2
      <3> QED BY <1>1, <1>3, <1>rollback, <2>1, <3>1, RollbackFlow
    <2>3. ~Observes(p, new) /\ ~Inspects(p, new)
      BY <1>1, <1>rollback, LookingPlaces DEF Observes, Inspects, NameOf
    <2>4. PassesOver(p, new) => Moves(NameOf(p), j, db, j2, db2)
      BY <1>rollback DEF PassesOver, IgnoresFailure, Moves, Phases, Renaming
    <2>5. CASE Ends(p, new)
      BY <1>4, <1>5, <1>6, <1>8, <1>rollback, <2>2, <2>5 DEF Ends, AtClear
    <2>6. CASE Advances(p, new) \/ PassesOver(p, new)
      BY <1>5, <1>7, <1>rollback, <2>2, <2>3, <2>4, <2>6 DEF Advances, PassesOver, Fits
    <2> QED BY <2>5, <2>6
  <1>finalize. CASE r.block = "finalize"
    <2>1. /\ r.action \in Actions /\ BlockOf(r.action) = "finalize"
          /\ FinalizeFits(r.at, r.action, j, db) /\ r.at \in 1..4
      BY <1>1, <1>2, <1>finalize, FinalizeTasks DEF PlaceOK, Fits
    <2>2. Done(p) => /\ Resumable(j2, db2)
                     /\ \A k2 : First("finalize", r.at + 1, r.action, k2) =>
                                  FinalizeFits(k2, r.action, j2, db2)
      <3>1. NameOf(p) = Blocks["finalize"][r.at].name
        BY <1>finalize DEF NameOf
      <3> HIDE DEF r, j, db, j2, db2
      <3> QED BY <1>1, <1>3, <1>5, <1>finalize, <2>1, <3>1, FinalizeFlow
    <2>3. ~PassesOver(p, new) /\ ~Observes(p, new) /\ ~Inspects(p, new)
      BY <1>1, <1>finalize, LookingPlaces
      DEF PassesOver, IgnoresFailure, Observes, Inspects, NameOf
    <2>4. CASE Ends(p, new)
      BY <1>4, <1>6, <1>8, <1>finalize, <2>2, <2>4 DEF Ends, AtClear
    <2>5. CASE Advances(p, new)
      BY <1>7, <1>finalize, <2>2, <2>3, <2>5 DEF Advances, Fits
    <2> QED BY <2>3, <2>4, <2>5
  <1>always. CASE r.block = "always"
    <2>1. NameOf(p) = "discard" /\ r.at = 1
      BY <1>1, <1>always, AlwaysTasks DEF NameOf, Task
    <2>2. j2 = j /\ db2 = db
      BY <1>4, <1>5, <2>1 DEF Ends, Advances, PassesOver, Moves, Phases, Renaming
    <2>3. ~GoesOn(p, new)
      BY <1>always, <2>1, AlwaysTasks DEF GoesOn, First
    <2> QED BY <1>6, <1>8, <1>always, <2>1, <2>2, <2>3
        DEF Advances, PassesOver, Observes, Inspects, AtClear
  <1>look. CASE r.block = "look"
    <2>1. /\ r.at \in {1, 2}
          /\ r.at = 1 => NameOf(p) = "observe"
          /\ r.at = 2 => NameOf(p) = "inspect"
      BY <1>1, <1>look, LookTasks DEF NameOf, Task
    <2>2. j2 = j /\ db2 = db /\ Resumable(j2, db2)
      <3>1. NameOf(p) \in {"observe", "inspect"}
        BY <2>1
      <3> QED BY <1>4, <1>5, <1>8, <1>look, <3>1
          DEF Ends, Advances, PassesOver, Moves, Phases, Renaming, AtClear
    <2>3. CASE Observes(p, new)
      <3>1. new.block = "look" /\ new.seen = Observed
        BY <1>1, <1>look, <2>3 DEF Observes, PlayRec
      <3> QED BY <2>2, <3>1 DEF Fits, Observed, Names
    <2>4. CASE Inspects(p, new)
      <3> DEFINE a == Action(p)
      <3>1. a \in Actions /\ Row(j, db, a)
        <4>1. r.at = 2
          BY <2>1, <2>4 DEF Inspects
        <4>2. r.seen = Names(db)
          BY <1>2, <1>look, <4>1 DEF Fits
        <4> QED BY <2>4, <4>2, InspectedRow DEF Inspects
      <3>2. PICK k \in 1..15 :
              /\ First(BlockOf(a), 1, a, k)
              /\ new = [r EXCEPT !.block = BlockOf(a), !.at = k, !.action = a, !.seen = {}]
        BY <1>look, <2>4 DEF Inspects
      <3>3. new.block = BlockOf(a) /\ new.at = k /\ new.action = a
        <4> HIDE DEF a
        <4> QED BY <1>1, <3>2 DEF PlayRec
      <3>4. BlockOf(a) \in {"main", "rollback", "finalize"}
        BY DEF BlockOf
      <3>5. /\ BlockOf(a) = "main" => MainFits(k, a, j, db)
            /\ BlockOf(a) = "rollback" => RollbackFits(k, a, j, db)
            /\ BlockOf(a) = "finalize" => FinalizeFits(k, a, j, db)
        <4>1. db \in [Databases -> Contents] /\ db["main"] # "none"
          BY <1>3 DEF TwoHosts
        <4> HIDE DEF a, j, db
        <4> QED BY <3>1, <3>2, <4>1, EntryFits
      <3> HIDE DEF a
      <3> QED BY <2>2, <3>3, <3>4, <3>5 DEF Fits
    <2> QED BY <1>6, <2>1, <2>2, <2>3, <2>4 DEF Advances, PassesOver, GoesOn
  <1>rescue. CASE r.block = "rescue"
    <2>1. /\ r.at \in 1..10
          /\ r.action = "NONE" <=> r.at <= 3
          /\ r.at >= 4 => r.action \in Actions
      BY <1>1, <1>rescue, RescueTasks DEF PlaceOK, PlayRec
    <2>2. RescueFits(r.at, r.action, j, db) /\ (r.at = 3 => r.seen = Names(db))
      BY <1>2, <1>rescue DEF Fits
    <2>3. NameOf(p) = Blocks["rescue"][r.at].name
      BY <1>rescue DEF NameOf
    <2>4. CASE r.at \in {1, 2, 3}
      <3>1. /\ r.at = 1 => NameOf(p) = "stop"
            /\ r.at = 2 => NameOf(p) = "observe"
            /\ r.at = 3 => NameOf(p) = "inspect"
        BY <2>3, RescueTasks DEF Task
      <3>2. j2 = j /\ db2 = db /\ Resumable(j2, db2)
        <4>1. NameOf(p) \in {"stop", "observe", "inspect"}
          BY <2>4, <3>1
        <4> QED BY <1>4, <1>5, <1>8, <2>4, <4>1
            DEF Ends, Advances, PassesOver, Moves, Phases, Renaming, AtClear
      <3>3. CASE GoesOn(p, new)
        <4>1. r.at = 1
          BY <2>4, <3>1, <3>3 DEF GoesOn
        <4>2. new.block = "rescue" /\ First("rescue", 2, "NONE", new.at)
          BY <1>7, <1>rescue, <2>1, <3>3, <4>1
        <4>3. new.at = 2
          BY <4>2, RescueTasks DEF First, Task, EveryPlay
        <4> QED BY <3>2, <4>2, <4>3 DEF Fits, RescueFits
      <3>4. CASE Observes(p, new)
        <4>1. r.at = 2
          BY <2>4, <3>1, <3>4 DEF Observes
        <4>2. new.block = "rescue" /\ new.at = 3 /\ new.seen = Observed
          BY <1>1, <1>rescue, <3>4, <4>1 DEF Observes, PlayRec
        <4> QED BY <3>2, <4>2 DEF Fits, RescueFits, Observed, Names
      <3>5. CASE Inspects(p, new)
        <4> DEFINE a == Action(p)
        <4>1. r.at = 3
          BY <2>4, <3>1, <3>5 DEF Inspects
        <4>2. a \in Actions /\ Row(j, db, a)
          BY <2>2, <3>5, <4>1, InspectedRow DEF Inspects
        <4>3. PICK k \in 1..15 :
                /\ First("rescue", 4, a, k)
                /\ new = [r EXCEPT !.at = k, !.action = a, !.seen = {}, !.phase = cp1.journal]
          BY <1>rescue, <3>5 DEF Inspects
        <4>4. new.block = "rescue" /\ new.at = k /\ new.action = a /\ k # 3
          <5>1. k # 3
            BY <4>3, RescueTasks DEF First
          <5> HIDE DEF a
          <5> QED BY <1>1, <1>rescue, <4>3, <5>1 DEF PlayRec
        <4>5. RescueFits(k, a, j, db)
          <5>1. db \in [Databases -> Contents] /\ db["main"] # "none"
            BY <1>3 DEF TwoHosts
          <5> HIDE DEF a, j, db
          <5> QED BY <4>2, <4>3, <5>1, EntryFits
        <4> HIDE DEF a
        <4> QED BY <3>2, <4>4, <4>5 DEF Fits
      <3> QED BY <1>6, <3>2, <3>3, <3>4, <3>5 DEF Advances, PassesOver
    <2>5. ASSUME r.at >= 4
          PROVE  ~Observes(p, new) /\ ~Inspects(p, new)
      BY <1>1, <2>5, LookingPlaces DEF Observes, Inspects, NameOf
    <2>6. CASE r.at \in 4..7
      <3>1. Done(p) => /\ Resumable(j2, db2)
                       /\ \A k2 : First("rescue", r.at + 1, r.action, k2) =>
                                    RescueFits(k2, r.action, j2, db2)
        <4> HIDE DEF r, j, db, j2, db2
        <4> QED BY <1>1, <1>3, <1>5, <1>rescue, <2>1, <2>2, <2>3, <2>6, RescueFlow
      <3>2. ~PassesOver(p, new)
        BY <2>3, <2>6, RescueTasks DEF PassesOver, IgnoresFailure, Task
      <3>3. CASE Ends(p, new)
        BY <1>4, <1>6, <1>8, <2>6, <3>1, <3>3 DEF Ends, AtClear
      <3>4. CASE Advances(p, new)
        BY <1>1, <1>7, <1>rescue, <2>5, <2>6, <3>1, <3>4 DEF Advances, Fits, First
      <3> QED BY <3>2, <3>3, <3>4
    <2>7. CASE r.at = 8
      <3>1. NameOf(p) = "drop" /\ Row(j, db, r.action) /\ r.action \in Actions
        BY <2>1, <2>2, <2>3, <2>7, RescueTasks DEF Task, RescueFits
      <3>2. /\ Moves("drop", j, db, j2, db2) => ToClear(j2, db2)
            /\ \A k2 : First("rescue", 9, r.action, k2) => k2 = 9
        <4> HIDE DEF r, j, db, j2, db2
        <4> QED BY <1>1, <1>3, <1>rescue, <2>7, <3>1, RescueClears
      <3>3. Moves("drop", j, db, j2, db2) /\ GoesOn(p, new)
        <4>1. PassesOver(p, new) => Moves("drop", j, db, j2, db2)
          BY <1>rescue, <2>7 DEF PassesOver, Moves, Phases, Renaming
        <4> QED BY <1>5, <1>rescue, <2>5, <2>7, <3>1, <4>1 DEF Ends, Advances, PassesOver
      <3>4. new.block = "rescue" /\ new.at = 9
        BY <1>7, <1>rescue, <2>7, <3>2, <3>3
      <3> QED BY <3>2, <3>3, <3>4 DEF Fits, RescueFits, AtClear
    <2>8. CASE r.at = 9
      <3>1. NameOf(p) = "clear" /\ ToClear(j, db) /\ r.action \in Actions
        BY <2>1, <2>2, <2>3, <2>8, RescueTasks DEF Task, RescueFits
      <3>2. Advances(p, new) /\ GoesOn(p, new)
        BY <1>rescue, <2>5, <2>8, <3>1
        DEF Ends, Advances, PassesOver, IgnoresFailure, AtClear
      <3>3. Moves("clear", j, db, j2, db2)
        BY <1>5, <3>1, <3>2 DEF Advances
      <3>4. Row(j2, db2, "START")
        BY <3>1, <3>3 DEF ToClear, Moves, Phases, Renaming, Row, SafeActions
      <3>5. new.block = "rescue" /\ new.at = 10
        BY <1>7, <1>rescue, <2>8, <3>2, RescueTasks DEF First
      <3> QED BY <3>4, <3>5, ActionNames DEF Resumable, Fits, RescueFits
    <2>9. CASE r.at = 10
      <3>1. NameOf(p) = "start"
        BY <2>3, <2>9, RescueTasks DEF Task
      <3>2. j2 = j /\ db2 = db
        BY <1>4, <1>5, <3>1 DEF Ends, Advances, PassesOver, Moves, Phases, Renaming
      <3>3. ~GoesOn(p, new)
        BY <1>rescue, <2>9, RescueTasks DEF GoesOn, First
      <3> QED BY <1>6, <1>8, <2>5, <2>9, <3>2, <3>3 DEF Advances, PassesOver, AtClear
    <2> QED BY <2>1, <2>4, <2>6, <2>7, <2>8, <2>9
  <1> QED BY <1>1, <1>main, <1>rollback, <1>finalize, <1>always, <1>look, <1>rescue, BlockNames

(* A turn of the only running play keeps the rows.                         *)
LEMMA TurnKeepsFlow ==
  ASSUME RestoreFlowInv, RestoreInv', NEW p \in Plays, DoTask(p) \/ FailTask(p)
  PROVE  FlowOK'
  <1> SUFFICES ASSUME restoreFlaws' = {}
               PROVE  (/\ \/ Resumable(cp1.journal, cp1.db)
                          \/ \E q \in Plays : AtClear(restorer[q])
                       /\ \A q \in Plays : Fits(restorer[q], cp1.journal, cp1.db))'
    BY DEF FlowOK
  <1>1. restoreFlaws = {} /\ Running(p) /\ \A q \in Plays : q # p => ~Running(q)
    <2>1. restoreFlaws = {} /\ Running(p)
      BY DEF DoTask, FailTask
    <2> QED BY <2>1 DEF RestoreFlowInv, SingleOK, Alone
  <1>2. PICK new : /\ Arrives(p, new) /\ PlayIs(new)
                   /\ Ends(p, new) \/ Advances(p, new) \/ PassesOver(p, new)
    BY TurnArrives DEF RestoreFlowInv
  <1>3. /\ Fits(new, cp1'.journal, cp1'.db)
        /\ Resumable(cp1'.journal, cp1'.db) \/ AtClear(new)
    BY <1>1, <1>2, TurnFits
  <1>4. /\ restorer'[p] = new
        /\ \A q \in Plays : q # p => restorer'[q].block = "idle"
    BY <1>1, <1>2 DEF Arrives, RestoreFlowInv, PlaysOK, Running
  <1> QED BY <1>3, <1>4 DEF Fits

(* A step that starts or loses a play, or lets the lock expire.             *)
LEMMA NextKeepsFlow ==
  ASSUME RestoreFlowInv, RestoreInv', [RestoreNext]_restoreVars
  PROVE  FlowOK'
  <1>1. CASE UNCHANGED restoreVars
    BY <1>1 DEF restoreVars, RestoreFlowInv, FlowOK
  <1>2. ASSUME NEW p \in Plays, TakeLock(p)
        PROVE  FlowOK'
    <2> SUFFICES ASSUME restoreFlaws' = {}
                 PROVE  (/\ \/ Resumable(cp1.journal, cp1.db)
                            \/ \E q \in Plays : AtClear(restorer[q])
                         /\ \A q \in Plays : Fits(restorer[q], cp1.journal, cp1.db))'
      BY DEF FlowOK
    <2>1. restoreFlaws = {} /\ \A q \in Plays : ~Running(q)
      BY <1>2 DEF TakeLock
    <2>2. /\ restorer'[p].block = "look" /\ restorer'[p].at = 1
          /\ \A q \in Plays : q # p => restorer'[q] = restorer[q]
      BY <1>2, <2>1 DEF TakeLock, RestoreFlowInv, PlaysOK, PlayRec, PlayIs, Running, IdlePlay
    <2>3. cp1' = cp1
      BY <1>2 DEF TakeLock
    <2>4. Resumable(cp1.journal, cp1.db)
      BY <2>1 DEF RestoreFlowInv, FlowOK, AtClear, Running
    <2>5. \A q \in Plays : Fits(restorer'[q], cp1.journal, cp1.db)
      BY <2>1, <2>2 DEF Fits, Running
    <2> QED BY <2>3, <2>4, <2>5
  <1>3. ASSUME NEW p \in Plays, LosePlay(p)
        PROVE  FlowOK'
    <2> SUFFICES ASSUME restoreFlaws' = {}
                 PROVE  (/\ \/ Resumable(cp1.journal, cp1.db)
                            \/ \E q \in Plays : AtClear(restorer[q])
                         /\ \A q \in Plays : Fits(restorer[q], cp1.journal, cp1.db))'
      BY DEF FlowOK
    <2>1. restoreFlaws = {} /\ ~AtRescue(p, "clear") /\ cp1' = cp1
      BY <1>3 DEF LosePlay, Uncleared
    <2>2. /\ restorer'[p].block = "idle"
          /\ \A q \in Plays : q # p => restorer'[q] = restorer[q]
      BY <1>3 DEF LosePlay, RestoreFlowInv, PlaysOK, IdlePlay
    <2>3. ~AtClear(restorer[p])
      BY <2>1, RescueTasks DEF AtClear, AtRescue, NameOf, Task
    <2>4. \/ Resumable(cp1.journal, cp1.db)
          \/ \E q \in Plays : q # p /\ AtClear(restorer[q])
      BY <2>1, <2>3 DEF RestoreFlowInv, FlowOK
    <2>5. \A q \in Plays : Fits(restorer'[q], cp1.journal, cp1.db)
      BY <2>1, <2>2 DEF RestoreFlowInv, FlowOK, Fits
    <2> QED BY <2>1, <2>2, <2>4, <2>5
  <1>4. CASE ExpireLock \/ Upload \/ RestoreCalms
    <2>1. /\ cp1'.journal = cp1.journal /\ cp1'.db = cp1.db
          /\ restorer' = restorer /\ restoreFlaws' = restoreFlaws
      BY <1>4 DEF ExpireLock, Upload, RestoreCalms, RestoreFlowInv, RestoreInv, HostTypeOK
    <2> QED BY <2>1 DEF RestoreFlowInv, FlowOK
  <1> QED BY <1>1, <1>2, <1>3, <1>4, TurnKeepsFlow DEF RestoreNext, RestoreStep

(* Before the first play, a restore may start.                             *)
LEMMA InitFlow == RestoreInit => FlowOK
  <1> SUFFICES ASSUME RestoreInit
               PROVE  FlowOK
    OBVIOUS
  <1>1. cp1.journal = "NONE" /\ Names(cp1.db) = MainOnly
    BY DEF RestoreInit, Names, MainOnly, Databases
  <1>2. Resumable(cp1.journal, cp1.db)
    BY <1>1, ActionNames DEF Resumable, Row, SafeActions
  <1>3. \A p \in Plays : Fits(restorer[p], cp1.journal, cp1.db)
    BY DEF RestoreInit, Fits, IdlePlay
  <1> QED BY <1>2, <1>3 DEF FlowOK

(* The parts keep each other.                                              *)
LEMMA RestoreIsInductive == RestoreSpec => []RestoreFlowInv
  <1>1. RestoreInit => RestoreFlowInv
    BY RestoreInitInv, InitPlays, InitSingle, InitFlow DEF RestoreFlowInv
  <1>2. RestoreFlowInv /\ [RestoreNext]_restoreVars => RestoreFlowInv'
    <2> SUFFICES ASSUME RestoreFlowInv, [RestoreNext]_restoreVars
                 PROVE  RestoreFlowInv'
      OBVIOUS
    <2>1. RestoreInv /\ PlaysOK /\ SingleOK
      BY DEF RestoreFlowInv
    <2>2. RestoreInv'
      BY <2>1, RestoreNextInv
    <2> QED BY <2>1, <2>2, NextKeepsPlays, NextKeepsSingle, NextKeepsFlow DEF RestoreFlowInv
  <1> QED BY <1>1, <1>2, PTL DEF RestoreSpec

(* Every play is at a task of its block and an ended one has forgotten     *)
(* what it learned (the playbook keeps its facts per run); journal,        *)
(* databases and lock are what they may be                                 *)
(* (restore-replacement-controller.yml).                                   *)
THEOREM RestoreTypesHold == RestoreSpec => []RestoreTypeOK
  <1>1. RestoreFlowInv => RestoreTypeOK
    BY DEF RestoreFlowInv, RestoreInv, HostTypeOK, PlaysOK, PlayRec, PlayIs, Running,
           RestoreTypeOK
  <1> QED BY <1>1, RestoreIsInductive, PTL

(* The rows say what the journal says.                                     *)
LEMMA FlowMeans ==
  ASSUME RestoreFlowInv
  PROVE  SelectedWasVerified /\ RerunIsNeverRefused /\ PhaseIsTrue
  <1>1. SelectedWasVerified
    BY DEF RestoreFlowInv, SingleOK, SelectedWasVerified
  <1>2. RerunIsNeverRefused
    <2> SUFFICES ASSUME restoreFlaws = {}, \A p \in Plays : ~Running(p)
                 PROVE  Known(cp1.journal, Observed)
      BY DEF RerunIsNeverRefused
    <2>1. Resumable(cp1.journal, cp1.db)
      BY DEF RestoreFlowInv, FlowOK, AtClear, Running
    <2>2. PICK a \in Actions : <<cp1.journal, Observed, a>> \in SafeActions
      BY <2>1 DEF Resumable, Row, Names, Observed
    <2> QED BY <2>2 DEF Known
  <1>3. PhaseIsTrue
    <2> SUFFICES ASSUME restoreFlaws = {},
                        cp1.journal \in {"ROLLED_BACK", "READINESS_VERIFIED", "COMPLETE"}
                 PROVE  IF cp1.journal = "ROLLED_BACK" THEN cp1.db["main"] = "original"
                        ELSE cp1.db["main"] = "loaded" /\ cp1.db["previous"] = "original"
      BY DEF PhaseIsTrue
    <2>1. cp1.db \in [Databases -> Contents] /\ OriginalIsPlaced(cp1.db)
          /\ cp1.db["main"] # "partial"
      BY DEF RestoreFlowInv, RestoreInv, HostTypeOK, SingleOK
    <2>2. \A p \in Plays : ~AtClear(restorer[p])
      BY DEF RestoreFlowInv, FlowOK, Fits, AtClear, RescueFits, ToClear, Clearable
    <2>3. PICK a \in Actions : Row(cp1.journal, cp1.db, a)
      BY <2>2 DEF RestoreFlowInv, FlowOK, Resumable
    <2>4. IF cp1.journal = "ROLLED_BACK" THEN cp1.db["previous"] = "none"
          ELSE cp1.db["previous"] # "none"
      BY <2>1, <2>3, RowIs, ActionNames DEF OriginalIsPlaced
    <2>5. cp1.db["main"] \in Contents
      BY <2>1 DEF Databases
    <2> QED BY <2>1, <2>4, <2>5 DEF OriginalIsPlaced, Contents
  <1> QED BY <1>1, <1>2, <1>3

(* Under the rows of a ready restore no play is at a task that renames,    *)
(* creates, loads or drops a database.                                     *)
LEMMA ReadyPlaysRenameNothing ==
  ASSUME RestoreFlowInv, restoreFlaws = {},
         cp1.journal \in {"READINESS_VERIFIED", "COMPLETE"}, NEW p \in Plays, Running(p)
  PROVE  NameOf(p) \notin Renaming
  <1> DEFINE r == restorer[p]
  <1>1. /\ PlayIs(r) /\ r.block \in DOMAIN Blocks
        /\ r.at \in 1..Len(Blocks[r.block]) /\ r.action \in Blocks[r.block][r.at].when
    BY DEF RestoreFlowInv, PlaysOK, Running, PlayIs, PlayRec, PlaceOK
  <1>2. Fits(r, cp1.journal, cp1.db)
    BY DEF RestoreFlowInv, FlowOK
  <1>3. cp1.db \in [Databases -> Contents] /\ cp1.db["main"] # "none"
    BY DEF RestoreFlowInv, RestoreInv, HostTypeOK, OriginalIsPlaced
  <1>4. \A a \in Actions :
          Row(cp1.journal, cp1.db, a) => a \in {"FINALIZE_COMPLETE", "COMPLETE"}
    BY <1>3, RowIs, ActionNames
  <1>main. CASE r.block = "main"
    <2>1. NameOf(p) = Blocks["main"][r.at].name /\ r.at \in 1..15
          /\ r.action \in Blocks["main"][r.at].when
      BY <1>1, <1>main, MainTasks DEF NameOf
    <2>2. MainFits(r.at, r.action, cp1.journal, cp1.db)
      BY <1>2, <1>main DEF Fits
    <2>3. r.at \notin {4, 5, 10}
      BY <1>4, <2>2, ActionNames DEF MainFits
    <2>4. r.at # 3
      <3>1. ASSUME r.at = 3
            PROVE  r.action = "RESTART_IMPORT"
        BY <2>1, <3>1, MainTasks DEF Task
      <3> QED BY <1>4, <2>2, <3>1, ActionNames DEF MainFits
    <2> HIDE DEF r
    <2> QED BY <2>1, <2>3, <2>4, MainTasks DEF Task, Renaming
  <1>rollback. CASE r.block = "rollback"
    <2>1. NameOf(p) = Blocks["rollback"][r.at].name /\ r.at \in 1..6
      BY <1>1, <1>rollback, RollbackTasks DEF NameOf
    <2>2. RollbackFits(r.at, r.action, cp1.journal, cp1.db)
      BY <1>2, <1>rollback DEF Fits
    <2>3. r.at # 2
      BY <1>4, <2>2, ActionNames DEF RollbackFits
    <2> HIDE DEF r
    <2> QED BY <2>1, <2>3, RollbackTasks DEF Task, Renaming
  <1>rescue. CASE r.block = "rescue"
    <2>1. NameOf(p) = Blocks["rescue"][r.at].name /\ r.at \in 1..10
          /\ r.action \in Blocks["rescue"][r.at].when
      BY <1>1, <1>rescue, RescueTasks DEF NameOf
    <2>2. RescueFits(r.at, r.action, cp1.journal, cp1.db)
      BY <1>2, <1>rescue DEF Fits
    <2>3. r.at # 6
      BY <1>4, <2>2, ActionNames DEF RescueFits
    <2>4. r.at # 8
      <3>1. ASSUME r.at = 8
            PROVE  r.action \in {"BEGIN_IMPORT", "RESTART_IMPORT", "RESUME_PREPARED",
                                 "RESUME_SWAP"}
        BY <2>1, <3>1, RescueTasks DEF Task, Unswapped, FromImport
      <3> QED BY <1>4, <2>2, <3>1, ActionNames DEF RescueFits
    <2> HIDE DEF r
    <2> QED BY <2>1, <2>3, <2>4, RescueTasks DEF Task, Renaming
  <1>other. CASE r.block \in {"look", "finalize", "always"}
    <2>1. CASE r.block = "look"
      BY <1>1, <2>1, LookTasks DEF NameOf, Task, Renaming
    <2>2. CASE r.block = "finalize"
      BY <1>1, <2>2, FinalizeTasks DEF NameOf, Task, Renaming
    <2>3. CASE r.block = "always"
      BY <1>1, <2>3, AlwaysTasks DEF NameOf, Task, Renaming
    <2> QED BY <1>other, <2>1, <2>2, <2>3
  <1> QED BY <1>1, <1>main, <1>rollback, <1>rescue, <1>other, BlockNames

(* So no step touches the databases then.                                  *)
LEMMA ReadyStepStays ==
  ASSUME RestoreFlowInv, RestoreNext, restoreFlaws = {},
         cp1.journal \in {"READINESS_VERIFIED", "COMPLETE"}
  PROVE  cp1'.db = cp1.db
  <1>1. ASSUME NEW p \in Plays, DoTask(p) \/ FailTask(p)
        PROVE  cp1'.db = cp1.db
    <2>1. Running(p)
      BY <1>1 DEF DoTask, FailTask
    <2>2. cp1' = cp1 \/ cp1' \in Effects(NameOf(p))
      BY <1>1 DEF DoTask, FailTask
    <2>3. NameOf(p) \notin Renaming
      BY <2>1, ReadyPlaysRenameNothing
    <2>4. CASE cp1' \in Effects(NameOf(p))
      <3>1. Moves(NameOf(p), cp1.journal, cp1.db, cp1'.journal, cp1'.db)
        BY <2>4, EffectMoves DEF RestoreFlowInv
      <3> QED BY <2>3, <3>1 DEF Moves
    <2> QED BY <2>2, <2>4
  <1>2. CASE \/ ExpireLock \/ Upload \/ RestoreCalms
             \/ \E p \in Plays : TakeLock(p) \/ LosePlay(p)
    BY <1>2 DEF ExpireLock, Upload, RestoreCalms, TakeLock, LosePlay, RestoreFlowInv,
                RestoreInv, HostTypeOK
  <1> QED BY <1>1, <1>2 DEF RestoreNext, RestoreStep

(* What controller_restore_journal.py decides from is true: unless plays   *)
(* overlapped no unverified import is served; unless a flaw of the rescue  *)
(* is recorded a rerun always finds one action, a phase means what it      *)
(* says, and once readiness is recorded no play renames, loads or drops a  *)
(* database.                                                               *)
THEOREM RestoresAreTrue == RestoreSpec => RestoreIsTrue
  <1>1. RestoreFlowInv => SelectedWasVerified /\ RerunIsNeverRefused /\ PhaseIsTrue
    BY FlowMeans
  <1>2. RestoreFlowInv /\ [RestoreNext]_restoreVars =>
          [cp1.journal \in {"READINESS_VERIFIED", "COMPLETE"} /\ restoreFlaws = {} =>
             cp1'.db = cp1.db]_restoreVars
    BY ReadyStepStays
  <1>3. RestoreSpec => [](SelectedWasVerified /\ RerunIsNeverRefused /\ PhaseIsTrue)
    BY <1>1, RestoreIsInductive, PTL
  <1>4. RestoreSpec => ReadyRestoreStays
    BY <1>2, RestoreIsInductive, PTL DEF RestoreSpec, ReadyRestoreStays
  <1> QED BY <1>3, <1>4 DEF RestoreIsTrue

-----------------------------------------------------------------------------
(* The installer.  A phase is completed by its name, or by its place.       *)
Completed(p) == ledger.phases[p] = "completed"

Did(i) == Completed(InstallPhases[i])

AtWork == {"work", "plan", "apply", "summary", "complete", "fail"}

Busy == {"phase", "finish"} \cup AtWork

InstallerIs ==
  /\ installer \in [pc : {"idle", "begin"} \cup Busy,
                    cmd : {"install", "resume", "reconcile", Nothing},
                    dry : BOOLEAN, client : Clients \cup {Nothing}, at : 1..8]
  /\ ~In("idle") => installer.client \in Clients

(* What a phase leaves behind when it is done.                              *)
Established(p) ==
  /\ p = "answers" => kept.answers # Nothing
  /\ p = "confirmation" => confirmed # Nothing
  /\ p = "release" => ledger.release # Nothing
  /\ p = "secrets" => kept.secrets # Nothing
  /\ p = "ansible" /\ ~ledger.dry =>
       /\ node.applied # Nothing
       /\ node.session # Nothing => node.applied.release = ledger.release
  /\ p = "summary" => kept.summary = ledger.release

LedgerKnows ==
  ledger # Nothing => \A p \in PhaseNames : Completed(p) => Established(p)

RunsAreOver ==
  ledger # Nothing =>
    /\ Len(ledger.runs) >= 1
    /\ \A i \in 1..(Len(ledger.runs) - 1) : ledger.runs[i].status # "running"

(* What the running installer may rely on.                                  *)
InstallerKnows ==
  /\ In("idle") \/ In("begin") => installer.at = 1
  /\ installer.cmd = "reconcile" => ~installer.dry
  /\ installer.pc \in Busy =>
       /\ ledger # Nothing /\ ledger.dry = installer.dry /\ ledger.status # "complete"
       /\ \A i \in 1..8 : i < installer.at => Did(i)
  /\ installer.pc \in AtWork => ~Did(installer.at)
  /\ In("complete") => Established(Phase)
  /\ In("finish") => \A i \in 1..8 : Did(i)
  /\ installer.pc \in {"plan", "apply"} =>
       installer.at = 7 /\ installer.client \in kept.answers.cidrs
  /\ In("apply") => ~installer.dry /\ ledger.release # Nothing
  /\ In("summary") => installer.at = 8

(* A playbook's values are the confirmed ones.                              *)
Agreed(a) ==
  a # Nothing => /\ confirmed # Nothing /\ a.settings = confirmed
                 /\ kept.secrets # Nothing /\ a.password = kept.secrets

MachineAgrees ==
  /\ confirmed # Nothing => kept.answers # Nothing /\ confirmed = kept.answers.settings
  /\ node.packages => confirmed # Nothing
  /\ Agreed(node.applied) /\ Agreed(orphan)
  /\ kept.credentials # Nothing => kept.credentials = kept.secrets
  /\ node.session # Nothing =>
       node.applied # Nothing /\ node.session \in node.applied.cidrs
  /\ ledger = Nothing \/ ledger.dry => node = Bare /\ orphan = Nothing

InstallInv ==
  /\ InstallTypeOK /\ InstallerIs
  /\ LedgerKnows /\ PhasesInOrder /\ RunsAreOver /\ InstallerKnows /\ MachineAgrees

(* The phases by their places.                                              *)
LEMMA PhaseList ==
  /\ InstallPhases[1] = "preflight" /\ InstallPhases[2] = "answers"
  /\ InstallPhases[3] = "confirmation" /\ InstallPhases[4] = "release"
  /\ InstallPhases[5] = "bootstrap" /\ InstallPhases[6] = "secrets"
  /\ InstallPhases[7] = "ansible" /\ InstallPhases[8] = "summary"
  /\ PhaseNames = {"preflight", "answers", "confirmation", "release", "bootstrap",
                   "secrets", "ansible", "summary"}
  BY DEF InstallPhases, PhaseNames

LEMMA PhasesDiffer ==
  /\ \A i \in 1..8 : InstallPhases[i] \in PhaseNames
  /\ \A i, j \in 1..8 : InstallPhases[i] = InstallPhases[j] => i = j
  BY PhaseList

LEMMA InitInstalls == InstallInit => InstallInv
  <1> SUFFICES ASSUME InstallInit
               PROVE  InstallInv
    OBVIOUS
  <1>1. /\ ledger = Nothing /\ orphan = Nothing /\ confirmed = Nothing
        /\ kept = [answers |-> Nothing, secrets |-> Nothing, credentials |-> Nothing,
                   summary |-> Nothing]
        /\ node = Bare /\ installer = NoInstaller /\ sourceTree \in Sources
    BY DEF InstallInit
  <1>2. InstallTypeOK /\ InstallerIs
    BY <1>1 DEF InstallTypeOK, InstallerIs, NoInstaller, Bare, In, Busy, AtWork
  <1>3. InstallerKnows
    BY <1>1 DEF InstallerKnows, NoInstaller, In, Busy, AtWork
  <1>4. MachineAgrees
    BY <1>1 DEF MachineAgrees, Agreed, Bare
  <1> QED BY <1>1, <1>2, <1>3, <1>4 DEF InstallInv, LedgerKnows, PhasesInOrder, RunsAreOver

(* A step of the installer alone.                                           *)
LEMMA InstallerMoves ==
  ASSUME InstallInv, UNCHANGED <<ledger, kept, node, orphan, sourceTree, confirmed>>,
         InstallerIs', InstallerKnows'
  PROVE  InstallInv'
  <1>1. InstallTypeOK'
    BY DEF InstallInv, InstallTypeOK, InstallerIs
  <1>2. (LedgerKnows /\ PhasesInOrder /\ RunsAreOver /\ MachineAgrees)'
    BY DEF InstallInv, LedgerKnows, PhasesInOrder, RunsAreOver, MachineAgrees, Completed,
           Established, Agreed
  <1> QED BY <1>1, <1>2 DEF InstallInv

(* Where NextPhase leaves the installer.                                    *)
LEMMA NextPhaseIs ==
  ASSUME InstallerIs, ~In("idle"), NextPhase
  PROVE  /\ InstallerIs'
         /\ installer'.cmd = installer.cmd /\ installer'.dry = installer.dry
         /\ \/ installer.at = 8 /\ installer'.at = 8 /\ installer'.pc = "finish"
            \/ installer.at < 8 /\ installer'.at = installer.at + 1 /\ installer'.pc = "phase"
  <1>1. CASE installer.at = 8
    <2>1. installer' = [installer EXCEPT !.pc = "finish"]
      BY <1>1 DEF NextPhase
    <2> QED BY <1>1, <2>1 DEF InstallerIs, In, Busy, AtWork
  <1>2. CASE installer.at # 8
    <2>1. installer' = [installer EXCEPT !.pc = "phase", !.at = @ + 1]
      BY <1>2 DEF NextPhase
    <2>2. installer.at \in 1..7 /\ installer.at + 1 \in 1..8
      BY <1>2 DEF InstallerIs
    <2>3. installer.client \in Clients
      BY DEF InstallerIs
    <2>4. /\ installer'.pc = "phase" /\ installer'.at = installer.at + 1
          /\ installer'.cmd = installer.cmd /\ installer'.dry = installer.dry
          /\ installer'.client = installer.client
      BY <2>1 DEF InstallerIs
    <2>5. InstallerIs'
      BY <2>1, <2>2, <2>3, <2>4 DEF InstallerIs, In, Busy, AtWork
    <2> QED BY <2>2, <2>4, <2>5
  <1> QED BY <1>1, <1>2

LEMMA MoveIs ==
  ASSUME InstallerIs, ~In("idle"), NEW pc \in Busy, Move(pc)
  PROVE  /\ InstallerIs'
         /\ installer'.cmd = installer.cmd /\ installer'.dry = installer.dry
         /\ installer'.client = installer.client
         /\ installer'.at = installer.at /\ installer'.pc = pc
  BY DEF InstallerIs, In, Busy, AtWork, Move

LEMMA QuitIs ==
  ASSUME Quit
  PROVE  InstallerIs' /\ InstallerKnows' /\ installer' = NoInstaller
  BY DEF Quit, NoInstaller, InstallerIs, InstallerKnows, In, Busy, AtWork

-----------------------------------------------------------------------------
(* Steps of the installer alone.                                            *)

LEMMA InvokeKeeps ==
  ASSUME InstallInv, InvokeAny
  PROVE  InstallInv'
  <1>1. PICK cmd \in {"install", "resume", "reconcile"}, dry \in BOOLEAN,
             client \in Clients : Invoke(cmd, dry, client)
    BY DEF InvokeAny
  <1>2. installer' = [pc |-> "begin", cmd |-> cmd, dry |-> dry, client |-> client, at |-> 1]
        /\ ~(cmd = "reconcile" /\ dry)
    BY <1>1 DEF Invoke
  <1>3. InstallerIs' /\ InstallerKnows'
    BY <1>2 DEF InstallerIs, InstallerKnows, In, Busy, AtWork
  <1> QED BY <1>1, <1>3, InstallerMoves DEF Invoke

LEMMA RefuseInstallKeeps ==
  ASSUME InstallInv, RefuseInstall
  PROVE  InstallInv'
  BY InstallerMoves, QuitIs DEF RefuseInstall

LEMMA SkipPhaseKeeps ==
  ASSUME InstallInv, SkipPhase
  PROVE  InstallInv'
  <1>1. InstallerIs /\ InstallerKnows /\ In("phase") /\ NextPhase /\ ledger' = ledger
    BY DEF InstallInv, SkipPhase
  <1>2. /\ installer.at \in 1..8 /\ Did(installer.at)
        /\ ledger # Nothing /\ ledger.dry = installer.dry /\ ledger.status # "complete"
        /\ \A i \in 1..8 : i < installer.at => Did(i)
    BY <1>1 DEF InstallerIs, InstallerKnows, SkipPhase, In, Busy, Did, Completed, Phase
  <1>3. /\ InstallerIs'
        /\ installer'.cmd = installer.cmd /\ installer'.dry = installer.dry
        /\ \/ installer.at = 8 /\ installer'.at = 8 /\ installer'.pc = "finish"
           \/ installer.at < 8 /\ installer'.at = installer.at + 1 /\ installer'.pc = "phase"
    BY <1>1, NextPhaseIs DEF In
  <1>4. InstallerKnows'
    BY <1>1, <1>2, <1>3 DEF InstallerKnows, In, Busy, AtWork, Did, Completed
  <1> QED BY <1>3, <1>4, InstallerMoves DEF SkipPhase

LEMMA PhaseFailsKeeps ==
  ASSUME InstallInv, PhaseFails
  PROVE  InstallInv'
  <1>1. InstallerIs /\ InstallerKnows /\ In("work") /\ Move("fail")
    BY DEF InstallInv, PhaseFails
  <1>2. /\ InstallerIs'
        /\ installer'.cmd = installer.cmd /\ installer'.dry = installer.dry
        /\ installer'.at = installer.at /\ installer'.pc = "fail"
    BY <1>1, MoveIs DEF In, Busy, AtWork
  <1>3. InstallerKnows'
    BY <1>1, <1>2 DEF PhaseFails, InstallerKnows, In, Busy, AtWork, Did, Completed
  <1> QED BY <1>2, <1>3, InstallerMoves DEF PhaseFails

LEMMA PreflightKeeps ==
  ASSUME InstallInv, Preflight
  PROVE  InstallInv'
  <1>1. InstallerIs /\ InstallerKnows /\ In("work") /\ Phase = "preflight"
    BY DEF InstallInv, Preflight, Working
  <1>2. PICK pc \in {"complete", "fail"} : Move(pc)
    BY DEF Preflight
  <1>3. /\ InstallerIs'
        /\ installer'.cmd = installer.cmd /\ installer'.dry = installer.dry
        /\ installer'.at = installer.at /\ installer'.pc = pc
    BY <1>1, <1>2, MoveIs DEF In, Busy, AtWork
  <1>4. InstallerKnows'
    BY <1>1, <1>3 DEF Preflight, InstallerKnows, In, Busy, AtWork, Did, Completed, Phase,
                      Established
  <1> QED BY <1>3, <1>4, InstallerMoves DEF Preflight

LEMMA PlanAnsibleKeeps ==
  ASSUME InstallInv, PlanAnsible
  PROVE  InstallInv'
  <1>1. InstallerIs /\ InstallerKnows /\ In("plan")
    BY DEF InstallInv, PlanAnsible
  <1>2. PICK pc \in {"complete", "fail", "apply"} :
          /\ Move(pc)
          /\ pc = "apply" => ~installer.dry /\ ledger.release # Nothing
          /\ pc = "complete" => installer.dry
    BY DEF PlanAnsible, Planned
  <1>3. /\ InstallerIs'
        /\ installer'.cmd = installer.cmd /\ installer'.dry = installer.dry
        /\ installer'.client = installer.client
        /\ installer'.at = installer.at /\ installer'.pc = pc
    BY <1>1, <1>2, MoveIs DEF In, Busy, AtWork
  <1>4. installer.at = 7 /\ ledger.dry = installer.dry
    BY <1>1 DEF InstallerKnows, In, Busy, AtWork
  <1>5. InstallerKnows'
    BY <1>1, <1>2, <1>3, <1>4, PhaseList
    DEF PlanAnsible, InstallerKnows, In, Busy, AtWork, Did, Completed, Phase, Established
  <1> QED BY <1>3, <1>5, InstallerMoves DEF PlanAnsible

-----------------------------------------------------------------------------
(* Steps that save the ledger.                                              *)

(* What is left to show of a save.                                          *)
LEMMA LedgerSaved ==
  ASSUME InstallInv, NEW new \in Ledger, Save(new), InstallerIs', InstallerKnows',
         IF ledger = Nothing THEN TRUE ELSE new.dry = ledger.dry,
         (LedgerKnows /\ PhasesInOrder /\ RunsAreOver)'
  PROVE  InstallInv'
  <1>1. /\ UNCHANGED <<kept, node, orphan, sourceTree, confirmed>>
        /\ ledger' = new /\ new # Nothing
    BY NothingIsNoRecord DEF Save
  <1>2. InstallTypeOK'
    BY <1>1 DEF InstallInv, InstallTypeOK, InstallerIs
  <1>3. MachineAgrees'
    BY <1>1 DEF InstallInv, MachineAgrees, Agreed
  <1> QED BY <1>2, <1>3 DEF InstallInv

RunRec == [kind : {"install", "reconcile"}, status : {"running", "failed", "complete"}]

(* Only the last run is marked.                                             *)
LEMMA LastRunIs ==
  ASSUME NEW l \in Ledger, Len(l.runs) >= 1, NEW s \in {"running", "failed", "complete"}
  PROVE  /\ LastRun(l, s) \in Seq(RunRec)
         /\ Len(LastRun(l, s)) = Len(l.runs)
         /\ LastRun(l, s)[Len(l.runs)].status = s
         /\ \A i \in 1..(Len(l.runs) - 1) : LastRun(l, s)[i] = l.runs[i]
  <1> DEFINE runs == l.runs
             n == Len(runs)
             e == [runs[n] EXCEPT !.status = s]
  <1>1. runs \in Seq(RunRec)
    BY DEF Ledger, RunRec
  <1>2. n \in 1..Len(runs) /\ n \in Nat
    BY <1>1
  <1>3. runs[n] \in RunRec
    BY <1>1, <1>2
  <1>4. e \in RunRec /\ e.status = s
    BY <1>3 DEF RunRec
  <1>5. LastRun(l, s) = [runs EXCEPT ![n] = e]
    BY DEF LastRun
  <1> HIDE DEF e, runs, n
  <1>6. /\ [runs EXCEPT ![n] = e] \in Seq(RunRec)
        /\ Len([runs EXCEPT ![n] = e]) = Len(runs)
        /\ \A j \in 1..Len(runs) : [runs EXCEPT ![n] = e][j] = IF j = n THEN e ELSE runs[j]
    BY <1>1, <1>2, <1>4, ExceptSeq
  <1>7. n = Len(runs)
    BY DEF n
  <1> QED BY <1>2, <1>4, <1>5, <1>6, <1>7 DEF runs

LEMMA BeginInstallKeeps ==
  ASSUME InstallInv, BeginInstall
  PROVE  InstallInv'
  <1> DEFINE new == NewLedger(installer.dry)
  <1>1. InstallerIs /\ InstallerKnows /\ In("begin") /\ Move("phase") /\ Save(new)
        /\ ledger = Nothing /\ installer.cmd = "install"
    BY DEF InstallInv, BeginInstall
  <1>2. /\ InstallerIs'
        /\ installer'.cmd = installer.cmd /\ installer'.dry = installer.dry
        /\ installer'.at = installer.at /\ installer'.pc = "phase"
    BY <1>1, MoveIs DEF In, Busy, AtWork
  <1>3. new \in Ledger
    BY <1>1 DEF NewLedger, Ledger, InstallerIs
  <1>4. /\ ledger' = new /\ ledger' # Nothing
    BY <1>1, <1>3, NothingIsNoRecord DEF Save
  <1>5. (LedgerKnows /\ PhasesInOrder /\ RunsAreOver)'
    <2>1. /\ ledger'.phases = [p \in PhaseNames |-> "pending"] /\ ledger'.status = "pending"
          /\ ledger'.runs = <<[kind |-> "install", status |-> "running"]>>
      BY <1>4 DEF NewLedger
    <2>2. LedgerKnows'
      BY <2>1 DEF LedgerKnows, Completed
    <2>3. PhasesInOrder'
      BY <2>1, PhasesDiffer DEF PhasesInOrder
    <2> QED BY <2>1, <2>2, <2>3 DEF RunsAreOver
  <1>6. installer.at = 1
    BY <1>1 DEF InstallerKnows
  <1>7. InstallerKnows'
    BY <1>1, <1>2, <1>4, <1>6 DEF NewLedger, InstallerKnows, In, Busy, AtWork
  <1> QED BY <1>1, <1>2, <1>3, <1>5, <1>7, LedgerSaved

(* A save that completes no phase keeps what the completed ones left.       *)
LEMMA KnownStays ==
  ASSUME InstallInv, ledger # Nothing, NEW new \in Ledger, Save(new),
         new.release = ledger.release, new.dry = ledger.dry,
         \A p \in PhaseNames : new.phases[p] = "completed" => Completed(p)
  PROVE  LedgerKnows'
  <1>1. UNCHANGED <<kept, node, confirmed>> /\ ledger' = new
    BY DEF Save
  <1>2. \A p \in PhaseNames : Completed(p)' => Established(p)
    BY <1>1 DEF InstallInv, LedgerKnows, Completed
  <1>3. \A p \in PhaseNames : Established(p) => Established(p)'
    BY <1>1 DEF Established
  <1> QED BY <1>2, <1>3 DEF LedgerKnows

(* One that leaves the completed ones alone keeps their order, too.         *)
LEMMA OrderStays ==
  ASSUME InstallInv, ledger # Nothing, NEW new \in Ledger, Save(new),
         new.status # "complete",
         \A p \in PhaseNames : new.phases[p] = "completed" <=> Completed(p)
  PROVE  PhasesInOrder'
  <1>1. ledger' = new
    BY DEF Save
  <1>2. \A i \in 1..8 : Did(i)' <=> Did(i)
    BY <1>1, PhasesDiffer DEF Did, Completed
  <1> QED BY <1>1, <1>2 DEF InstallInv, PhasesInOrder, Did, Completed

LEMMA BeginResumeKeeps ==
  ASSUME InstallInv, BeginResume
  PROVE  InstallInv'
  <1> DEFINE runs == LastRun(ledger, "running")
             new == [ledger EXCEPT !.status = "running", !.runs = runs]
  <1>1. /\ InstallerIs /\ InstallerKnows /\ In("begin") /\ Move("phase") /\ Save(new)
        /\ ledger # Nothing /\ ledger.dry = installer.dry
        /\ ledger \in Ledger /\ RunsAreOver /\ installer.cmd = "resume"
    BY DEF InstallInv, BeginResume, Resumes, InstallTypeOK
  <1>2. /\ InstallerIs'
        /\ installer'.cmd = installer.cmd /\ installer'.dry = installer.dry
        /\ installer'.at = installer.at /\ installer'.pc = "phase"
    BY <1>1, MoveIs DEF In, Busy, AtWork
  <1>3. /\ runs \in Seq(RunRec) /\ Len(runs) = Len(ledger.runs)
        /\ \A i \in 1..(Len(ledger.runs) - 1) : runs[i] = ledger.runs[i]
    BY <1>1, LastRunIs DEF RunsAreOver
  <1> HIDE DEF runs
  <1>4. /\ new \in Ledger /\ new.status = "running" /\ new.runs = runs
        /\ new.phases = ledger.phases /\ new.release = ledger.release /\ new.dry = ledger.dry
    BY <1>1, <1>3 DEF Ledger, RunRec
  <1> HIDE DEF new
  <1>5. ledger' = new /\ ledger' # Nothing
    BY <1>1, <1>4, NothingIsNoRecord DEF Save
  <1>6. (LedgerKnows /\ PhasesInOrder)'
    BY <1>1, <1>4, KnownStays, OrderStays DEF Completed
  <1>7. RunsAreOver'
    BY <1>1, <1>3, <1>4, <1>5 DEF RunsAreOver
  <1>8. InstallerKnows'
    BY <1>1, <1>2, <1>4, <1>5 DEF InstallerKnows, In, Busy, AtWork
  <1> QED BY <1>1, <1>2, <1>4, <1>6, <1>7, <1>8, LedgerSaved

LEMMA BeginReconcileKeeps ==
  ASSUME InstallInv, BeginReconcile
  PROVE  InstallInv'
  <1> DEFINE e == [kind |-> "reconcile", status |-> "running"]
             runs == Append(ledger.runs, e)
             phases == [p \in PhaseNames |->
                          IF p \in ResetPhases THEN "pending" ELSE ledger.phases[p]]
             new == [ledger EXCEPT !.status = "running", !.current = Nothing,
                                   !.runs = runs, !.phases = phases]
  <1>1. /\ InstallerIs /\ InstallerKnows /\ In("begin") /\ Move("phase")
        /\ ledger # Nothing /\ ~ledger.dry /\ ledger.status = "complete"
        /\ ledger \in Ledger /\ RunsAreOver /\ installer.cmd = "reconcile"
        /\ PhasesInOrder
    BY DEF InstallInv, BeginReconcile, Reconciles, InstallTypeOK
  <1>2. Save(new)
    BY <1>1 DEF BeginReconcile, Ledger
  <1>3. /\ InstallerIs'
        /\ installer'.cmd = installer.cmd /\ installer'.dry = installer.dry
        /\ installer'.at = installer.at /\ installer'.pc = "phase"
    BY <1>1, MoveIs DEF In, Busy, AtWork
  <1>4. /\ runs \in Seq(RunRec) /\ Len(runs) = Len(ledger.runs) + 1
        /\ \A i \in 1..Len(ledger.runs) : runs[i] = ledger.runs[i]
    <2>1. ledger.runs \in Seq(RunRec) /\ e \in RunRec
      BY <1>1 DEF Ledger, RunRec
    <2> QED BY <2>1, AppendProperties
  <1>5. phases \in [PhaseNames -> {"pending", "running", "completed", "failed"}]
    BY <1>1 DEF Ledger
  <1>6. \A i \in 1..Len(ledger.runs) : ledger.runs[i].status # "running"
    BY <1>1 DEF PhasesInOrder
  <1> HIDE DEF runs
  <1>7. /\ new \in Ledger /\ new.status = "running" /\ new.runs = runs
        /\ new.phases = phases /\ new.release = ledger.release /\ new.dry = ledger.dry
    BY <1>1, <1>4, <1>5 DEF Ledger, RunRec
  <1> HIDE DEF new
  <1>8. ledger' = new /\ ledger' # Nothing
    BY <1>2, <1>7, NothingIsNoRecord DEF Save
  <1>9. LedgerKnows'
    BY <1>1, <1>2, <1>7, KnownStays DEF Completed
  <1>10. PhasesInOrder'
    <2>1. \A i \in 1..8 : Did(i)' <=> i \notin {4, 7, 8} /\ Did(i)
      BY <1>7, <1>8, PhaseList DEF Did, Completed, ResetPhases
    <2>2. \A i \in 1..8 : Did(i)
      BY <1>1, PhasesDiffer DEF PhasesInOrder, Did, Completed
    <2>3. \A i, j \in 1..8 :
            i < j /\ Did(j)' /\ InstallPhases[j] \notin {"bootstrap", "secrets"} => Did(i)'
      BY <2>1, <2>2, PhaseList
    <2> QED BY <1>7, <1>8, <2>3 DEF PhasesInOrder, Did, Completed
  <1>11. RunsAreOver'
    <2>1. Len(ledger.runs) \in Nat
      BY <1>1 DEF Ledger
    <2>2. Len(runs) >= 1 /\ 1..(Len(runs) - 1) = 1..Len(ledger.runs)
      BY <1>4, <2>1
    <2>3. \A i \in 1..(Len(runs) - 1) : runs[i].status # "running"
      BY <1>4, <1>6, <2>2
    <2>4. ledger'.runs = runs
      BY <1>7, <1>8
    <2> QED BY <2>2, <2>3, <2>4 DEF RunsAreOver
  <1>12. InstallerKnows'
    <2>1. installer.dry = FALSE /\ ledger.dry = FALSE
      BY <1>1 DEF InstallerKnows, InstallerIs, Ledger
    <2>2. ~installer'.dry /\ installer'.at = 1 /\ installer'.pc = "phase"
      BY <1>1, <1>3, <2>1 DEF InstallerKnows
    <2>3. ledger'.dry = installer'.dry /\ ledger'.status = "running"
      BY <1>3, <1>7, <1>8, <2>1
    <2> QED BY <1>8, <2>2, <2>3 DEF InstallerKnows, In, Busy, AtWork
  <1> QED BY <1>1, <1>2, <1>3, <1>7, <1>9, <1>10, <1>11, <1>12, LedgerSaved

LEMMA StartPhaseKeeps ==
  ASSUME InstallInv, StartPhase
  PROVE  InstallInv'
  <1> DEFINE phases == [ledger.phases EXCEPT ![Phase] = "running"]
             new == [ledger EXCEPT !.status = "running", !.current = Phase,
                                   !.phases = phases]
  <1>1. /\ InstallerIs /\ InstallerKnows /\ In("phase") /\ Move("work")
        /\ ledger # Nothing /\ ledger.dry = installer.dry /\ ledger \in Ledger
        /\ \A i \in 1..8 : i < installer.at => Did(i)
        /\ RunsAreOver
    BY DEF InstallInv, StartPhase, InstallTypeOK, InstallerKnows, In, Busy
  <1>2. Save(new) /\ ~Completed(Phase) /\ Phase \in PhaseNames
    BY <1>1, PhasesDiffer DEF StartPhase, Ledger, Completed, Phase, InstallerIs
  <1>3. /\ InstallerIs'
        /\ installer'.cmd = installer.cmd /\ installer'.dry = installer.dry
        /\ installer'.at = installer.at /\ installer'.pc = "work"
    BY <1>1, MoveIs DEF In, Busy, AtWork
  <1>4. /\ phases \in [PhaseNames -> {"pending", "running", "completed", "failed"}]
        /\ \A p \in PhaseNames : phases[p] = "completed" <=> Completed(p)
    BY <1>1, <1>2 DEF Ledger, Completed
  <1> HIDE DEF phases
  <1>5. /\ new \in Ledger /\ new.status = "running" /\ new.runs = ledger.runs
        /\ new.phases = phases /\ new.release = ledger.release /\ new.dry = ledger.dry
    BY <1>1, <1>2, <1>4 DEF Ledger
  <1> HIDE DEF new
  <1>6. ledger' = new /\ ledger' # Nothing
    BY <1>2, <1>5, NothingIsNoRecord DEF Save
  <1>7. (LedgerKnows /\ PhasesInOrder)'
    BY <1>1, <1>2, <1>4, <1>5, KnownStays, OrderStays
  <1>8. RunsAreOver'
    BY <1>1, <1>5, <1>6 DEF RunsAreOver
  <1>9. \A i \in 1..8 : Did(i)' <=> Did(i)
    BY <1>4, <1>5, <1>6, PhasesDiffer DEF Did, Completed
  <1>10. ~Did(installer.at)
    BY <1>2 DEF Did, Phase
  <1>11. InstallerKnows'
    BY <1>1, <1>3, <1>5, <1>6, <1>9, <1>10 DEF InstallerKnows, In, Busy, AtWork, InstallerIs
  <1> QED BY <1>1, <1>2, <1>3, <1>5, <1>7, <1>8, <1>11, LedgerSaved

LEMMA CompletePhaseKeeps ==
  ASSUME InstallInv, CompletePhase
  PROVE  InstallInv'
  <1> DEFINE phases == [ledger.phases EXCEPT ![Phase] = "completed"]
             new == [ledger EXCEPT !.current = Nothing, !.phases = phases]
             at == installer.at
  <1>1. /\ InstallerIs /\ InstallerKnows /\ In("complete") /\ NextPhase
        /\ ledger # Nothing /\ ledger.dry = installer.dry /\ ledger.status # "complete"
        /\ ledger \in Ledger /\ RunsAreOver /\ PhasesInOrder /\ LedgerKnows
        /\ \A i \in 1..8 : i < at => Did(i)
        /\ Established(Phase) /\ at \in 1..8
    BY DEF InstallInv, CompletePhase, InstallTypeOK, InstallerKnows, InstallerIs, In, Busy,
           AtWork
  <1>2. Save(new) /\ Phase \in PhaseNames
    BY <1>1, PhasesDiffer DEF CompletePhase, Ledger, Phase
  <1>3. /\ InstallerIs'
        /\ installer'.cmd = installer.cmd /\ installer'.dry = installer.dry
        /\ \/ at = 8 /\ installer'.at = 8 /\ installer'.pc = "finish"
           \/ at < 8 /\ installer'.at = at + 1 /\ installer'.pc = "phase"
    BY <1>1, NextPhaseIs DEF In
  <1>4. /\ phases \in [PhaseNames -> {"pending", "running", "completed", "failed"}]
        /\ \A p \in PhaseNames : phases[p] = "completed" <=> Completed(p) \/ p = Phase
    BY <1>1, <1>2 DEF Ledger, Completed
  <1> HIDE DEF phases
  <1>5. /\ new \in Ledger /\ new.status = ledger.status /\ new.runs = ledger.runs
        /\ new.phases = phases /\ new.release = ledger.release /\ new.dry = ledger.dry
    BY <1>1, <1>2, <1>4 DEF Ledger
  <1> HIDE DEF new
  <1>6. /\ ledger' = new /\ ledger' # Nothing
        /\ UNCHANGED <<kept, node, confirmed>>
    BY <1>2, <1>5, NothingIsNoRecord DEF Save
  <1>7. LedgerKnows'
    <2>1. \A p \in PhaseNames : Completed(p)' => Established(p)
      BY <1>1, <1>4, <1>5, <1>6 DEF LedgerKnows, Completed
    <2>2. \A p \in PhaseNames : Established(p) => Established(p)'
      BY <1>5, <1>6 DEF Established
    <2> QED BY <2>1, <2>2 DEF LedgerKnows
  <1>8. \A i \in 1..8 : Did(i)' <=> Did(i) \/ i = at
    BY <1>1, <1>4, <1>5, <1>6, PhasesDiffer DEF Did, Completed, Phase
  <1>9. PhasesInOrder'
    <2>1. \A i, j \in 1..8 :
            i < j /\ Did(j) /\ InstallPhases[j] \notin {"bootstrap", "secrets"} => Did(i)
      BY <1>1 DEF PhasesInOrder, Did, Completed
    <2>2. \A i, j \in 1..8 :
            i < j /\ Did(j)' /\ InstallPhases[j] \notin {"bootstrap", "secrets"} => Did(i)'
      BY <1>1, <1>8, <2>1
    <2>3. ledger'.status # "complete"
      BY <1>1, <1>5, <1>6
    <2> QED BY <2>2, <2>3 DEF PhasesInOrder, Did, Completed
  <1>10. RunsAreOver'
    BY <1>1, <1>5, <1>6 DEF RunsAreOver
  <1>11. InstallerKnows'
    BY <1>1, <1>3, <1>5, <1>6, <1>8 DEF InstallerKnows, In, Busy, AtWork
  <1> QED BY <1>1, <1>2, <1>3, <1>5, <1>7, <1>9, <1>10, <1>11, LedgerSaved

LEMMA FailPhaseKeeps ==
  ASSUME InstallInv, FailPhase
  PROVE  InstallInv'
  <1> DEFINE phases == [ledger.phases EXCEPT ![Phase] = "failed"]
             runs == LastRun(ledger, "failed")
             new == [ledger EXCEPT !.status = "failed", !.current = Phase,
                                   !.phases = phases, !.runs = runs]
  <1>1. /\ InstallerIs /\ InstallerKnows /\ In("fail") /\ Quit
        /\ ledger # Nothing /\ ledger \in Ledger /\ RunsAreOver /\ ~Did(installer.at)
    BY DEF InstallInv, FailPhase, InstallTypeOK, InstallerKnows, In, Busy, AtWork
  <1>2. Save(new) /\ ~Completed(Phase) /\ Phase \in PhaseNames
    BY <1>1, PhasesDiffer DEF FailPhase, Ledger, Did, Phase, InstallerIs
  <1>3. InstallerIs' /\ InstallerKnows'
    BY <1>1, QuitIs
  <1>4. /\ phases \in [PhaseNames -> {"pending", "running", "completed", "failed"}]
        /\ \A p \in PhaseNames : phases[p] = "completed" <=> Completed(p)
    BY <1>1, <1>2 DEF Ledger, Completed
  <1>5. /\ runs \in Seq(RunRec) /\ Len(runs) = Len(ledger.runs)
        /\ \A i \in 1..(Len(ledger.runs) - 1) : runs[i] = ledger.runs[i]
    BY <1>1, LastRunIs DEF RunsAreOver
  <1> HIDE DEF phases, runs
  <1>6. /\ new \in Ledger /\ new.status = "failed" /\ new.runs = runs
        /\ new.phases = phases /\ new.release = ledger.release /\ new.dry = ledger.dry
    BY <1>1, <1>2, <1>4, <1>5 DEF Ledger, RunRec
  <1> HIDE DEF new
  <1>7. ledger' = new
    BY <1>2 DEF Save
  <1>8. (LedgerKnows /\ PhasesInOrder)'
    BY <1>1, <1>2, <1>4, <1>6, KnownStays, OrderStays
  <1>9. RunsAreOver'
    BY <1>1, <1>5, <1>6, <1>7 DEF RunsAreOver
  <1> QED BY <1>2, <1>3, <1>6, <1>8, <1>9, LedgerSaved

LEMMA FinishKeeps ==
  ASSUME InstallInv, Finish
  PROVE  InstallInv'
  <1> DEFINE runs == LastRun(ledger, "complete")
             new == [ledger EXCEPT !.status = "complete", !.current = Nothing,
                                   !.runs = runs]
  <1>1. /\ InstallerIs /\ InstallerKnows /\ In("finish") /\ Quit
        /\ ledger # Nothing /\ ledger \in Ledger /\ RunsAreOver
        /\ \A i \in 1..8 : Did(i)
    BY DEF InstallInv, Finish, InstallTypeOK, InstallerKnows, In, Busy
  <1>2. Save(new)
    BY DEF Finish
  <1>3. InstallerIs' /\ InstallerKnows'
    BY <1>1, QuitIs
  <1>4. /\ runs \in Seq(RunRec) /\ Len(runs) = Len(ledger.runs)
        /\ runs[Len(ledger.runs)].status = "complete"
        /\ \A i \in 1..(Len(ledger.runs) - 1) : runs[i] = ledger.runs[i]
    BY <1>1, LastRunIs DEF RunsAreOver
  <1> HIDE DEF runs
  <1>5. /\ new \in Ledger /\ new.status = "complete" /\ new.runs = runs
        /\ new.phases = ledger.phases /\ new.release = ledger.release
        /\ new.dry = ledger.dry
    BY <1>1, <1>4 DEF Ledger, RunRec
  <1> HIDE DEF new
  <1>6. ledger' = new
    BY <1>2 DEF Save
  <1>7. LedgerKnows'
    BY <1>1, <1>2, <1>5, KnownStays DEF Completed
  <1>8. \A p \in PhaseNames : ledger.phases[p] = "completed"
    BY <1>1 DEF PhaseNames, Did, Completed
  <1>9. \A i \in 1..Len(runs) : runs[i].status # "running"
    <2>1. Len(ledger.runs) \in Nat
      BY <1>1 DEF Ledger
    <2>2. \A i \in 1..Len(runs) : i = Len(ledger.runs) \/ i \in 1..(Len(ledger.runs) - 1)
      BY <1>4, <2>1
    <2> QED BY <1>1, <1>4, <2>2 DEF RunsAreOver
  <1>10. PhasesInOrder'
    BY <1>5, <1>6, <1>8, <1>9, PhasesDiffer DEF PhasesInOrder
  <1>11. RunsAreOver'
    BY <1>1, <1>4, <1>5, <1>6 DEF RunsAreOver
  <1> QED BY <1>2, <1>3, <1>5, <1>7, <1>10, <1>11, LedgerSaved

LEMMA RecordReleaseKeeps ==
  ASSUME InstallInv, RecordRelease
  PROVE  InstallInv'
  <1> DEFINE new == [ledger EXCEPT !.release = sourceTree]
  <1>1. /\ InstallerIs /\ InstallerKnows /\ In("work") /\ Phase = "release"
        /\ Move("complete") /\ Save(new)
        /\ ledger # Nothing /\ ledger \in Ledger /\ sourceTree \in Sources
        /\ RunsAreOver /\ PhasesInOrder /\ LedgerKnows
    BY DEF InstallInv, RecordRelease, Working, InstallTypeOK, InstallerKnows, In, Busy, AtWork
  <1>2. /\ InstallerIs'
        /\ installer'.cmd = installer.cmd /\ installer'.dry = installer.dry
        /\ installer'.at = installer.at /\ installer'.pc = "complete"
    BY <1>1, MoveIs DEF In, Busy, AtWork
  <1>3. /\ new \in Ledger /\ new.status = ledger.status /\ new.runs = ledger.runs
        /\ new.phases = ledger.phases /\ new.release = sourceTree
        /\ new.dry = ledger.dry
    BY <1>1 DEF Ledger
  <1> HIDE DEF new
  <1>4. /\ ledger' = new /\ ledger' # Nothing /\ sourceTree # Nothing
        /\ UNCHANGED <<kept, node, confirmed>>
    BY <1>1, <1>3, NothingIsNoRecord, InstallerConstants DEF Save
  <1>5. ~Did(4) /\ ~Did(7) /\ ~Did(8)
    <2>1. installer.at = 4
      BY <1>1, PhaseList DEF Phase, InstallerIs
    <2>2. ~Did(4)
      BY <1>1, <2>1 DEF InstallerKnows, In, AtWork
    <2> QED BY <1>1, <2>2, PhaseList DEF PhasesInOrder, Did, Completed
  <1>6. LedgerKnows'
    <2>1. \A p \in PhaseNames :
            Completed(p)' => Established(p) /\ p \notin {"release", "ansible", "summary"}
      BY <1>1, <1>3, <1>4, <1>5, PhaseList DEF LedgerKnows, Completed, Did
    <2>2. \A p \in PhaseNames \ {"release", "ansible", "summary"} :
            Established(p) => Established(p)'
      BY <1>4 DEF Established
    <2> QED BY <2>1, <2>2 DEF LedgerKnows
  <1>7. PhasesInOrder' /\ RunsAreOver'
    BY <1>1, <1>3, <1>4 DEF PhasesInOrder, RunsAreOver
  <1>8. InstallerKnows'
    <2>1. Established(Phase)'
      BY <1>1, <1>2, <1>3, <1>4 DEF Established, Phase
    <2>2. \A i \in 1..8 : Did(i)' <=> Did(i)
      BY <1>3, <1>4 DEF Did, Completed
    <2> QED BY <1>1, <1>2, <1>3, <1>4, <2>1, <2>2
        DEF InstallerKnows, In, Busy, AtWork, InstallerIs
  <1> QED BY <1>1, <1>2, <1>3, <1>6, <1>7, <1>8, LedgerSaved

-----------------------------------------------------------------------------
(* Steps that change what is kept, with the ledger as it is.                *)

(* Answers, secrets and confirmation, once there, keep what they say.       *)
LEMMA KeptGrows ==
  ASSUME InstallInv, InstallTypeOK', InstallerIs', InstallerKnows',
         UNCHANGED <<ledger, node, orphan>>,
         kept.answers # Nothing =>
           kept'.answers # Nothing /\ kept'.answers.settings = kept.answers.settings,
         kept.secrets # Nothing => kept'.secrets = kept.secrets,
         kept'.credentials \in {kept.credentials, kept'.secrets},
         confirmed # Nothing => confirmed' = confirmed,
         confirmed' # Nothing =>
           kept'.answers # Nothing /\ confirmed' = kept'.answers.settings,
         kept'.summary = kept.summary \/ ~(ledger # Nothing /\ Completed("summary"))
  PROVE  InstallInv'
  <1>1. (PhasesInOrder /\ RunsAreOver)'
    BY DEF InstallInv, PhasesInOrder, RunsAreOver
  <1>2. LedgerKnows'
    <2> SUFFICES ASSUME ledger # Nothing, NEW p \in PhaseNames, Completed(p)
                 PROVE  Established(p)'
      BY DEF LedgerKnows, Completed
    <2>1. Established(p)
      BY DEF InstallInv, LedgerKnows
    <2>2. p = "summary" => kept'.summary = kept.summary
      OBVIOUS
    <2> QED BY <2>1, <2>2 DEF Established
  <1>3. kept'.credentials # Nothing => kept'.credentials = kept'.secrets
    BY DEF InstallInv, MachineAgrees
  <1>4. MachineAgrees'
    BY <1>3 DEF InstallInv, MachineAgrees, Agreed
  <1> QED BY <1>1, <1>2, <1>4 DEF InstallInv

(* A phase that did its work.                                               *)
LEMMA WorkDone ==
  ASSUME InstallInv, In("work") \/ In("summary"), Move("complete"), UNCHANGED ledger,
         Established(Phase)'
  PROVE  InstallerIs' /\ InstallerKnows'
  <1>1. InstallerIs /\ InstallerKnows
    BY DEF InstallInv
  <1>2. /\ InstallerIs'
        /\ installer'.cmd = installer.cmd /\ installer'.dry = installer.dry
        /\ installer'.at = installer.at /\ installer'.pc = "complete"
    BY <1>1, MoveIs DEF In, Busy, AtWork
  <1>3. InstallerKnows'
    BY <1>1, <1>2 DEF InstallerKnows, In, Busy, AtWork, Did, Completed, InstallerIs
  <1> QED BY <1>2, <1>3

LEMMA WorkFailed ==
  ASSUME InstallInv, installer.pc \in AtWork, Move("fail"), UNCHANGED ledger
  PROVE  InstallerIs' /\ InstallerKnows'
  <1>1. InstallerIs /\ InstallerKnows
    BY DEF InstallInv
  <1>2. /\ InstallerIs'
        /\ installer'.cmd = installer.cmd /\ installer'.dry = installer.dry
        /\ installer'.at = installer.at /\ installer'.pc = "fail"
    BY <1>1, MoveIs DEF In, Busy, AtWork
  <1>3. InstallerKnows'
    BY <1>1, <1>2 DEF InstallerKnows, In, Busy, AtWork, Did, Completed, InstallerIs
  <1> QED BY <1>2, <1>3

LEMMA AskAnswersKeeps ==
  ASSUME InstallInv, AskAnswers
  PROVE  InstallInv'
  <1>1. /\ InstallerIs /\ InstallTypeOK /\ MachineAgrees /\ In("work")
        /\ Phase = "answers" /\ Move("complete")
        /\ UNCHANGED <<ledger, node, orphan, sourceTree, confirmed>>
    BY DEF InstallInv, AskAnswers, Working
  <1>2. installer.client \in Clients
    BY <1>1 DEF InstallerIs, In
  <1>3. /\ kept' = [kept EXCEPT !.answers = kept'.answers]
        /\ kept'.answers \in Answers
        /\ kept.answers # Nothing => kept' = kept
    <2>1. CASE kept.answers = Nothing
      <3>1. PICK s \in Settings :
              kept' = [kept EXCEPT !.answers = [settings |-> s, cidrs |-> {installer.client}]]
        BY <2>1 DEF AskAnswers
      <3> QED BY <1>1, <1>2, <2>1, <3>1 DEF InstallTypeOK, Answers
    <2>2. CASE kept.answers # Nothing
      <3>1. kept' = kept
        BY <2>2 DEF AskAnswers
      <3> QED BY <1>1, <2>2, <3>1 DEF InstallTypeOK
    <2> QED BY <2>1, <2>2
  <1>4. kept'.answers # Nothing
    BY <1>3, NothingIsNoRecord
  <1>5. /\ kept'.secrets = kept.secrets /\ kept'.credentials = kept.credentials
        /\ kept'.summary = kept.summary
    BY <1>1, <1>3 DEF InstallTypeOK
  <1>6. Phase' = "answers"
    BY <1>1, MoveIs DEF Phase, In, Busy, AtWork
  <1>7. InstallerIs' /\ InstallerKnows'
    BY <1>1, <1>4, <1>6, WorkDone DEF Established
  <1>8. InstallTypeOK'
    BY <1>1, <1>3, <1>7 DEF InstallTypeOK, InstallerIs
  <1> QED BY <1>1, <1>3, <1>4, <1>5, <1>7, <1>8, KeptGrows DEF MachineAgrees

LEMMA SecretsKeeps ==
  ASSUME InstallInv, Secrets
  PROVE  InstallInv'
  <1>1. /\ InstallerIs /\ InstallTypeOK /\ MachineAgrees /\ In("work")
        /\ Phase = "secrets" /\ Move("complete")
        /\ UNCHANGED <<ledger, node, orphan, sourceTree, confirmed>>
    BY DEF InstallInv, Secrets, Working
  <1>2. PICK s \in Passwords : kept' = [kept EXCEPT !.secrets = s] /\
                               (kept.secrets # Nothing => s = kept.secrets)
    <2>1. CASE kept.secrets = Nothing
      BY <2>1 DEF Secrets
    <2>2. CASE kept.secrets # Nothing
      <3>1. kept' = kept /\ kept.secrets \in Passwords
        BY <1>1, <2>2 DEF Secrets, InstallTypeOK
      <3>2. kept = [kept EXCEPT !.secrets = kept.secrets]
        BY <1>1 DEF InstallTypeOK
      <3> QED BY <3>1, <3>2
    <2> QED BY <2>1, <2>2
  <1>3. /\ kept'.secrets = s /\ s # Nothing /\ kept'.credentials = kept.credentials
        /\ kept'.summary = kept.summary /\ kept'.answers = kept.answers
    BY <1>1, <1>2, InstallerConstants DEF InstallTypeOK
  <1>4. Phase' = "secrets"
    BY <1>1, MoveIs DEF Phase, In, Busy, AtWork
  <1>5. InstallerIs' /\ InstallerKnows'
    BY <1>1, <1>3, <1>4, WorkDone DEF Established
  <1>6. InstallTypeOK'
    BY <1>1, <1>2, <1>5 DEF InstallTypeOK, InstallerIs
  <1> QED BY <1>1, <1>2, <1>3, <1>5, <1>6, KeptGrows DEF MachineAgrees

(* The settings on file are the confirmed ones whenever the confirmation is *)
(* asked for again.                                                         *)
LEMMA ConfirmKeeps ==
  ASSUME InstallInv, Confirm
  PROVE  InstallInv'
  <1>1. /\ InstallerIs /\ InstallerKnows /\ InstallTypeOK /\ MachineAgrees /\ In("work")
        /\ LedgerKnows /\ Phase = "confirmation"
        /\ UNCHANGED <<ledger, kept, node, orphan, sourceTree>>
    BY DEF InstallInv, Confirm, Working
  <1>2. ledger # Nothing /\ kept.answers # Nothing
    <2>1. installer.at = 3 /\ ledger # Nothing
      BY <1>1, PhaseList DEF Phase, InstallerIs, InstallerKnows, In, Busy, AtWork
    <2>2. Completed("answers")
      BY <1>1, <2>1, PhaseList DEF InstallerKnows, In, Busy, AtWork, Did
    <2> QED BY <1>1, <2>1, <2>2, PhaseList DEF LedgerKnows, Established
  <1>3. kept.answers.settings \in Settings /\ kept.answers.settings # Nothing
    BY <1>1, <1>2, InstallerConstants DEF InstallTypeOK, Answers
  <1>4. CASE ValidAnswers
    <2>1. Move("complete") /\ confirmed' = kept.answers.settings
      BY <1>4 DEF Confirm
    <2>2. Phase' = "confirmation"
      BY <1>1, <2>1, MoveIs DEF Phase, In, Busy, AtWork
    <2>3. InstallerIs' /\ InstallerKnows'
      BY <1>1, <1>3, <2>1, <2>2, WorkDone DEF Established
    <2>4. InstallTypeOK'
      BY <1>1, <1>3, <2>1, <2>3 DEF InstallTypeOK, InstallerIs
    <2> QED BY <1>1, <1>2, <2>1, <2>3, <2>4, KeptGrows DEF MachineAgrees
  <1>5. CASE ~ValidAnswers
    <2>1. Move("fail") /\ confirmed' = confirmed
      BY <1>5 DEF Confirm
    <2>2. InstallerIs' /\ InstallerKnows'
      BY <1>1, <2>1, WorkFailed DEF In, AtWork
    <2> QED BY <1>1, <2>1, <2>2, InstallerMoves
  <1> QED BY <1>4, <1>5

LEMMA WriteAnswersKeeps ==
  ASSUME InstallInv, WriteAnswers
  PROVE  InstallInv'
  <1>1. /\ InstallerIs /\ InstallerKnows /\ InstallTypeOK /\ MachineAgrees /\ In("work")
        /\ LedgerKnows /\ Phase = "ansible"
        /\ UNCHANGED <<ledger, node, orphan, sourceTree, confirmed>>
    BY DEF InstallInv, WriteAnswers, Working
  <1>2. installer.at = 7 /\ ledger # Nothing
    BY <1>1, PhaseList DEF Phase, InstallerIs, InstallerKnows, In, Busy, AtWork
  <1>3. kept.answers # Nothing /\ kept.answers \in Answers /\ installer.client \in Clients
    <2>1. Completed("answers")
      BY <1>1, <1>2, PhaseList DEF InstallerKnows, In, Busy, AtWork, Did
    <2> QED BY <1>1, <1>2, <2>1, PhaseList
        DEF LedgerKnows, Established, InstallTypeOK, InstallerIs, In
  <1>4. CASE ValidAnswers
    <2> DEFINE a == WithSession(kept.answers)
    <2>1. /\ a \in Answers /\ a.settings = kept.answers.settings
          /\ installer.client \in a.cidrs
      BY <1>3 DEF WithSession, Answers
    <2>2. Move("plan") /\ kept' = [kept EXCEPT !.answers = a]
      BY <1>4 DEF WriteAnswers, AnsibleAnswers
    <2> HIDE DEF a
    <2>3. /\ kept'.answers = a /\ a # Nothing /\ kept'.credentials = kept.credentials
          /\ kept'.summary = kept.summary /\ kept'.secrets = kept.secrets
      BY <1>1, <2>1, <2>2, NothingIsNoRecord DEF InstallTypeOK
    <2>4. /\ InstallerIs'
          /\ installer'.cmd = installer.cmd /\ installer'.dry = installer.dry
          /\ installer'.client = installer.client
          /\ installer'.at = installer.at /\ installer'.pc = "plan"
      BY <1>1, <2>2, MoveIs DEF In, Busy, AtWork
    <2>5. InstallerKnows'
      BY <1>1, <1>2, <2>1, <2>3, <2>4
      DEF InstallerKnows, In, Busy, AtWork, Did, Completed
    <2>6. InstallTypeOK'
      BY <1>1, <2>1, <2>2, <2>4 DEF InstallTypeOK, InstallerIs
    <2> QED BY <1>1, <2>1, <2>3, <2>4, <2>5, <2>6, KeptGrows DEF MachineAgrees
  <1>5. CASE ~ValidAnswers
    <2>1. Move("fail") /\ kept' = kept
      BY <1>5 DEF WriteAnswers
    <2>2. InstallerIs' /\ InstallerKnows'
      BY <1>1, <2>1, WorkFailed DEF In, AtWork
    <2> QED BY <1>1, <2>1, <2>2, InstallerMoves
  <1> QED BY <1>4, <1>5

LEMMA WriteCredentialsKeeps ==
  ASSUME InstallInv, WriteCredentials
  PROVE  InstallInv'
  <1>1. /\ InstallerIs /\ InstallerKnows /\ InstallTypeOK /\ MachineAgrees /\ In("work")
        /\ Phase = "summary" /\ Move("summary")
        /\ kept' = [kept EXCEPT !.credentials = kept.secrets]
        /\ UNCHANGED <<ledger, node, orphan, sourceTree, confirmed>>
    BY DEF InstallInv, WriteCredentials, Working
  <1>2. /\ InstallerIs'
        /\ installer'.cmd = installer.cmd /\ installer'.dry = installer.dry
        /\ installer'.client = installer.client
        /\ installer'.at = installer.at /\ installer'.pc = "summary"
    BY <1>1, MoveIs DEF In, Busy, AtWork
  <1>3. installer.at = 8
    BY <1>1, PhaseList DEF Phase, InstallerIs
  <1>4. InstallerKnows'
    BY <1>1, <1>2, <1>3 DEF InstallerKnows, In, Busy, AtWork, Did, Completed
  <1>5. /\ kept'.secrets = kept.secrets /\ kept'.credentials = kept.secrets
        /\ kept'.summary = kept.summary /\ kept'.answers = kept.answers
    BY <1>1 DEF InstallTypeOK
  <1>6. InstallTypeOK'
    BY <1>1, <1>2 DEF InstallTypeOK, InstallerIs
  <1> QED BY <1>1, <1>2, <1>4, <1>5, <1>6, KeptGrows DEF MachineAgrees

LEMMA WriteSummaryKeeps ==
  ASSUME InstallInv, WriteSummary
  PROVE  InstallInv'
  <1>1. /\ InstallerIs /\ InstallerKnows /\ InstallTypeOK /\ MachineAgrees /\ In("summary")
        /\ Move("complete") /\ kept' = [kept EXCEPT !.summary = ledger.release]
        /\ UNCHANGED <<ledger, node, orphan, sourceTree, confirmed>>
    BY DEF InstallInv, WriteSummary
  <1>2. /\ installer.at = 8 /\ ledger # Nothing /\ ledger \in Ledger /\ ~Did(8)
    BY <1>1 DEF InstallerKnows, In, Busy, AtWork, InstallTypeOK
  <1>3. /\ kept'.secrets = kept.secrets /\ kept'.credentials = kept.credentials
        /\ kept'.summary = ledger.release /\ kept'.answers = kept.answers
    BY <1>1 DEF InstallTypeOK
  <1>4. ledger.release \in Sources \cup {Nothing} /\ ~Completed("summary")
    BY <1>2, PhaseList DEF Ledger, Did
  <1>5. Phase' = "summary"
    BY <1>1, <1>2, MoveIs, PhaseList DEF Phase, In, Busy, AtWork
  <1>6. InstallerIs' /\ InstallerKnows'
    BY <1>1, <1>3, <1>5, WorkDone DEF Established
  <1>7. InstallTypeOK'
    <2>1. ledger.release \in Sources \cup {Nothing}
      BY <1>4
    <2> QED BY <1>1, <1>6, <2>1 DEF InstallTypeOK, InstallerIs
  <1> QED BY <1>1, <1>3, <1>4, <1>6, <1>7, KeptGrows DEF MachineAgrees

-----------------------------------------------------------------------------
(* Steps that change the machine, or what runs on it.                       *)

(* What is left to show of such a step.                                     *)
LEMMA MachineChanges ==
  ASSUME InstallInv, UNCHANGED <<ledger, kept, confirmed>>, sourceTree' \in Sources,
         InstallerIs', InstallerKnows',
         node' \in [packages : BOOLEAN, applied : Applied \cup {Nothing},
                    session : Clients \cup {Nothing}],
         orphan' \in Applied \cup {Nothing},
         node'.packages => confirmed # Nothing,
         Agreed(node'.applied), Agreed(orphan'),
         node'.session # Nothing =>
           node'.applied # Nothing /\ node'.session \in node'.applied.cidrs,
         ledger = Nothing \/ ledger.dry => node' = Bare /\ orphan' = Nothing,
         IF ledger # Nothing /\ Completed("ansible") /\ ~ledger.dry
           THEN /\ node'.applied # Nothing
                /\ node'.session # Nothing => node'.applied.release = ledger.release
           ELSE TRUE
  PROVE  InstallInv'
  <1>1. InstallTypeOK'
    BY DEF InstallInv, InstallTypeOK, InstallerIs
  <1>2. (PhasesInOrder /\ RunsAreOver)'
    BY DEF InstallInv, PhasesInOrder, RunsAreOver
  <1>3. LedgerKnows'
    <2> SUFFICES ASSUME ledger # Nothing, NEW p \in PhaseNames, Completed(p)
                 PROVE  Established(p)'
      BY DEF LedgerKnows, Completed
    <2>1. Established(p)
      BY DEF InstallInv, LedgerKnows
    <2> QED BY <2>1 DEF Established
  <1>4. MachineAgrees'
    BY DEF InstallInv, MachineAgrees, Agreed
  <1> QED BY <1>1, <1>2, <1>3, <1>4 DEF InstallInv

(* The address a playbook admits, and who agreed to it.                     *)
LEMMA PlaybookIs ==
  ASSUME InstallInv, In("apply")
  PROVE  /\ Playbook \in Applied /\ Playbook # Nothing /\ Agreed(Playbook)
         /\ Playbook.release = ledger.release
         /\ installer.client \in Clients /\ installer.client \in Playbook.cidrs
         /\ installer.client # Nothing
         /\ ledger # Nothing /\ ~ledger.dry /\ installer.at = 7
         /\ ~Completed("ansible") /\ confirmed # Nothing
  <1>1. /\ InstallTypeOK /\ InstallerIs /\ InstallerKnows /\ LedgerKnows /\ MachineAgrees
    BY DEF InstallInv
  <1>2. /\ installer.at = 7 /\ installer.client \in kept.answers.cidrs
        /\ ~installer.dry /\ ledger.release # Nothing /\ ledger # Nothing
        /\ ledger.dry = installer.dry /\ ~Did(7)
        /\ Did(2) /\ Did(3) /\ Did(6)
    BY <1>1 DEF InstallerKnows, In, Busy, AtWork
  <1>3. /\ Completed("answers") /\ Completed("confirmation") /\ Completed("secrets")
        /\ ~Completed("ansible")
    BY <1>2, PhaseList DEF Did
  <1>4. kept.answers # Nothing /\ confirmed # Nothing /\ kept.secrets # Nothing
    BY <1>1, <1>2, <1>3, PhaseList DEF LedgerKnows, Established
  <1>5. /\ kept.answers \in Answers /\ kept.secrets \in Passwords /\ ledger \in Ledger
    BY <1>1, <1>2, <1>4 DEF InstallTypeOK
  <1>6. ledger.release \in Sources
    BY <1>2, <1>5 DEF Ledger
  <1>7. kept.answers.settings \in Settings /\ kept.answers.cidrs \in SUBSET Clients
    BY <1>5 DEF Answers
  <1>8. /\ Playbook \in Applied /\ Playbook.settings = kept.answers.settings
        /\ Playbook.password = kept.secrets /\ Playbook.release = ledger.release
        /\ Playbook.cidrs = kept.answers.cidrs
    BY <1>5, <1>6, <1>7 DEF Playbook, Applied
  <1>9. confirmed = kept.answers.settings
    BY <1>1, <1>4 DEF MachineAgrees
  <1>10. installer.client \in Clients /\ installer.client # Nothing
    BY <1>1, InstallerConstants DEF InstallerIs, In
  <1>11. Playbook # Nothing
    BY <1>8, NothingIsNoRecord
  <1>12. Agreed(Playbook)
    BY <1>4, <1>8, <1>9 DEF Agreed
  <1> QED BY <1>2, <1>3, <1>4, <1>8, <1>10, <1>11, <1>12

LEMMA BootstrapKeeps ==
  ASSUME InstallInv, Bootstrap \/ BootstrapFails
  PROVE  InstallInv'
  <1>1. /\ InstallTypeOK /\ InstallerIs /\ InstallerKnows /\ LedgerKnows /\ MachineAgrees
        /\ In("work") /\ Phase = "bootstrap"
        /\ UNCHANGED <<ledger, kept, orphan, sourceTree, confirmed>>
    BY DEF InstallInv, Bootstrap, BootstrapFails, Working
  <1>2. PICK packages \in BOOLEAN :
          /\ node' = [node EXCEPT !.packages = packages]
          /\ packages => node.packages \/ ~installer.dry
          /\ installer.dry => packages = node.packages
    <2>1. CASE Bootstrap
      <3> DEFINE packages == node.packages \/ (ValidAnswers /\ ~installer.dry)
      <3>1. packages \in BOOLEAN
        BY <1>1 DEF ValidAnswers, InstallTypeOK
      <3>2. node' = [node EXCEPT !.packages = packages]
        BY <2>1 DEF Bootstrap
      <3>3. packages => node.packages \/ ~installer.dry
        OBVIOUS
      <3>4. installer.dry => packages = node.packages
        BY <1>1, Zenon DEF InstallTypeOK
      <3> HIDE DEF packages
      <3> QED BY <3>1, <3>2, <3>3, <3>4
    <2>2. CASE BootstrapFails
      BY <2>2 DEF BootstrapFails
    <2> QED BY <2>1, <2>2
  <1>3. PICK pc \in {"complete", "fail"} : Move(pc)
    BY DEF Bootstrap, BootstrapFails
  <1>4. /\ InstallerIs'
        /\ installer'.cmd = installer.cmd /\ installer'.dry = installer.dry
        /\ installer'.at = installer.at /\ installer'.pc = pc
    BY <1>1, <1>3, MoveIs DEF In, Busy, AtWork
  <1>5. installer.at = 5 /\ ledger # Nothing /\ ledger.dry = installer.dry /\ Did(3)
    BY <1>1, PhaseList DEF Phase, InstallerIs, InstallerKnows, In, Busy, AtWork
  <1>6. InstallerKnows'
    BY <1>1, <1>4, <1>5, PhaseList DEF InstallerKnows, In, Busy, AtWork, Did, Completed,
       Phase, Established
  <1>7. confirmed # Nothing
    BY <1>1, <1>5, PhaseList DEF LedgerKnows, Did, Established
  <1>8. node'.applied = node.applied /\ node'.session = node.session
    BY <1>1, <1>2 DEF InstallTypeOK
  <1>9. node' \in [packages : BOOLEAN, applied : Applied \cup {Nothing},
                   session : Clients \cup {Nothing}]
    BY <1>1, <1>2 DEF InstallTypeOK
  <1>10. ledger.dry => node' = Bare /\ orphan' = Nothing
    <2>1. installer.dry => node' = node
      BY <1>1, <1>2 DEF InstallTypeOK
    <2> QED BY <1>1, <1>5, <2>1 DEF MachineAgrees
  <1>11. Completed("ansible") /\ ~ledger.dry =>
           /\ node'.applied # Nothing
           /\ node'.session # Nothing => node'.applied.release = ledger.release
    BY <1>1, <1>5, <1>8, PhaseList DEF LedgerKnows, Established
  <1>12. /\ Agreed(node'.applied) /\ Agreed(orphan')
         /\ node'.session # Nothing =>
              node'.applied # Nothing /\ node'.session \in node'.applied.cidrs
    BY <1>1, <1>8 DEF MachineAgrees
  <1>13. sourceTree' \in Sources /\ orphan' \in Applied \cup {Nothing}
    BY <1>1 DEF InstallTypeOK
  <1> QED BY <1>1, <1>4, <1>5, <1>6, <1>7, <1>9, <1>10, <1>11, <1>12, <1>13,
             MachineChanges

(* Ansible, at its end or before it, applied everything or nothing.         *)
LEMMA RunAnsibleKeeps ==
  ASSUME InstallInv, RunAnsible
  PROVE  InstallInv'
  <1>1. /\ InstallTypeOK /\ InstallerIs /\ InstallerKnows /\ LedgerKnows /\ MachineAgrees
        /\ In("apply")
        /\ UNCHANGED <<ledger, kept, orphan, sourceTree, confirmed>>
    BY DEF InstallInv, RunAnsible
  <1>2. /\ Playbook \in Applied /\ Playbook # Nothing /\ Agreed(Playbook)
        /\ Playbook.release = ledger.release
        /\ installer.client \in Clients /\ installer.client \in Playbook.cidrs
        /\ ledger # Nothing /\ ~ledger.dry /\ installer.at = 7
        /\ ~Completed("ansible") /\ confirmed # Nothing
    BY <1>1, PlaybookIs
  <1>3. PICK pc \in {"complete", "fail"} :
          /\ Move(pc)
          /\ \/ node' = [node EXCEPT !.applied = Playbook, !.session = installer.client]
             \/ pc = "fail" /\ node' = node
    BY DEF RunAnsible
  <1>4. /\ InstallerIs'
        /\ installer'.cmd = installer.cmd /\ installer'.dry = installer.dry
        /\ installer'.at = installer.at /\ installer'.pc = pc
    BY <1>1, <1>3, MoveIs DEF In, Busy, AtWork
  <1>5. sourceTree' \in Sources /\ orphan' \in Applied \cup {Nothing}
    BY <1>1 DEF InstallTypeOK
  <1>6. CASE node' = node
    <2>1. pc = "fail" \/ node' = [node EXCEPT !.applied = Playbook,
                                              !.session = installer.client]
      BY <1>3
    <2>2. InstallerKnows'
      <3>1. pc = "complete" => node.applied = Playbook
        BY <1>1, <1>6, <2>1 DEF InstallTypeOK
      <3> QED BY <1>1, <1>2, <1>4, <1>6, <3>1, PhaseList
          DEF InstallerKnows, In, Busy, AtWork, Did, Completed, Phase, Established
    <2> QED BY <1>1, <1>2, <1>4, <1>5, <1>6, <2>2, MachineChanges
        DEF InstallTypeOK, MachineAgrees
  <1>7. CASE node' = [node EXCEPT !.applied = Playbook, !.session = installer.client]
    <2>1. /\ node'.applied = Playbook /\ node'.session = installer.client
          /\ node'.packages = node.packages
          /\ node' \in [packages : BOOLEAN, applied : Applied \cup {Nothing},
                        session : Clients \cup {Nothing}]
      BY <1>1, <1>2, <1>7 DEF InstallTypeOK
    <2>2. InstallerKnows'
      BY <1>1, <1>2, <1>4, <2>1, PhaseList
      DEF InstallerKnows, In, Busy, AtWork, Did, Completed, Phase, Established
    <2>3. Agreed(node'.applied) /\ Agreed(orphan')
      BY <1>1, <1>2, <2>1 DEF MachineAgrees
    <2> QED BY <1>1, <1>2, <1>4, <1>5, <2>1, <2>2, <2>3, MachineChanges
  <1> QED BY <1>3, <1>6, <1>7

LEMMA KillInstallerKeeps ==
  ASSUME InstallInv, KillInstaller
  PROVE  InstallInv'
  <1>1. /\ InstallTypeOK /\ InstallerIs /\ LedgerKnows /\ MachineAgrees /\ Quit
        /\ UNCHANGED <<ledger, kept, node, sourceTree, confirmed>>
    BY DEF InstallInv, KillInstaller
  <1>2. /\ orphan' \in Applied \cup {Nothing} /\ Agreed(orphan')
        /\ ledger = Nothing \/ ledger.dry => orphan' = orphan
    <2>1. CASE In("apply")
      <3>1. orphan' = Playbook
        BY <2>1 DEF KillInstaller
      <3> QED BY <2>1, <3>1, PlaybookIs
    <2>2. CASE ~In("apply")
      <3>1. orphan' = orphan
        BY <2>2 DEF KillInstaller
      <3> QED BY <1>1, <3>1 DEF InstallTypeOK, MachineAgrees
    <2> QED BY <2>1, <2>2
  <1>3. InstallerIs' /\ InstallerKnows'
    BY <1>1, QuitIs
  <1>4. ledger # Nothing /\ Completed("ansible") /\ ~ledger.dry =>
          /\ node.applied # Nothing
          /\ node.session # Nothing => node.applied.release = ledger.release
    BY <1>1, PhaseList DEF LedgerKnows, Established
  <1> QED BY <1>1, <1>2, <1>3, <1>4, MachineChanges DEF InstallTypeOK, MachineAgrees

(* The playbook of a killed installer ends without a session of its own.    *)
LEMMA OrphanEndsKeeps ==
  ASSUME InstallInv, OrphanEnds
  PROVE  InstallInv'
  <1>1. /\ InstallTypeOK /\ InstallerIs /\ InstallerKnows /\ LedgerKnows /\ MachineAgrees
        /\ orphan # Nothing /\ orphan' = Nothing
        /\ UNCHANGED <<ledger, kept, installer, sourceTree, confirmed>>
    BY DEF InstallInv, OrphanEnds
  <1>2. /\ orphan \in Applied /\ ledger # Nothing /\ ~ledger.dry
        /\ Agreed(orphan) /\ Agreed(Nothing)
    BY <1>1 DEF InstallTypeOK, MachineAgrees, Agreed
  <1>3. /\ node' \in [packages : BOOLEAN, applied : Applied \cup {Nothing},
                      session : Clients \cup {Nothing}]
        /\ node'.packages = node.packages
        /\ node' = node \/ (node'.applied = orphan /\ node'.session = Nothing)
    BY <1>1, <1>2 DEF OrphanEnds, InstallTypeOK
  <1>4. \A p \in PhaseNames : Established(p) => Established(p)'
    BY <1>1, <1>2, <1>3 DEF Established
  <1>5. InstallerIs'
    BY <1>1 DEF InstallerIs, In
  <1>6. InstallerKnows'
    <2>1. Phase \in PhaseNames
      BY <1>1, PhasesDiffer DEF Phase, InstallerIs
    <2>2. Phase' = Phase
      BY <1>1 DEF Phase
    <2>3. In("complete")' => Established(Phase)'
      <3>1. PICK p \in PhaseNames : p = Phase
        BY <2>1
      <3>2. In("complete")' => Established(p)'
        BY <1>1, <1>4, <3>1 DEF InstallerKnows, In
      <3>3. Established(p)' => Established(Phase)'
        BY <2>2, <3>1 DEF Established
      <3> QED BY <3>2, <3>3
    <2> QED BY <1>1, <2>3 DEF InstallerKnows, In, Did, Completed, Phase
  <1>7. Completed("ansible") =>
          /\ node'.applied # Nothing
          /\ node'.session # Nothing => node'.applied.release = ledger.release
    BY <1>1, <1>2, <1>3, PhaseList DEF LedgerKnows, Established
  <1>8. /\ sourceTree' \in Sources /\ orphan' \in Applied \cup {Nothing}
        /\ Agreed(node'.applied) /\ Agreed(orphan')
        /\ node'.packages => confirmed # Nothing
        /\ node'.session # Nothing =>
             node'.applied # Nothing /\ node'.session \in node'.applied.cidrs
    BY <1>1, <1>2, <1>3 DEF InstallTypeOK, MachineAgrees
  <1> QED BY <1>1, <1>2, <1>3, <1>5, <1>6, <1>7, <1>8, MachineChanges

LEMMA SourcesChange ==
  ASSUME InstallInv, sourceTree' \in Sources,
         UNCHANGED <<ledger, kept, node, installer, orphan, confirmed>>
  PROVE  InstallInv'
  <1>1. InstallTypeOK' /\ InstallerIs' /\ MachineAgrees'
    BY DEF InstallInv, InstallTypeOK, InstallerIs, In, MachineAgrees, Agreed
  <1>2. LedgerKnows' /\ PhasesInOrder' /\ RunsAreOver'
    BY DEF InstallInv, LedgerKnows, PhasesInOrder, RunsAreOver, Completed, Established
  <1>3. InstallerKnows'
    BY DEF InstallInv, InstallerKnows, In, Did, Completed, Phase, Established
  <1> QED BY <1>1, <1>2, <1>3 DEF InstallInv

LEMMA InstallNextKeeps ==
  ASSUME InstallInv, [InstallNext]_installVars
  PROVE  InstallInv'
  <1>1. ASSUME InvokeAny PROVE InstallInv'
    BY <1>1, InvokeKeeps
  <1>2. ASSUME InstallSteps PROVE InstallInv'
    BY <1>2, BeginInstallKeeps, BeginResumeKeeps, BeginReconcileKeeps, RefuseInstallKeeps,
       SkipPhaseKeeps, StartPhaseKeeps, CompletePhaseKeeps, FailPhaseKeeps, FinishKeeps,
       PreflightKeeps, AskAnswersKeeps, ConfirmKeeps, RecordReleaseKeeps, BootstrapKeeps,
       SecretsKeeps, WriteAnswersKeeps, PlanAnsibleKeeps, RunAnsibleKeeps,
       WriteCredentialsKeeps, WriteSummaryKeeps DEF InstallSteps
  <1>3. ASSUME EditSource \/ InstallCalms \/ UNCHANGED installVars PROVE InstallInv'
    <2>1. sourceTree \in Sources
      BY DEF InstallInv, InstallTypeOK
    <2>2. /\ sourceTree' \in Sources
          /\ UNCHANGED <<ledger, kept, node, installer, orphan, confirmed>>
      BY <1>3, <2>1 DEF EditSource, InstallCalms, installVars
    <2> QED BY <2>2, SourcesChange
  <1> QED BY <1>1, <1>2, <1>3, PhaseFailsKeeps, BootstrapKeeps, KillInstallerKeeps,
             OrphanEndsKeeps DEF InstallNext

(* What the invariant gives a reader.                                       *)
LEMMA InvIsSound ==
  ASSUME InstallInv
  PROVE  InstallationIsSound
  <1>1. /\ MachineAgrees /\ PhasesInOrder /\ LedgerKnows
    BY DEF InstallInv
  <1>2. AppliedAsAgreed
    BY <1>1 DEF AppliedAsAgreed, SecretsAreOne, NothingUnconfirmed, SessionKeepsAccess,
       MachineAgrees, Agreed
  <1>3. DryRunIsHarmless
    BY <1>1 DEF DryRunIsHarmless, MachineAgrees
  <1>4. CompleteIsApplied
    BY <1>1, PhaseList DEF CompleteIsApplied, LedgerKnows, PhasesInOrder, Established,
       Completed
  <1> QED BY <1>1, <1>2, <1>3, <1>4 DEF InstallationIsSound, LedgerIsTrue

(* The types of the installer's state, whoever kills or resumes it.         *)
THEOREM InstallTypesHold == InstallSpec => []InstallTypeOK
  <1>1. InstallInv => InstallTypeOK
    BY DEF InstallInv
  <1> QED BY <1>1, InitInstalls, InstallNextKeeps, PTL DEF InstallSpec

(* What is on the machine is what was agreed, and what the ledger says.     *)
THEOREM InstallationsAreSound == InstallSpec => []InstallationIsSound
  <1> QED BY InvIsSound, InitInstalls, InstallNextKeeps, PTL DEF InstallSpec

(* The types of both tools' state, in the machine that runs either.         *)
THEOREM ControllerTypesHold == ControllerSpec => []ControllerTypesOK
  <1>1. ControllerInit => RestoreInit /\ InstallInit
    BY DEF ControllerInit
  <1>2. [ControllerNext]_controllerVars =>
          [RestoreNext]_restoreVars /\ [InstallNext]_installVars
    BY DEF ControllerNext, controllerVars, Restoring, Installing
  <1>3. ControllerSpec => RestoreSpec /\ InstallSpec
    BY <1>1, <1>2, PTL DEF ControllerSpec, RestoreSpec, InstallSpec
  <1> QED BY <1>3, RestoreTypesHold, InstallTypesHold, PTL DEF ControllerTypesOK
=============================================================================
