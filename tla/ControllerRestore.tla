--------------------------- MODULE ControllerRestore ---------------------------
(***************************************************************************)
(* restore-replacement-controller.yml and the journal helper it installs,  *)
(* controller_restore_journal.py: a backup is imported into a database of  *)
(* its own, verified, and selected by renaming databases while the         *)
(* services are stopped.  A rerun decides from the journal and from the    *)
(* database names PostgreSQL shows how to go on.                           *)
(*                                                                         *)
(* A play is a list of tasks, each with the set of recovery actions under  *)
(* which it runs.  A task may fail before or after its effect; a failed    *)
(* task of the main block runs the rescue block.  A play may lose its      *)
(* connection at any task; no block runs then.                             *)
(***************************************************************************)
EXTENDS Naturals, Sequences, FiniteSets

CONSTANTS
  Plays,      \* runs of the playbook that may be under way together
  NoPlay

ASSUME RestoreConstants == NoPlay \notin Plays

Databases == {"main", "import", "previous", "failed"}

(* A partial database is incomplete, or complete and not what the integrity *)
(* gate asks for.                                                           *)
Contents == {"none", "original", "partial", "loaded"}

Phases == {"IMPORT_STARTED", "PREPARED", "SWAP_STARTED", "SELECTED",
           "READINESS_VERIFIED", "ROLLBACK_STARTED", "ROLLED_BACK", "COMPLETE"}

VARIABLES
  cp1,            \* the host: journal, databases, services, uploaded archive
  restorer,       \* the plays
  restoreLock,    \* the play whose transient unit holds the lock, or NoPlay
  restoreCalm,    \* nothing fails, dies or overlaps any more
  restoreFlaws    \* history: "overlap" two plays ran together after the lock
                  \* expired, "undropped" a rescue's dropdb failed unnoticed,
                  \* "uncleared" a rescue ended between dropdb and clear

restoreVars == <<cp1, restorer, restoreLock, restoreCalm, restoreFlaws>>

-----------------------------------------------------------------------------
(* The journal helper.                                                      *)

(* ALLOWED_TRANSITIONS                                                      *)
AllowedFrom == [NONE               |-> {"IMPORT_STARTED"},
                IMPORT_STARTED     |-> {"PREPARED"},
                PREPARED           |-> {"SWAP_STARTED"},
                SWAP_STARTED       |-> {"SELECTED"},
                SELECTED           |-> {"READINESS_VERIFIED", "ROLLBACK_STARTED"},
                READINESS_VERIFIED |-> {"COMPLETE"},
                ROLLBACK_STARTED   |-> {"ROLLED_BACK"},
                ROLLED_BACK        |-> {},
                COMPLETE           |-> {}]

Clearable == {"IMPORT_STARTED", "PREPARED", "SWAP_STARTED"}

MainOnly   == {"main"}
Importing  == {"main", "import"}
Selected   == {"main", "previous"}
RolledBack == {"main", "failed"}

(* reconcile_action, as the set of <<phase, databases, action>> it accepts. *)
SafeActions ==
  {<<"NONE",               MainOnly,   "START">>,
   <<"IMPORT_STARTED",     MainOnly,   "BEGIN_IMPORT">>,
   <<"IMPORT_STARTED",     Importing,  "RESTART_IMPORT">>,
   <<"PREPARED",           Importing,  "RESUME_PREPARED">>,
   <<"SWAP_STARTED",       Importing,  "RESUME_SWAP">>,
   <<"SWAP_STARTED",       Selected,   "RESUME_SELECTED_AFTER_SWAP">>,
   <<"SELECTED",           Selected,   "RESUME_READINESS">>,
   <<"READINESS_VERIFIED", Selected,   "FINALIZE_COMPLETE">>,
   <<"ROLLBACK_STARTED",   Selected,   "RESUME_ROLLBACK">>,
   <<"ROLLBACK_STARTED",   RolledBack, "FINALIZE_ROLLBACK">>,
   <<"ROLLED_BACK",        RolledBack, "ROLLED_BACK">>,
   <<"COMPLETE",           Selected,   "COMPLETE">>}

Actions == {s[3] : s \in SafeActions}

Known(phase, observed) ==
  \E s \in SafeActions : s[1] = phase /\ s[2] = observed

(* Mutant: a swap that was started is taken to be still ahead.              *)
ReconcileOnPhase(phase, observed) ==
  IF phase = "SWAP_STARTED" THEN "RESUME_SWAP"
  ELSE (CHOOSE s \in SafeActions : s[1] = phase /\ s[2] = observed)[3]

(* Mutant: a play that ended short of COMPLETE is rolled back.              *)
ReconcileBack(phase, observed) ==
  IF phase = "READINESS_VERIFIED" THEN "RESUME_ROLLBACK"
  ELSE (CHOOSE s \in SafeActions : s[1] = phase /\ s[2] = observed)[3]

Reconcile(phase, observed) ==
  (CHOOSE s \in SafeActions : s[1] = phase /\ s[2] = observed)[3]

-----------------------------------------------------------------------------
(* The playbook's tasks.  A task named after a phase is the transition to   *)
(* it; "back" renames the original database to main again.                  *)

FromImport == {"START", "BEGIN_IMPORT", "RESTART_IMPORT"}
Unswapped == FromImport \cup {"RESUME_PREPARED", "RESUME_SWAP"}

EveryPlay == Actions \cup {"NONE"}

Task(name, when) == [name |-> name, when |-> when]

Blocks ==
  [look |->
     <<Task("observe", EveryPlay), Task("inspect", EveryPlay)>>,
   rollback |->
     <<Task("stop", Actions), Task("back", {"RESUME_ROLLBACK"}),
       Task("ROLLED_BACK", {"RESUME_ROLLBACK", "FINALIZE_ROLLBACK"}),
       Task("start", Actions), Task("ready", Actions), Task("discard", Actions)>>,
   finalize |->
     <<Task("COMPLETE", {"FINALIZE_COMPLETE"}), Task("start", Actions),
       Task("ready", Actions), Task("discard", Actions)>>,
   main |->
     <<Task("archive", FromImport), Task("IMPORT_STARTED", {"START"}),
       Task("drop", {"RESTART_IMPORT"}), Task("create", FromImport),
       Task("load", FromImport), Task("verify", Actions), Task("PREPARED", FromImport),
       Task("SWAP_STARTED", FromImport \cup {"RESUME_PREPARED"}),
       Task("stop", Actions), Task("swap", Unswapped),
       Task("SELECTED", Actions \ {"RESUME_READINESS"}),
       Task("start", Actions), Task("ready", Actions),
       Task("READINESS_VERIFIED", Actions), Task("COMPLETE", Actions)>>,
   rescue |->
     <<Task("stop", EveryPlay), Task("observe", EveryPlay), Task("inspect", EveryPlay),
       Task("SELECTED", {"RESUME_SELECTED_AFTER_SWAP"}),
       Task("ROLLBACK_STARTED",
            {"RESUME_SELECTED_AFTER_SWAP", "RESUME_READINESS"}),
       Task("back", {"RESUME_SELECTED_AFTER_SWAP", "RESUME_READINESS",
                     "RESUME_ROLLBACK"}),
       Task("ROLLED_BACK", {"RESUME_SELECTED_AFTER_SWAP", "RESUME_READINESS",
                            "RESUME_ROLLBACK", "FINALIZE_ROLLBACK"}),
       Task("drop", Unswapped \ {"START"}), Task("clear", Unswapped \ {"START"}),
       Task("start", Actions)>>,
   always |-> <<Task("discard", EveryPlay)>>]

(* Mutant: a rename that fails in the rescue is passed over.                *)
IgnoresRename(block, name) ==
  \/ block = "rescue" /\ name \in {"stop", "drop", "start", "back"}
  \/ block = "rollback" /\ name = "stop"

(* failed_when: false                                                       *)
IgnoresFailure(block, name) ==
  \/ block = "rescue" /\ name \in {"stop", "drop", "start"}
  \/ block = "rollback" /\ name = "stop"

IdlePlay == [block |-> "idle", at |-> 1, action |-> "NONE", phase |-> "NONE",
             seen |-> {}]

NameOf(p) == Blocks[restorer[p].block][restorer[p].at].name

(* The first task from position i on that runs under the action, or 0.      *)
NextTask(block, i, action) ==
  LET due == {k \in i..Len(Blocks[block]) : action \in Blocks[block][k].when}
  IN  IF due = {} THEN 0 ELSE CHOOSE k \in due : \A l \in due : k <= l

BlockOf(action) ==
  CASE action \in {"RESUME_ROLLBACK", "FINALIZE_ROLLBACK", "ROLLED_BACK"} -> "rollback"
    [] action \in {"FINALIZE_COMPLETE", "COMPLETE"}                       -> "finalize"
    [] OTHER                                                              -> "main"

Observed == {d \in Databases : cp1.db[d] # "none"}

(* Mutant: the database is copied.                                          *)
Copy(db, from, to) == [db EXCEPT ![to] = db[from]]

Rename(db, from, to) == [db EXCEPT ![to] = db[from], ![from] = "none"]

(* What the integrity gate looks at.                                        *)
GateDatabase(action) ==
  IF action \in {"RESUME_SELECTED_AFTER_SWAP", "RESUME_READINESS"} THEN "main"
  ELSE "import"

(* Mutant: the gate is satisfied with a database.                           *)
AnyContents(p) == cp1.db[GateDatabase(restorer[p].action)] # "none"

PassesGate(p) == cp1.db[GateDatabase(restorer[p].action)] = "loaded"

(* A task the host refuses fails.                                           *)
CanDo(p, t) ==
  CASE t \in Phases    -> t \in AllowedFrom[cp1.journal]
    [] t = "inspect"   -> Known(cp1.journal, restorer[p].seen)
    [] t = "archive"   -> cp1.dump
    [] t = "create"    -> cp1.db["import"] = "none"
    [] t = "load"      -> cp1.db["import"] # "none"
    [] t = "verify"    -> PassesGate(p)
    [] t = "swap"      -> /\ cp1.db["main"] # "none" /\ cp1.db["previous"] = "none"
                          /\ cp1.db["import"] # "none"
    [] t = "back"      -> /\ cp1.db["main"] # "none" /\ cp1.db["failed"] = "none"
                          /\ cp1.db["previous"] # "none"
    [] t = "ready"     -> cp1.serving
    [] t = "clear"     -> cp1.journal = restorer[p].phase /\ cp1.journal \in Clearable
    [] OTHER           -> TRUE

(* pg_restore succeeds on an archive the integrity gate will refuse, too.   *)
LoadResults == IF restoreCalm THEN {"loaded"} ELSE {"partial", "loaded"}

(* What the host may look like after the task.                              *)
Effects(t) ==
  CASE t \in Phases  -> {[cp1 EXCEPT !.journal = t]}
    [] t = "clear"   -> {[cp1 EXCEPT !.journal = "NONE"]}
    [] t = "drop"    -> {[cp1 EXCEPT !.db["import"] = "none"]}
    [] t = "create"  -> {[cp1 EXCEPT !.db["import"] = "partial"]}
    [] t = "load"    -> {[cp1 EXCEPT !.db["import"] = c] : c \in LoadResults}
    [] t = "swap"    -> {[cp1 EXCEPT !.db = Rename(Rename(@, "main", "previous"),
                                                   "import", "main")]}
    [] t = "back"    -> {[cp1 EXCEPT !.db = Rename(Rename(@, "main", "failed"),
                                                   "previous", "main")]}
    [] t = "stop"    -> {[cp1 EXCEPT !.serving = FALSE]}
    [] t = "start"   -> {[cp1 EXCEPT !.serving = TRUE]}
    [] t = "discard" -> {[cp1 EXCEPT !.dump = FALSE]}
    [] OTHER         -> {cp1}

-----------------------------------------------------------------------------
RestoreInit ==
  /\ cp1 = [journal |-> "NONE", serving |-> TRUE, dump |-> FALSE,
            db |-> [d \in Databases |-> IF d = "main" THEN "original" ELSE "none"]]
  /\ restorer = [p \in Plays |-> IdlePlay]
  /\ restoreLock = NoPlay
  /\ restoreCalm = FALSE
  /\ restoreFlaws = {}

Running(p) == restorer[p].block # "idle"

(* systemd-run refuses a unit name that is in use.                          *)
TakeLock(p) ==
  /\ ~Running(p) /\ restoreLock = NoPlay
  /\ restoreCalm => /\ \A q \in Plays : ~Running(q)
                    /\ cp1.dump \/ cp1.journal \notin {"NONE", "IMPORT_STARTED"}
  /\ restoreLock' = p
  /\ restorer' = [restorer EXCEPT ![p].block = "look"]
  /\ restoreFlaws' = IF \E q \in Plays : Running(q) THEN restoreFlaws \cup {"overlap"}
                     ELSE restoreFlaws
  /\ UNCHANGED <<cp1, restoreCalm>>

(* Mutant: what the play has learned is kept for the next one.              *)
EndRemembering(p) ==
  /\ restorer' = [restorer EXCEPT ![p].block = "idle"]
  /\ restoreLock' = NoPlay

(* The handler stops the unit by its name, whoever started it.              *)
EndPlay(p) ==
  /\ restorer' = [restorer EXCEPT ![p] = IdlePlay]
  /\ restoreLock' = NoPlay

GoTo(p, play, block, i) ==
  LET k == NextTask(block, i, play.action)
  IN  IF k # 0 THEN /\ restorer' = [restorer EXCEPT ![p] =
                                      [play EXCEPT !.block = block, !.at = k]]
                    /\ UNCHANGED restoreLock
      ELSE IF block \in {"main", "rescue"}
           THEN /\ restorer' = [restorer EXCEPT ![p] =
                                  [IdlePlay EXCEPT !.block = "always"]]
                /\ UNCHANGED restoreLock
           ELSE EndPlay(p)

(* What the play has learned when the task has run.                         *)
Learned(p) ==
  CASE NameOf(p) = "observe" -> [restorer[p] EXCEPT !.seen = Observed]
    [] NameOf(p) = "inspect" ->
         [restorer[p] EXCEPT !.action = Reconcile(cp1.journal, restorer[p].seen),
                             !.seen = {},
                             !.phase = IF restorer[p].block = "rescue"
                                       THEN cp1.journal ELSE @]
    [] OTHER -> restorer[p]

DoTask(p) ==
  /\ Running(p) /\ CanDo(p, NameOf(p))
  /\ cp1' \in Effects(NameOf(p))
  /\ LET play == Learned(p) IN
     IF restorer[p].block = "look" /\ NameOf(p) = "inspect"
     THEN GoTo(p, play, BlockOf(play.action), 1)
     ELSE GoTo(p, play, play.block, play.at + 1)
  /\ UNCHANGED <<restoreCalm, restoreFlaws>>

(* Plays that overlap are not given further failures than each other's.     *)
Disturbed == ~restoreCalm /\ "overlap" \notin restoreFlaws

AtRescue(p, t) == restorer[p].block = "rescue" /\ NameOf(p) = t

Uncleared(p) == IF AtRescue(p, "clear") THEN {"uncleared"} ELSE {}

(* A failure is reported with or without the effect.                        *)
FailTask(p) ==
  /\ Running(p)
  /\ CanDo(p, NameOf(p)) => Disturbed
  /\ LET t == NameOf(p) IN
     /\ cp1' \in {cp1} \cup IF CanDo(p, t) THEN Effects(t) ELSE {}
     /\ restoreFlaws' = restoreFlaws
          \cup (IF AtRescue(p, "drop") /\ cp1'.db["import"] # "none"
                THEN {"undropped"} ELSE {})
          \cup Uncleared(p)
     /\ IF IgnoresFailure(restorer[p].block, t)
        THEN GoTo(p, restorer[p], restorer[p].block, restorer[p].at + 1)
        ELSE CASE restorer[p].block = "main"   -> GoTo(p, IdlePlay, "rescue", 1)
               [] restorer[p].block = "rescue" -> GoTo(p, IdlePlay, "always", 1)
               [] OTHER -> EndPlay(p)
  /\ UNCHANGED restoreCalm

(* The controlling host or its connection goes away.                        *)
LosePlay(p) ==
  /\ Running(p) /\ Disturbed
  /\ restorer' = [restorer EXCEPT ![p] = IdlePlay]
  /\ restoreFlaws' = restoreFlaws \cup Uncleared(p)
  /\ UNCHANGED <<cp1, restoreLock, restoreCalm>>

(* RuntimeMaxSec ends the unit, whether or not its play still runs.         *)
ExpireLock ==
  /\ restoreLock # NoPlay
  /\ restoreCalm => ~Running(restoreLock)
  /\ restoreLock' = NoPlay
  /\ UNCHANGED <<cp1, restorer, restoreCalm, restoreFlaws>>

(* The operator streams the archive to its fixed path.                      *)
Upload ==
  /\ ~cp1.dump /\ cp1.journal \in {"NONE", "IMPORT_STARTED"}
  /\ cp1' = [cp1 EXCEPT !.dump = TRUE]
  /\ UNCHANGED <<restorer, restoreLock, restoreCalm, restoreFlaws>>

(* From here on one play at a time runs, nothing disturbs it, and the       *)
(* operator starts a fresh import only with a good archive in place.        *)
RestoreCalms ==
  /\ ~restoreCalm /\ restoreFlaws = {}
  /\ restoreCalm' = TRUE
  /\ UNCHANGED <<cp1, restorer, restoreLock, restoreFlaws>>

RestoreStep ==
  \/ \E p \in Plays : TakeLock(p) \/ DoTask(p) \/ FailTask(p)
  \/ ExpireLock
  \/ Upload

RestoreNext == RestoreStep \/ RestoreCalms \/ \E p \in Plays : LosePlay(p)

RestoreSpec == RestoreInit /\ [][RestoreNext]_restoreVars

(* Someone reruns the playbook until it is through.                         *)
RestoreFairness == WF_restoreVars(RestoreStep)

-----------------------------------------------------------------------------
RestoreTypeOK ==
  /\ cp1 \in [journal : Phases \cup {"NONE"}, serving : BOOLEAN, dump : BOOLEAN,
              db : [Databases -> Contents]]
  /\ restorer \in [Plays -> [block : DOMAIN Blocks \cup {"idle"}, at : 1..15,
                             action : Actions \cup {"NONE"},
                             phase : Phases \cup {"NONE"}, seen : SUBSET Databases]]
  /\ \A p \in Plays : ~Running(p) => restorer[p] = IdlePlay
  /\ restoreLock \in Plays \cup {NoPlay}
  /\ restoreCalm \in BOOLEAN
  /\ restoreFlaws \subseteq {"overlap", "undropped", "uncleared"}

(* Whatever fails, dies or overlaps, the database of before the import is   *)
(* there exactly once, as the service database or as the retained one, and  *)
(* there is a service database.                                             *)
OriginalSurvives ==
  /\ Cardinality({d \in Databases : cp1.db[d] = "original"}) = 1
  /\ "original" \in {cp1.db["main"], cp1.db["previous"]}
  /\ cp1.db["main"] # "none"

(* The services never get an import that did not pass the integrity gate,   *)
(* as long as no two plays overlapped.                                      *)
SelectedWasVerified ==
  cp1.db["main"] = "partial" => "overlap" \in restoreFlaws

(* The journal and the database names always name one next action, whenever *)
(* a rerun may start; the exceptions are a rescue whose dropdb failed, which *)
(* clears the journal all the same, one that ended after dropdb and left the *)
(* journal, and overlapping plays.                                          *)
RerunIsNeverRefused ==
  restoreFlaws = {} /\ (\A p \in Plays : ~Running(p)) =>
    Known(cp1.journal, Observed)

(* A phase means what it says: a finished rollback serves the original, and *)
(* a verified or complete restore the import, with the original retained.   *)
PhaseIsTrue ==
  restoreFlaws = {} =>
    /\ cp1.journal = "ROLLED_BACK" => cp1.db["main"] = "original"
    /\ cp1.journal \in {"READINESS_VERIFIED", "COMPLETE"} =>
         cp1.db["main"] = "loaded" /\ cp1.db["previous"] = "original"

(* Once readiness is recorded, no play selects another database.            *)
ReadyRestoreStays ==
  [][cp1.journal \in {"READINESS_VERIFIED", "COMPLETE"} /\ restoreFlaws = {} =>
       cp1'.db = cp1.db]_restoreVars

(* Once nothing fails any more, reruns bring the restore to an end with the *)
(* services up, wherever earlier plays stopped.                             *)
RestoreResolves ==
  restoreCalm ~>
    cp1.serving /\ cp1.journal \in {"COMPLETE", "ROLLED_BACK"}

(* What the journal and the names say is true: the service database was     *)
(* verified, a phase means what it says, and a rerun finds one action; and  *)
(* a ready restore stays.                                                   *)
RestoreIsTrue ==
  /\ [](SelectedWasVerified /\ RerunIsNeverRefused /\ PhaseIsTrue)
  /\ ReadyRestoreStays
=============================================================================
