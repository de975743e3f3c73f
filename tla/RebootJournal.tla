----------------------------- MODULE RebootJournal -----------------------------
(***************************************************************************)
(* How deploy/scripts/active_edge_reboot_journal.py keeps its promise on a *)
(* disk, when the command that writes may be killed at any point.          *)
(*                                                                         *)
(* A journal directory holds state.json (replaced through a temporary      *)
(* file), and per node a preflight and a peer observation (written once,   *)
(* through a staging file that is linked and then unlinked).  `begin`      *)
(* builds the directory beside its final name and renames it; `rollover`   *)
(* renames it into the evidence of an aborted run and activates a fresh    *)
(* one, under a transaction file.  A file lock admits one command at once. *)
(***************************************************************************)
EXTENDS Naturals, FiniteSets

CONSTANTS
  Run, Snapshot, Nil,
  Collected      \* per node: the preflights that may be collected from it

ASSUME CollectedAssumption == Collected \in [{"sbc1", "sbc2"} -> SUBSET Snapshot]

VARIABLES
  active,     \* the `.active-run` directory, or Nil
  starter,    \* begin's initializer: "NONE", "DIR", "TMP" or "STATE"
  tx,         \* rollover transaction, an exclusive file
  fresh,      \* state.json of the rollover initializer, an exclusive file
  archive,    \* per run: the archived journal directory, or Nil
  manifest,   \* per run: the archive manifest, an exclusive file
  receipt,    \* per run: the rollover receipt, an exclusive file
  proc,       \* the running command
  calm        \* environment: no more interruptions or refusals

vars == <<active, starter, tx, fresh, archive, manifest, receipt, proc, calm>>
rolling == <<tx, fresh, archive, manifest, receipt>>

-----------------------------------------------------------------------------
(* Exclusive files: absent; only the staging file (empty, partial or full); *)
(* staging and target as two links of one inode; only the target.           *)

Written == {"LINKED", "DONE"}            \* the target path exists
NoFile  == [at |-> "NONE", has |-> Nil]
FileOf(contents) ==
  {NoFile} \cup [at : {"EMPTY", "PART", "FULL"} \cup Written, has : contents]

(* A journal directory.  tmp: the temporary file of the last replacing      *)
(* write; debris: an older one was left empty.                              *)
NewDir(j) == [journal |-> j, tmp |-> "NONE", debris |-> FALSE,
              preflight |-> [n \in {"sbc1", "sbc2"} |-> NoFile],
              peer |-> [n \in {"sbc1", "sbc2"} |-> NoFile]]

(* The request the disk stands for: between the archiving rename and the    *)
(* activating one it is still the terminal request of the transaction.      *)
InTransit == active = Nil /\ tx.at = "DONE" /\ archive[tx.has.from] # Nil

Current == IF active # Nil THEN active.journal
           ELSE IF InTransit THEN archive[tx.has.from].journal
           ELSE Nil

Archived == {archive[r].journal : r \in {s \in Run : archive[s] # Nil}}
              \ {Current}

Request == INSTANCE RebootRequest WITH journal <- Current, archived <- Archived

Nodes == Request!Nodes
Dir == [journal : Request!Journal, tmp : {"NONE", "EMPTY", "DATA"},
        debris : BOOLEAN, preflight : [Nodes -> FileOf(Snapshot)],
        peer : [Nodes -> FileOf({Nil})]]

(* None in Python is neither a journal nor a directory.                     *)
ASSUME NilAssumption == Nil \notin Request!Journal /\ Nil \notin Dir

(* _validate_state: every phase is backed by its evidence, a readable file  *)
(* with a single link and the recorded digest.                              *)
Valid(d) ==
  \A n \in Nodes :
    /\ d.journal.phase[n] # "PENDING" =>
         d.preflight[n] = [at |-> "DONE", has |-> d.journal.pre[n]]
    /\ n \in d.journal.lost => d.peer[n].at = "DONE"

(* _archive_file_inventory reads every file below the evidence leaf, except *)
(* the manifest and the receipt: none may be empty or have a second link.   *)
Countable(d) ==
  /\ ~d.debris /\ d.tmp # "EMPTY"
  /\ \A n \in Nodes :
       {d.preflight[n].at, d.peer[n].at} \cap {"EMPTY", "LINKED"} = {}

-----------------------------------------------------------------------------
(* Commands.                                                                *)

Commands == Request!Transitions \cup {"begin", "complete", "rollover"}

ExclusiveWrites == {"preflight", "peer", "tx", "fresh", "manifest", "receipt"}

Pcs == {"idle", "begin", "build", "begin_write", "begin_state", "begin_activate",
        "load", "save", "save_write", "save_replace", "normalise", "decide",
        "resources", "archive", "inventory", "activate", "finish"}
         \cup ExclusiveWrites

(* node, run, snapshot: the arguments; new: the run a rollover allocates;   *)
(* mine: this process created the staging file it is writing.               *)
Process == [cmd : Commands \cup {Nil}, pc : Pcs, node : Nodes \cup {Nil},
            run : Run \cup {Nil}, snapshot : Snapshot \cup {Nil},
            new : Run \cup {Nil}, mine : BOOLEAN]

IdleProcess == [cmd |-> Nil, pc |-> "idle", node |-> Nil, run |-> Nil,
                snapshot |-> Nil, new |-> Nil, mine |-> FALSE]

At(pc) == proc.pc = pc
Goto(pc) == proc' = [proc EXCEPT !.pc = pc, !.mine = FALSE]
End == proc' = IdleProcess        \* the command returns or raises

Init ==
  /\ active = Nil
  /\ starter = "NONE"
  /\ tx = NoFile
  /\ fresh = NoFile
  /\ archive = [r \in Run |-> Nil]
  /\ manifest = [r \in Run |-> NoFile]
  /\ receipt = [r \in Run |-> NoFile]
  /\ proc = IdleProcess
  /\ calm = FALSE

Invoke(cmd, node, run, snapshot) ==
  /\ At("idle")
  /\ proc' = [IdleProcess EXCEPT
       !.cmd = cmd, !.node = node, !.run = run, !.snapshot = snapshot,
       !.pc = CASE cmd = "begin" -> "begin"
                [] cmd = "rollover" -> "normalise"
                [] OTHER -> "load"]
  /\ UNCHANGED <<active, starter, rolling, calm>>

Begin       == Invoke("begin", Nil, Nil, Nil)
Finish      == Invoke("complete", Nil, Nil, Nil)
RollOver(r) == Invoke("rollover", Nil, r, Nil)
Arm(n, s)   == Invoke("arm", n, Nil, s)
Mark(op, n) == op # "arm" /\ Invoke(op, n, Nil, Nil)

(* Run identifiers are random: one that names a request is not drawn again. *)
Unused(r) == archive[r] = Nil /\ (active # Nil => active.journal.run # r)

-----------------------------------------------------------------------------
(* begin                                                                    *)

TxPending == tx.at \in Written

(* A pending rollover, an existing request, or an initializer that holds    *)
(* anything but state.json ends the command.                                *)
BeginEnds ==
  /\ At("begin") /\ End
  /\ TxPending \/ active # Nil \/ starter = "TMP"
  /\ UNCHANGED <<active, starter, rolling, calm>>

(* Mutant: an initializer without state.json is refused, not removed.       *)
BeginKeepsDirectory ==
  /\ At("begin") /\ ~TxPending /\ active = Nil
  /\ \/ starter = "STATE" /\ starter' = "DIR" /\ UNCHANGED proc
     \/ starter = "DIR" /\ End /\ UNCHANGED starter
  /\ UNCHANGED <<active, rolling, calm>>

BeginCleans ==
  /\ At("begin") /\ ~TxPending /\ active = Nil
  /\ \/ starter = "STATE" /\ starter' = "DIR"
     \/ starter = "DIR" /\ starter' = "NONE"
  /\ UNCHANGED <<active, rolling, proc, calm>>

BeginAllocates ==
  /\ At("begin") /\ ~TxPending /\ active = Nil /\ starter = "NONE"
  /\ \E r \in Run :
       Unused(r) /\ proc' = [proc EXCEPT !.pc = "build", !.new = r]
  /\ UNCHANGED <<active, starter, rolling, calm>>

BeginStep(from, next, becomes) ==
  /\ At(from) /\ Goto(next)
  /\ starter' = becomes
  /\ UNCHANGED <<active, rolling, calm>>

BeginDirectory == BeginStep("build", "begin_write", "DIR")
BeginTemporary == BeginStep("begin_write", "begin_state", "TMP")
BeginState     == BeginStep("begin_state", "begin_activate", "STATE")

BeginActivate ==
  /\ At("begin_activate")
  /\ active' = NewDir(Request!FreshJournal(proc.new))
  /\ starter' = "NONE"
  /\ End
  /\ UNCHANGED <<rolling, calm>>

-----------------------------------------------------------------------------
(* _mutate and _complete: load, write the evidence, replace state.json.     *)

(* Mutant: the commands do not look for a pending rollover.                 *)
LoadsAnyway == active # Nil /\ Valid(active)

Loads == ~TxPending /\ active # Nil /\ Valid(active)

NextJournal ==
  IF proc.cmd = "complete" THEN Request!Completed(active.journal)
  ELSE Request!Apply(active.journal, proc.cmd, proc.node, proc.snapshot)

(* Mutant: a transition may target a node that is not the current one.      *)
PermittedOnAnyNode ==
  IF proc.cmd = "complete" THEN Request!Completable(active.journal)
  ELSE /\ active.journal.status = "IN_PROGRESS"
       /\ active.journal.phase[proc.node] \in Request!From[proc.cmd]

Permitted ==
  IF proc.cmd = "complete" THEN Request!Completable(active.journal)
  ELSE Request!Applicable(active.journal, proc.cmd, proc.node)

(* Timing out of bounds, or evidence that is not the expected one, is       *)
(* refused as well.                                                         *)
Load ==
  /\ At("load")
  /\ \/ Loads /\ Permitted
        /\ Goto(CASE proc.cmd = "arm" -> "preflight"
                  [] proc.cmd = "loss" -> "peer"
                  [] OTHER -> "save")
     \/ ~calm /\ End
     \/ calm /\ ~(Loads /\ Permitted) /\ End
  /\ UNCHANGED <<active, starter, rolling, calm>>

SaveTemporary ==
  /\ At("save") /\ Goto("save_write")
  /\ active' = [active EXCEPT !.tmp = "EMPTY",
                              !.debris = @ \/ active.tmp = "EMPTY"]
  /\ UNCHANGED <<starter, rolling, calm>>

SaveWrite ==
  /\ At("save_write") /\ Goto("save_replace")
  /\ active' = [active EXCEPT !.tmp = "DATA"]
  /\ UNCHANGED <<starter, rolling, calm>>

SaveReplace ==
  /\ At("save_replace") /\ End
  /\ active' = [active EXCEPT !.tmp = "NONE", !.journal = NextJournal]
  /\ UNCHANGED <<starter, rolling, calm>>

-----------------------------------------------------------------------------
(* _exclusive_atomic_write and _normalize_exclusive_target.                 *)

(* The rollover transaction names the old run and the new; the receipt in   *)
(* the archive names the run that replaced it.                              *)
WantTransaction == [from |-> proc.run, new |-> proc.new]

WantReceipt == proc.new

Want == CASE At("preflight") -> proc.snapshot
          [] At("tx")        -> WantTransaction
          [] At("fresh")     -> proc.new
          [] At("receipt")   -> WantReceipt
          [] OTHER           -> Nil

File == CASE At("preflight") -> active.preflight[proc.node]
          [] At("peer")      -> active.peer[proc.node]
          [] At("tx")        -> tx
          [] At("fresh")     -> fresh
          [] At("manifest")  -> manifest[proc.run]
          [] At("receipt")   -> receipt[proc.run]

PutFile(f) ==
  /\ active' = CASE At("preflight") -> [active EXCEPT !.preflight[proc.node] = f]
                 [] At("peer")      -> [active EXCEPT !.peer[proc.node] = f]
                 [] OTHER           -> active
  /\ tx' = IF At("tx") THEN f ELSE tx
  /\ fresh' = IF At("fresh") THEN f ELSE fresh
  /\ manifest' = IF At("manifest") THEN [manifest EXCEPT ![proc.run] = f]
                 ELSE manifest
  /\ receipt' = IF At("receipt") THEN [receipt EXCEPT ![proc.run] = f]
                ELSE receipt
  /\ UNCHANGED <<starter, archive, calm>>

(* Mutant: the receipt is written before the fresh journal is in place.     *)
AfterWriteReceiptFirst ==
  [preflight |-> "save", peer |-> "save", tx |-> "resources",
   fresh |-> "archive", manifest |-> "receipt", receipt |-> "activate"]

AfterWrite == [preflight |-> "save", peer |-> "save", tx |-> "resources",
               fresh |-> "archive", manifest |-> "activate", receipt |-> "finish"]

Writing == proc.pc \in ExclusiveWrites

(* The target exists: drop the staging link, then compare the contents.     *)
ExclusiveNormalise ==
  /\ Writing /\ ~proc.mine /\ File.at = "LINKED"
  /\ PutFile([File EXCEPT !.at = "DONE"])
  /\ UNCHANGED proc

(* Mutant: an existing target is taken for the intended one.                *)
ExclusiveTrusts ==
  /\ Writing /\ ~proc.mine /\ File.at = "DONE"
  /\ Goto(AfterWrite[proc.pc])
  /\ UNCHANGED <<active, starter, rolling, calm>>

ExclusiveExists ==
  /\ Writing /\ ~proc.mine /\ File.at = "DONE"
  /\ IF File.has = Want THEN Goto(AfterWrite[proc.pc]) ELSE End
  /\ UNCHANGED <<active, starter, rolling, calm>>

(* A staging file of an earlier attempt: keep it only when it is complete.  *)
ExclusiveReuse ==
  /\ Writing /\ ~proc.mine /\ File = [at |-> "FULL", has |-> Want]
  /\ proc' = [proc EXCEPT !.mine = TRUE]
  /\ UNCHANGED <<active, starter, rolling, calm>>

ExclusiveDiscard ==
  /\ Writing /\ ~proc.mine /\ File.at \in {"EMPTY", "PART", "FULL"}
  /\ File # [at |-> "FULL", has |-> Want]
  /\ PutFile(NoFile)
  /\ UNCHANGED proc

(* A left staging file longer than the new contents is not even discarded;  *)
(* only the length of a preflight varies.                                   *)
ExclusiveRefuse ==
  /\ At("preflight") /\ ~proc.mine /\ File.at \in {"PART", "FULL"}
  /\ File.has # Want
  /\ End
  /\ UNCHANGED <<active, starter, rolling, calm>>

ExclusiveCreate ==
  /\ Writing /\ File.at = "NONE"
  /\ PutFile([at |-> "EMPTY", has |-> Want])
  /\ proc' = [proc EXCEPT !.mine = TRUE]

ExclusiveFill ==
  /\ Writing /\ proc.mine /\ File.at \in {"EMPTY", "PART"}
  /\ PutFile([File EXCEPT !.at = IF @ = "EMPTY" THEN "PART" ELSE "FULL"])
  /\ UNCHANGED proc

ExclusiveLink ==
  /\ Writing /\ proc.mine /\ File.at = "FULL"
  /\ PutFile([File EXCEPT !.at = "LINKED"])
  /\ UNCHANGED proc

ExclusiveUnlink ==
  /\ Writing /\ proc.mine /\ File.at = "LINKED"
  /\ PutFile([File EXCEPT !.at = "DONE"])
  /\ Goto(AfterWrite[proc.pc])

-----------------------------------------------------------------------------
(* rollover                                                                 *)

(* A transaction and a receipt that exist lose their staging link first.    *)
Linked(f) == IF f.at = "LINKED" THEN [f EXCEPT !.at = "DONE"] ELSE f

RollNormalise ==
  /\ At("normalise") /\ Goto("decide")
  /\ tx' = Linked(tx)
  /\ receipt' = [receipt EXCEPT ![proc.run] = Linked(@)]
  /\ UNCHANGED <<active, starter, fresh, archive, manifest, calm>>

Terminal ==
  /\ Loads
  /\ active.journal.status = "ABORTED_RECONCILED"
  /\ active.journal.run = proc.run
  /\ archive[proc.run] = Nil
  /\ manifest[proc.run].at = "NONE" /\ receipt[proc.run].at = "NONE"

(* Resume the transaction; or, without one, revalidate a finished rollover  *)
(* or begin one for exactly the terminal run.                               *)
RollDecide ==
  /\ At("decide")
  /\ IF tx.at = "DONE"
     THEN IF tx.has.from = proc.run
          THEN proc' = [proc EXCEPT !.pc = "resources", !.new = tx.has.new]
          ELSE End
     ELSE IF Terminal /\ \E r \in Run : Unused(r)
          THEN \E r \in Run : Unused(r)
                 /\ proc' = [proc EXCEPT !.pc = "tx", !.new = r]
          ELSE End
  /\ UNCHANGED <<active, starter, rolling, calm>>

FreshDir == NewDir(Request!FreshJournal(proc.new))

(* Mutant: a rollover needs an active journal, even to be resumed.          *)
RollResourcesOfActive ==
  /\ At("resources")
  /\ IF active = Nil THEN End
     ELSE IF active.journal.run = proc.new THEN Goto("archive")
     ELSE Goto("fresh")
  /\ UNCHANGED <<active, starter, rolling, calm>>

(* _ensure_rollover_resources                                               *)
RollResources ==
  /\ At("resources")
  /\ IF active # Nil /\ active.journal.run = proc.new
     THEN IF fresh.at = "NONE" /\ active = FreshDir THEN Goto("archive") ELSE End
     ELSE IF active # Nil => Valid(active) THEN Goto("fresh") ELSE End
  /\ UNCHANGED <<active, starter, rolling, calm>>

(* Mutant: whatever journal is active is archived.                          *)
RollArchiveAnything ==
  /\ At("archive")
  /\ archive' = IF active = Nil THEN archive
                ELSE [archive EXCEPT ![proc.run] = active]
  /\ active' = Nil
  /\ Goto("inventory")
  /\ UNCHANGED <<starter, tx, fresh, manifest, receipt, calm>>

(* _archive_terminal_journal: rename, then check what was archived.         *)
RollArchive ==
  /\ At("archive")
  /\ IF active # Nil /\ active.journal.run = proc.run
     THEN IF archive[proc.run] = Nil
          THEN /\ archive' = [archive EXCEPT ![proc.run] = active]
               /\ active' = Nil
               /\ UNCHANGED proc
          ELSE End /\ UNCHANGED <<archive, active>>
     ELSE /\ IF /\ active # Nil => active.journal.run = proc.new
                /\ archive[proc.run] # Nil /\ Valid(archive[proc.run])
             THEN Goto("inventory") ELSE End
          /\ UNCHANGED <<archive, active>>
  /\ UNCHANGED <<starter, tx, fresh, manifest, receipt, calm>>

(* _ensure_archive_manifest                                                 *)
RollInventory ==
  /\ At("inventory")
  /\ IF Countable(archive[proc.run]) THEN Goto("manifest") ELSE End
  /\ UNCHANGED <<active, starter, rolling, calm>>

(* _activate_rollover_journal                                               *)
RollActivate ==
  /\ At("activate")
  /\ IF active = Nil /\ fresh.at = "DONE"
     THEN /\ active' = FreshDir
          /\ fresh' = NoFile
          /\ UNCHANGED proc
     ELSE /\ IF active = FreshDir THEN Goto("receipt") ELSE End
          /\ UNCHANGED <<active, fresh>>
  /\ UNCHANGED <<starter, tx, archive, manifest, receipt, calm>>

RollFinish ==
  /\ At("finish") /\ End
  /\ tx' = NoFile
  /\ UNCHANGED <<active, starter, fresh, archive, manifest, receipt, calm>>

-----------------------------------------------------------------------------
(* The process is killed: files keep what was written.                      *)

Killed ==
  /\ ~calm /\ ~At("idle")
  /\ End
  /\ UNCHANGED <<active, starter, rolling, calm>>

Stabilise ==
  /\ ~calm /\ calm' = TRUE
  /\ UNCHANGED <<active, starter, rolling, proc>>

Steps ==
  \/ BeginEnds \/ BeginCleans \/ BeginAllocates
  \/ BeginDirectory \/ BeginTemporary \/ BeginState \/ BeginActivate
  \/ Load \/ SaveTemporary \/ SaveWrite \/ SaveReplace
  \/ ExclusiveNormalise \/ ExclusiveExists \/ ExclusiveReuse \/ ExclusiveDiscard
  \/ ExclusiveRefuse
  \/ ExclusiveCreate \/ ExclusiveFill \/ ExclusiveLink \/ ExclusiveUnlink
  \/ RollNormalise \/ RollDecide \/ RollResources \/ RollArchive
  \/ RollInventory \/ RollActivate \/ RollFinish

Next ==
  \/ Begin \/ Finish
  \/ \E n \in Nodes : \E s \in Collected[n] : Arm(n, s)
  \/ \E op \in Request!Transitions, n \in Nodes : Mark(op, n)
  \/ \E r \in Run : RollOver(r)
  \/ Steps \/ Killed

Spec == Init /\ [][Next]_vars

(* Commands run to their end; the operator repeats `begin` while there is   *)
(* no request and `rollover` while its transaction is pending.  The lock is *)
(* a blocking one, so a repeated command gets its turn.                     *)
RepeatBegin    == active = Nil /\ ~TxPending /\ Begin
RepeatRollover == TxPending /\ RollOver(tx.has.from)

FairSpec ==
  /\ Init /\ [][Next \/ Stabilise]_vars
  /\ WF_vars(Steps) /\ SF_vars(RepeatBegin) /\ SF_vars(RepeatRollover)

-----------------------------------------------------------------------------
(* Properties.                                                              *)

(* The type invariant.                                                      *)
JournalTypeOK ==
  /\ active \in Dir \cup {Nil}
  /\ starter \in {"NONE", "DIR", "TMP", "STATE"}
  /\ tx \in FileOf([from : Run, new : Run])
  /\ fresh \in FileOf(Run)
  /\ archive \in [Run -> Dir \cup {Nil}]
  /\ manifest \in [Run -> FileOf({Nil})]
  /\ receipt \in [Run -> FileOf(Run)]
  /\ proc \in Process
  /\ calm \in BOOLEAN

(* Wherever a command was killed, the journal on disk validates: the        *)
(* evidence of a phase is complete before the state names the phase, so     *)
(* _load never refuses the script's own journal.                            *)
JournalAlwaysLoads ==
  /\ active # Nil => Valid(active)
  /\ \A r \in Run : archive[r] # Nil => Valid(archive[r])

(* A receipt is true: its run is archived with a manifest, and the run it   *)
(* allocated is the active one or has itself been archived since.           *)
ReceiptIsTrue ==
  \A r \in Run : receipt[r].at \in Written =>
    LET new == receipt[r].has IN
    /\ archive[r] # Nil /\ manifest[r].at = "DONE"
    /\ archive[new] # Nil \/ (active # Nil /\ active.journal.run = new)

(* While a rollover is pending no command moves the request on, although    *)
(* the fresh journal may already be in place.                               *)
PendingRolloverBlocks ==
  [][TxPending /\ active # Nil /\ active' # Nil
       /\ active'.journal.run = active.journal.run
     => active' = active]_vars

(* Evidence is never lost or changed: the archived directory of a run and   *)
(* its receipt stay as they are for ever.                                   *)
ArchiveIsImmutable ==
  [][\A r \in Run :
       /\ archive[r] # Nil => archive'[r] = archive[r]
       /\ receipt[r].at = "DONE" => receipt'[r] = receipt[r]]_vars

(* Whatever is killed and repeated, the disk is one reboot request that     *)
(* moves as the script promises: fixed node order, no step back, a new run  *)
(* only for an aborted one and then exactly one.                            *)
ImplementsRequest == Request!RequestSpec

(* Once commands run to their end, a repeated begin ends with a request,    *)
(* wherever an earlier one was killed, but inside begin's own state write:  *)
(* the temporary file that leaves is refused by every later begin.          *)
(* active_edge_reboot_journal.py:2, "Maintain one crash-resumable           *)
(* serialized active-Edge reboot request."                                  *)
BeginRecoversElsewhere ==
  (calm /\ active = Nil /\ ~TxPending /\ starter # "TMP") ~> (active # Nil)

(* A pending rollover that is repeated finishes.                            *)
(* deploy/README.md:739, "An interruption leaves a protected rollover       *)
(* transaction ...; rerun the same rollover command with the same three     *)
(* exact values to finish it."                                              *)
RolloverFinishes == (calm /\ TxPending) ~> ~TxPending

(* What holds of that: wherever the rollover itself was killed, unless the  *)
(* terminal journal holds an empty or doubly linked file of an older kill.  *)
RolloverFinishesIfCountable ==
  (calm /\ TxPending
     /\ Countable(IF active # Nil THEN active ELSE archive[tx.has.from]))
  ~> ~TxPending

(* Whatever is on the disk after a kill can be loaded and is true.          *)
RecordsHold == JournalAlwaysLoads /\ ReceiptIsTrue

(* What was archived, and what a pending rollover is about to archive, does *)
(* not change any more.                                                     *)
RecordsAreFrozen == PendingRolloverBlocks /\ ArchiveIsImmutable

(* Repeating an interrupted begin or rollover ends it, but for the two      *)
(* left-overs stated above.                                                 *)
InterruptedCommandsFinish == BeginRecoversElsewhere /\ RolloverFinishesIfCountable
=============================================================================
