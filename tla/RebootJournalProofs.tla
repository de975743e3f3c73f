-------------------------- MODULE RebootJournalProofs --------------------------
(***************************************************************************)
(* Proofs about RebootJournal, for any set of runs and of preflights: the  *)
(* journal always loads and its receipts are true, archived evidence is    *)
(* frozen, and the files implement the abstract reboot request; and about  *)
(* RebootQualification, for any number of requests and of troubles: what   *)
(* the play does with that request.                                        *)
(*                                                                         *)
(* The journal's inductive invariant has a part about the files, true      *)
(* whoever is killed when (StoreOK), and a part about what the running     *)
(* command has established and relies on (ProcessOK).                      *)
(***************************************************************************)
EXTENDS RebootJournal, RebootQualification, TLAPS

-----------------------------------------------------------------------------
(* The files.                                                               *)

FreshOf(r) == NewDir(Request!FreshJournal(r))

(* A loss is recorded only when the node has left the phases before it, so  *)
(* that the peer observation is not rewritten under a recorded loss.        *)
LossIsLate(j) ==
  \A n \in Nodes : n \in j.lost => j.phase[n] \notin {"PENDING", "ARMED", "SCHEDULED"}

DirectoriesOK ==
  /\ active # Nil => /\ Valid(active) /\ LossIsLate(active.journal)
                     /\ archive[active.journal.run] = Nil
  /\ \A r \in Run : archive[r] # Nil =>
       /\ Valid(archive[r])
       /\ archive[r].journal.run = r
       /\ archive[r].journal.status = "ABORTED_RECONCILED"

TerminalIs(r) ==
  /\ active # Nil /\ active.journal.run = r
  /\ active.journal.status = "ABORTED_RECONCILED"

(* A transaction is before the archiving rename, between the two renames,   *)
(* or after the activating one.                                             *)
TransactionOK ==
  TxPending =>
    /\ tx.has.from # tx.has.new
    /\ archive[tx.has.new] = Nil
    /\ \/ archive[tx.has.from] = Nil /\ TerminalIs(tx.has.from)
       \/ /\ archive[tx.has.from] # Nil /\ tx.at = "DONE"
          /\ active \in {Nil, FreshOf(tx.has.new)}

EvidenceOK ==
  \A r \in Run :
    /\ manifest[r].at # "NONE" => archive[r] # Nil
    /\ receipt[r].at # "NONE" =>
         /\ manifest[r].at = "DONE"
         /\ \/ archive[receipt[r].has] # Nil
            \/ active # Nil /\ active.journal.run = receipt[r].has

StoreOK == DirectoriesOK /\ TransactionOK /\ EvidenceOK

-----------------------------------------------------------------------------
(* The running command.                                                     *)

SavePcs     == {"save", "save_write", "save_replace"}
MutatePcs   == {"preflight", "peer"} \cup SavePcs
BeginPcs    == {"build", "begin_write", "begin_state", "begin_activate"}
DonePcs     == {"activate", "receipt", "finish"}
ArchivedPcs == {"inventory", "manifest"} \cup DonePcs
ResumedPcs  == {"resources", "fresh", "archive"} \cup ArchivedPcs

BeginOK ==
  proc.pc \in BeginPcs =>
    proc.new \in Run /\ active = Nil /\ ~TxPending /\ archive[proc.new] = Nil

ArgumentsOK ==
  proc.pc \in {"load"} \cup MutatePcs =>
    /\ proc.cmd \in Request!Transitions \cup {"complete"}
    /\ proc.cmd # "complete" => proc.node \in Nodes
    /\ proc.cmd = "arm" => proc.snapshot \in Snapshot

MutateOK ==
  /\ proc.pc \in MutatePcs => active # Nil /\ ~TxPending /\ Permitted
  /\ proc.pc = "preflight" => proc.cmd = "arm"
  /\ proc.pc = "peer" => proc.cmd = "loss"
  /\ proc.pc \in SavePcs =>
       /\ proc.cmd = "arm" =>
            active.preflight[proc.node] = [at |-> "DONE", has |-> proc.snapshot]
       /\ proc.cmd = "loss" => active.peer[proc.node].at = "DONE"

RolloverOK ==
  /\ proc.pc \in {"normalise", "decide", "tx"} \cup ResumedPcs => proc.run \in Run
  /\ proc.pc \in {"tx"} \cup ResumedPcs => proc.new \in Run
  /\ proc.pc = "tx" =>
       TerminalIs(proc.run) /\ archive[proc.run] = Nil
         /\ archive[proc.new] = Nil /\ proc.new # proc.run
  /\ proc.pc \in ResumedPcs => tx = [at |-> "DONE", has |-> WantTransaction]
  /\ proc.pc \in ArchivedPcs => archive[proc.run] # Nil
  /\ proc.pc \in DonePcs => manifest[proc.run].at = "DONE"
  /\ proc.pc \in {"receipt", "finish"} => active = FreshDir

(* A staging file that the running process created holds what it wants.     *)
WritesOwn == proc.mine => Writing /\ File.at # "NONE" /\ File.has = Want

ProcessOK == BeginOK /\ ArgumentsOK /\ MutateOK /\ RolloverOK /\ WritesOwn

JournalInv == JournalTypeOK /\ StoreOK /\ ProcessOK

-----------------------------------------------------------------------------
(* Operators.                                                               *)

(* A fresh journal directory is one, holds no evidence and validates.       *)
LEMMA FreshDirectory ==
  ASSUME NEW r \in Run
  PROVE  /\ FreshOf(r) \in Dir /\ FreshOf(r) # Nil
         /\ Valid(FreshOf(r)) /\ LossIsLate(FreshOf(r).journal)
         /\ FreshOf(r).journal = Request!FreshJournal(r)
         /\ FreshOf(r).journal.run = r
         /\ FreshOf(r).journal.status = "IN_PROGRESS"
         /\ Request!FreshJournal(r) # Nil
<1>1. Request!FreshJournal(r) \in Request!Journal
  BY DEF Request!FreshJournal, Request!Journal, Request!Nodes, Request!Statuses,
         Request!NodePhases
<1>2. FreshOf(r) \in Dir
  BY <1>1 DEF FreshOf, NewDir, Dir, NoFile, FileOf, Nodes, Request!Nodes
<1>3. /\ FreshOf(r).journal = Request!FreshJournal(r)
      /\ FreshOf(r).journal.run = r
      /\ FreshOf(r).journal.status = "IN_PROGRESS"
      /\ \A n \in Nodes : FreshOf(r).journal.phase[n] = "PENDING"
      /\ FreshOf(r).journal.lost = {}
  BY DEF FreshOf, NewDir, Request!FreshJournal, Nodes
<1> QED
  BY <1>1, <1>2, <1>3, NilAssumption DEF Valid, LossIsLate

(* What _mutate and _complete make of a journal is one again; the run stays.*)
LEMMA NextJournalOK ==
  ASSUME JournalTypeOK, ArgumentsOK, proc.pc \in MutatePcs, active # Nil, Permitted
  PROVE  /\ NextJournal \in Request!Journal
         /\ NextJournal.run = active.journal.run
<1>1. active.journal \in Request!Journal
  BY DEF JournalTypeOK, Dir
<1>2. CASE proc.cmd = "complete"
  BY <1>1, <1>2 DEF NextJournal, Request!Completed, Request!Journal, Request!Statuses
<1>3. CASE proc.cmd # "complete"
  <2>1. /\ proc.cmd \in Request!Transitions /\ proc.node \in Nodes
        /\ proc.cmd = "arm" => proc.snapshot \in Snapshot
    BY <1>3 DEF ArgumentsOK
  <2>2. Request!To[proc.cmd] \in Request!NodePhases
    BY <2>1 DEF Request!Transitions, Request!From, Request!To, Request!NodePhases
  <2> DEFINE j == active.journal
             status == IF proc.cmd = "abort" THEN "ABORTED_RECONCILED" ELSE j.status
             current == IF proc.cmd = "qualified"
                          THEN IF proc.node = "sbc1" THEN "sbc2" ELSE Nil ELSE j.current
             phase == [j.phase EXCEPT ![proc.node] = Request!To[proc.cmd]]
             pre == [j.pre EXCEPT ![proc.node] = IF proc.cmd = "arm" THEN proc.snapshot ELSE @]
             lost == IF proc.cmd = "loss" THEN j.lost \cup {proc.node} ELSE j.lost
  <2>3. NextJournal = [run |-> j.run, status |-> status, current |-> current,
                       phase |-> phase, pre |-> pre, lost |-> lost]
    BY <1>1, <1>3 DEF NextJournal, Request!Apply, Request!Journal
  <2>4. /\ status \in Request!Statuses /\ current \in Request!Nodes \cup {Nil}
        /\ lost \subseteq Request!Nodes
    BY <1>1, <2>1 DEF Request!Journal, Request!Statuses, Request!Nodes, Nodes
  <2>5. phase \in [Request!Nodes -> Request!NodePhases]
    BY <1>1, <2>2 DEF Request!Journal
  <2>6. pre \in [Request!Nodes -> Snapshot \cup {Nil}]
    BY <1>1, <2>1 DEF Request!Journal
  <2> HIDE DEF j, status, current, phase, pre, lost
  <2> QED BY <1>1, <2>3, <2>4, <2>5, <2>6 DEF j, Request!Journal
<1> QED BY <1>2, <1>3

-----------------------------------------------------------------------------
(* Steps that leave the files, or the process, alone.                       *)

LEMMA StoreStays ==
  ASSUME StoreOK, UNCHANGED <<active, rolling>>
  PROVE  StoreOK'
BY DEF StoreOK, DirectoriesOK, TransactionOK, EvidenceOK, rolling, TerminalIs, TxPending

LEMMA TypesStay ==
  ASSUME JournalTypeOK, UNCHANGED <<active, rolling>>,
         starter' \in {"NONE", "DIR", "TMP", "STATE"}, proc' \in Process,
         calm' \in BOOLEAN
  PROVE  JournalTypeOK'
BY DEF JournalTypeOK, rolling

LEMMA ProcessStays ==
  ASSUME ProcessOK, UNCHANGED <<active, rolling, proc>>
  PROVE  ProcessOK'
<1>1. BeginOK'
  BY DEF ProcessOK, BeginOK, rolling, TxPending
<1>2. ArgumentsOK'
  BY DEF ProcessOK, ArgumentsOK
<1>3. MutateOK'
  BY DEF ProcessOK, MutateOK, rolling, TxPending, Permitted
<1>4. RolloverOK'
  BY DEF ProcessOK, RolloverOK, rolling, TerminalIs, FreshDir, WantTransaction
<1>5. WritesOwn'
  BY DEF ProcessOK, WritesOwn, rolling, Writing, File, Want, At, WantTransaction,
         WantReceipt
<1> QED BY <1>1, <1>2, <1>3, <1>4, <1>5 DEF ProcessOK

(* The end of a command, or of the process that ran it.                     *)
LEMMA EndsOK ==
  ASSUME End
  PROVE  ProcessOK' /\ proc' \in Process
<1>1. proc' \in Process /\ proc'.pc = "idle" /\ ~proc'.mine
  BY DEF End, IdleProcess, Process, Pcs
<1> QED
  BY <1>1 DEF ProcessOK, BeginOK, ArgumentsOK, MutateOK, RolloverOK, WritesOwn,
       Writing, BeginPcs, MutatePcs, SavePcs, ResumedPcs, ArchivedPcs, DonePcs,
       ExclusiveWrites

(* A command that ends without touching the journal or the rollover.        *)
LEMMA EndKeepsInv ==
  ASSUME JournalInv, End, UNCHANGED <<active, rolling>>,
         starter' \in {"NONE", "DIR", "TMP", "STATE"}, calm' \in BOOLEAN
  PROVE  JournalInv'
BY EndsOK, StoreStays, TypesStay DEF JournalInv

LEMMA InitInv == Init => JournalInv
<1> SUFFICES ASSUME Init PROVE JournalInv
  OBVIOUS
<1>1. JournalTypeOK
  BY DEF Init, JournalTypeOK, FileOf, IdleProcess, Process, Pcs
<1>2. StoreOK
  BY DEF Init, StoreOK, DirectoriesOK, TransactionOK, EvidenceOK, TxPending, Written,
         NoFile
<1>3. ProcessOK
  BY DEF Init, ProcessOK, BeginOK, ArgumentsOK, MutateOK, RolloverOK, WritesOwn,
       Writing, BeginPcs, MutatePcs, SavePcs, ResumedPcs, ArchivedPcs, DonePcs,
       ExclusiveWrites, IdleProcess
<1> QED BY <1>1, <1>2, <1>3 DEF JournalInv

-----------------------------------------------------------------------------
(* A new command.                                                           *)

LEMMA InvokeKeepsInv ==
  ASSUME JournalInv, NEW cmd \in Commands, NEW node \in Nodes \cup {Nil},
         NEW run \in Run \cup {Nil}, NEW snapshot \in Snapshot \cup {Nil},
         Invoke(cmd, node, run, snapshot),
         cmd \in Request!Transitions => node \in Nodes,
         cmd = "arm" => snapshot \in Snapshot,
         cmd = "rollover" => run \in Run
  PROVE  JournalInv'
<1>1. /\ proc' \in Process
      /\ proc'.cmd = cmd /\ proc'.node = node /\ proc'.snapshot = snapshot
      /\ proc'.run = run /\ proc'.mine = FALSE
      /\ \/ proc'.pc = "begin"
         \/ proc'.pc = "normalise" /\ cmd = "rollover"
         \/ proc'.pc = "load" /\ cmd \notin {"begin", "rollover"}
  BY DEF Invoke, IdleProcess, Process, Pcs
<1>2. UNCHANGED <<active, rolling, starter, calm>>
  BY DEF Invoke
<1>3. BeginOK' /\ ArgumentsOK' /\ MutateOK' /\ RolloverOK' /\ WritesOwn'
  BY <1>1 DEF BeginOK, ArgumentsOK, MutateOK, RolloverOK, WritesOwn, Commands,
       Writing, BeginPcs, MutatePcs, SavePcs, ResumedPcs, ArchivedPcs, DonePcs,
       ExclusiveWrites
<1> QED
  BY <1>1, <1>2, <1>3, StoreStays, TypesStay DEF JournalInv, ProcessOK, JournalTypeOK

LEMMA InvocationKeepsInv ==
  ASSUME JournalInv,
         \/ Begin \/ Finish
         \/ \E n \in Nodes : \E s \in Collected[n] : Arm(n, s)
         \/ \E op \in Request!Transitions, n \in Nodes : Mark(op, n)
         \/ \E r \in Run : RollOver(r)
  PROVE  JournalInv'
<1>0. /\ Commands = Request!Transitions \cup {"begin", "complete", "rollover"}
      /\ Request!Transitions =
           {"arm", "scheduled", "loss", "reconnected", "qualified", "abort"}
  BY DEF Commands, Request!Transitions, Request!From
<1>1. CASE Begin
  BY <1>0, <1>1, InvokeKeepsInv DEF Begin
<1>2. CASE Finish
  BY <1>0, <1>2, InvokeKeepsInv DEF Finish
<1>3. CASE \E n \in Nodes : \E s \in Collected[n] : Arm(n, s)
  <2>1. PICK n \in Nodes, s \in Snapshot : Arm(n, s)
    BY <1>3, CollectedAssumption DEF Nodes, Request!Nodes
  <2> QED
    BY <1>0, <2>1, InvokeKeepsInv DEF Arm
<1>4. CASE \E op \in Request!Transitions, n \in Nodes : Mark(op, n)
  <2>1. PICK op \in Request!Transitions, n \in Nodes : Mark(op, n)
    BY <1>4
  <2> QED
    BY <1>0, <2>1, InvokeKeepsInv DEF Mark
<1>5. CASE \E r \in Run : RollOver(r)
  BY <1>0, <1>5, InvokeKeepsInv DEF RollOver
<1> QED BY <1>1, <1>2, <1>3, <1>4, <1>5

-----------------------------------------------------------------------------
(* begin                                                                    *)

LEMMA GotoOK ==
  ASSUME NEW pc \in Pcs, JournalTypeOK, Goto(pc)
  PROVE  /\ proc' \in Process /\ proc'.pc = pc /\ proc'.mine = FALSE
         /\ proc'.cmd = proc.cmd /\ proc'.node = proc.node /\ proc'.run = proc.run
         /\ proc'.snapshot = proc.snapshot /\ proc'.new = proc.new
BY DEF Goto, JournalTypeOK, Process

LEMMA AllocatesKeepsInv ==
  ASSUME JournalInv, BeginAllocates
  PROVE  JournalInv'
<1>1. PICK r \in Run : Unused(r) /\ proc' = [proc EXCEPT !.pc = "build", !.new = r]
  BY DEF BeginAllocates
<1>2. /\ proc' \in Process /\ proc'.pc = "build" /\ proc'.new = r
      /\ proc'.mine = proc.mine
  BY <1>1 DEF JournalInv, JournalTypeOK, Process, Pcs
<1>3. /\ UNCHANGED <<active, rolling, starter, calm>> /\ ~TxPending /\ active = Nil
      /\ ~proc.mine
  BY DEF BeginAllocates, At, JournalInv, ProcessOK, WritesOwn, Writing, ExclusiveWrites
<1>4. ProcessOK'
  BY <1>1, <1>2, <1>3
  DEF ProcessOK, BeginOK, ArgumentsOK, MutateOK, RolloverOK, WritesOwn,
      Unused, TxPending, rolling,
      Writing, BeginPcs, MutatePcs, SavePcs, ResumedPcs, ArchivedPcs, DonePcs,
      ExclusiveWrites
<1> QED
  BY <1>2, <1>3, <1>4, StoreStays, TypesStay DEF JournalInv, JournalTypeOK

LEMMA BeginStepKeepsInv ==
  ASSUME JournalInv, BeginDirectory \/ BeginTemporary \/ BeginState
  PROVE  JournalInv'
<1>1. PICK pc \in BeginPcs : /\ Goto(pc) /\ proc.pc \in BeginPcs
                             /\ UNCHANGED <<active, rolling, calm>>
                             /\ starter' \in {"DIR", "TMP", "STATE"}
  BY DEF BeginDirectory, BeginTemporary, BeginState, BeginStep, BeginPcs, At
<1>2. /\ proc' \in Process /\ proc'.pc = pc /\ proc'.new = proc.new
      /\ proc'.mine = FALSE
  BY <1>1, GotoOK DEF BeginPcs, Pcs, JournalInv
<1>3. ProcessOK'
  BY <1>1, <1>2
  DEF JournalInv, ProcessOK, BeginOK, ArgumentsOK, MutateOK, RolloverOK, WritesOwn,
      TxPending, rolling, Writing, BeginPcs, MutatePcs, SavePcs, ResumedPcs,
      ArchivedPcs, DonePcs, ExclusiveWrites
<1> QED
  BY <1>1, <1>2, <1>3, StoreStays, TypesStay DEF JournalInv, JournalTypeOK

LEMMA ActivateKeepsInv ==
  ASSUME JournalInv, BeginActivate
  PROVE  JournalInv'
<1>1. /\ proc.new \in Run /\ active = Nil /\ ~TxPending /\ archive[proc.new] = Nil
      /\ active' = FreshOf(proc.new) /\ starter' = "NONE" /\ End
      /\ UNCHANGED <<rolling, calm>>
  BY DEF JournalInv, ProcessOK, BeginOK, BeginActivate, BeginPcs, At, FreshOf
<1>2. JournalTypeOK'
  BY <1>1, FreshDirectory, EndsOK DEF JournalInv, JournalTypeOK, rolling
<1>3. DirectoriesOK'
  BY <1>1, FreshDirectory DEF JournalInv, StoreOK, DirectoriesOK, rolling
<1>4. TransactionOK' /\ EvidenceOK'
  BY <1>1 DEF JournalInv, StoreOK, TransactionOK, EvidenceOK, rolling, TxPending
<1> QED BY <1>1, <1>2, <1>3, <1>4, EndsOK DEF JournalInv, StoreOK

-----------------------------------------------------------------------------
(* _mutate and _complete                                                    *)

LEMMA LoadKeepsInv ==
  ASSUME JournalInv, Load
  PROVE  JournalInv'
<1>0. UNCHANGED <<active, starter, rolling, calm>> /\ starter' = starter
  BY DEF Load
<1>1. CASE End
  BY <1>0, <1>1, EndKeepsInv DEF JournalInv, JournalTypeOK
<1>2. CASE ~End
  <2>1. PICK pc \in {"preflight", "peer", "save"} :
          /\ Loads /\ Permitted /\ Goto(pc)
          /\ pc = IF proc.cmd = "arm" THEN "preflight"
                  ELSE IF proc.cmd = "loss" THEN "peer" ELSE "save"
    BY <1>2 DEF Load
  <2>2. /\ proc' \in Process /\ proc'.pc = pc /\ proc'.cmd = proc.cmd
        /\ proc'.node = proc.node /\ proc'.snapshot = proc.snapshot
        /\ proc'.mine = FALSE
    BY <2>1, GotoOK DEF JournalInv, Pcs, ExclusiveWrites
  <2>3. ArgumentsOK'
    BY <1>2, <2>1, <2>2 DEF JournalInv, ProcessOK, ArgumentsOK, Load, At
  <2>4. MutateOK'
    BY <1>0, <2>1, <2>2
    DEF MutateOK, SavePcs, Loads, rolling, TxPending, Permitted
  <2>5. BeginOK' /\ RolloverOK' /\ WritesOwn'
    BY <2>1, <2>2
    DEF BeginOK, RolloverOK, WritesOwn, BeginPcs, ResumedPcs, ArchivedPcs, DonePcs
  <2> QED
    BY <1>0, <2>2, <2>3, <2>4, <2>5, StoreStays, TypesStay
    DEF JournalInv, ProcessOK, JournalTypeOK
<1> QED BY <1>1, <1>2

(* The temporary file of state.json is not part of what the record says.    *)
LEMMA TemporaryKeepsStore ==
  ASSUME JournalInv, active # Nil, ~TxPending, UNCHANGED rolling,
         NEW t \in {"NONE", "EMPTY", "DATA"}, NEW b \in BOOLEAN,
         active' = [active EXCEPT !.tmp = t, !.debris = b]
  PROVE  /\ StoreOK' /\ active' \in Dir /\ active' # Nil
         /\ active'.journal = active.journal
         /\ active'.preflight = active.preflight /\ active'.peer = active.peer
<1>1. /\ active' \in Dir /\ active'.journal = active.journal
      /\ active'.preflight = active.preflight /\ active'.peer = active.peer
  BY DEF JournalInv, JournalTypeOK, Dir
<1>2. active' # Nil
  BY <1>1, NilAssumption
<1>3. DirectoriesOK'
  BY <1>1, <1>2 DEF JournalInv, StoreOK, DirectoriesOK, rolling, Valid, LossIsLate
<1>4. TransactionOK' /\ EvidenceOK'
  BY <1>1, <1>2 DEF JournalInv, StoreOK, TransactionOK, EvidenceOK, rolling, TxPending
<1> QED BY <1>1, <1>2, <1>3, <1>4 DEF StoreOK

LEMMA SaveStepKeepsInv ==
  ASSUME JournalInv, SaveTemporary \/ SaveWrite
  PROVE  JournalInv'
<1>1. PICK pc \in SavePcs : /\ proc.pc \in SavePcs /\ Goto(pc)
                            /\ UNCHANGED <<starter, rolling, calm>>
  BY DEF SaveTemporary, SaveWrite, SavePcs, At
<1>2. active # Nil /\ ~TxPending
  BY <1>1 DEF JournalInv, ProcessOK, MutateOK, MutatePcs
<1>3. PICK t \in {"NONE", "EMPTY", "DATA"}, b \in BOOLEAN :
        active' = [active EXCEPT !.tmp = t, !.debris = b]
  <2>0. active.debris \in BOOLEAN /\ active \in Dir
    BY <1>2 DEF JournalInv, JournalTypeOK, Dir
  <2>1. CASE SaveTemporary
    BY <2>0, <2>1 DEF SaveTemporary
  <2>2. CASE SaveWrite
    <3>1. active' = [active EXCEPT !.tmp = "DATA", !.debris = active.debris]
      BY <2>0, <2>2 DEF SaveWrite, Dir
    <3> QED BY <2>0, <3>1
  <2> QED BY <2>1, <2>2
<1>4. /\ StoreOK' /\ active' \in Dir /\ active' # Nil
      /\ active'.journal = active.journal
      /\ active'.preflight = active.preflight /\ active'.peer = active.peer
  BY <1>1, <1>2, <1>3, TemporaryKeepsStore
<1>5. /\ proc' \in Process /\ proc'.pc = pc /\ proc'.cmd = proc.cmd
      /\ proc'.node = proc.node /\ proc'.snapshot = proc.snapshot
      /\ proc'.mine = FALSE
  BY <1>1, GotoOK DEF JournalInv, SavePcs, Pcs
<1>6. JournalTypeOK'
  BY <1>1, <1>4, <1>5 DEF JournalInv, JournalTypeOK, rolling
<1>7. ArgumentsOK'
  BY <1>1, <1>5 DEF JournalInv, ProcessOK, ArgumentsOK, MutatePcs
<1>8. MutateOK'
  BY <1>1, <1>2, <1>4, <1>5
  DEF JournalInv, ProcessOK, MutateOK, MutatePcs, SavePcs, rolling, TxPending, Permitted
<1>9. BeginOK' /\ RolloverOK' /\ WritesOwn'
  BY <1>1, <1>5
  DEF BeginOK, RolloverOK, WritesOwn, Writing, BeginPcs, SavePcs, ResumedPcs,
      ArchivedPcs, DonePcs, ExclusiveWrites
<1> QED BY <1>4, <1>6, <1>7, <1>8, <1>9 DEF JournalInv, ProcessOK

(* The record that replaces state.json is backed by the evidence before it. *)
LEMMA NextJournalValid ==
  ASSUME JournalInv, proc.pc \in SavePcs, NEW d \in Dir,
         d.journal = NextJournal, d.preflight = active.preflight, d.peer = active.peer
  PROVE  Valid(d) /\ LossIsLate(d.journal)
<1>1. /\ active \in Dir /\ Valid(active) /\ LossIsLate(active.journal) /\ Permitted
  BY DEF JournalInv, JournalTypeOK, StoreOK, DirectoriesOK, ProcessOK, MutateOK, MutatePcs
<1>2. CASE proc.cmd = "complete"
  BY <1>1, <1>2 DEF NextJournal, Request!Completed, Valid, LossIsLate, Dir,
                    Request!Journal
<1>3. CASE proc.cmd # "complete"
  <2>1. /\ proc.cmd \in Request!Transitions /\ proc.node \in Nodes
        /\ proc.cmd = "arm" =>
             active.preflight[proc.node] = [at |-> "DONE", has |-> proc.snapshot]
        /\ proc.cmd = "loss" => active.peer[proc.node].at = "DONE"
        /\ active.journal.phase[proc.node] \in Request!From[proc.cmd]
    BY <1>1, <1>3 DEF JournalInv, ProcessOK, ArgumentsOK, MutateOK, MutatePcs, Permitted,
                      Request!Applicable
  <2>2. /\ d.journal.phase =
             [active.journal.phase EXCEPT ![proc.node] = Request!To[proc.cmd]]
        /\ d.journal.pre =
             [active.journal.pre EXCEPT
                ![proc.node] = IF proc.cmd = "arm" THEN proc.snapshot ELSE @]
        /\ d.journal.lost = IF proc.cmd = "loss"
                            THEN active.journal.lost \cup {proc.node}
                            ELSE active.journal.lost
        /\ active.journal.phase \in [Nodes -> Request!NodePhases]
        /\ active.journal.pre \in [Nodes -> Snapshot \cup {Nil}]
    BY <1>1, <1>3 DEF NextJournal, Request!Apply, Dir, Request!Journal, Nodes
  <2>3. \A n \in Nodes \ {proc.node} :
          /\ d.journal.phase[n] = active.journal.phase[n]
          /\ d.journal.pre[n] = active.journal.pre[n]
          /\ n \in d.journal.lost <=> n \in active.journal.lost
    BY <2>1, <2>2
  <2>4. /\ d.preflight[proc.node] = [at |-> "DONE", has |-> d.journal.pre[proc.node]]
        /\ proc.node \in d.journal.lost => d.peer[proc.node].at = "DONE"
        /\ proc.node \in d.journal.lost =>
             d.journal.phase[proc.node] \notin {"PENDING", "ARMED", "SCHEDULED"}
    BY <1>1, <2>1, <2>2 DEF Valid, LossIsLate, Request!Transitions, Request!From,
                            Request!To, Request!NodePhases
  <2> QED BY <1>1, <2>3, <2>4 DEF Valid, LossIsLate
<1> QED BY <1>2, <1>3

LEMMA ReplaceKeepsInv ==
  ASSUME JournalInv, SaveReplace
  PROVE  JournalInv'
<1>1. /\ proc.pc \in SavePcs /\ active \in Dir /\ active # Nil /\ ~TxPending
      /\ End /\ UNCHANGED <<starter, rolling, calm>>
      /\ active' = [active EXCEPT !.tmp = "NONE", !.journal = NextJournal]
  BY DEF JournalInv, JournalTypeOK, ProcessOK, MutateOK, MutatePcs, SaveReplace,
         SavePcs, At
<1>2. /\ NextJournal \in Request!Journal /\ NextJournal.run = active.journal.run
  BY <1>1, NextJournalOK DEF JournalInv, ProcessOK, MutateOK, MutatePcs
<1>3. /\ active' \in Dir /\ active'.journal = NextJournal
      /\ active'.preflight = active.preflight /\ active'.peer = active.peer
  BY <1>1, <1>2 DEF Dir
<1>4. active' # Nil
  BY <1>3, NilAssumption
<1>5. Valid(active') /\ LossIsLate(active'.journal)
  BY <1>1, <1>3, NextJournalValid
<1>6. JournalTypeOK'
  BY <1>1, <1>3, EndsOK DEF JournalInv, JournalTypeOK, rolling
<1>7. DirectoriesOK'
  BY <1>1, <1>2, <1>3, <1>4, <1>5 DEF JournalInv, StoreOK, DirectoriesOK, rolling
<1>8. TransactionOK' /\ EvidenceOK'
  BY <1>1, <1>2, <1>3, <1>4
  DEF JournalInv, StoreOK, TransactionOK, EvidenceOK, rolling, TxPending
<1> QED BY <1>1, <1>6, <1>7, <1>8, EndsOK DEF JournalInv, StoreOK

-----------------------------------------------------------------------------
(* Exclusive files.                                                         *)

LEMMA FileOfFacts ==
  ASSUME NEW C, NEW f \in FileOf(C)
  PROVE  /\ f.at \in {"NONE", "EMPTY", "PART", "FULL", "LINKED", "DONE"}
         /\ f = [at |-> f.at, has |-> f.has]
         /\ f.at = "NONE" => f = NoFile
         /\ f.at # "NONE" => f.has \in C
BY DEF FileOf, NoFile, Written

(* What the running writer may put into its file.                           *)
Contents == CASE At("preflight") -> Snapshot
              [] At("tx")        -> [from : Run, new : Run]
              [] At("fresh")     -> Run
              [] At("receipt")   -> Run
              [] OTHER           -> {Nil}

LEMMA WriterFacts ==
  ASSUME JournalInv, Writing
  PROVE  /\ File \in FileOf(Contents) /\ Want \in Contents
         /\ proc.pc \in {"preflight", "peer"} =>
              /\ active \in Dir /\ active # Nil /\ ~TxPending /\ proc.node \in Nodes
              /\ active.preflight \in [Nodes -> FileOf(Snapshot)]
              /\ active.peer \in [Nodes -> FileOf({Nil})]
         /\ proc.pc \in {"tx", "fresh", "manifest", "receipt"} =>
              proc.run \in Run /\ proc.new \in Run
<1>1. /\ proc.pc \in {"preflight", "peer"} =>
           /\ active \in Dir /\ active # Nil /\ ~TxPending /\ proc.node \in Nodes
           /\ active.preflight \in [Nodes -> FileOf(Snapshot)]
           /\ active.peer \in [Nodes -> FileOf({Nil})]
      /\ proc.pc = "preflight" => proc.snapshot \in Snapshot
  BY DEF JournalInv, JournalTypeOK, ProcessOK, ArgumentsOK, MutateOK, MutatePcs, Dir
<1>2. proc.pc \in {"tx", "fresh", "manifest", "receipt"} =>
        proc.run \in Run /\ proc.new \in Run
  BY DEF JournalInv, ProcessOK, RolloverOK, ResumedPcs, ArchivedPcs, DonePcs
<1>3. CASE proc.pc = "preflight"
  BY <1>1, <1>3 DEF File, Want, Contents, At
<1>4. CASE proc.pc = "peer"
  BY <1>1, <1>4 DEF File, Want, Contents, At
<1>5. CASE proc.pc = "tx"
  BY <1>2, <1>5 DEF File, Want, Contents, At, WantTransaction, JournalInv, JournalTypeOK
<1>6. CASE proc.pc = "fresh"
  BY <1>2, <1>6 DEF File, Want, Contents, At, JournalInv, JournalTypeOK
<1>7. CASE proc.pc = "manifest"
  BY <1>2, <1>7 DEF File, Want, Contents, At, JournalInv, JournalTypeOK
<1>8. CASE proc.pc = "receipt"
  BY <1>2, <1>8 DEF File, Want, Contents, At, JournalInv, JournalTypeOK, WantReceipt
<1> QED
  BY <1>1, <1>2, <1>3, <1>4, <1>5, <1>6, <1>7, <1>8 DEF Writing, ExclusiveWrites

(* A write changes the file of the running writer, and no other.            *)
LEMMA PutFileIs ==
  ASSUME NEW f, PutFile(f)
  PROVE  /\ UNCHANGED <<starter, archive, calm>>
         /\ proc.pc = "preflight" =>
              /\ active' = [active EXCEPT !.preflight[proc.node] = f]
              /\ UNCHANGED rolling
         /\ proc.pc = "peer" =>
              /\ active' = [active EXCEPT !.peer[proc.node] = f]
              /\ UNCHANGED rolling
         /\ proc.pc = "tx" =>
              tx' = f /\ UNCHANGED <<active, fresh, manifest, receipt>>
         /\ proc.pc = "fresh" =>
              fresh' = f /\ UNCHANGED <<active, tx, manifest, receipt>>
         /\ proc.pc = "manifest" =>
              /\ manifest' = [manifest EXCEPT ![proc.run] = f]
              /\ UNCHANGED <<active, tx, fresh, receipt>>
         /\ proc.pc = "receipt" =>
              /\ receipt' = [receipt EXCEPT ![proc.run] = f]
              /\ UNCHANGED <<active, tx, fresh, manifest>>
BY DEF PutFile, At, rolling

(* Writing back what the file holds is no write.                            *)
LEMMA SamePut ==
  ASSUME JournalInv, Writing, UNCHANGED <<active, starter, rolling, calm>>
  PROVE  PutFile(File)
<1>1. CASE proc.pc = "preflight"
  <2>1. active = [active EXCEPT !.preflight[proc.node] = active.preflight[proc.node]]
    BY <1>1, WriterFacts DEF Dir
  <2> QED BY <1>1, <2>1 DEF PutFile, File, At, rolling
<1>2. CASE proc.pc = "peer"
  <2>1. active = [active EXCEPT !.peer[proc.node] = active.peer[proc.node]]
    BY <1>2, WriterFacts DEF Dir
  <2> QED BY <1>2, <2>1 DEF PutFile, File, At, rolling
<1>3. CASE proc.pc \in {"tx", "fresh"}
  BY <1>3 DEF PutFile, File, At, rolling
<1>4. CASE proc.pc = "manifest"
  <2>1. manifest = [manifest EXCEPT ![proc.run] = manifest[proc.run]]
    BY <1>4, WriterFacts DEF JournalInv, JournalTypeOK
  <2> QED BY <1>4, <2>1 DEF PutFile, File, At, rolling
<1>5. CASE proc.pc = "receipt"
  <2>1. receipt = [receipt EXCEPT ![proc.run] = receipt[proc.run]]
    BY <1>5, WriterFacts DEF JournalInv, JournalTypeOK
  <2> QED BY <1>5, <2>1 DEF PutFile, File, At, rolling
<1> QED BY <1>1, <1>2, <1>3, <1>4, <1>5 DEF Writing, ExclusiveWrites

(* What the steps of _exclusive_atomic_write put into the file: nothing,    *)
(* the wanted contents, or the contents a target had already.               *)
Puts(f) ==
  /\ PutFile(f) /\ f \in FileOf(Contents)
  /\ \/ f = NoFile /\ File.at \notin Written
     \/ f.at # "NONE" /\ f.has = Want /\ File.at # "DONE"
     \/ f.at = "DONE" /\ f.has = File.has /\ File.at \in Written

LEMMA PutKeepsTypes ==
  ASSUME JournalInv, Writing, NEW f \in FileOf(Contents), PutFile(f)
  PROVE  /\ proc.pc \in {"preflight", "peer"} => active' \in Dir
         /\ proc' \in Process => JournalTypeOK'
<1>1. CASE proc.pc = "preflight"
  <2>1. f \in FileOf(Snapshot)
    BY <1>1 DEF Contents, At
  <2>2. active' \in Dir
    BY <1>1, <2>1, WriterFacts, PutFileIs DEF Dir
  <2> QED BY <1>1, <2>2, PutFileIs DEF JournalInv, JournalTypeOK, rolling
<1>2. CASE proc.pc = "peer"
  <2>1. f \in FileOf({Nil})
    BY <1>2 DEF Contents, At
  <2>2. active' \in Dir
    BY <1>2, <2>1, WriterFacts, PutFileIs DEF Dir
  <2> QED BY <1>2, <2>2, PutFileIs DEF JournalInv, JournalTypeOK, rolling
<1>3. CASE proc.pc = "tx"
  <2>1. f \in FileOf([from : Run, new : Run])
    BY <1>3 DEF Contents, At
  <2> QED BY <1>3, <2>1, PutFileIs DEF JournalInv, JournalTypeOK
<1>4. CASE proc.pc = "fresh"
  BY <1>4, PutFileIs DEF JournalInv, JournalTypeOK, Contents, At
<1>5. CASE proc.pc = "manifest"
  <2>1. f \in FileOf({Nil})
    BY <1>5 DEF Contents, At
  <2>2. manifest' \in [Run -> FileOf({Nil})]
    <3>1. proc.run \in Run /\ manifest \in [Run -> FileOf({Nil})]
      BY <1>5, WriterFacts DEF JournalInv, JournalTypeOK
    <3>2. manifest' = [manifest EXCEPT ![proc.run] = f]
      BY <1>5, PutFileIs
    <3> QED BY <2>1, <3>1, <3>2
  <2> QED BY <1>5, <2>2, PutFileIs DEF JournalInv, JournalTypeOK
<1>6. CASE proc.pc = "receipt"
  BY <1>6, PutFileIs, WriterFacts DEF JournalInv, JournalTypeOK, Contents, At
<1> QED
  BY <1>1, <1>2, <1>3, <1>4, <1>5, <1>6 DEF Writing, ExclusiveWrites

(* Evidence is written before the record counts on it.                      *)
LEMMA PutEvidence ==
  ASSUME JournalInv, proc.pc \in {"preflight", "peer"}, NEW f, PutFile(f), active' \in Dir
  PROVE  /\ active' # Nil /\ active'.journal = active.journal /\ Valid(active')
         /\ proc.pc = "preflight" => active'.preflight[proc.node] = f
         /\ proc.pc = "peer" => active'.peer[proc.node] = f
<1>0. Writing
  BY DEF Writing, ExclusiveWrites
<1>1. /\ active \in Dir /\ active # Nil /\ proc.node \in Nodes
      /\ Valid(active) /\ LossIsLate(active.journal)
      /\ active.preflight \in [Nodes -> FileOf(Snapshot)]
      /\ active.peer \in [Nodes -> FileOf({Nil})]
  BY <1>0, WriterFacts DEF JournalInv, StoreOK, DirectoriesOK
<1>2. active' # Nil
  BY NilAssumption
<1>3. CASE proc.pc = "preflight"
  <2>1. active.journal.phase[proc.node] = "PENDING"
    BY <1>3 DEF JournalInv, ProcessOK, MutateOK, MutatePcs, Permitted, Request!Applicable,
                Request!From
  <2>2. /\ active'.journal = active.journal /\ active'.peer = active.peer
        /\ active'.preflight = [active.preflight EXCEPT ![proc.node] = f]
    BY <1>1, <1>3, PutFileIs DEF Dir
  <2> QED BY <1>1, <1>2, <1>3, <2>1, <2>2 DEF Valid
<1>4. CASE proc.pc = "peer"
  <2>1. active.journal.phase[proc.node] = "SCHEDULED"
    BY <1>4 DEF JournalInv, ProcessOK, MutateOK, MutatePcs, Permitted, Request!Applicable,
                Request!From
  <2>2. proc.node \notin active.journal.lost
    BY <1>1, <2>1 DEF LossIsLate
  <2>3. /\ active'.journal = active.journal /\ active'.preflight = active.preflight
        /\ active'.peer = [active.peer EXCEPT ![proc.node] = f]
    BY <1>1, <1>4, PutFileIs DEF Dir
  <2> QED BY <1>1, <1>2, <1>4, <2>2, <2>3 DEF Valid
<1> QED BY <1>3, <1>4

LEMMA PutKeepsStore ==
  ASSUME JournalInv, Writing, NEW f, Puts(f)
  PROVE  StoreOK'
<1>0. /\ DirectoriesOK /\ TransactionOK /\ EvidenceOK /\ UNCHANGED archive
      /\ receipt \in [Run -> FileOf(Run)] /\ manifest \in [Run -> FileOf({Nil})]
  BY PutFileIs DEF JournalInv, JournalTypeOK, StoreOK, Puts
<1>1. CASE proc.pc \in {"preflight", "peer"}
  <2>1. /\ active # Nil /\ active' # Nil /\ active'.journal = active.journal
        /\ Valid(active') /\ UNCHANGED rolling /\ ~TxPending
    BY <1>1, PutKeepsTypes, PutEvidence, PutFileIs, WriterFacts DEF Puts
  <2>2. DirectoriesOK'
    BY <1>0, <2>1 DEF DirectoriesOK, rolling
  <2>3. TransactionOK' /\ EvidenceOK'
    BY <1>0, <2>1 DEF TransactionOK, EvidenceOK, rolling, TxPending
  <2> QED BY <2>2, <2>3 DEF StoreOK
<1>2. CASE proc.pc = "tx"
  <2>1. /\ tx' = f /\ UNCHANGED <<active, manifest, receipt>>
        /\ File = tx /\ Want = WantTransaction
        /\ TerminalIs(proc.run) /\ archive[proc.run] = Nil
        /\ archive[proc.new] = Nil /\ proc.new # proc.run
    BY <1>2, PutFileIs DEF Puts, File, Want, At, JournalInv, ProcessOK, RolloverOK
  <2>2. TransactionOK'
    <3>1. CASE f = NoFile
      BY <2>1, <3>1 DEF TransactionOK, TxPending, NoFile, Written
    <3>2. CASE f.has = Want
      BY <1>0, <2>1, <3>2 DEF TransactionOK, TerminalIs, WantTransaction
    <3>3. CASE f.at = "DONE" /\ f.has = File.has /\ File.at \in Written
      BY <1>0, <2>1, <3>3 DEF TransactionOK, TerminalIs, TxPending
    <3> QED BY <3>1, <3>2, <3>3 DEF Puts
  <2>3. DirectoriesOK' /\ EvidenceOK'
    BY <1>0, <2>1 DEF DirectoriesOK, EvidenceOK
  <2> QED BY <2>2, <2>3 DEF StoreOK
<1>3. CASE proc.pc = "fresh"
  <2>1. UNCHANGED <<active, tx, manifest, receipt>>
    BY <1>3, PutFileIs DEF Puts
  <2> QED
    BY <1>0, <2>1 DEF StoreOK, DirectoriesOK, TransactionOK, EvidenceOK, TxPending, TerminalIs
<1>4. CASE proc.pc = "manifest"
  <2>1. /\ manifest' = [manifest EXCEPT ![proc.run] = f]
        /\ UNCHANGED <<active, tx, receipt>>
        /\ File = manifest[proc.run] /\ proc.run \in Run /\ archive[proc.run] # Nil
    BY <1>4, PutFileIs, WriterFacts
    DEF Puts, File, At, JournalInv, ProcessOK, RolloverOK, ArchivedPcs
  <2>2. File.at = "DONE" => f.at = "DONE"
    BY DEF Puts, Written
  <2>3. EvidenceOK'
    BY <1>0, <2>1, <2>2 DEF EvidenceOK
  <2> QED
    BY <1>0, <2>1, <2>3 DEF StoreOK, DirectoriesOK, TransactionOK, TxPending, TerminalIs
<1>5. CASE proc.pc = "receipt"
  <2>1. /\ receipt' = [receipt EXCEPT ![proc.run] = f]
        /\ UNCHANGED <<active, tx, manifest>>
        /\ File = receipt[proc.run] /\ Want = proc.new
        /\ proc.run \in Run /\ proc.new \in Run
        /\ archive[proc.run] # Nil /\ manifest[proc.run].at = "DONE"
        /\ active = FreshDir
    BY <1>5, PutFileIs, WriterFacts
    DEF Puts, File, Want, WantReceipt, At, JournalInv, ProcessOK, RolloverOK, ArchivedPcs,
        DonePcs
  <2>2. active # Nil /\ active.journal.run = proc.new
    BY <2>1, FreshDirectory DEF FreshOf, FreshDir
  <2>3. EvidenceOK'
    <3>1. f.at # "NONE" => f.has = Want \/ (File.at # "NONE" /\ f.has = File.has)
      BY DEF Puts, NoFile, Written
    <3> QED BY <1>0, <2>1, <2>2, <3>1 DEF EvidenceOK
  <2> QED
    BY <1>0, <2>1, <2>3 DEF StoreOK, DirectoriesOK, TransactionOK, TxPending, TerminalIs
<1> QED BY <1>1, <1>2, <1>3, <1>4, <1>5 DEF Writing, ExclusiveWrites

(* The process stays in its write.                                          *)
SamePlace ==
  /\ proc' \in Process /\ proc'.pc = proc.pc /\ proc'.cmd = proc.cmd
  /\ proc'.node = proc.node /\ proc'.run = proc.run
  /\ proc'.snapshot = proc.snapshot /\ proc'.new = proc.new

LEMMA FileNext ==
  /\ proc'.pc = "preflight" => File' = active'.preflight[proc'.node]
  /\ proc'.pc = "peer" => File' = active'.peer[proc'.node]
  /\ proc'.pc = "tx" => File' = tx'
  /\ proc'.pc = "fresh" => File' = fresh'
  /\ proc'.pc = "manifest" => File' = manifest'[proc'.run]
  /\ proc'.pc = "receipt" => File' = receipt'[proc'.run]
BY DEF File, At

LEMMA PutKeepsInv ==
  ASSUME JournalInv, Writing, NEW f, Puts(f), SamePlace,
         proc'.mine => f.at # "NONE" /\ f.has = Want
  PROVE  JournalInv'
<1>1. JournalTypeOK'
  BY PutKeepsTypes DEF Puts, SamePlace
<1>2. StoreOK'
  BY PutKeepsStore
<1>3. BeginOK' /\ ArgumentsOK'
  BY DEF JournalInv, ProcessOK, BeginOK, ArgumentsOK, SamePlace, Writing, BeginPcs,
         ExclusiveWrites
<1>4. MutateOK'
  <2>1. CASE proc.pc \in {"preflight", "peer"}
    <3>1. /\ active' # Nil /\ active'.journal = active.journal /\ UNCHANGED rolling
          /\ ~TxPending /\ Permitted
      BY <2>1, PutKeepsTypes, PutEvidence, PutFileIs, WriterFacts
      DEF Puts, JournalInv, ProcessOK, MutateOK, MutatePcs
    <3> QED
      BY <2>1, <3>1
      DEF JournalInv, ProcessOK, MutateOK, SamePlace, MutatePcs, SavePcs, rolling,
          TxPending, Permitted
  <2>2. CASE proc.pc \notin {"preflight", "peer"}
    BY <2>2 DEF MutateOK, SamePlace, MutatePcs, SavePcs, Writing, ExclusiveWrites
  <2> QED BY <2>1, <2>2
<1>5. RolloverOK'
  <2>1. CASE proc.pc \in {"preflight", "peer"}
    BY <2>1 DEF RolloverOK, SamePlace, ResumedPcs, ArchivedPcs, DonePcs
  <2>2. CASE proc.pc = "tx"
    BY <2>2, PutFileIs
    DEF Puts, JournalInv, ProcessOK, RolloverOK, SamePlace, ResumedPcs, ArchivedPcs,
        DonePcs, TerminalIs
  <2>3. CASE proc.pc \in {"fresh", "manifest"}
    BY <2>3, PutFileIs
    DEF Puts, JournalInv, ProcessOK, RolloverOK, SamePlace, ResumedPcs, ArchivedPcs,
        DonePcs, WantTransaction
  <2>4. CASE proc.pc = "receipt"
    BY <2>4, PutFileIs
    DEF Puts, JournalInv, ProcessOK, RolloverOK, SamePlace, ResumedPcs, ArchivedPcs,
        DonePcs, WantTransaction, FreshDir
  <2> QED BY <2>1, <2>2, <2>3, <2>4 DEF Writing, ExclusiveWrites
<1>6. File' = f /\ Want' = Want
  <2>1. Want' = Want
    BY DEF SamePlace, Want, At, WantTransaction, WantReceipt
  <2>2. CASE proc.pc \in {"preflight", "peer"}
    BY <2>1, <2>2, PutKeepsTypes, PutEvidence, FileNext DEF Puts, SamePlace
  <2>3. CASE proc.pc \in {"tx", "fresh"}
    BY <2>1, <2>3, PutFileIs, FileNext DEF Puts, SamePlace
  <2>4. CASE proc.pc = "manifest"
    <3>1. DOMAIN manifest = Run /\ proc.run \in Run
      BY <2>4, WriterFacts DEF JournalInv, JournalTypeOK
    <3> QED BY <2>1, <2>4, <3>1, PutFileIs, FileNext DEF Puts, SamePlace
  <2>5. CASE proc.pc = "receipt"
    <3>1. DOMAIN receipt = Run /\ proc.run \in Run
      BY <2>5, WriterFacts DEF JournalInv, JournalTypeOK
    <3> QED BY <2>1, <2>5, <3>1, PutFileIs, FileNext DEF Puts, SamePlace
  <2> QED BY <2>1, <2>2, <2>3, <2>4, <2>5 DEF Writing, ExclusiveWrites
<1>7. WritesOwn'
  BY <1>6 DEF WritesOwn, SamePlace, Writing
<1> QED BY <1>1, <1>2, <1>3, <1>4, <1>5, <1>7 DEF JournalInv, ProcessOK

(* The target is there with the wanted contents: the command goes on.       *)
LEMMA WrittenKeepsInv ==
  ASSUME JournalInv, Writing, NEW f, Puts(f), f.at = "DONE", f.has = Want,
         Goto(AfterWrite[proc.pc])
  PROVE  JournalInv'
<1>1. /\ proc' \in Process /\ proc'.pc = AfterWrite[proc.pc] /\ proc'.mine = FALSE
      /\ proc'.cmd = proc.cmd /\ proc'.node = proc.node /\ proc'.run = proc.run
      /\ proc'.snapshot = proc.snapshot /\ proc'.new = proc.new
  <2>1. AfterWrite[proc.pc] \in Pcs
    BY DEF Writing, ExclusiveWrites, AfterWrite, Pcs
  <2> QED BY <2>1, GotoOK DEF JournalInv
<1>2. JournalTypeOK' /\ StoreOK'
  BY <1>1, PutKeepsTypes, PutKeepsStore DEF Puts
<1>3. proc'.pc \in {"save", "resources", "archive", "activate", "finish"}
  BY <1>1 DEF Writing, ExclusiveWrites, AfterWrite
<1>4. BeginOK' /\ WritesOwn'
  BY <1>1, <1>3 DEF BeginOK, WritesOwn, BeginPcs
<1>5. CASE proc.pc \in {"preflight", "peer"}
  <2>1. proc'.pc = "save"
    BY <1>1, <1>5 DEF AfterWrite
  <2>2. /\ active' # Nil /\ active'.journal = active.journal /\ UNCHANGED rolling
        /\ ~TxPending /\ Permitted
        /\ proc.pc = "preflight" => proc.cmd = "arm" /\ active'.preflight[proc.node] = f
        /\ proc.pc = "peer" => proc.cmd = "loss" /\ active'.peer[proc.node] = f
    BY <1>5, PutKeepsTypes, PutEvidence, PutFileIs, WriterFacts
    DEF Puts, JournalInv, ProcessOK, MutateOK, MutatePcs
  <2>3. proc.pc = "preflight" => f = [at |-> "DONE", has |-> proc.snapshot]
    BY FileOfFacts DEF Puts, Want, At
  <2>4. ArgumentsOK'
    BY <1>1, <1>5, <2>1 DEF JournalInv, ProcessOK, ArgumentsOK, MutatePcs, SavePcs
  <2>5. MutateOK'
    BY <1>1, <1>5, <2>1, <2>2, <2>3
    DEF MutateOK, MutatePcs, SavePcs, rolling, TxPending, Permitted
  <2>6. RolloverOK'
    BY <2>1 DEF RolloverOK, ResumedPcs, ArchivedPcs, DonePcs
  <2> QED BY <1>2, <1>4, <2>4, <2>5, <2>6 DEF JournalInv, ProcessOK
<1>6. CASE proc.pc \notin {"preflight", "peer"}
  <2>1. /\ proc'.pc \in {"resources", "archive", "activate", "finish"}
        /\ proc.run \in Run /\ proc.new \in Run
    BY <1>1, <1>6, WriterFacts DEF AfterWrite, Writing, ExclusiveWrites
  <2>2. ArgumentsOK' /\ MutateOK'
    BY <2>1 DEF ArgumentsOK, MutateOK, MutatePcs, SavePcs
  <2>3. RolloverOK'
    <3>1. CASE proc.pc = "tx"
      <4>1. tx' = [at |-> "DONE", has |-> WantTransaction]
        BY <3>1, PutFileIs, FileOfFacts DEF Puts, Want, At
      <4> QED
        BY <1>1, <2>1, <3>1, <4>1
        DEF RolloverOK, AfterWrite, WantTransaction, ResumedPcs, ArchivedPcs, DonePcs
    <3>2. CASE proc.pc = "fresh"
      BY <1>1, <2>1, <3>2, PutFileIs
      DEF Puts, JournalInv, ProcessOK, RolloverOK, AfterWrite, WantTransaction,
          ResumedPcs, ArchivedPcs, DonePcs
    <3>3. CASE proc.pc = "manifest"
      <4>1. /\ proc'.pc = "activate" /\ UNCHANGED <<tx, archive>>
            /\ manifest' = [manifest EXCEPT ![proc.run] = f]
            /\ DOMAIN manifest = Run
        BY <1>1, <3>3, PutFileIs DEF Puts, AfterWrite, JournalInv, JournalTypeOK
      <4>2. /\ tx = [at |-> "DONE", has |-> WantTransaction] /\ archive[proc.run] # Nil
        BY <3>3 DEF JournalInv, ProcessOK, RolloverOK, ResumedPcs, ArchivedPcs
      <4> QED
        BY <1>1, <2>1, <4>1, <4>2
        DEF RolloverOK, WantTransaction, ResumedPcs, ArchivedPcs, DonePcs
    <3>4. CASE proc.pc = "receipt"
      <4>1. proc'.pc = "finish" /\ UNCHANGED <<active, tx, archive, manifest>>
        BY <1>1, <3>4, PutFileIs DEF Puts, AfterWrite
      <4>2. /\ tx = [at |-> "DONE", has |-> WantTransaction] /\ archive[proc.run] # Nil
            /\ manifest[proc.run].at = "DONE" /\ active = FreshDir
        BY <3>4 DEF JournalInv, ProcessOK, RolloverOK, ResumedPcs, ArchivedPcs, DonePcs
      <4> QED
        BY <1>1, <2>1, <4>1, <4>2
        DEF RolloverOK, WantTransaction, FreshDir, ResumedPcs, ArchivedPcs, DonePcs
    <3> QED BY <1>6, <3>1, <3>2, <3>3, <3>4 DEF Writing, ExclusiveWrites
  <2> QED BY <1>2, <1>4, <2>2, <2>3 DEF JournalInv, ProcessOK
<1> QED BY <1>5, <1>6

(* What the steps write.                                                    *)
LEMMA WritersPut ==
  ASSUME JournalInv,
         \/ ExclusiveNormalise \/ ExclusiveDiscard \/ ExclusiveCreate \/ ExclusiveFill
         \/ ExclusiveLink \/ ExclusiveUnlink
  PROVE  /\ Writing
         /\ \E f : /\ Puts(f)
                   /\ ~ExclusiveUnlink =>
                        SamePlace /\ (proc'.mine => f.at # "NONE" /\ f.has = Want)
<1>0. /\ Writing /\ proc \in Process /\ File \in FileOf(Contents) /\ Want \in Contents
      /\ proc.mine => File.at # "NONE" /\ File.has = Want
  BY WriterFacts DEF ExclusiveNormalise, ExclusiveDiscard, ExclusiveCreate, ExclusiveFill,
       ExclusiveLink, ExclusiveUnlink, JournalInv, JournalTypeOK, ProcessOK, WritesOwn
<1>1. CASE ExclusiveNormalise
  <2>1. /\ File = [at |-> "LINKED", has |-> File.has] /\ File.has \in Contents
        /\ ~proc.mine
    BY <1>0, <1>1, FileOfFacts DEF ExclusiveNormalise
  <2>2. PutFile([at |-> "DONE", has |-> File.has]) /\ SamePlace /\ ~proc'.mine
    BY <1>0, <1>1, <2>1 DEF ExclusiveNormalise, SamePlace
  <2>3. Puts([at |-> "DONE", has |-> File.has])
    BY <2>1, <2>2 DEF Puts, FileOf, Written
  <2> QED BY <1>0, <2>2, <2>3
<1>2. CASE ExclusiveDiscard
  <2>1. Puts(NoFile) /\ SamePlace /\ ~proc'.mine
    BY <1>0, <1>2 DEF ExclusiveDiscard, SamePlace, Puts, FileOf, Written
  <2> QED BY <1>0, <2>1
<1>3. CASE ExclusiveCreate
  <2>1. Puts([at |-> "EMPTY", has |-> Want])
    BY <1>0, <1>3 DEF ExclusiveCreate, Puts, FileOf
  <2>2. SamePlace
    BY <1>0, <1>3 DEF ExclusiveCreate, SamePlace, Process
  <2>3. [at |-> "EMPTY", has |-> Want].at # "NONE" /\ [at |-> "EMPTY", has |-> Want].has = Want
    OBVIOUS
  <2> QED BY <1>0, <2>1, <2>2, <2>3
<1>4. CASE ExclusiveFill
  <2>1. File = [at |-> File.at, has |-> Want]
    BY <1>0, <1>4, FileOfFacts DEF ExclusiveFill
  <2>2. PICK at \in {"PART", "FULL"} : PutFile([at |-> at, has |-> Want])
    <3>1. PutFile([at |-> IF File.at = "EMPTY" THEN "PART" ELSE "FULL", has |-> Want])
      BY <1>4, <2>1 DEF ExclusiveFill
    <3> QED BY <3>1
  <2>3. Puts([at |-> at, has |-> Want]) /\ SamePlace
    BY <1>0, <1>4, <2>2 DEF ExclusiveFill, SamePlace, Puts, FileOf
  <2>4. [at |-> at, has |-> Want].at # "NONE" /\ [at |-> at, has |-> Want].has = Want
    OBVIOUS
  <2> QED BY <1>0, <2>3, <2>4
<1>5. CASE ExclusiveLink
  <2>1. File = [at |-> "FULL", has |-> Want]
    BY <1>0, <1>5, FileOfFacts DEF ExclusiveLink
  <2>2. Puts([at |-> "LINKED", has |-> Want]) /\ SamePlace
    BY <1>0, <1>5, <2>1 DEF ExclusiveLink, SamePlace, Puts, FileOf, Written
  <2> QED BY <1>0, <2>2
<1>6. CASE ExclusiveUnlink
  <2>1. File = [at |-> "LINKED", has |-> Want]
    BY <1>0, <1>6, FileOfFacts DEF ExclusiveUnlink
  <2>2. Puts([at |-> "DONE", has |-> Want])
    BY <1>0, <1>6, <2>1 DEF ExclusiveUnlink, Puts, FileOf, Written
  <2> QED BY <1>0, <1>6, <2>2
<1> QED BY <1>1, <1>2, <1>3, <1>4, <1>5, <1>6

LEMMA PutStepKeepsInv ==
  ASSUME JournalInv, ~ExclusiveUnlink,
         \/ ExclusiveNormalise \/ ExclusiveDiscard \/ ExclusiveCreate \/ ExclusiveFill
         \/ ExclusiveLink
  PROVE  JournalInv'
BY WritersPut, PutKeepsInv

LEMMA ReuseKeepsInv ==
  ASSUME JournalInv, ExclusiveReuse
  PROVE  JournalInv'
<1>1. /\ Writing /\ File = [at |-> "FULL", has |-> Want]
      /\ File \in FileOf(Contents) /\ UNCHANGED <<active, starter, rolling, calm>>
  BY WriterFacts DEF ExclusiveReuse
<1>2. Puts(File)
  BY <1>1, SamePut DEF Puts
<1>3. SamePlace
  BY DEF ExclusiveReuse, SamePlace, JournalInv, JournalTypeOK, Process
<1> QED BY <1>1, <1>2, <1>3, PutKeepsInv

LEMMA ExistsKeepsInv ==
  ASSUME JournalInv, ExclusiveExists
  PROVE  JournalInv'
<1>1. /\ Writing /\ File.at = "DONE" /\ File \in FileOf(Contents)
      /\ UNCHANGED <<active, starter, rolling, calm>>
  BY WriterFacts DEF ExclusiveExists
<1>2. CASE File.has = Want
  <2>1. Puts(File)
    BY <1>1, SamePut DEF Puts, Written
  <2> QED BY <1>1, <1>2, <2>1, WrittenKeepsInv DEF ExclusiveExists
<1>3. CASE File.has # Want
  BY <1>1, <1>3, EndKeepsInv DEF ExclusiveExists, JournalInv, JournalTypeOK
<1> QED BY <1>2, <1>3

LEMMA UnlinkKeepsInv ==
  ASSUME JournalInv, ExclusiveUnlink
  PROVE  JournalInv'
<1>1. /\ Writing /\ File = [at |-> "LINKED", has |-> Want] /\ Want \in Contents
  BY WriterFacts, FileOfFacts DEF ExclusiveUnlink, JournalInv, ProcessOK, WritesOwn
<1>2. Puts([at |-> "DONE", has |-> Want])
  BY <1>1 DEF ExclusiveUnlink, Puts, FileOf, Written
<1> QED BY <1>1, <1>2, WrittenKeepsInv DEF ExclusiveUnlink

-----------------------------------------------------------------------------
(* rollover                                                                 *)

(* A rollover moves on and leaves the files alone.                          *)
LEMMA RollGotoKeepsInv ==
  ASSUME JournalInv, UNCHANGED <<active, starter, rolling, calm>>,
         NEW pc \in {"fresh", "archive", "inventory", "manifest", "receipt"},
         proc.pc \in ResumedPcs, Goto(pc),
         pc \in ArchivedPcs => archive[proc.run] # Nil,
         pc = "receipt" => proc.pc \in DonePcs /\ active = FreshDir
  PROVE  JournalInv'
<1>1. /\ proc' \in Process /\ proc'.pc = pc /\ proc'.mine = FALSE
      /\ proc'.run = proc.run /\ proc'.new = proc.new
  BY GotoOK DEF JournalInv, Pcs, ExclusiveWrites
<1>2. BeginOK' /\ ArgumentsOK' /\ MutateOK' /\ WritesOwn'
  BY <1>1 DEF BeginOK, ArgumentsOK, MutateOK, WritesOwn, BeginPcs, MutatePcs, SavePcs
<1>3. RolloverOK'
  BY <1>1
  DEF JournalInv, ProcessOK, RolloverOK, ResumedPcs, ArchivedPcs, DonePcs, rolling,
      WantTransaction, FreshDir
<1> QED
  BY <1>1, <1>2, <1>3, StoreStays, TypesStay DEF JournalInv, ProcessOK, JournalTypeOK

LEMMA NormaliseKeepsInv ==
  ASSUME JournalInv, RollNormalise
  PROVE  JournalInv'
<1>1. /\ proc.run \in Run /\ tx' = Linked(tx)
      /\ receipt' = [receipt EXCEPT ![proc.run] = Linked(receipt[proc.run])]
      /\ UNCHANGED <<active, starter, fresh, archive, manifest, calm>>
  BY DEF RollNormalise, JournalInv, ProcessOK, RolloverOK, At
<1>2. ASSUME NEW C, NEW f \in FileOf(C)
      PROVE  /\ Linked(f) \in FileOf(C) /\ Linked(f).has = f.has
             /\ Linked(f).at = IF f.at = "LINKED" THEN "DONE" ELSE f.at
  BY DEF FileOf, Linked, Written, NoFile
<1>3. /\ tx' \in FileOf([from : Run, new : Run]) /\ tx'.has = tx.has
      /\ tx'.at = IF tx.at = "LINKED" THEN "DONE" ELSE tx.at
      /\ receipt' \in [Run -> FileOf(Run)]
      /\ \A r \in Run : /\ receipt'[r].has = receipt[r].has
                        /\ receipt'[r].at # "NONE" <=> receipt[r].at # "NONE"
  BY <1>1, <1>2 DEF JournalInv, JournalTypeOK
<1>4. /\ proc' \in Process /\ proc'.pc = "decide" /\ proc'.mine = FALSE
      /\ proc'.run = proc.run
  BY GotoOK DEF RollNormalise, JournalInv, Pcs
<1>5. JournalTypeOK'
  BY <1>1, <1>3, <1>4 DEF JournalInv, JournalTypeOK
<1>6. StoreOK'
  BY <1>1, <1>3
  DEF JournalInv, StoreOK, DirectoriesOK, TransactionOK, EvidenceOK, TxPending, Written,
      TerminalIs
<1>7. ProcessOK'
  BY <1>1, <1>4
  DEF ProcessOK, BeginOK, ArgumentsOK, MutateOK, RolloverOK, WritesOwn,
      BeginPcs, MutatePcs, SavePcs, ResumedPcs, ArchivedPcs, DonePcs
<1> QED BY <1>5, <1>6, <1>7 DEF JournalInv

LEMMA DecideKeepsInv ==
  ASSUME JournalInv, RollDecide
  PROVE  JournalInv'
<1>1. proc.run \in Run /\ UNCHANGED <<active, starter, rolling, calm>>
  BY DEF RollDecide, JournalInv, ProcessOK, RolloverOK, At
<1>2. CASE End
  BY <1>1, <1>2, EndKeepsInv DEF JournalInv, JournalTypeOK
<1>3. ~proc.mine
  BY DEF RollDecide, At, JournalInv, ProcessOK, WritesOwn, Writing, ExclusiveWrites
<1>4. CASE tx.at = "DONE" /\ ~End
  <2>1. /\ tx.has.from = proc.run
        /\ proc' = [proc EXCEPT !.pc = "resources", !.new = tx.has.new]
    BY <1>4 DEF RollDecide
  <2>2. /\ tx = [at |-> "DONE", has |-> tx.has] /\ tx.has \in [from : Run, new : Run]
    BY <1>4, FileOfFacts DEF JournalInv, JournalTypeOK
  <2>3. /\ proc' \in Process /\ proc'.pc = "resources" /\ proc'.run = proc.run
        /\ proc'.new = tx.has.new /\ proc'.mine = proc.mine
    BY <2>1, <2>2 DEF JournalInv, JournalTypeOK, Process, Pcs
  <2>4. tx = [at |-> "DONE", has |-> [from |-> proc'.run, new |-> proc'.new]]
    BY <2>1, <2>2, <2>3
  <2>5. RolloverOK'
    BY <1>1, <2>2, <2>3, <2>4
    DEF RolloverOK, ResumedPcs, ArchivedPcs, DonePcs, rolling, WantTransaction
  <2>6. BeginOK' /\ ArgumentsOK' /\ MutateOK' /\ WritesOwn'
    BY <1>3, <2>3
    DEF BeginOK, ArgumentsOK, MutateOK, WritesOwn, BeginPcs, MutatePcs, SavePcs
  <2> QED
    BY <1>1, <2>3, <2>5, <2>6, StoreStays, TypesStay
    DEF JournalInv, ProcessOK, JournalTypeOK
<1>5. CASE tx.at # "DONE" /\ ~End
  <2>1. Terminal
    BY <1>5 DEF RollDecide
  <2>2. PICK r \in Run : Unused(r) /\ proc' = [proc EXCEPT !.pc = "tx", !.new = r]
    BY <1>5 DEF RollDecide
  <2>3. /\ proc' \in Process /\ proc'.pc = "tx" /\ proc'.run = proc.run /\ proc'.new = r
        /\ proc'.mine = proc.mine
    BY <2>2 DEF JournalInv, JournalTypeOK, Process, Pcs, ExclusiveWrites
  <2>4. /\ TerminalIs(proc.run) /\ archive[proc.run] = Nil
        /\ archive[r] = Nil /\ r # proc.run
    BY <2>1, <2>2 DEF Terminal, Loads, TerminalIs, Unused
  <2>5. RolloverOK'
    BY <1>1, <2>3, <2>4
    DEF RolloverOK, ResumedPcs, ArchivedPcs, DonePcs, rolling, TerminalIs
  <2>6. BeginOK' /\ ArgumentsOK' /\ MutateOK' /\ WritesOwn'
    BY <1>3, <2>3
    DEF BeginOK, ArgumentsOK, MutateOK, WritesOwn, BeginPcs, MutatePcs, SavePcs
  <2> QED
    BY <1>1, <2>3, <2>5, <2>6, StoreStays, TypesStay
    DEF JournalInv, ProcessOK, JournalTypeOK
<1> QED BY <1>2, <1>4, <1>5

LEMMA ResourcesKeepsInv ==
  ASSUME JournalInv, RollResources
  PROVE  JournalInv'
<1>1. UNCHANGED <<active, starter, rolling, calm>> /\ proc.pc = "resources"
  BY DEF RollResources, At
<1>2. CASE End
  BY <1>1, <1>2, EndKeepsInv DEF JournalInv, JournalTypeOK
<1>3. CASE Goto("archive") \/ Goto("fresh")
  BY <1>1, <1>3, RollGotoKeepsInv DEF ResumedPcs, ArchivedPcs, DonePcs
<1> QED BY <1>2, <1>3 DEF RollResources

LEMMA ArchiveKeepsInv ==
  ASSUME JournalInv, RollArchive
  PROVE  JournalInv'
<1>0. /\ proc.pc = "archive" /\ proc.run \in Run
      /\ tx = [at |-> "DONE", has |-> WantTransaction]
      /\ UNCHANGED <<starter, tx, fresh, manifest, receipt, calm>>
  BY DEF RollArchive, At, JournalInv, ProcessOK, RolloverOK, ResumedPcs
<1>1. CASE End /\ UNCHANGED <<archive, active>>
  BY <1>0, <1>1, EndKeepsInv DEF JournalInv, JournalTypeOK, rolling
<1>2. CASE Goto("inventory") /\ UNCHANGED <<archive, active>>
  <2>1. archive[proc.run] # Nil
    BY <1>0, <1>2 DEF RollArchive, End, Goto, IdleProcess, JournalInv, JournalTypeOK, Process
  <2> QED
    BY <1>0, <1>2, <2>1, RollGotoKeepsInv DEF ResumedPcs, ArchivedPcs, DonePcs, rolling
<1>3. CASE /\ active # Nil /\ active.journal.run = proc.run /\ archive[proc.run] = Nil
           /\ archive' = [archive EXCEPT ![proc.run] = active]
           /\ active' = Nil
           /\ UNCHANGED proc
  <2>1. /\ active \in Dir /\ archive \in [Run -> Dir \cup {Nil}]
        /\ Valid(active) /\ archive'[proc.run] = active
        /\ \A r \in Run \ {proc.run} : archive'[r] = archive[r]
    BY <1>0, <1>3 DEF JournalInv, JournalTypeOK, StoreOK, DirectoriesOK
  <2>2. /\ tx.has.from = proc.run /\ tx.has.new = proc.new /\ tx.at = "DONE"
        /\ proc.new # proc.run /\ archive[proc.new] = Nil /\ proc.new \in Run
        /\ active.journal.status = "ABORTED_RECONCILED"
    BY <1>0, <1>3
    DEF JournalInv, StoreOK, TransactionOK, TxPending, Written, WantTransaction,
        TerminalIs, ProcessOK, RolloverOK, ResumedPcs
  <2>3. JournalTypeOK'
    BY <1>0, <1>3, <2>1 DEF JournalInv, JournalTypeOK
  <2>4. DirectoriesOK'
    BY <1>0, <1>3, <2>1, <2>2 DEF JournalInv, StoreOK, DirectoriesOK
  <2>5. TransactionOK'
    BY <1>0, <1>3, <2>1, <2>2 DEF TransactionOK, TxPending
  <2>6. EvidenceOK'
    BY <1>0, <1>3, <2>1, <2>2 DEF JournalInv, JournalTypeOK, StoreOK, EvidenceOK, FileOf
  <2>7. ProcessOK'
    BY <1>0, <1>3, <2>1, <2>2
    DEF JournalInv, ProcessOK, BeginOK, ArgumentsOK, MutateOK, RolloverOK, WritesOwn,
        BeginPcs, MutatePcs, SavePcs, ResumedPcs, ArchivedPcs, DonePcs, Writing,
        ExclusiveWrites, WantTransaction
  <2> QED BY <2>3, <2>4, <2>5, <2>6, <2>7 DEF JournalInv, StoreOK
<1> QED BY <1>1, <1>2, <1>3 DEF RollArchive

LEMMA InventoryKeepsInv ==
  ASSUME JournalInv, RollInventory
  PROVE  JournalInv'
<1>1. /\ UNCHANGED <<active, starter, rolling, calm>> /\ proc.pc = "inventory"
      /\ archive[proc.run] # Nil
  BY DEF RollInventory, At, JournalInv, ProcessOK, RolloverOK, ArchivedPcs
<1>2. CASE End
  BY <1>1, <1>2, EndKeepsInv DEF JournalInv, JournalTypeOK
<1>3. CASE Goto("manifest")
  BY <1>1, <1>3, RollGotoKeepsInv DEF ResumedPcs, ArchivedPcs, DonePcs
<1> QED BY <1>2, <1>3 DEF RollInventory

LEMMA RollActivateKeepsInv ==
  ASSUME JournalInv, RollActivate
  PROVE  JournalInv'
<1>0. /\ proc.pc = "activate" /\ proc.run \in Run /\ proc.new \in Run
      /\ tx = [at |-> "DONE", has |-> WantTransaction]
      /\ archive[proc.run] # Nil /\ manifest[proc.run].at = "DONE"
      /\ UNCHANGED <<starter, tx, archive, manifest, receipt, calm>>
  BY DEF RollActivate, At, JournalInv, ProcessOK, RolloverOK, ResumedPcs, ArchivedPcs, DonePcs
<1>1. CASE End /\ UNCHANGED <<active, fresh>>
  BY <1>0, <1>1, EndKeepsInv DEF JournalInv, JournalTypeOK, rolling
<1>2. CASE Goto("receipt") /\ UNCHANGED <<active, fresh>>
  <2>1. active = FreshDir
    BY <1>0, <1>2 DEF RollActivate, End, Goto, IdleProcess, JournalInv, JournalTypeOK, Process
  <2> QED
    BY <1>0, <1>2, <2>1, RollGotoKeepsInv DEF ResumedPcs, ArchivedPcs, DonePcs, rolling
<1>3. CASE /\ active = Nil /\ active' = FreshDir /\ fresh' = NoFile /\ UNCHANGED proc
  <2>1. /\ tx.has.from = proc.run /\ tx.has.new = proc.new /\ tx.at = "DONE"
        /\ archive[proc.new] = Nil /\ active' = FreshOf(proc.new)
        /\ proc.new # proc.run
    BY <1>0, <1>3
    DEF JournalInv, StoreOK, TransactionOK, TxPending, Written, WantTransaction,
        FreshDir, FreshOf
  <2>2. JournalTypeOK'
    BY <1>0, <1>3, <2>1, FreshDirectory DEF JournalInv, JournalTypeOK, FileOf
  <2>3. DirectoriesOK'
    BY <1>0, <2>1, FreshDirectory DEF JournalInv, StoreOK, DirectoriesOK
  <2>4. TransactionOK'
    BY <1>0, <2>1, FreshDirectory DEF TransactionOK, TxPending, FreshOf
  <2>5. EvidenceOK'
    BY <1>0, <1>3 DEF JournalInv, StoreOK, EvidenceOK
  <2>6. ProcessOK'
    BY <1>0, <1>3
    DEF JournalInv, ProcessOK, BeginOK, ArgumentsOK, MutateOK, RolloverOK, WritesOwn,
        BeginPcs, MutatePcs, SavePcs, ResumedPcs, ArchivedPcs, DonePcs, Writing,
        ExclusiveWrites, WantTransaction
  <2> QED BY <2>2, <2>3, <2>4, <2>5, <2>6 DEF JournalInv, StoreOK
<1> QED BY <1>1, <1>2, <1>3 DEF RollActivate

LEMMA RollFinishKeepsInv ==
  ASSUME JournalInv, RollFinish
  PROVE  JournalInv'
<1>1. /\ End /\ tx' = NoFile
      /\ UNCHANGED <<active, starter, fresh, archive, manifest, receipt, calm>>
  BY DEF RollFinish
<1>2. JournalTypeOK'
  BY <1>1, EndsOK DEF JournalInv, JournalTypeOK, FileOf
<1>3. StoreOK'
  BY <1>1 DEF JournalInv, StoreOK, DirectoriesOK, TransactionOK, EvidenceOK, TxPending,
              NoFile, Written
<1> QED BY <1>1, <1>2, <1>3, EndsOK DEF JournalInv

-----------------------------------------------------------------------------
(* Every step.                                                              *)

LEMMA StepsKeepInv ==
  ASSUME JournalInv, Steps
  PROVE  JournalInv'
<1>1. CASE BeginEnds
  BY <1>1, EndKeepsInv DEF BeginEnds, JournalInv, JournalTypeOK
<1>2. CASE BeginCleans
  <2>1. UNCHANGED <<active, rolling, proc, calm>> /\ starter' \in {"DIR", "NONE"}
    BY <1>2 DEF BeginCleans
  <2> QED
    BY <2>1, StoreStays, ProcessStays, TypesStay DEF JournalInv, JournalTypeOK
<1>3. CASE ExclusiveRefuse
  BY <1>3, EndKeepsInv DEF ExclusiveRefuse, JournalInv, JournalTypeOK
<1>4. CASE \/ BeginAllocates \/ BeginDirectory \/ BeginTemporary \/ BeginState
           \/ BeginActivate
  BY <1>4, AllocatesKeepsInv, BeginStepKeepsInv, ActivateKeepsInv
<1>5. CASE Load \/ SaveTemporary \/ SaveWrite \/ SaveReplace
  BY <1>5, LoadKeepsInv, SaveStepKeepsInv, ReplaceKeepsInv
<1>6. CASE \/ ExclusiveNormalise \/ ExclusiveExists \/ ExclusiveReuse
           \/ ExclusiveDiscard \/ ExclusiveCreate \/ ExclusiveFill
           \/ ExclusiveLink \/ ExclusiveUnlink
  BY <1>6, PutStepKeepsInv, ExistsKeepsInv, ReuseKeepsInv, UnlinkKeepsInv
<1>7. CASE \/ RollNormalise \/ RollDecide \/ RollResources \/ RollArchive
           \/ RollInventory \/ RollActivate \/ RollFinish
  BY <1>7, NormaliseKeepsInv, DecideKeepsInv, ResourcesKeepsInv, ArchiveKeepsInv,
     InventoryKeepsInv, RollActivateKeepsInv, RollFinishKeepsInv
<1> QED BY <1>1, <1>2, <1>3, <1>4, <1>5, <1>6, <1>7 DEF Steps

LEMMA NextKeepsInv == JournalInv /\ [Next \/ Stabilise]_vars => JournalInv'
<1> SUFFICES ASSUME JournalInv, [Next \/ Stabilise]_vars PROVE JournalInv'
  OBVIOUS
<1>1. CASE Steps
  BY <1>1, StepsKeepInv
<1>2. CASE Killed
  BY <1>2, EndKeepsInv DEF Killed, JournalInv, JournalTypeOK
<1>3. CASE Stabilise \/ UNCHANGED vars
  <2>1. UNCHANGED <<active, rolling, proc, starter>> /\ calm' \in BOOLEAN
    BY <1>3 DEF Stabilise, vars, rolling, JournalInv, JournalTypeOK
  <2> QED
    BY <2>1, StoreStays, ProcessStays, TypesStay DEF JournalInv, JournalTypeOK
<1> QED BY <1>1, <1>2, <1>3, InvocationKeepsInv DEF Next

LEMMA InvHolds == FairSpec => []JournalInv
<1>1. FairSpec => Init /\ [][Next \/ Stabilise]_vars
  BY PTL DEF FairSpec
<1> QED BY <1>1, InitInv, NextKeepsInv, PTL

-----------------------------------------------------------------------------
(* The invariants.                                                          *)

(* Every file and every field of the command holds what it may hold.        *)
THEOREM JournalTypesHold == FairSpec => []JournalTypeOK
<1>1. JournalInv => JournalTypeOK
  BY DEF JournalInv
<1> QED BY <1>1, InvHolds, PTL

(* Wherever begin, a mutation or a rollover is killed, _validate_state      *)
(* accepts what is on the disk, and a receipt that can be read is true.     *)
THEOREM RecordsAlwaysHold == FairSpec => []RecordsHold
<1>1. JournalInv => RecordsHold
  <2>1. JournalInv => JournalAlwaysLoads
    BY DEF JournalInv, StoreOK, DirectoriesOK, JournalAlwaysLoads
  <2>2. JournalInv => ReceiptIsTrue
    <3> SUFFICES ASSUME JournalInv, NEW r \in Run, receipt[r].at \in Written
                 PROVE  /\ archive[r] # Nil /\ manifest[r].at = "DONE"
                        /\ \/ archive[receipt[r].has] # Nil
                           \/ active # Nil /\ active.journal.run = receipt[r].has
      BY DEF ReceiptIsTrue
    <3> QED BY DEF JournalInv, StoreOK, EvidenceOK, Written
  <2> QED BY <2>1, <2>2 DEF RecordsHold
<1> QED BY <1>1, InvHolds, PTL

-----------------------------------------------------------------------------
(* What a step may not do.                                                  *)

(* The steps that touch the active journal, and when they may.              *)
LEMMA WhoChangesActive ==
  ASSUME JournalInv, [Next \/ Stabilise]_vars, active' # active
  PROVE  \/ active # Nil /\ ~TxPending
         \/ active = Nil /\ proc.pc \in {"begin_activate", "activate"}
         \/ active' = Nil
<1>1. CASE SaveTemporary \/ SaveWrite \/ SaveReplace
  <2>1. proc.pc \in MutatePcs
    BY <1>1 DEF SaveTemporary, SaveWrite, SaveReplace, At, MutatePcs, SavePcs
  <2> QED BY <2>1 DEF JournalInv, ProcessOK, MutateOK
<1>2. CASE Writing
  <2>1. CASE proc.pc \in {"preflight", "peer"}
    BY <2>1 DEF JournalInv, ProcessOK, MutateOK, MutatePcs
  <2>2. CASE proc.pc \notin {"preflight", "peer"}
    <3>1. \A f : PutFile(f) => active' = active
      BY <2>2 DEF PutFile, At
    <3> QED
      BY <1>2, <2>2, <3>1
      DEF Next, Steps, Stabilise, vars, Writing, ExclusiveWrites, At, Killed, Begin,
          Finish, Arm, Mark, RollOver, Invoke, BeginEnds, BeginCleans, BeginAllocates,
          BeginDirectory, BeginTemporary, BeginState, BeginStep, BeginActivate, Load,
          SaveTemporary, SaveWrite, SaveReplace, ExclusiveNormalise, ExclusiveExists,
          ExclusiveReuse, ExclusiveDiscard, ExclusiveRefuse, ExclusiveCreate,
          ExclusiveFill, ExclusiveLink, ExclusiveUnlink, RollNormalise, RollDecide,
          RollResources, RollArchive, RollInventory, RollActivate, RollFinish
  <2> QED BY <2>1, <2>2
<1>3. CASE BeginActivate
  BY <1>3 DEF BeginActivate, At, JournalInv, ProcessOK, BeginOK, BeginPcs
<1>4. CASE RollArchive \/ RollActivate
  BY <1>4 DEF RollArchive, RollActivate, At
<1> QED
  BY <1>1, <1>2, <1>3, <1>4
  DEF Next, Steps, Stabilise, vars, Killed, Begin, Finish, Arm, Mark, RollOver, Invoke,
      BeginEnds, BeginCleans, BeginAllocates, BeginDirectory, BeginTemporary, BeginState,
      BeginStep, Load, ExclusiveNormalise, ExclusiveExists, ExclusiveReuse,
      ExclusiveDiscard, ExclusiveRefuse, ExclusiveCreate, ExclusiveFill, ExclusiveLink,
      ExclusiveUnlink, RollNormalise, RollDecide, RollResources, RollInventory,
      RollFinish

(* An archive entry or a finished receipt is not written again.             *)
LEMMA EvidenceStays ==
  ASSUME JournalInv, [Next \/ Stabilise]_vars, NEW r \in Run
  PROVE  /\ archive[r] # Nil => archive'[r] = archive[r]
         /\ receipt[r].at = "DONE" => receipt'[r] = receipt[r]
<1>0. archive \in [Run -> Dir \cup {Nil}] /\ receipt \in [Run -> FileOf(Run)]
  BY DEF JournalInv, JournalTypeOK
<1>1. CASE RollArchive
  BY <1>0, <1>1 DEF RollArchive
<1>2. CASE RollNormalise
  BY <1>0, <1>2 DEF RollNormalise, Linked
<1>3. CASE Writing
  <2>1. CASE proc.pc = "receipt"
    <3>1. File = receipt[proc.run]
      BY <2>1 DEF File, At
    <3>2. CASE File.at = "DONE"
      BY <2>1, <3>2
      DEF Next, Steps, Stabilise, vars, rolling, At, Killed, Begin,
          Finish, Arm, Mark, RollOver, Invoke, BeginEnds, BeginCleans, BeginAllocates,
          BeginDirectory, BeginTemporary, BeginState, BeginStep, BeginActivate, Load,
          SaveTemporary, SaveWrite, SaveReplace, ExclusiveNormalise, ExclusiveExists,
          ExclusiveReuse, ExclusiveDiscard, ExclusiveRefuse, ExclusiveCreate,
          ExclusiveFill, ExclusiveLink, ExclusiveUnlink, RollNormalise, RollDecide,
          RollResources, RollArchive, RollInventory, RollActivate, RollFinish
    <3>3. CASE File.at # "DONE"
      <4>1. \A f : PutFile(f) =>
              archive' = archive /\ receipt' = [receipt EXCEPT ![proc.run] = f]
        BY <2>1 DEF PutFile, At
      <4>2. receipt[r].at = "DONE" => r # proc.run
        BY <3>1, <3>3
      <4> QED
        BY <1>0, <2>1, <4>1, <4>2
        DEF Next, Steps, Stabilise, vars, rolling, At, Killed, Begin,
            Finish, Arm, Mark, RollOver, Invoke, BeginEnds, BeginCleans, BeginAllocates,
            BeginDirectory, BeginTemporary, BeginState, BeginStep, BeginActivate, Load,
            SaveTemporary, SaveWrite, SaveReplace, ExclusiveNormalise, ExclusiveExists,
            ExclusiveReuse, ExclusiveDiscard, ExclusiveRefuse, ExclusiveCreate,
            ExclusiveFill, ExclusiveLink, ExclusiveUnlink, RollNormalise, RollDecide,
            RollResources, RollArchive, RollInventory, RollActivate, RollFinish
    <3> QED BY <3>2, <3>3
  <2>2. CASE proc.pc # "receipt"
    <3>1. \A f : PutFile(f) => archive' = archive /\ receipt' = receipt
      BY <2>2 DEF PutFile, At
    <3> QED
      BY <1>3, <2>2, <3>1
      DEF Next, Steps, Stabilise, vars, rolling, Writing, ExclusiveWrites, At, Killed, Begin,
          Finish, Arm, Mark, RollOver, Invoke, BeginEnds, BeginCleans, BeginAllocates,
          BeginDirectory, BeginTemporary, BeginState, BeginStep, BeginActivate, Load,
          SaveTemporary, SaveWrite, SaveReplace, ExclusiveNormalise, ExclusiveExists,
          ExclusiveReuse, ExclusiveDiscard, ExclusiveRefuse, ExclusiveCreate,
          ExclusiveFill, ExclusiveLink, ExclusiveUnlink, RollNormalise, RollDecide,
          RollResources, RollArchive, RollInventory, RollActivate, RollFinish
  <2> QED BY <2>1, <2>2
<1> QED
  BY <1>1, <1>2, <1>3
  DEF Next, Steps, Stabilise, vars, rolling, Killed, Begin, Finish, Arm, Mark, RollOver,
      Invoke, BeginEnds, BeginCleans, BeginAllocates, BeginDirectory, BeginTemporary,
      BeginState, BeginStep, BeginActivate, Load, SaveTemporary, SaveWrite, SaveReplace,
      ExclusiveNormalise, ExclusiveExists, ExclusiveReuse, ExclusiveDiscard,
      ExclusiveRefuse, ExclusiveCreate, ExclusiveFill, ExclusiveLink, ExclusiveUnlink,
      RollDecide, RollResources, RollInventory, RollActivate, RollFinish

(* An archived directory, a finished receipt and, while a rollover is       *)
(* pending, the request it is about to archive do not change any more.      *)
THEOREM RecordsStayFrozen == FairSpec => RecordsAreFrozen
<1>1. JournalInv /\ [Next \/ Stabilise]_vars =>
        [TxPending /\ active # Nil /\ active' # Nil
           /\ active'.journal.run = active.journal.run
         => active' = active]_vars
  BY WhoChangesActive
<1>2. JournalInv /\ [Next \/ Stabilise]_vars =>
        [\A r \in Run :
           /\ archive[r] # Nil => archive'[r] = archive[r]
           /\ receipt[r].at = "DONE" => receipt'[r] = receipt[r]]_vars
  BY EvidenceStays
<1>3. FairSpec => PendingRolloverBlocks
  BY <1>1, InvHolds, PTL DEF FairSpec, PendingRolloverBlocks
<1>4. FairSpec => ArchiveIsImmutable
  BY <1>2, InvHolds, PTL DEF FairSpec, ArchiveIsImmutable
<1> QED BY <1>3, <1>4 DEF RecordsAreFrozen

-----------------------------------------------------------------------------
(* The refinement: what the disk stands for is one reboot request.          *)

(* The request is read from the active journal or, between the two renames, *)
(* from the archive; runs keep the journals apart.                          *)
LEMMA CurrentIs ==
  ASSUME JournalInv
  PROVE  /\ active # Nil =>
              Current = active.journal /\ Archived = {archive[r].journal :
                                            r \in {s \in Run : archive[s] # Nil}}
         /\ active = Nil /\ ~TxPending => Current = Nil
<1>1. active = Nil /\ ~TxPending => Current = Nil
  BY DEF Current, InTransit, TxPending, Written
<1>2. ASSUME active # Nil
      PROVE  Current = active.journal /\ Archived = {archive[r].journal :
                                            r \in {s \in Run : archive[s] # Nil}}
  <2>1. Current = active.journal
    BY <1>2 DEF Current
  <2>2. \A r \in Run : archive[r] # Nil => archive[r].journal # active.journal
    BY <1>2 DEF JournalInv, StoreOK, DirectoriesOK
  <2> QED BY <2>1, <2>2 DEF Archived
<1> QED BY <1>1, <1>2

(* Steps that leave the request as it is.                                   *)
LEMMA SameRequest ==
  ASSUME UNCHANGED archive,
         \/ active # Nil /\ active' # Nil /\ active'.journal = active.journal
         \/ active = Nil /\ active' = Nil /\ UNCHANGED tx
  PROVE  UNCHANGED <<Current, Archived>>
<1>1. Current' = Current
  BY DEF Current, InTransit
<1> QED BY <1>1 DEF Archived

LEMMA ActivateAllocates ==
  ASSUME JournalInv, JournalInv', BeginActivate
  PROVE  Request!Allocate
<1>1. /\ proc.new \in Run /\ active = Nil /\ ~TxPending /\ UNCHANGED archive
      /\ active' = FreshOf(proc.new)
  BY DEF JournalInv, ProcessOK, BeginOK, BeginActivate, BeginPcs, At, FreshOf, rolling
<1>2. Current = Nil /\ Current' = Request!FreshJournal(proc.new)
  BY <1>1, FreshDirectory DEF Current, InTransit, TxPending, Written
<1>3. Archived' = Archived
  <2>1. \A r \in Run : archive[r] # Nil =>
          archive[r].journal # Nil /\ archive[r].journal # Current'
    BY <1>1, <1>2, FreshDirectory, NilAssumption
    DEF JournalInv, JournalTypeOK, StoreOK, DirectoriesOK, Dir
  <2> QED BY <1>1, <1>2, <2>1 DEF Archived
<1> QED BY <1>1, <1>2, <1>3 DEF Request!Allocate

LEMMA ReplaceAdvances ==
  ASSUME JournalInv, JournalInv', SaveReplace
  PROVE  Request!Advance \/ Request!Complete
<1>1. /\ proc.pc \in SavePcs /\ active \in Dir /\ active # Nil /\ Permitted
      /\ UNCHANGED archive
      /\ active' = [active EXCEPT !.tmp = "NONE", !.journal = NextJournal]
  BY DEF JournalInv, JournalTypeOK, ProcessOK, MutateOK, MutatePcs, SaveReplace,
         SavePcs, At, rolling
<1>2. /\ NextJournal \in Request!Journal /\ active' # Nil
      /\ active'.journal = NextJournal
  <2>1. NextJournal \in Request!Journal
    BY <1>1, NextJournalOK DEF JournalInv, ProcessOK, MutatePcs
  <2>2. active'.journal = NextJournal /\ active' \in Dir
    BY <1>1, <2>1 DEF Dir
  <2> QED BY <2>1, <2>2, NilAssumption
<1>3. /\ Current = active.journal /\ Current # Nil /\ Current' = NextJournal
      /\ Archived' = Archived
  <2>1. active.journal # Nil
    BY <1>1, NilAssumption DEF Dir
  <2>2. Archived = {archive[r].journal : r \in {s \in Run : archive[s] # Nil}}
    BY <1>1, CurrentIs
  <2>3. Archived' = {archive'[r].journal : r \in {s \in Run : archive'[s] # Nil}}
    <3>1. Current' = NextJournal
      BY <1>2 DEF Current
    <3>2. \A r \in Run : archive'[r] # Nil => archive'[r].journal # NextJournal
      BY <1>2 DEF JournalInv, StoreOK, DirectoriesOK
    <3> QED BY <3>1, <3>2 DEF Archived
  <2> QED BY <1>1, <1>2, <2>1, <2>2, <2>3 DEF Current
<1>4. CASE proc.cmd = "complete"
  BY <1>1, <1>3, <1>4 DEF Permitted, NextJournal, Request!Complete
<1>5. CASE proc.cmd # "complete"
  <2>1. /\ proc.cmd \in Request!Transitions /\ proc.node \in Nodes
        /\ proc.cmd = "arm" => proc.snapshot \in Snapshot
        /\ Request!Applicable(Current, proc.cmd, proc.node)
        /\ Current' = Request!Apply(Current, proc.cmd, proc.node, proc.snapshot)
    BY <1>1, <1>3, <1>5
    DEF JournalInv, ProcessOK, ArgumentsOK, MutatePcs, Permitted, NextJournal
  <2>2. PICK s \in Snapshot : Current' = Request!Apply(Current, proc.cmd, proc.node, s)
    <3>1. CASE proc.cmd = "arm"
      BY <2>1, <3>1
    <3>2. CASE proc.cmd # "arm"
      <4>1. active.journal.phase[proc.node] # "PENDING"
        BY <1>3, <2>1, <3>2 DEF Request!Applicable, Request!Transitions, Request!From
      <4>2. /\ active.preflight[proc.node].at = "DONE"
            /\ active.preflight[proc.node] \in FileOf(Snapshot)
        <5>1. Valid(active)
          BY <1>1 DEF JournalInv, StoreOK, DirectoriesOK
        <5>2. active.preflight \in [Nodes -> FileOf(Snapshot)]
          BY <1>1 DEF Dir
        <5>3. active.preflight[proc.node] =
                [at |-> "DONE", has |-> active.journal.pre[proc.node]]
          BY <2>1, <4>1, <5>1 DEF Valid
        <5> QED BY <2>1, <5>2, <5>3
      <4>3. active.preflight[proc.node].has \in Snapshot
        BY <4>2, FileOfFacts
      <4> QED BY <2>1, <3>2, <4>3 DEF Request!Apply
    <3> QED BY <3>1, <3>2
  <2> QED BY <1>3, <2>1, <2>2 DEF Request!Advance, Nodes
<1> QED BY <1>4, <1>5

(* The archiving rename does not change the request, the activating one is  *)
(* the rollover.                                                            *)
LEMMA ArchiveStutters ==
  ASSUME JournalInv, JournalInv', RollArchive
  PROVE  UNCHANGED <<Current, Archived>>
<1>1. CASE UNCHANGED <<archive, active>>
  BY <1>1, SameRequest DEF RollArchive
<1>2. CASE ~UNCHANGED <<archive, active>>
  <2>1. /\ active # Nil /\ active.journal.run = proc.run /\ archive[proc.run] = Nil
        /\ archive' = [archive EXCEPT ![proc.run] = active]
        /\ active' = Nil /\ UNCHANGED tx
    BY <1>2 DEF RollArchive
  <2>2. /\ tx = [at |-> "DONE", has |-> WantTransaction] /\ proc.run \in Run
        /\ archive \in [Run -> Dir \cup {Nil}]
    BY DEF RollArchive, At, JournalInv, JournalTypeOK, ProcessOK, RolloverOK, ResumedPcs
  <2>3. archive'[proc.run] = active /\ tx'.has.from = proc.run /\ tx'.at = "DONE"
    BY <2>1, <2>2 DEF WantTransaction
  <2>4. Current = active.journal /\ Current' = active.journal
    BY <2>1, <2>3 DEF Current, InTransit
  <2>5. \A j : j # active.journal =>
          ((\E r \in Run : archive[r] # Nil /\ j = archive[r].journal) <=>
           (\E r \in Run : archive'[r] # Nil /\ j = archive'[r].journal))
    BY <2>1, <2>2, <2>3
  <2>6. Archived' = Archived
    <3>1. \A j : j \in Archived <=>
            (\E r \in Run : archive[r] # Nil /\ j = archive[r].journal) /\ j # active.journal
      BY <2>4 DEF Archived
    <3>2. \A j : j \in Archived' <=>
            (\E r \in Run : archive'[r] # Nil /\ j = archive'[r].journal) /\ j # active.journal
      BY <2>4 DEF Archived
    <3>3. \A j : j \in Archived' <=> j \in Archived
      BY <2>5, <3>1, <3>2
    <3> QED BY <3>3 DEF Archived
  <2> QED BY <2>4, <2>6
<1> QED BY <1>1, <1>2

LEMMA ActivateRolls ==
  ASSUME JournalInv, JournalInv', RollActivate
  PROVE  Request!Rollover \/ UNCHANGED <<Current, Archived>>
<1>0. UNCHANGED <<archive, tx>>
  BY DEF RollActivate
<1>1. CASE UNCHANGED active
  BY <1>0, <1>1, SameRequest
<1>2. CASE ~UNCHANGED active
  <2>1. active = Nil /\ active' = FreshDir
    BY <1>2 DEF RollActivate
  <2>2. /\ tx = [at |-> "DONE", has |-> WantTransaction]
        /\ proc.run \in Run /\ proc.new \in Run /\ archive[proc.run] # Nil
    BY DEF RollActivate, At, JournalInv, ProcessOK, RolloverOK, ResumedPcs, ArchivedPcs,
           DonePcs
  <2>3. proc.new # proc.run /\ archive[proc.new] = Nil
    BY <2>2 DEF JournalInv, StoreOK, TransactionOK, TxPending, Written, WantTransaction
  <2>4. /\ Current = archive[proc.run].journal /\ Current # Nil
        /\ Current.run = proc.run /\ Current.status = "ABORTED_RECONCILED"
    <3>1. Current = archive[proc.run].journal
      BY <2>1, <2>2 DEF Current, InTransit, WantTransaction
    <3> QED
      BY <2>2, <3>1, NilAssumption
      DEF JournalInv, JournalTypeOK, StoreOK, DirectoriesOK, Dir
  <2>5. Current' = Request!FreshJournal(proc.new)
    BY <2>1, <2>2, FreshDirectory DEF Current, FreshDir, FreshOf
  <2>6. Archived' = {archive[r].journal : r \in {s \in Run : archive[s] # Nil}}
    <3>1. \A r \in Run : archive[r] # Nil => archive[r].journal # Current'
      BY <2>2, <2>5, FreshDirectory DEF JournalInv, StoreOK, DirectoriesOK
    <3> QED BY <1>0, <3>1 DEF Archived
  <2>7. Archived' = Archived \cup {Current}
    BY <2>2, <2>4, <2>6 DEF Archived
  <2>8. Request!Unused(proc.new)
    BY <2>2, <2>3, <2>4 DEF Request!Unused, Archived, JournalInv, StoreOK, DirectoriesOK
  <2> QED BY <2>2, <2>4, <2>5, <2>7, <2>8 DEF Request!Rollover
<1> QED BY <1>1, <1>2

(* Every other step leaves the request alone.                               *)
LEMMA OtherStepsStutter ==
  ASSUME JournalInv, JournalInv', [Next \/ Stabilise]_vars,
         ~BeginActivate, ~SaveReplace, ~RollArchive, ~RollActivate
  PROVE  UNCHANGED <<Current, Archived>>
<1>1. CASE SaveTemporary \/ SaveWrite
  <2>1. active \in Dir /\ active # Nil /\ UNCHANGED archive
    BY <1>1 DEF JournalInv, JournalTypeOK, ProcessOK, MutateOK, MutatePcs, SavePcs,
                SaveTemporary, SaveWrite, At, rolling
  <2>2. active' \in Dir \cup {Nil} /\ active'.journal = active.journal
    BY <1>1, <2>1 DEF SaveTemporary, SaveWrite, Dir, JournalInv, JournalTypeOK
  <2>3. Nil \notin Dir
    BY NilAssumption DEF Dir
  <2>4. active' # Nil
    <3>1. active' \in Dir
      BY <1>1, <2>1 DEF SaveTemporary, SaveWrite, Dir
    <3> QED BY <2>3, <3>1
  <2> QED BY <2>1, <2>2, <2>4, SameRequest
<1>2. CASE Writing
  <2>1. CASE UNCHANGED <<active, archive, tx>>
    BY <2>1, SameRequest
  <2>2. CASE \E f : Puts(f)
    <3>1. PICK f \in FileOf(Contents) : PutFile(f)
      BY <2>2 DEF Puts
    <3>2. CASE proc.pc \in {"preflight", "peer"}
      <4>1. active \in Dir /\ active # Nil /\ UNCHANGED archive
        BY <1>2, <3>1, <3>2, WriterFacts, PutFileIs
      <4>2. active' \in Dir
        BY <1>2, <3>1, <3>2, PutKeepsTypes
      <4> QED BY <3>1, <3>2, <4>1, <4>2, PutEvidence, SameRequest
    <3>3. CASE proc.pc = "tx"
      BY <3>1, <3>3, PutFileIs, SameRequest
      DEF JournalInv, ProcessOK, RolloverOK, TerminalIs
    <3>4. CASE proc.pc \in {"fresh", "manifest", "receipt"}
      BY <3>1, <3>4, PutFileIs, SameRequest
    <3> QED BY <1>2, <3>2, <3>3, <3>4 DEF Writing, ExclusiveWrites
  <2> QED
    BY <1>2, <2>1, <2>2, WritersPut
    DEF Next, Steps, Stabilise, vars, rolling, Writing, ExclusiveWrites, At, Killed, Begin,
        Finish, Arm, Mark, RollOver, Invoke, BeginEnds, BeginCleans, BeginAllocates,
        BeginDirectory, BeginTemporary, BeginState, BeginStep, Load,
        SaveTemporary, SaveWrite, ExclusiveExists, ExclusiveReuse, ExclusiveRefuse,
        RollNormalise, RollDecide, RollResources, RollInventory, RollFinish
<1>3. CASE RollNormalise
  <2>1. UNCHANGED <<active, archive>> /\ tx' = Linked(tx)
    BY <1>3 DEF RollNormalise
  <2>2. active = Nil => tx.at # "LINKED"
    BY DEF JournalInv, StoreOK, TransactionOK, TxPending, Written, TerminalIs
  <2> QED BY <2>1, <2>2, SameRequest DEF Linked
<1>4. CASE RollFinish
  <2>1. UNCHANGED <<active, archive>>
    BY <1>4 DEF RollFinish
  <2>2. active = FreshOf(proc.new) /\ proc.new \in Run
    BY <1>4 DEF RollFinish, At, JournalInv, ProcessOK, RolloverOK, ResumedPcs, ArchivedPcs,
                DonePcs, FreshDir, FreshOf
  <2> QED BY <2>1, <2>2, FreshDirectory, SameRequest
<1>5. CASE UNCHANGED <<active, archive, tx>>
  BY <1>5, SameRequest
<1> QED
  BY <1>1, <1>2, <1>3, <1>4, <1>5
  DEF Next, Steps, Stabilise, vars, rolling, Killed, Begin, Finish, Arm, Mark, RollOver,
      Invoke, BeginEnds, BeginCleans, BeginAllocates, BeginDirectory, BeginTemporary,
      BeginState, BeginStep, Load, ExclusiveNormalise, ExclusiveExists, ExclusiveReuse,
      ExclusiveDiscard, ExclusiveRefuse, ExclusiveCreate, ExclusiveFill, ExclusiveLink,
      ExclusiveUnlink, RollDecide, RollResources, RollInventory

(* Whatever is killed and repeated, the files implement the request that    *)
(* the script documents: sbc1 before sbc2, no phase back, and a fresh run   *)
(* exactly when the old one was aborted and has been archived.              *)
THEOREM JournalImplementsRequest == FairSpec => ImplementsRequest
<1>1. Init => Request!RequestInit
  BY DEF Init, Request!RequestInit, Current, InTransit, Archived, NoFile
<1>2. JournalInv /\ JournalInv' /\ [Next \/ Stabilise]_vars =>
        [Request!RequestNext]_(Request!requestVars)
  BY ActivateAllocates, ReplaceAdvances, ArchiveStutters, ActivateRolls, OtherStepsStutter
  DEF Request!RequestNext, Request!requestVars
<1> QED
  BY <1>1, <1>2, InvHolds, PTL DEF FairSpec, ImplementsRequest, Request!RequestSpec

-----------------------------------------------------------------------------
(* The qualification play. Its invariant relates the request, the nodes and *)
(* what the play has read of them.                                          *)

(* A request has the shape its transitions give it.                         *)
ShapeOK ==
  request # NoRequest =>
    /\ \A n \in Q!Nodes : request.phase[n] = "PENDING" <=> request.pre[n] = NoRequest
    /\ request.current = "sbc1" => request.phase["sbc2"] = "PENDING"
    /\ request.status = "IN_PROGRESS" =>
         /\ request.current = "sbc1" =>
              request.phase["sbc1"] \notin {"QUALIFIED", "ABORTED_RECONCILED"}
         /\ request.current = "sbc2" =>
              /\ request.phase["sbc1"] = "QUALIFIED"
              /\ request.phase["sbc2"] \notin {"QUALIFIED", "ABORTED_RECONCILED"}
    /\ request.current = NoRequest => \A n \in Q!Nodes : request.phase[n] = "QUALIFIED"
    /\ request.status = "COMPLETE" => request.current = NoRequest
    /\ request.status = "ABORTED_RECONCILED" => request.current # NoRequest

(* The phases in which a task can be.                                       *)
PhasesOf(task) ==
  CASE task = "arm" -> {"PENDING"}
    [] task \in {"schedule", "scheduled", "uncommitted", "recovered"} -> {"ARMED"}
    [] task = "cancel" -> {"ARMED", "SCHEDULED"}
    [] task \in {"await", "peer", "loss"} -> {"SCHEDULED"}
    [] task = "reconnect" -> {"SSH_LOST"}
    [] task \in {"ready", "proof", "commit"} -> {"SSH_LOST", "RECONNECTED"}
    [] task \in {"call", "qualify"} -> {"RECONNECTED"}
    [] task \in {"look", "abort"} -> {"ARMED", "SCHEDULED", "SSH_LOST", "RECONNECTED"}
    [] OTHER -> Q!NodePhases \ {"QUALIFIED", "ABORTED_RECONCILED"}

(* The play is where its request is.                                        *)
TaskOK ==
  /\ qualifier.task \notin {"idle", "begin"} =>
       request # NoRequest /\ request.status \in {"IN_PROGRESS", "COMPLETE"}
  /\ qualifier.task \notin {"idle", "begin", "node"} =>
       /\ request.status = "IN_PROGRESS" /\ Target \in Q!Nodes
       /\ Phase \in PhasesOf(qualifier.task)

(* A node that has not come up since its services were stopped.             *)
Rebooting(n) == edges[n].power # "up"

(* A transient unit is loaded while the node is up, and fired on its way    *)
(* down.                                                                    *)
UnitsOK ==
  \A n \in Q!Nodes :
    /\ edges[n].unit = "timer" => edges[n].power = "up"
    /\ edges[n].power = "stopping" => edges[n].unit = "fired"

(* Boot identifiers only grow: what was armed or read is not newer.         *)
BootsOK ==
  /\ request # NoRequest =>
       \A n, m \in Q!Nodes : request.pre[n] # NoRequest => request.pre[n][m] <= edges[m].boot
  /\ qualifier.task \in {"arm", "look", "schedule"} =>
       \A m \in Q!Nodes : qualifier.seen[m] <= edges[m].boot
  /\ qualifier.task = "look" => Armed[Target] <= qualifier.seen[Target]
  /\ qualifier.task \in {"proof", "commit"} =>
       Armed[Target] <= qualifier.after /\ qualifier.after <= edges[Target].boot
  /\ qualifier.task = "commit" => qualifier.after # Armed[Target]
  /\ qualifier.task = "schedule" => qualifier.seen[Target] = Armed[Target]

(* A pending unit is of the request in progress, which has not rebooted the *)
(* node yet.                                                                *)
TimerOK ==
  \A n \in Q!Nodes : edges[n].unit = "timer" =>
    /\ request # NoRequest /\ request.status = "IN_PROGRESS" /\ request.current = n
    /\ request.pre[n] # NoRequest /\ edges[n].boot = request.pre[n][n]
    /\ reboots[n] = 0

(* A rebooted node was rebooted once, and is down or shows it.              *)
RebootedOK ==
  \A n \in Q!Nodes : reboots[n] > 0 =>
    /\ reboots[n] = 1 /\ request # NoRequest /\ request.pre[n] # NoRequest
    /\ Rebooting(n) \/ edges[n].boot # request.pre[n][n]

(* What the play has read of its target still holds.                        *)
ReadsOK ==
  /\ qualifier.task \in {"arm", "look", "schedule"} =>
       qualifier.seen[Target] = edges[Target].boot
  /\ qualifier.task \in {"abort", "ready", "proof", "commit", "call", "qualify"} =>
       edges[Target].unit # "timer"

(* The record the type invariant leaves out.                                *)
QualifierOK ==
  qualifier \in [task : Tasks, seen : [Q!Nodes -> Nat], after : Nat]

(* What holds as long as no node came up between two reads of one play.     *)
NoBlink == ~blinked => TimerOK /\ RebootedOK /\ ReadsOK

(* The inductive invariant.                                                 *)
QualInv ==
  /\ QualTypeOK /\ QualifierOK /\ ShapeOK /\ TaskOK /\ UnitsOK /\ BootsOK
  /\ QualifiedWasRebooted /\ NoBlink


(* What a node is: its power, its boot, its health and its transient unit.  *)
Edge == [power : {"up", "stopping", "down"}, boot : Nat, well : BOOLEAN,
         unit : {"none", "timer", "fired", "failed"}]

(* What the assumption says of the values in use.                           *)
LEMMA NoRequestIs ==
  /\ NoRequest \notin Q!Journal /\ NoRequest \notin Boots /\ NoRequest \notin Q!Nodes
  /\ Q!Nodes = {"sbc1", "sbc2"} /\ Boots = [Q!Nodes -> Nat]
  BY NoRequestAssumption DEF Q!Nodes, Boots

(* The fields of a request, each with its type.                             *)
LEMMA RequestFields ==
  ASSUME QualInv, request # NoRequest
  PROVE  /\ request \in Q!Journal
         /\ request.run \in Requests /\ request.status \in Q!Statuses
         /\ request.current \in Q!Nodes \cup {NoRequest}
         /\ request.phase \in [Q!Nodes -> Q!NodePhases]
         /\ request.pre \in [Q!Nodes -> Boots \cup {NoRequest}]
         /\ \A n, m \in Q!Nodes : request.pre[n] # NoRequest => request.pre[n][m] \in Nat
  BY NoRequestIs DEF QualInv, QualTypeOK, Q!Journal

(* Every node is an Edge.                                                   *)
LEMMA EdgeFields ==
  ASSUME QualInv
  PROVE  /\ edges \in [Q!Nodes -> Edge]
         /\ \A n \in Q!Nodes : edges[n] \in Edge
  BY DEF QualInv, QualTypeOK, Edge

(* A node's next state is an Edge like the others.                          *)
LEMMA EdgeTyped ==
  ASSUME QualInv, NEW n \in Q!Nodes, NEW e \in Edge, SetEdge(n, e)
  PROVE  edges' \in [Q!Nodes -> Edge]
  BY EdgeFields DEF SetEdge

(* A play that ends leaves the idle record.                                 *)
LEMMA IdleFields ==
  ASSUME PlayEnds
  PROVE  qualifier'.task = "idle" /\ QualifierOK'
  BY DEF PlayEnds, Idle, QualifierOK, Tasks

(* The timer was the request's in progress: this is its first reboot.       *)
LEMMA UnitFiresKeeps ==
  ASSUME QualInv, NEW n \in Q!Nodes, UnitFires(n)
  PROVE  QualInv'
  <1>1. (QualTypeOK /\ QualifierOK)'
    <2>1. edges' \in [Q!Nodes -> Edge]
      BY EdgeFields, EdgeTyped DEF UnitFires, SetEdge, Edge
    <2>2. QualTypeOK /\ QualifierOK
      BY DEF QualInv
    <2> QED BY <2>1, <2>2, RequestFields, NoRequestIs DEF UnitFires, SetEdge, requestState,
               QualTypeOK, QualifierOK, Edge, Tasks
  <1>2. ShapeOK'
    BY DEF UnitFires, SetEdge, requestState, Q!Nodes, QualInv, QualTypeOK, ShapeOK
  <1>3. TaskOK'
    BY DEF UnitFires, SetEdge, requestState, Q!Nodes, QualInv, QualTypeOK, QualifierOK,
       ShapeOK, TaskOK, Target, Phase
  <1>4. UnitsOK'
    BY DEF UnitFires, SetEdge, requestState, Q!Nodes, QualInv, QualTypeOK, UnitsOK
  <1>5. BootsOK'
    BY DEF UnitFires, SetEdge, requestState, Q!Nodes, QualInv, QualTypeOK, QualifierOK,
       ShapeOK, TaskOK, PhasesOf, UnitsOK, BootsOK, Target, Armed
  <1>6. QualifiedWasRebooted'
    BY DEF UnitFires, SetEdge, requestState, Q!Nodes, QualInv, QualTypeOK,
       QualifiedWasRebooted
  <1>7. NoBlink'
    BY DEF UnitFires, SetEdge, requestState, Q!Nodes, QualInv, QualTypeOK, QualifierOK,
       ShapeOK, TaskOK, PhasesOf, UnitsOK, BootsOK, QualifiedWasRebooted, NoBlink, TimerOK,
       RebootedOK, ReadsOK, Rebooting, Target
  <1> QED BY <1>1, <1>2, <1>3, <1>4, <1>5, <1>6, <1>7 DEF QualInv

(* Stopping services touches neither unit nor boot.                         *)
LEMMA ServicesStopKeeps ==
  ASSUME QualInv, NEW n \in Q!Nodes, ServicesStop(n)
  PROVE  QualInv'
  <1>1. (QualTypeOK /\ QualifierOK)'
    <2>1. edges' \in [Q!Nodes -> Edge]
      BY EdgeFields, EdgeTyped DEF ServicesStop, SetEdge, Edge
    <2>2. QualTypeOK /\ QualifierOK
      BY DEF QualInv
    <2> QED BY <2>1, <2>2, RequestFields, NoRequestIs DEF ServicesStop, SetEdge, requestState,
               QualTypeOK, QualifierOK, Edge, Tasks
  <1>2. ShapeOK'
    BY DEF ServicesStop, SetEdge, requestState, Q!Nodes, QualInv, QualTypeOK, ShapeOK
  <1>3. TaskOK'
    BY DEF ServicesStop, SetEdge, requestState, Q!Nodes, QualInv, QualTypeOK, QualifierOK,
       ShapeOK, TaskOK, Target, Phase
  <1>4. UnitsOK'
    BY DEF ServicesStop, SetEdge, requestState, Q!Nodes, QualInv, QualTypeOK, UnitsOK
  <1>5. BootsOK'
    BY DEF ServicesStop, SetEdge, requestState, Q!Nodes, QualInv, QualTypeOK, QualifierOK,
       ShapeOK, TaskOK, PhasesOf, UnitsOK, BootsOK, Target, Armed
  <1>6. QualifiedWasRebooted'
    BY DEF ServicesStop, SetEdge, requestState, Q!Nodes, QualInv, QualTypeOK,
       QualifiedWasRebooted
  <1>7. NoBlink'
    BY DEF ServicesStop, SetEdge, requestState, Q!Nodes, QualInv, QualTypeOK, QualifierOK,
       ShapeOK, TaskOK, PhasesOf, UnitsOK, BootsOK, QualifiedWasRebooted, NoBlink, TimerOK,
       RebootedOK, ReadsOK, Rebooting, Target
  <1> QED BY <1>1, <1>2, <1>3, <1>4, <1>5, <1>6, <1>7 DEF QualInv

(* A node that is down has lost its transient unit.                         *)
LEMMA ShutDownKeeps ==
  ASSUME QualInv, NEW n \in Q!Nodes, ShutDown(n)
  PROVE  QualInv'
  <1>1. (QualTypeOK /\ QualifierOK)'
    <2>1. edges' \in [Q!Nodes -> Edge]
      BY EdgeFields, EdgeTyped DEF ShutDown, SetEdge, Edge
    <2>2. QualTypeOK /\ QualifierOK
      BY DEF QualInv
    <2> QED BY <2>1, <2>2, RequestFields, NoRequestIs DEF ShutDown, SetEdge, requestState,
               QualTypeOK, QualifierOK, Edge, Tasks
  <1>2. ShapeOK'
    BY DEF ShutDown, SetEdge, requestState, Q!Nodes, QualInv, QualTypeOK, ShapeOK
  <1>3. TaskOK'
    BY DEF ShutDown, SetEdge, requestState, Q!Nodes, QualInv, QualTypeOK, QualifierOK,
       ShapeOK, TaskOK, Target, Phase
  <1>4. UnitsOK'
    BY DEF ShutDown, SetEdge, requestState, Q!Nodes, QualInv, QualTypeOK, UnitsOK
  <1>5. BootsOK'
    BY DEF ShutDown, SetEdge, requestState, Q!Nodes, QualInv, QualTypeOK, QualifierOK,
       ShapeOK, TaskOK, PhasesOf, UnitsOK, BootsOK, Target, Armed
  <1>6. QualifiedWasRebooted'
    BY DEF ShutDown, SetEdge, requestState, Q!Nodes, QualInv, QualTypeOK,
       QualifiedWasRebooted
  <1>7. NoBlink'
    BY DEF ShutDown, SetEdge, requestState, Q!Nodes, QualInv, QualTypeOK, QualifierOK,
       ShapeOK, TaskOK, PhasesOf, UnitsOK, BootsOK, QualifiedWasRebooted, NoBlink, TimerOK,
       RebootedOK, ReadsOK, Rebooting, Target
  <1> QED BY <1>1, <1>2, <1>3, <1>4, <1>5, <1>6, <1>7 DEF QualInv

(* The boot grows past what was armed; a play between two reads is told by  *)
(* `blinked`.                                                               *)
LEMMA BootUpKeeps ==
  ASSUME QualInv, NEW n \in Q!Nodes, BootUp(n)
  PROVE  QualInv'
  <1>1. (QualTypeOK /\ QualifierOK)'
    <2>1. edges' \in [Q!Nodes -> Edge]
      <3>1. edges[n] \in Edge /\ edges[n].boot + 1 \in Nat
        BY EdgeFields DEF Edge
      <3>2. [edges[n] EXCEPT !.power = "up", !.boot = @ + 1] \in Edge
        BY <3>1 DEF Edge
      <3> QED BY <3>2, EdgeTyped DEF BootUp
    <2>2. QualTypeOK /\ QualifierOK
      BY DEF QualInv
    <2> QED BY <2>1, <2>2, RequestFields, NoRequestIs DEF BootUp, SetEdge, requestState,
               BetweenReads, QualTypeOK, QualifierOK, Edge, Tasks
  <1>2. ShapeOK'
    BY DEF BootUp, SetEdge, requestState, BetweenReads, Q!Nodes, QualInv, QualTypeOK,
       ShapeOK
  <1>3. TaskOK'
    BY DEF BootUp, SetEdge, requestState, BetweenReads, Q!Nodes, QualInv, QualTypeOK,
       QualifierOK, ShapeOK, TaskOK, Target, Phase
  <1>4. UnitsOK'
    BY DEF BootUp, SetEdge, requestState, BetweenReads, Q!Nodes, QualInv, QualTypeOK,
       UnitsOK
  <1>5. BootsOK'
    BY RequestFields DEF BootUp, SetEdge, requestState, BetweenReads, Q!Nodes, QualInv,
       QualTypeOK, QualifierOK, ShapeOK, TaskOK, PhasesOf, UnitsOK, BootsOK,
       QualifiedWasRebooted, NoBlink, Target, Armed
  <1>6. QualifiedWasRebooted'
    BY DEF BootUp, SetEdge, requestState, BetweenReads, Q!Nodes, QualInv, QualTypeOK,
       QualifierOK, ShapeOK, TaskOK, PhasesOf, BootsOK, QualifiedWasRebooted
  <1>7. NoBlink'
    <2> SUFFICES ASSUME ~blinked' PROVE (TimerOK /\ RebootedOK /\ ReadsOK)'
      BY DEF NoBlink
    <2>1. TimerOK /\ RebootedOK /\ ReadsOK /\ ~BetweenReads(n) /\ UNCHANGED <<request,
            qualifier, reboots>>
      BY DEF BootUp, QualInv, NoBlink, requestState
    <2>2. /\ edges'[n].boot = edges[n].boot + 1
          /\ edges'[n].unit = edges[n].unit
          /\ edges[n].power = "down"
          /\ edges[n].boot \in Nat /\ \A m \in Q!Nodes : m # n => edges'[m] = edges[m]
      BY EdgeFields DEF BootUp, SetEdge, Edge
    <2>3. edges[n].unit # "timer"
      BY <2>2 DEF QualInv, UnitsOK
    <2>4. TimerOK'
      BY <2>1, <2>2, <2>3 DEF TimerOK
    <2>5. ASSUME request # NoRequest,
            request.pre[n] # NoRequest PROVE edges'[n].boot # request.pre[n][n]
      BY <2>2, <2>5, RequestFields DEF QualInv, BootsOK
    <2>6. RebootedOK'
      BY <2>1, <2>2, <2>5 DEF RebootedOK, Rebooting
    <2>7. ReadsOK'
      <3>1. qualifier.task \in {"arm", "look", "schedule", "abort", "ready", "proof",
                                "commit", "call", "qualify"} => Target \in Q!Nodes
        BY DEF QualInv, TaskOK
      <3> QED BY <2>1, <2>2, <2>3, <3>1 DEF ReadsOK, BetweenReads, Target
    <2> QED BY <2>4, <2>6, <2>7
  <1> QED BY <1>1, <1>2, <1>3, <1>4, <1>5, <1>6, <1>7 DEF QualInv

(* Services come up, and nothing else.                                      *)
LEMMA ComesWellKeeps ==
  ASSUME QualInv, NEW n \in Q!Nodes, ComesWell(n)
  PROVE  QualInv'
  <1>1. (QualTypeOK /\ QualifierOK)'
    <2>1. edges' \in [Q!Nodes -> Edge]
      BY EdgeFields, EdgeTyped DEF ComesWell, SetEdge, Edge
    <2>2. QualTypeOK /\ QualifierOK
      BY DEF QualInv
    <2> QED BY <2>1, <2>2, RequestFields, NoRequestIs DEF ComesWell, SetEdge, requestState,
               QualTypeOK, QualifierOK, Edge, Tasks
  <1>2. ShapeOK'
    BY DEF ComesWell, SetEdge, requestState, Q!Nodes, QualInv, QualTypeOK, ShapeOK
  <1>3. TaskOK'
    BY DEF ComesWell, SetEdge, requestState, Q!Nodes, QualInv, QualTypeOK, QualifierOK,
       ShapeOK, TaskOK, Target, Phase
  <1>4. UnitsOK'
    BY DEF ComesWell, SetEdge, requestState, Q!Nodes, QualInv, QualTypeOK, UnitsOK
  <1>5. BootsOK'
    BY DEF ComesWell, SetEdge, requestState, Q!Nodes, QualInv, QualTypeOK, QualifierOK,
       ShapeOK, TaskOK, PhasesOf, UnitsOK, BootsOK, Target, Armed
  <1>6. QualifiedWasRebooted'
    BY DEF ComesWell, SetEdge, requestState, Q!Nodes, QualInv, QualTypeOK,
       QualifiedWasRebooted
  <1>7. NoBlink'
    BY DEF ComesWell, SetEdge, requestState, Q!Nodes, QualInv, QualTypeOK, QualifierOK,
       ShapeOK, TaskOK, PhasesOf, UnitsOK, BootsOK, QualifiedWasRebooted, NoBlink, TimerOK,
       RebootedOK, ReadsOK, Rebooting, Target
  <1> QED BY <1>1, <1>2, <1>3, <1>4, <1>5, <1>6, <1>7 DEF QualInv

(* The connection of a node is no part of the invariant.                    *)
LEMMA RejoinKeeps ==
  ASSUME QualInv, NEW n \in Q!Nodes, Rejoin(n)
  PROVE  QualInv'
  <1>1. (QualTypeOK /\ QualifierOK)'
    BY DEF Rejoin, requestState, Q!Nodes, QualInv, QualTypeOK, QualifierOK
  <1>2. ShapeOK'
    BY DEF Rejoin, requestState, Q!Nodes, QualInv, QualTypeOK, ShapeOK
  <1>3. TaskOK'
    BY DEF Rejoin, requestState, Q!Nodes, QualInv, QualTypeOK, QualifierOK, ShapeOK, TaskOK,
       Target, Phase
  <1>4. UnitsOK'
    BY DEF Rejoin, requestState, Q!Nodes, QualInv, QualTypeOK, UnitsOK
  <1>5. BootsOK'
    BY DEF Rejoin, requestState, Q!Nodes, QualInv, QualTypeOK, QualifierOK, ShapeOK, TaskOK,
       PhasesOf, UnitsOK, BootsOK, Target, Armed
  <1>6. QualifiedWasRebooted'
    BY DEF Rejoin, requestState, Q!Nodes, QualInv, QualTypeOK, QualifiedWasRebooted
  <1>7. NoBlink'
    BY DEF Rejoin, requestState, Q!Nodes, QualInv, QualTypeOK, QualifierOK, ShapeOK, TaskOK,
       PhasesOf, UnitsOK, BootsOK, QualifiedWasRebooted, NoBlink, TimerOK, RebootedOK,
       ReadsOK, Rebooting, Target
  <1> QED BY <1>1, <1>2, <1>3, <1>4, <1>5, <1>6, <1>7 DEF QualInv

(* A unit that failed will not fire.                                        *)
LEMMA UnitFailsKeeps ==
  ASSUME QualInv, NEW n \in Q!Nodes, UnitFails(n)
  PROVE  QualInv'
  <1>1. (QualTypeOK /\ QualifierOK)'
    <2>1. edges' \in [Q!Nodes -> Edge]
      BY EdgeFields, EdgeTyped DEF UnitFails, SetEdge, Edge
    <2>2. QualTypeOK /\ QualifierOK
      BY DEF QualInv
    <2> QED BY <2>1, <2>2, RequestFields, NoRequestIs, QualificationConstants DEF UnitFails,
               SetEdge, requestState, Trouble, QualTypeOK, QualifierOK, Edge, Tasks
  <1>2. ShapeOK'
    BY DEF UnitFails, SetEdge, requestState, Trouble, Q!Nodes, QualInv, QualTypeOK, ShapeOK
  <1>3. TaskOK'
    BY DEF UnitFails, SetEdge, requestState, Trouble, Q!Nodes, QualInv, QualTypeOK,
       QualifierOK, ShapeOK, TaskOK, Target, Phase
  <1>4. UnitsOK'
    BY DEF UnitFails, SetEdge, requestState, Trouble, Q!Nodes, QualInv, QualTypeOK, UnitsOK
  <1>5. BootsOK'
    BY DEF UnitFails, SetEdge, requestState, Trouble, Q!Nodes, QualInv, QualTypeOK,
       QualifierOK, ShapeOK, TaskOK, PhasesOf, UnitsOK, BootsOK, Target, Armed
  <1>6. QualifiedWasRebooted'
    BY DEF UnitFails, SetEdge, requestState, Trouble, Q!Nodes, QualInv, QualTypeOK,
       QualifiedWasRebooted
  <1>7. NoBlink'
    BY DEF UnitFails, SetEdge, requestState, Trouble, Q!Nodes, QualInv, QualTypeOK,
       QualifierOK, ShapeOK, TaskOK, PhasesOf, UnitsOK, BootsOK, QualifiedWasRebooted,
       NoBlink, TimerOK, RebootedOK, ReadsOK, Target
  <1> QED BY <1>1, <1>2, <1>3, <1>4, <1>5, <1>6, <1>7 DEF QualInv

(* A node that goes down by itself takes its unit with it.                  *)
LEMMA GoesDownKeeps ==
  ASSUME QualInv, NEW n \in Q!Nodes, GoesDown(n)
  PROVE  QualInv'
  <1>1. (QualTypeOK /\ QualifierOK)'
    <2>1. edges' \in [Q!Nodes -> Edge]
      BY EdgeFields, EdgeTyped DEF GoesDown, SetEdge, Edge
    <2>2. QualTypeOK /\ QualifierOK
      BY DEF QualInv
    <2> QED BY <2>1, <2>2, RequestFields, NoRequestIs, QualificationConstants DEF GoesDown,
               SetEdge, requestState, Trouble, QualTypeOK, QualifierOK, Edge, Tasks
  <1>2. ShapeOK'
    BY DEF GoesDown, SetEdge, requestState, Trouble, Q!Nodes, QualInv, QualTypeOK, ShapeOK
  <1>3. TaskOK'
    BY DEF GoesDown, SetEdge, requestState, Trouble, Q!Nodes, QualInv, QualTypeOK,
       QualifierOK, ShapeOK, TaskOK, Target, Phase
  <1>4. UnitsOK'
    BY DEF GoesDown, SetEdge, requestState, Trouble, Q!Nodes, QualInv, QualTypeOK, UnitsOK
  <1>5. BootsOK'
    BY DEF GoesDown, SetEdge, requestState, Trouble, Q!Nodes, QualInv, QualTypeOK,
       QualifierOK, ShapeOK, TaskOK, PhasesOf, UnitsOK, BootsOK, Target, Armed
  <1>6. QualifiedWasRebooted'
    BY DEF GoesDown, SetEdge, requestState, Trouble, Q!Nodes, QualInv, QualTypeOK,
       QualifiedWasRebooted
  <1>7. NoBlink'
    BY DEF GoesDown, SetEdge, requestState, Trouble, Q!Nodes, QualInv, QualTypeOK,
       QualifierOK, ShapeOK, TaskOK, PhasesOf, UnitsOK, BootsOK, QualifiedWasRebooted,
       NoBlink, TimerOK, RebootedOK, ReadsOK, Rebooting, Target
  <1> QED BY <1>1, <1>2, <1>3, <1>4, <1>5, <1>6, <1>7 DEF QualInv

(* The connection of a node is no part of the invariant.                    *)
LEMMA CutOffKeeps ==
  ASSUME QualInv, NEW n \in Q!Nodes, CutOff(n)
  PROVE  QualInv'
  <1>1. (QualTypeOK /\ QualifierOK)'
    BY QualificationConstants DEF CutOff, requestState, Trouble, Q!Nodes, QualInv,
       QualTypeOK, QualifierOK, ShapeOK
  <1>2. ShapeOK'
    BY DEF CutOff, requestState, Trouble, Q!Nodes, QualInv, QualTypeOK, ShapeOK
  <1>3. TaskOK'
    BY DEF CutOff, requestState, Trouble, Q!Nodes, QualInv, QualTypeOK, QualifierOK,
       ShapeOK, TaskOK, Target, Phase
  <1>4. UnitsOK'
    BY DEF CutOff, requestState, Trouble, Q!Nodes, QualInv, QualTypeOK, UnitsOK
  <1>5. BootsOK'
    BY DEF CutOff, requestState, Trouble, Q!Nodes, QualInv, QualTypeOK, QualifierOK,
       ShapeOK, TaskOK, PhasesOf, UnitsOK, BootsOK, Target, Armed
  <1>6. QualifiedWasRebooted'
    BY DEF CutOff, requestState, Trouble, Q!Nodes, QualInv, QualTypeOK, QualifiedWasRebooted
  <1>7. NoBlink'
    BY DEF CutOff, requestState, Trouble, Q!Nodes, QualInv, QualTypeOK, QualifierOK,
       ShapeOK, TaskOK, PhasesOf, UnitsOK, BootsOK, QualifiedWasRebooted, NoBlink, TimerOK,
       RebootedOK, ReadsOK, Rebooting, Target
  <1> QED BY <1>1, <1>2, <1>3, <1>4, <1>5, <1>6, <1>7 DEF QualInv

(* A play that begins relies on nothing yet.                                *)
LEMMA StartPlayKeeps ==
  ASSUME QualInv, StartPlay
  PROVE  QualInv'
  <1>1. (QualTypeOK /\ QualifierOK)'
    BY DEF StartPlay, requestState, nodeState, OnTask, Proceed, Q!Nodes, QualInv,
       QualTypeOK, QualifierOK, ShapeOK, Tasks
  <1>2. ShapeOK'
    BY DEF StartPlay, requestState, nodeState, OnTask, Proceed, Q!Nodes, QualInv,
       QualTypeOK, ShapeOK
  <1>3. TaskOK'
    BY DEF StartPlay, requestState, nodeState, OnTask, Proceed, Q!Nodes, TaskOK
  <1>4. UnitsOK'
    BY DEF StartPlay, requestState, nodeState, OnTask, Proceed, Q!Nodes, QualInv,
       QualTypeOK, UnitsOK
  <1>5. BootsOK'
    BY DEF StartPlay, requestState, nodeState, OnTask, Proceed, Q!Nodes, QualInv,
       QualTypeOK, BootsOK
  <1>6. QualifiedWasRebooted'
    BY DEF StartPlay, requestState, nodeState, OnTask, Proceed, Q!Nodes, QualInv,
       QualTypeOK, QualifiedWasRebooted
  <1>7. NoBlink'
    BY DEF StartPlay, requestState, nodeState, OnTask, Proceed, Q!Nodes, QualInv,
       QualTypeOK, QualifierOK, ShapeOK, TaskOK, PhasesOf, UnitsOK, BootsOK,
       QualifiedWasRebooted, NoBlink, TimerOK, RebootedOK, ReadsOK, Rebooting
  <1> QED BY <1>1, <1>2, <1>3, <1>4, <1>5, <1>6, <1>7 DEF QualInv

(* The request goes to its next node, or is completed after both.           *)
LEMMA NextNodeKeeps ==
  ASSUME QualInv, NextNode
  PROVE  QualInv'
  <1>1. /\ QualTypeOK
        /\ QualifierOK
        /\ ShapeOK
        /\ TaskOK
        /\ UnitsOK
        /\ BootsOK
        /\ QualifiedWasRebooted
        /\ NoBlink
    BY DEF QualInv
  <1>2. request # NoRequest /\ request.status \in {"IN_PROGRESS",
                                        "COMPLETE"} /\ UNCHANGED <<closed, edges, cut,
                                        troubles, reboots, blinked>>
    BY <1>1 DEF NextNode, Do, OnTask, TaskOK, nodeState
  <1>3. CASE Target # NoRequest /\ Proceed("observe") /\ UNCHANGED request
    <2>1. /\ Target \in Q!Nodes
          /\ request.status = "IN_PROGRESS"
          /\ Phase \in Q!NodePhases \ {"QUALIFIED", "ABORTED_RECONCILED"}
      BY <1>1, <1>2, <1>3, RequestFields, NoRequestIs DEF ShapeOK, Target, Phase
    <2>2. /\ qualifier' = [qualifier EXCEPT !.task = "observe"]
          /\ qualifier'.task = "observe"
          /\ QualifierOK'
      BY <1>1, <1>3 DEF Proceed, QualifierOK, Tasks
    <2>3. TaskOK'
      BY <1>2, <1>3, <2>1, <2>2 DEF TaskOK, PhasesOf, Target, Phase
    <2> QED BY <1>1, <1>2, <1>3, <2>1, <2>2, <2>3, NoRequestIs DEF QualInv, QualTypeOK,
               ShapeOK, UnitsOK, BootsOK, QualifiedWasRebooted, NoBlink, TimerOK, RebootedOK,
               ReadsOK, Rebooting, Tasks
  <1>4. CASE request' = request /\ PlayEnds
    BY <1>1, <1>2, <1>4, IdleFields DEF QualInv, QualTypeOK, QualifierOK, ShapeOK, TaskOK,
       UnitsOK, BootsOK, QualifiedWasRebooted, NoBlink, TimerOK, RebootedOK, ReadsOK,
       Rebooting
  <1>5. CASE Q!Completable(request) /\ request' = Q!Completed(request) /\ PlayEnds
    <2>1. /\ request' \in Q!Journal /\ request' # NoRequest
          /\ request'.phase = request.phase
          /\ request'.pre = request.pre
          /\ request'.current = request.current
          /\ request'.status = "COMPLETE"
      BY <1>2, <1>5, RequestFields, NoRequestIs DEF Q!Completed, Q!Journal, Q!Statuses
    <2>2. request.current = NoRequest
      BY <1>1, <1>2, <1>5, RequestFields, NoRequestIs DEF ShapeOK, Q!Completable
    <2>3. ShapeOK'
      BY <1>1, <1>2, <2>1, <2>2 DEF ShapeOK
    <2>4. NoBlink'
      BY <1>1, <1>2, <1>5, <2>1, <2>2, IdleFields, NoRequestIs DEF NoBlink, TimerOK,
         RebootedOK, ReadsOK, Rebooting
    <2> QED BY <1>1, <1>2, <1>5, <2>1, <2>2, <2>3, <2>4, IdleFields, RequestFields,
               NoRequestIs DEF QualInv, QualTypeOK, Tasks, TaskOK, UnitsOK, BootsOK,
               QualifiedWasRebooted
  <1> QED BY <1>3, <1>4, <1>5 DEF NextNode

(* The play reads both boot identifiers.                                    *)
LEMMA ObserveKeeps ==
  ASSUME QualInv, Observe
  PROVE  QualInv'
  <1>1. (QualTypeOK /\ QualifierOK)'
    BY RequestFields, NoRequestIs DEF Observe, requestState, nodeState, AsArmed, Fit, Do,
       Met, OnTask, Q!Nodes, QualInv, QualTypeOK, QualifierOK, ShapeOK, TaskOK, PhasesOf,
       UnitsOK, BootsOK, QualifiedWasRebooted, NoBlink, TimerOK, RebootedOK, ReadsOK,
       Rebooting, Target, Phase, Armed, Tasks, Answers
  <1>2. ShapeOK'
    BY DEF Observe, requestState, nodeState, AsArmed, Fit, Do, Met, OnTask, Q!Nodes,
       QualInv, ShapeOK
  <1>3. TaskOK'
    <2>1. TaskOK /\ QualifierOK /\ request # NoRequest /\ OnTask("observe") /\ UNCHANGED request
      BY DEF Observe, Do, OnTask, QualInv, TaskOK, requestState
    <2>2. /\ request.status = "IN_PROGRESS"
          /\ Target \in Q!Nodes
          /\ Phase \in Q!NodePhases \ {"QUALIFIED", "ABORTED_RECONCILED"}
      BY <2>1 DEF OnTask, TaskOK, PhasesOf
    <2>3. qualifier'.task = IF Phase = "PENDING" THEN "arm" ELSE "look"
      BY <2>1 DEF Observe, QualifierOK
    <2> QED BY <2>1, <2>2, <2>3 DEF TaskOK, PhasesOf, Q!NodePhases, Target, Phase
  <1>4. UnitsOK'
    BY DEF Observe, requestState, nodeState, AsArmed, Fit, Do, Met, OnTask, Q!Nodes,
       QualInv, UnitsOK
  <1>5. BootsOK'
    BY DEF Observe, requestState, nodeState, AsArmed, Fit, Do, Met, OnTask, Q!Nodes,
       QualInv, QualTypeOK, QualifierOK, ShapeOK, TaskOK, PhasesOf, UnitsOK, BootsOK,
       QualifiedWasRebooted, NoBlink, TimerOK, Target, Phase, Armed
  <1>6. QualifiedWasRebooted'
    BY DEF Observe, requestState, nodeState, AsArmed, Fit, Do, Met, OnTask, Q!Nodes,
       QualInv, QualifiedWasRebooted
  <1>7. NoBlink'
    BY DEF Observe, requestState, nodeState, AsArmed, Fit, Do, Met, OnTask, Q!Nodes,
       QualInv, QualTypeOK, QualifierOK, ShapeOK, TaskOK, PhasesOf, UnitsOK, BootsOK,
       QualifiedWasRebooted, NoBlink, TimerOK, RebootedOK, ReadsOK, Rebooting, Target
  <1> QED BY <1>1, <1>2, <1>3, <1>4, <1>5, <1>6, <1>7 DEF QualInv

(* The branch is taken from the phase, the boot that was read and the unit. *)
LEMMA LookKeeps ==
  ASSUME QualInv, Look
  PROVE  QualInv'
  <1>1. (QualTypeOK /\ QualifierOK)'
    BY RequestFields, NoRequestIs DEF Look, requestState, nodeState, Branch, Changed,
       Loaded, Do, Met, OnTask, Proceed, Q!Nodes, QualInv, QualTypeOK, QualifierOK, ShapeOK,
       TaskOK, PhasesOf, UnitsOK, BootsOK, QualifiedWasRebooted, NoBlink, TimerOK,
       RebootedOK, Tasks, Fit, Answers
  <1>2. ShapeOK'
    BY DEF Look, requestState, nodeState, Branch, Changed, Loaded, Do, Met, OnTask, Proceed,
       Q!Nodes, QualInv, ShapeOK
  <1>3. TaskOK'
    <2>1. /\ qualifier.task = "look" /\ qualifier' = [qualifier EXCEPT !.task = Branch]
          /\ UNCHANGED request /\ TaskOK /\ QualifierOK
      BY DEF Look, requestState, Do, OnTask, Proceed, QualInv
    <2>2. /\ request # NoRequest /\ request.status = "IN_PROGRESS" /\ Target \in Q!Nodes
          /\ Phase \in {"ARMED", "SCHEDULED", "SSH_LOST", "RECONNECTED"}
      BY <2>1 DEF TaskOK, PhasesOf
    <2>3. Phase \in PhasesOf(Branch)
      BY <2>2 DEF PhasesOf, Branch
    <2>4. qualifier'.task = Branch
      BY <2>1 DEF QualifierOK
    <2> QED BY <2>1, <2>2, <2>3, <2>4 DEF TaskOK, Target, Phase
  <1>4. UnitsOK'
    BY DEF Look, requestState, nodeState, Branch, Changed, Loaded, Do, Met, OnTask, Proceed,
       Q!Nodes, QualInv, QualTypeOK, UnitsOK
  <1>5. BootsOK'
    <2>1. BootsOK /\ QualifierOK /\ TaskOK /\ OnTask("look") /\ UNCHANGED <<request, edges>>
      BY DEF Look, Do, OnTask, QualInv, requestState, nodeState
    <2>2. qualifier'.seen = qualifier.seen /\ qualifier'.task = Branch
      BY <2>1 DEF Look, Proceed, QualifierOK
    <2>3. Branch \in {"reconnect", "ready", "abort", "uncommitted", "schedule", "await"}
      BY <2>1 DEF Branch, OnTask, TaskOK, PhasesOf
    <2>4. Branch = "schedule" => ~Changed
      BY <2>1 DEF Branch, OnTask, TaskOK, PhasesOf
    <2> QED BY <2>1, <2>2, <2>3, <2>4 DEF BootsOK, OnTask, Changed, Target, Armed
  <1>6. QualifiedWasRebooted'
    BY DEF Look, requestState, nodeState, Branch, Changed, Loaded, Do, Met, OnTask, Proceed,
       Q!Nodes, QualInv, QualTypeOK, QualifiedWasRebooted
  <1>7. NoBlink'
    BY DEF Look, requestState, nodeState, Branch, Changed, Loaded, Do, Met, OnTask, Proceed,
       Q!Nodes, QualInv, QualTypeOK, QualifierOK, ShapeOK, TaskOK, PhasesOf, UnitsOK,
       BootsOK, QualifiedWasRebooted, NoBlink, TimerOK, RebootedOK, ReadsOK, Rebooting,
       Target, Phase, Armed
  <1> QED BY <1>1, <1>2, <1>3, <1>4, <1>5, <1>6, <1>7 DEF QualInv

(* The node went away under its reboot.                                     *)
LEMMA SeeLossKeeps ==
  ASSUME QualInv, SeeLoss
  PROVE  QualInv'
  <1>1. (QualTypeOK /\ QualifierOK)'
    BY DEF SeeLoss, requestState, nodeState, OnTask, Proceed, Q!Nodes, QualInv, QualTypeOK,
       QualifierOK, Tasks
  <1>2. ShapeOK'
    BY DEF SeeLoss, requestState, nodeState, OnTask, Proceed, Q!Nodes, QualInv, ShapeOK
  <1>3. TaskOK'
    BY DEF SeeLoss, requestState, nodeState, OnTask, Proceed, Q!Nodes, QualInv, QualTypeOK,
       QualifierOK, ShapeOK, TaskOK, PhasesOf, UnitsOK, BootsOK, QualifiedWasRebooted,
       NoBlink, TimerOK, Target, Phase
  <1>4. UnitsOK'
    BY DEF SeeLoss, requestState, nodeState, OnTask, Proceed, Q!Nodes, QualInv, UnitsOK
  <1>5. BootsOK'
    BY DEF SeeLoss, requestState, nodeState, OnTask, Proceed, Q!Nodes, QualInv, BootsOK
  <1>6. QualifiedWasRebooted'
    BY DEF SeeLoss, requestState, nodeState, OnTask, Proceed, Q!Nodes, QualInv,
       QualifiedWasRebooted
  <1>7. NoBlink'
    BY DEF SeeLoss, requestState, nodeState, OnTask, Proceed, Q!Nodes, QualInv, QualTypeOK,
       QualifierOK, ShapeOK, TaskOK, PhasesOf, UnitsOK, BootsOK, QualifiedWasRebooted,
       NoBlink, TimerOK, RebootedOK, ReadsOK, Rebooting
  <1> QED BY <1>1, <1>2, <1>3, <1>4, <1>5, <1>6, <1>7 DEF QualInv

(* No unit is pending any more.                                             *)
LEMMA SeeNoLossKeeps ==
  ASSUME QualInv, SeeNoLoss
  PROVE  QualInv'
  <1>1. (QualTypeOK /\ QualifierOK)'
    BY DEF SeeNoLoss, requestState, nodeState, OnTask, Proceed, Q!Nodes, QualInv,
       QualTypeOK, QualifierOK, Tasks
  <1>2. ShapeOK'
    BY DEF SeeNoLoss, requestState, nodeState, OnTask, Proceed, Q!Nodes, QualInv, ShapeOK
  <1>3. TaskOK'
    BY DEF SeeNoLoss, requestState, nodeState, OnTask, Proceed, Q!Nodes, QualInv,
       QualTypeOK, QualifierOK, ShapeOK, TaskOK, PhasesOf, UnitsOK, BootsOK,
       QualifiedWasRebooted, NoBlink, TimerOK, Target, Phase
  <1>4. UnitsOK'
    BY DEF SeeNoLoss, requestState, nodeState, OnTask, Proceed, Q!Nodes, QualInv, UnitsOK
  <1>5. BootsOK'
    BY DEF SeeNoLoss, requestState, nodeState, OnTask, Proceed, Q!Nodes, QualInv, BootsOK
  <1>6. QualifiedWasRebooted'
    BY DEF SeeNoLoss, requestState, nodeState, OnTask, Proceed, Q!Nodes, QualInv,
       QualifiedWasRebooted
  <1>7. NoBlink'
    BY DEF SeeNoLoss, requestState, nodeState, OnTask, Proceed, Q!Nodes, QualInv,
       QualTypeOK, QualifierOK, ShapeOK, TaskOK, PhasesOf, UnitsOK, BootsOK,
       QualifiedWasRebooted, NoBlink, TimerOK, RebootedOK, ReadsOK, Rebooting
  <1> QED BY <1>1, <1>2, <1>3, <1>4, <1>5, <1>6, <1>7 DEF QualInv

(* The reboot that was not recorded has happened.                           *)
LEMMA RecoveredTargetKeeps ==
  ASSUME QualInv, RecoveredTarget
  PROVE  QualInv'
  <1>1. (QualTypeOK /\ QualifierOK)'
    BY DEF RecoveredTarget, requestState, nodeState, Do, Met, OnTask, Proceed, Q!Nodes,
       QualInv, QualTypeOK, QualifierOK, ShapeOK, Tasks
  <1>2. ShapeOK'
    BY DEF RecoveredTarget, requestState, nodeState, Do, Met, OnTask, Proceed, Q!Nodes,
       QualInv, ShapeOK
  <1>3. TaskOK'
    BY DEF RecoveredTarget, requestState, nodeState, Do, Met, OnTask, Proceed, Q!Nodes,
       QualInv, QualTypeOK, QualifierOK, ShapeOK, TaskOK, PhasesOf, Target, Phase
  <1>4. UnitsOK'
    BY DEF RecoveredTarget, requestState, nodeState, Do, Met, OnTask, Proceed, Q!Nodes,
       QualInv, QualTypeOK, UnitsOK
  <1>5. BootsOK'
    BY DEF RecoveredTarget, requestState, nodeState, Do, Met, OnTask, Proceed, Q!Nodes,
       QualInv, QualTypeOK, BootsOK
  <1>6. QualifiedWasRebooted'
    BY DEF RecoveredTarget, requestState, nodeState, Do, Met, OnTask, Proceed, Q!Nodes,
       QualInv, QualTypeOK, QualifiedWasRebooted
  <1>7. NoBlink'
    BY DEF RecoveredTarget, requestState, nodeState, Do, Met, OnTask, Proceed, Q!Nodes,
       QualInv, QualTypeOK, QualifierOK, ShapeOK, TaskOK, PhasesOf, UnitsOK, BootsOK,
       QualifiedWasRebooted, NoBlink, TimerOK, RebootedOK, ReadsOK, Rebooting, Target, Armed
  <1> QED BY <1>1, <1>2, <1>3, <1>4, <1>5, <1>6, <1>7 DEF QualInv

(* The peer's check changes no state of the request.                        *)
LEMMA ProvePeerKeeps ==
  ASSUME QualInv, ProvePeer
  PROVE  QualInv'
  <1>1. (QualTypeOK /\ QualifierOK)'
    BY DEF ProvePeer, requestState, nodeState, Do, Met, OnTask, Proceed, Q!Nodes, QualInv,
       QualTypeOK, QualifierOK, ShapeOK, Tasks
  <1>2. ShapeOK'
    BY DEF ProvePeer, requestState, nodeState, Do, Met, OnTask, Proceed, Q!Nodes, QualInv,
       ShapeOK
  <1>3. TaskOK'
    BY DEF ProvePeer, requestState, nodeState, Do, Met, OnTask, Proceed, Q!Nodes, QualInv,
       QualTypeOK, QualifierOK, ShapeOK, TaskOK, PhasesOf, Target, Phase
  <1>4. UnitsOK'
    BY DEF ProvePeer, requestState, nodeState, Do, Met, OnTask, Proceed, Q!Nodes, QualInv,
       QualTypeOK, UnitsOK
  <1>5. BootsOK'
    BY DEF ProvePeer, requestState, nodeState, Do, Met, OnTask, Proceed, Q!Nodes, QualInv,
       QualTypeOK, BootsOK
  <1>6. QualifiedWasRebooted'
    BY DEF ProvePeer, requestState, nodeState, Do, Met, OnTask, Proceed, Q!Nodes, QualInv,
       QualTypeOK, QualifiedWasRebooted
  <1>7. NoBlink'
    BY DEF ProvePeer, requestState, nodeState, Do, Met, OnTask, Proceed, Q!Nodes, QualInv,
       QualTypeOK, QualifierOK, ShapeOK, TaskOK, PhasesOf, UnitsOK, BootsOK,
       QualifiedWasRebooted, NoBlink, TimerOK, RebootedOK, ReadsOK, Rebooting
  <1> QED BY <1>1, <1>2, <1>3, <1>4, <1>5, <1>6, <1>7 DEF QualInv

(* The timer has run out before the node is waited for.                     *)
LEMMA ReconnectKeeps ==
  ASSUME QualInv, Reconnect
  PROVE  QualInv'
  <1>1. (QualTypeOK /\ QualifierOK)'
    BY DEF Reconnect, requestState, nodeState, Do, Met, OnTask, Proceed, Q!Nodes, QualInv,
       QualTypeOK, QualifierOK, ShapeOK, Tasks
  <1>2. ShapeOK'
    BY DEF Reconnect, requestState, nodeState, Do, Met, OnTask, Proceed, Q!Nodes, QualInv,
       ShapeOK
  <1>3. TaskOK'
    BY DEF Reconnect, requestState, nodeState, Do, Met, OnTask, Proceed, Q!Nodes, QualInv,
       QualTypeOK, QualifierOK, ShapeOK, TaskOK, PhasesOf, Target, Phase
  <1>4. UnitsOK'
    BY DEF Reconnect, requestState, nodeState, Do, Met, OnTask, Proceed, Q!Nodes, QualInv,
       QualTypeOK, UnitsOK
  <1>5. BootsOK'
    BY DEF Reconnect, requestState, nodeState, Do, Met, OnTask, Proceed, Q!Nodes, QualInv,
       QualTypeOK, BootsOK
  <1>6. QualifiedWasRebooted'
    BY DEF Reconnect, requestState, nodeState, Do, Met, OnTask, Proceed, Q!Nodes, QualInv,
       QualTypeOK, QualifiedWasRebooted
  <1>7. NoBlink'
    BY DEF Reconnect, requestState, nodeState, Do, Met, OnTask, Proceed, Q!Nodes, QualInv,
       QualTypeOK, QualifierOK, ShapeOK, TaskOK, PhasesOf, UnitsOK, BootsOK,
       QualifiedWasRebooted, NoBlink, TimerOK, RebootedOK, ReadsOK, Rebooting, Target
  <1> QED BY <1>1, <1>2, <1>3, <1>4, <1>5, <1>6, <1>7 DEF QualInv

(* The boot that is read is not older than the armed one.                   *)
LEMMA ReadReadyKeeps ==
  ASSUME QualInv, ReadReady
  PROVE  QualInv'
  <1>1. (QualTypeOK /\ QualifierOK)'
    BY RequestFields, NoRequestIs DEF ReadReady, requestState, nodeState, Do, Met, OnTask,
       Q!Nodes, QualInv, QualTypeOK, QualifierOK, ShapeOK, TaskOK, PhasesOf, UnitsOK,
       BootsOK, QualifiedWasRebooted, NoBlink, TimerOK, RebootedOK, ReadsOK, Rebooting,
       Target, Phase, Armed, Tasks, Fit, Answers
  <1>2. ShapeOK'
    BY DEF ReadReady, requestState, nodeState, Do, Met, OnTask, Q!Nodes, QualInv, ShapeOK
  <1>3. TaskOK'
    BY DEF ReadReady, requestState, nodeState, Do, Met, OnTask, Q!Nodes, QualInv,
       QualTypeOK, QualifierOK, ShapeOK, TaskOK, PhasesOf, Target, Phase
  <1>4. UnitsOK'
    BY DEF ReadReady, requestState, nodeState, Do, Met, OnTask, Q!Nodes, QualInv,
       QualTypeOK, UnitsOK
  <1>5. BootsOK'
    BY DEF ReadReady, requestState, nodeState, Do, Met, OnTask, Q!Nodes, QualInv,
       QualTypeOK, QualifierOK, ShapeOK, TaskOK, PhasesOf, UnitsOK, BootsOK,
       QualifiedWasRebooted, NoBlink, TimerOK, RebootedOK, Target, Phase, Armed
  <1>6. QualifiedWasRebooted'
    BY DEF ReadReady, requestState, nodeState, Do, Met, OnTask, Q!Nodes, QualInv,
       QualTypeOK, QualifiedWasRebooted
  <1>7. NoBlink'
    BY DEF ReadReady, requestState, nodeState, Do, Met, OnTask, Q!Nodes, QualInv,
       QualTypeOK, QualifierOK, ShapeOK, TaskOK, PhasesOf, UnitsOK, BootsOK,
       QualifiedWasRebooted, NoBlink, TimerOK, RebootedOK, ReadsOK, Rebooting, Target
  <1> QED BY <1>1, <1>2, <1>3, <1>4, <1>5, <1>6, <1>7 DEF QualInv

(* Only another boot than the armed one is committed.                       *)
LEMMA ProveReadyKeeps ==
  ASSUME QualInv, ProveReady
  PROVE  QualInv'
  <1>1. (QualTypeOK /\ QualifierOK)'
    BY DEF ProveReady, requestState, nodeState, PlayEnds, Idle, Loaded, Do, Met, OnTask,
       Proceed, Q!Nodes, QualInv, QualTypeOK, QualifierOK, ShapeOK, Tasks
  <1>2. ShapeOK'
    BY DEF ProveReady, requestState, nodeState, PlayEnds, Idle, Loaded, Do, Met, OnTask,
       Proceed, Q!Nodes, QualInv, ShapeOK
  <1>3. TaskOK'
    BY DEF ProveReady, requestState, nodeState, PlayEnds, Idle, Loaded, Do, Met, OnTask,
       Proceed, Q!Nodes, QualInv, QualTypeOK, QualifierOK, ShapeOK, TaskOK, PhasesOf,
       Target, Phase
  <1>4. UnitsOK'
    BY DEF ProveReady, requestState, nodeState, PlayEnds, Idle, Loaded, Do, Met, OnTask,
       Proceed, Q!Nodes, QualInv, QualTypeOK, UnitsOK
  <1>5. BootsOK'
    BY DEF ProveReady, requestState, nodeState, PlayEnds, Idle, Loaded, Do, Met, OnTask,
       Proceed, Q!Nodes, QualInv, QualTypeOK, QualifierOK, ShapeOK, TaskOK, PhasesOf,
       UnitsOK, BootsOK, QualifiedWasRebooted, NoBlink, TimerOK, RebootedOK, Target, Armed
  <1>6. QualifiedWasRebooted'
    BY DEF ProveReady, requestState, nodeState, PlayEnds, Idle, Loaded, Do, Met, OnTask,
       Proceed, Q!Nodes, QualInv, QualTypeOK, QualifiedWasRebooted
  <1>7. NoBlink'
    BY DEF ProveReady, requestState, nodeState, PlayEnds, Idle, Loaded, Do, Met, OnTask,
       Proceed, Q!Nodes, QualInv, QualTypeOK, QualifierOK, ShapeOK, TaskOK, PhasesOf,
       UnitsOK, BootsOK, QualifiedWasRebooted, NoBlink, TimerOK, RebootedOK, ReadsOK,
       Rebooting, Target
  <1> QED BY <1>1, <1>2, <1>3, <1>4, <1>5, <1>6, <1>7 DEF QualInv

(* The call changes no state of the request.                                *)
LEMMA FreshCallKeeps ==
  ASSUME QualInv, FreshCall
  PROVE  QualInv'
  <1>1. (QualTypeOK /\ QualifierOK)'
    BY DEF FreshCall, requestState, nodeState, Do, Met, OnTask, Proceed, Q!Nodes, QualInv,
       QualTypeOK, QualifierOK, ShapeOK, Tasks
  <1>2. ShapeOK'
    BY DEF FreshCall, requestState, nodeState, Do, Met, OnTask, Proceed, Q!Nodes, QualInv,
       ShapeOK
  <1>3. TaskOK'
    BY DEF FreshCall, requestState, nodeState, Do, Met, OnTask, Proceed, Q!Nodes, QualInv,
       QualTypeOK, QualifierOK, ShapeOK, TaskOK, PhasesOf, Target, Phase
  <1>4. UnitsOK'
    BY DEF FreshCall, requestState, nodeState, Do, Met, OnTask, Proceed, Q!Nodes, QualInv,
       QualTypeOK, UnitsOK
  <1>5. BootsOK'
    BY DEF FreshCall, requestState, nodeState, Do, Met, OnTask, Proceed, Q!Nodes, QualInv,
       QualTypeOK, BootsOK
  <1>6. QualifiedWasRebooted'
    BY DEF FreshCall, requestState, nodeState, Do, Met, OnTask, Proceed, Q!Nodes, QualInv,
       QualTypeOK, QualifiedWasRebooted
  <1>7. NoBlink'
    BY DEF FreshCall, requestState, nodeState, Do, Met, OnTask, Proceed, Q!Nodes, QualInv,
       QualTypeOK, QualifierOK, ShapeOK, TaskOK, PhasesOf, UnitsOK, BootsOK,
       QualifiedWasRebooted, NoBlink, TimerOK, RebootedOK, ReadsOK, Rebooting, Target
  <1> QED BY <1>1, <1>2, <1>3, <1>4, <1>5, <1>6, <1>7 DEF QualInv

(* A refused play ends where the request is.                                *)
LEMMA RefuseKeeps ==
  ASSUME QualInv, Refuse
  PROVE  QualInv'
  <1>1. (QualTypeOK /\ QualifierOK)'
    BY DEF Refuse, requestState, nodeState, PlayEnds, Idle, Met, OnTask, Q!Nodes, QualInv,
       QualTypeOK, QualifierOK, ShapeOK, Tasks
  <1>2. ShapeOK'
    BY DEF Refuse, requestState, nodeState, PlayEnds, Idle, Met, OnTask, Q!Nodes, QualInv,
       ShapeOK
  <1>3. TaskOK'
    BY DEF Refuse, requestState, nodeState, PlayEnds, Idle, Met, OnTask, Q!Nodes, TaskOK
  <1>4. UnitsOK'
    BY DEF Refuse, requestState, nodeState, PlayEnds, Idle, Met, OnTask, Q!Nodes, QualInv,
       QualTypeOK, UnitsOK
  <1>5. BootsOK'
    BY DEF Refuse, requestState, nodeState, PlayEnds, Idle, Met, OnTask, Q!Nodes, QualInv,
       QualTypeOK, BootsOK
  <1>6. QualifiedWasRebooted'
    BY DEF Refuse, requestState, nodeState, PlayEnds, Idle, Met, OnTask, Q!Nodes, QualInv,
       QualTypeOK, QualifiedWasRebooted
  <1>7. NoBlink'
    BY DEF Refuse, requestState, nodeState, PlayEnds, Idle, Met, OnTask, Q!Nodes, QualInv,
       QualTypeOK, QualifierOK, ShapeOK, TaskOK, PhasesOf, UnitsOK, BootsOK,
       QualifiedWasRebooted, NoBlink, TimerOK, RebootedOK, ReadsOK, Rebooting
  <1> QED BY <1>1, <1>2, <1>3, <1>4, <1>5, <1>6, <1>7 DEF QualInv

(* A lost play leaves request and nodes where they are.                     *)
LEMMA LosePlayKeeps ==
  ASSUME QualInv, LosePlay
  PROVE  QualInv'
  <1>1. (QualTypeOK /\ QualifierOK)'
    BY QualificationConstants DEF LosePlay, requestState, nodeState, Trouble, PlayEnds,
       Idle, OnTask, Q!Nodes, QualInv, QualTypeOK, QualifierOK, ShapeOK, TaskOK, PhasesOf,
       UnitsOK, BootsOK, QualifiedWasRebooted, NoBlink, Tasks
  <1>2. ShapeOK'
    BY DEF LosePlay, requestState, nodeState, Trouble, PlayEnds, Idle, OnTask, Q!Nodes,
       QualInv, QualTypeOK, ShapeOK
  <1>3. TaskOK'
    BY DEF LosePlay, requestState, nodeState, Trouble, PlayEnds, Idle, TaskOK
  <1>4. UnitsOK'
    BY DEF LosePlay, requestState, nodeState, Trouble, PlayEnds, Idle, OnTask, Q!Nodes,
       QualInv, QualTypeOK, UnitsOK
  <1>5. BootsOK'
    BY DEF LosePlay, requestState, nodeState, Trouble, PlayEnds, Idle, OnTask, Q!Nodes,
       QualInv, QualTypeOK, BootsOK
  <1>6. QualifiedWasRebooted'
    BY DEF LosePlay, requestState, nodeState, Trouble, PlayEnds, Idle, OnTask, Q!Nodes,
       QualInv, QualTypeOK, QualifiedWasRebooted
  <1>7. NoBlink'
    BY DEF LosePlay, requestState, nodeState, Trouble, PlayEnds, Idle, OnTask, Q!Nodes,
       QualInv, QualTypeOK, QualifierOK, ShapeOK, TaskOK, PhasesOf, UnitsOK, BootsOK,
       QualifiedWasRebooted, NoBlink, TimerOK, RebootedOK, ReadsOK, Rebooting
  <1> QED BY <1>1, <1>2, <1>3, <1>4, <1>5, <1>6, <1>7 DEF QualInv

(* The unit is set up on the boot the request is armed with.                *)
LEMMA ScheduleKeeps ==
  ASSUME QualInv, Schedule
  PROVE  QualInv'
  <1>1. (QualTypeOK /\ QualifierOK)'
    BY DEF Schedule, requestState, SetEdge, Answers, Loaded, Do, Met, OnTask, Proceed,
       Q!Nodes, QualInv, QualTypeOK, QualifierOK, ShapeOK, TaskOK, Tasks
  <1>2. ShapeOK'
    BY DEF Schedule, requestState, SetEdge, Answers, Loaded, Do, Met, OnTask, Proceed,
       Q!Nodes, QualInv, ShapeOK
  <1>3. TaskOK'
    BY DEF Schedule, requestState, SetEdge, Answers, Loaded, Do, Met, OnTask, Proceed,
       Q!Nodes, QualInv, QualTypeOK, QualifierOK, ShapeOK, TaskOK, PhasesOf, UnitsOK,
       BootsOK, QualifiedWasRebooted, NoBlink, TimerOK, Target, Phase
  <1>4. UnitsOK'
    BY DEF Schedule, requestState, SetEdge, Answers, Loaded, Do, Met, OnTask, Proceed,
       Q!Nodes, QualInv, UnitsOK
  <1>5. BootsOK'
    BY DEF Schedule, requestState, SetEdge, Answers, Loaded, Do, Met, OnTask, Proceed,
       Q!Nodes, QualInv, BootsOK
  <1>6. QualifiedWasRebooted'
    BY DEF Schedule, requestState, SetEdge, Answers, Loaded, Do, Met, OnTask, Proceed,
       Q!Nodes, QualInv, QualifiedWasRebooted
  <1>7. NoBlink'
    BY DEF Schedule, requestState, SetEdge, Answers, Loaded, Do, Met, OnTask, Proceed,
       Q!Nodes, QualInv, QualTypeOK, QualifierOK, ShapeOK, TaskOK, PhasesOf, UnitsOK,
       BootsOK, QualifiedWasRebooted, NoBlink, TimerOK, RebootedOK, ReadsOK, Rebooting,
       Target, Phase, Armed
  <1> QED BY <1>1, <1>2, <1>3, <1>4, <1>5, <1>6, <1>7 DEF QualInv

(* The unit is gone before the request is reconciled.                       *)
LEMMA CancelKeeps ==
  ASSUME QualInv, Cancel
  PROVE  QualInv'
  <1>1. (QualTypeOK /\ QualifierOK)'
    BY DEF Cancel, requestState, SetEdge, Answers, Do, Met, OnTask, Proceed, Q!Nodes,
       QualInv, QualTypeOK, QualifierOK, ShapeOK, TaskOK, Tasks
  <1>2. ShapeOK'
    BY DEF Cancel, requestState, SetEdge, Answers, Do, Met, OnTask, Proceed, Q!Nodes,
       QualInv, ShapeOK
  <1>3. TaskOK'
    BY DEF Cancel, requestState, SetEdge, Answers, Do, Met, OnTask, Proceed, Q!Nodes,
       QualInv, QualTypeOK, QualifierOK, ShapeOK, TaskOK, PhasesOf, UnitsOK, BootsOK,
       QualifiedWasRebooted, NoBlink, TimerOK, Target, Phase
  <1>4. UnitsOK'
    BY DEF Cancel, requestState, SetEdge, Answers, Do, Met, OnTask, Proceed, Q!Nodes,
       QualInv, UnitsOK
  <1>5. BootsOK'
    BY DEF Cancel, requestState, SetEdge, Answers, Do, Met, OnTask, Proceed, Q!Nodes,
       QualInv, BootsOK
  <1>6. QualifiedWasRebooted'
    BY DEF Cancel, requestState, SetEdge, Answers, Do, Met, OnTask, Proceed, Q!Nodes,
       QualInv, QualifiedWasRebooted
  <1>7. NoBlink'
    BY DEF Cancel, requestState, SetEdge, Answers, Do, Met, OnTask, Proceed, Q!Nodes,
       QualInv, QualTypeOK, QualifierOK, ShapeOK, TaskOK, PhasesOf, UnitsOK, BootsOK,
       QualifiedWasRebooted, NoBlink, TimerOK, RebootedOK, ReadsOK, Rebooting, Target
  <1> QED BY <1>1, <1>2, <1>3, <1>4, <1>5, <1>6, <1>7 DEF QualInv

(* What a transition of the journal changes.                                *)
LEMMA RecordFields ==
  ASSUME QualInv, request # NoRequest, Target \in Q!Nodes, NEW op \in Q!Transitions,
                                        NEW s \in Boots \cup {NoRequest},
         request' = Q!Apply(request, op, Target, s)
  PROVE  /\ request' \in Q!Journal /\ request' # NoRequest /\ request'.run = request.run
         /\ request'.phase[Target] = Q!To[op]
         /\ request'.pre[Target] = IF op = "arm" THEN s ELSE request.pre[Target]
         /\ \A m \in Q!Nodes : m # Target =>
              request'.phase[m] = request.phase[m] /\ request'.pre[m] = request.pre[m]
         /\ request'.current = IF op = "qualified"
                                  THEN IF Target = "sbc1" THEN "sbc2" ELSE NoRequest
                                  ELSE request.current
         /\ request'.status = IF op = "abort" THEN "ABORTED_RECONCILED" ELSE request.status
  <1>1. Q!To[op] \in Q!NodePhases
    BY DEF Q!Transitions, Q!From, Q!To, Q!NodePhases
  <1> DEFINE t == Target
             status == IF op = "abort" THEN "ABORTED_RECONCILED" ELSE request.status
             current == IF op = "qualified" THEN IF t = "sbc1" THEN "sbc2" ELSE NoRequest
                        ELSE request.current
             phase == [request.phase EXCEPT ![t] = Q!To[op]]
             pre == [request.pre EXCEPT ![t] = IF op = "arm" THEN s ELSE @]
             lost == IF op = "loss" THEN request.lost \cup {t} ELSE request.lost
  <1>2. /\ request \in Q!Journal /\ request.run \in Requests /\ t \in Q!Nodes
        /\ request.phase \in [Q!Nodes -> Q!NodePhases]
        /\ request.pre \in [Q!Nodes -> Boots \cup {NoRequest}]
    BY RequestFields
  <1>3. request' = [run |-> request.run, status |-> status, current |-> current,
                    phase |-> phase, pre |-> pre, lost |-> lost]
    BY <1>2 DEF Q!Apply, Q!Journal
  <1>4. /\ status \in Q!Statuses /\ current \in Q!Nodes \cup {NoRequest}
        /\ lost \subseteq Q!Nodes
    BY <1>2, NoRequestIs DEF Q!Journal, Q!Statuses
  <1>5. phase \in [Q!Nodes -> Q!NodePhases] /\ pre \in [Q!Nodes -> Boots \cup {NoRequest}]
    BY <1>1, <1>2
  <1>6. /\ phase[t] = Q!To[op] /\ pre[t] = IF op = "arm" THEN s ELSE request.pre[t]
        /\ \A m \in Q!Nodes : m # t => phase[m] = request.phase[m] /\ pre[m] = request.pre[m]
    BY <1>2
  <1>7. request' \in Q!Journal
    <2> HIDE DEF t, status, current, phase, pre, lost
    <2> QED BY <1>2, <1>3, <1>4, <1>5 DEF Q!Journal
  <1>8. /\ request'.run = request.run /\ request'.status = status
        /\ request'.current = current /\ request'.phase = phase /\ request'.pre = pre
    BY <1>3
  <1> QED BY <1>6, <1>7, <1>8, NoRequestIs

(* Arming records the boots that were read.                                 *)
LEMMA ArmTargetKeeps ==
  ASSUME QualInv, ArmTarget
  PROVE  QualInv'
  <1>1. /\ request # NoRequest /\ Target \in Q!Nodes /\ request.status = "IN_PROGRESS"
        /\ Phase \in PhasesOf(qualifier.task)
        /\ UNCHANGED <<closed, edges, cut, troubles, reboots, blinked>>
        /\ qualifier.task = "arm" /\ qualifier' = [qualifier EXCEPT !.task = "look"]
    BY DEF ArmTarget, Do, OnTask, QualInv, TaskOK, Proceed, nodeState, Record
  <1>2. CASE request' = Q!Apply(request, "arm", Target, qualifier.seen)
    <2>1. /\ request' \in Q!Journal /\ request' # NoRequest /\ request'.run = request.run
          /\ request'.phase[Target] = "ARMED"
          /\ request'.pre[Target] = qualifier.seen
          /\ \A m \in Q!Nodes : m # Target =>
               request'.phase[m] = request.phase[m] /\ request'.pre[m] = request.pre[m]
          /\ request'.current = request.current
          /\ request'.status = request.status
      BY <1>1, <1>2, RecordFields, NoRequestIs DEF Q!Transitions, Q!From, Q!To, QualInv,
         QualifierOK
    <2>2. (QualTypeOK /\ QualifierOK)'
      BY <1>1, <1>2, <2>1 DEF QualInv, QualTypeOK, QualifierOK, ShapeOK, Tasks
    <2>3. ShapeOK'
      BY <1>1, <1>2, <2>1, NoRequestIs DEF QualInv, QualTypeOK, QualifierOK, ShapeOK,
         TaskOK, PhasesOf, UnitsOK, BootsOK, Target
    <2>4. TaskOK'
      BY <1>1, <1>2, <2>1 DEF QualInv, QualTypeOK, QualifierOK, ShapeOK, TaskOK, PhasesOf,
         Target, Phase
    <2>5. UnitsOK'
      BY <1>1, <1>2, <2>1 DEF QualInv, UnitsOK
    <2>6. BootsOK'
      BY <1>1, <1>2, <2>1 DEF QualInv, QualTypeOK, QualifierOK, ShapeOK, TaskOK, PhasesOf,
         UnitsOK, BootsOK, QualifiedWasRebooted, NoBlink, TimerOK, RebootedOK, ReadsOK,
         Rebooting, Target, Phase, Armed
    <2>7. QualifiedWasRebooted'
      BY <1>1, <1>2, <2>1 DEF QualInv, QualifiedWasRebooted
    <2>8. NoBlink'
      BY <1>1, <1>2, <2>1, NoRequestIs DEF QualInv, QualTypeOK, QualifierOK, ShapeOK,
         TaskOK, PhasesOf, UnitsOK, BootsOK, QualifiedWasRebooted, NoBlink, TimerOK,
         RebootedOK, ReadsOK, Target, Phase
    <2> QED BY <2>2, <2>3, <2>4, <2>5, <2>6, <2>7, <2>8 DEF QualInv
  <1> QED BY <1>2 DEF ArmTarget, Record

(* The schedule is recorded after the unit is set up.                       *)
LEMMA MarkScheduledKeeps ==
  ASSUME QualInv, MarkScheduled
  PROVE  QualInv'
  <1>1. /\ request # NoRequest /\ Target \in Q!Nodes /\ request.status = "IN_PROGRESS"
        /\ Phase \in PhasesOf(qualifier.task)
        /\ UNCHANGED <<closed, edges, cut, troubles, reboots, blinked>>
        /\ qualifier.task = "scheduled" /\ qualifier' = [qualifier EXCEPT !.task = "await"]
    BY DEF MarkScheduled, Do, OnTask, QualInv, TaskOK, Proceed, nodeState, Record
  <1>2. CASE request' = Q!Apply(request, "scheduled", Target, NoRequest)
    <2>1. /\ request' \in Q!Journal /\ request' # NoRequest /\ request'.run = request.run
          /\ request'.phase[Target] = "SCHEDULED"
          /\ request'.pre[Target] = request.pre[Target]
          /\ \A m \in Q!Nodes : m # Target =>
               request'.phase[m] = request.phase[m] /\ request'.pre[m] = request.pre[m]
          /\ request'.current = request.current
          /\ request'.status = request.status
      BY <1>1, <1>2, RecordFields DEF Q!Transitions, Q!From, Q!To
    <2>2. (QualTypeOK /\ QualifierOK)'
      BY <1>1, <1>2, <2>1 DEF QualInv, QualTypeOK, QualifierOK, ShapeOK, Tasks
    <2>3. ShapeOK'
      BY <1>1, <1>2, <2>1, NoRequestIs DEF QualInv, QualTypeOK, QualifierOK, ShapeOK,
         TaskOK, PhasesOf, UnitsOK, BootsOK, Phase
    <2>4. TaskOK'
      BY <1>1, <1>2, <2>1 DEF QualInv, QualTypeOK, QualifierOK, ShapeOK, TaskOK, PhasesOf,
         Target, Phase
    <2>5. UnitsOK'
      BY <1>1, <1>2, <2>1 DEF QualInv, UnitsOK
    <2>6. BootsOK'
      BY <1>1, <1>2, <2>1 DEF QualInv, BootsOK
    <2>7. QualifiedWasRebooted'
      BY <1>1, <1>2, <2>1, NoRequestIs DEF QualInv, QualTypeOK, QualifierOK, ShapeOK,
         TaskOK, PhasesOf, UnitsOK, BootsOK, QualifiedWasRebooted
    <2>8. NoBlink'
      BY <1>1, <1>2, <2>1 DEF QualInv, QualTypeOK, QualifierOK, ShapeOK, TaskOK, PhasesOf,
         UnitsOK, BootsOK, QualifiedWasRebooted, NoBlink, TimerOK, RebootedOK, ReadsOK,
         Rebooting
    <2> QED BY <2>2, <2>3, <2>4, <2>5, <2>6, <2>7, <2>8 DEF QualInv
  <1> QED BY <1>2 DEF MarkScheduled, Record

(* The loss is recorded, or refused when it comes too late.                 *)
LEMMA MarkLossKeeps ==
  ASSUME QualInv, MarkLoss
  PROVE  QualInv'
  <1>1. /\ request # NoRequest /\ Target \in Q!Nodes /\ request.status = "IN_PROGRESS"
        /\ Phase \in PhasesOf(qualifier.task)
        /\ UNCHANGED <<closed, edges, cut, troubles, reboots, blinked>>
        /\ qualifier.task = "loss"
    BY DEF MarkLoss, Do, OnTask, QualInv, TaskOK, nodeState, requestState, Record
  <1>2. CASE request' = Q!Apply(request, "loss", Target,
          NoRequest) /\ qualifier' = [qualifier EXCEPT !.task = "reconnect"]
    <2>1. /\ request' \in Q!Journal /\ request' # NoRequest /\ request'.run = request.run
          /\ request'.phase[Target] = "SSH_LOST"
          /\ request'.pre[Target] = request.pre[Target]
          /\ \A m \in Q!Nodes : m # Target =>
               request'.phase[m] = request.phase[m] /\ request'.pre[m] = request.pre[m]
          /\ request'.current = request.current
          /\ request'.status = request.status
      BY <1>1, <1>2, RecordFields DEF Q!Transitions, Q!From, Q!To
    <2>2. (QualTypeOK /\ QualifierOK)'
      BY <1>1, <1>2, <2>1 DEF QualInv, QualTypeOK, QualifierOK, ShapeOK, TaskOK, PhasesOf,
         Tasks
    <2>3. ShapeOK'
      BY <1>1, <1>2, <2>1, NoRequestIs DEF QualInv, QualTypeOK, QualifierOK, ShapeOK,
         TaskOK, PhasesOf, UnitsOK, BootsOK, QualifiedWasRebooted, NoBlink, Phase
    <2>4. TaskOK'
      BY <1>1, <1>2, <2>1 DEF QualInv, QualTypeOK, QualifierOK, ShapeOK, TaskOK, PhasesOf,
         Target, Phase
    <2>5. UnitsOK'
      BY <1>1, <1>2, <2>1 DEF QualInv, QualTypeOK, UnitsOK
    <2>6. BootsOK'
      BY <1>1, <1>2, <2>1 DEF QualInv, QualTypeOK, BootsOK
    <2>7. QualifiedWasRebooted'
      BY <1>1, <1>2, <2>1, NoRequestIs DEF QualInv, QualTypeOK, QualifierOK, ShapeOK,
         TaskOK, PhasesOf, UnitsOK, BootsOK, QualifiedWasRebooted
    <2>8. NoBlink'
      BY <1>1, <1>2, <2>1 DEF QualInv, QualTypeOK, QualifierOK, ShapeOK, TaskOK, PhasesOf,
         UnitsOK, BootsOK, QualifiedWasRebooted, NoBlink, TimerOK, RebootedOK, ReadsOK,
         Rebooting
    <2> QED BY <2>2, <2>3, <2>4, <2>5, <2>6, <2>7, <2>8 DEF QualInv
  <1>3. CASE UNCHANGED request /\ PlayEnds
    <2>1. request' = request
      BY <1>3
    <2>2. (QualTypeOK /\ QualifierOK)'
      BY <1>1, <1>3, <2>1 DEF QualInv, QualTypeOK, QualifierOK, ShapeOK, TaskOK, PhasesOf,
         UnitsOK, BootsOK, QualifiedWasRebooted, NoBlink, TimerOK, RebootedOK, ReadsOK,
         Rebooting, Target, Phase, Tasks, PlayEnds, Idle
    <2>3. ShapeOK'
      BY <1>1, <1>3, <2>1 DEF QualInv, QualTypeOK, ShapeOK
    <2>4. TaskOK'
      BY <1>1, <1>3, <2>1 DEF QualInv, QualTypeOK, QualifierOK, ShapeOK, TaskOK, PhasesOf,
         PlayEnds, Idle
    <2>5. UnitsOK'
      BY <1>1, <1>3, <2>1 DEF QualInv, QualTypeOK, UnitsOK
    <2>6. BootsOK'
      BY <1>1, <1>3, <2>1 DEF QualInv, QualTypeOK, QualifierOK, ShapeOK, TaskOK, PhasesOf,
         UnitsOK, BootsOK, PlayEnds, Idle
    <2>7. QualifiedWasRebooted'
      BY <1>1, <1>3, <2>1 DEF QualInv, QualTypeOK, QualifiedWasRebooted
    <2>8. NoBlink'
      BY <1>1, <1>3, <2>1 DEF QualInv, QualTypeOK, QualifierOK, ShapeOK, TaskOK, PhasesOf,
         UnitsOK, BootsOK, QualifiedWasRebooted, NoBlink, TimerOK, RebootedOK, ReadsOK,
         Rebooting, PlayEnds, Idle
    <2> QED BY <2>2, <2>3, <2>4, <2>5, <2>6, <2>7, <2>8 DEF QualInv
  <1> QED BY <1>2, <1>3 DEF MarkLoss, Record, requestState, Proceed

(* The reconnect is recorded with a boot that is not the armed one.         *)
LEMMA CommitReconnectKeeps ==
  ASSUME QualInv, CommitReconnect
  PROVE  QualInv'
  <1>1. /\ request # NoRequest /\ Target \in Q!Nodes /\ request.status = "IN_PROGRESS"
        /\ Phase \in PhasesOf(qualifier.task)
        /\ UNCHANGED <<closed, edges, cut, troubles, reboots, blinked>>
        /\ qualifier.task = "commit" /\ qualifier'.task \in {"call", "abort"}
        /\ qualifier'.seen = qualifier.seen /\ qualifier'.after = qualifier.after
        /\ QualifierOK'
    BY DEF CommitReconnect, Do, OnTask, QualInv, TaskOK, QualifierOK, Tasks, Proceed,
       nodeState, requestState, Record
  <1>2. CASE request' = Q!Apply(request, "reconnected", Target, NoRequest) /\ Phase = "SSH_LOST"
    <2>1. /\ request' \in Q!Journal /\ request' # NoRequest /\ request'.run = request.run
          /\ request'.phase[Target] = "RECONNECTED"
          /\ request'.pre[Target] = request.pre[Target]
          /\ \A m \in Q!Nodes : m # Target =>
               request'.phase[m] = request.phase[m] /\ request'.pre[m] = request.pre[m]
          /\ request'.current = request.current
          /\ request'.status = request.status
      BY <1>1, <1>2, RecordFields DEF Q!Transitions, Q!From, Q!To
    <2>2. (QualTypeOK /\ QualifierOK)'
      BY <1>1, <1>2, <2>1 DEF QualInv, QualTypeOK, QualifierOK
    <2>3. ShapeOK'
      BY <1>1, <1>2, <2>1, NoRequestIs DEF QualInv, QualTypeOK, QualifierOK, ShapeOK,
         TaskOK, PhasesOf, UnitsOK, BootsOK, QualifiedWasRebooted, NoBlink, Phase
    <2>4. TaskOK'
      BY <1>1, <1>2, <2>1 DEF QualInv, QualTypeOK, QualifierOK, ShapeOK, TaskOK, PhasesOf,
         Target, Phase
    <2>5. UnitsOK'
      BY <1>1, <1>2, <2>1 DEF QualInv, QualTypeOK, UnitsOK
    <2>6. BootsOK'
      BY <1>1, <1>2, <2>1, IdleFields, RequestFields DEF QualInv, QualTypeOK, QualifierOK,
         ShapeOK, TaskOK, PhasesOf, UnitsOK, BootsOK, QualifiedWasRebooted, NoBlink,
         TimerOK, RebootedOK, ReadsOK, Rebooting, Target, Phase, Armed, Tasks, PlayEnds,
         Idle
    <2>7. QualifiedWasRebooted'
      BY <1>1, <1>2, <2>1, NoRequestIs DEF QualInv, QualTypeOK, QualifierOK, ShapeOK,
         TaskOK, PhasesOf, UnitsOK, BootsOK, QualifiedWasRebooted, NoBlink, Armed
    <2>8. NoBlink'
      BY <1>1, <1>2, <2>1 DEF QualInv, QualTypeOK, QualifierOK, ShapeOK, TaskOK, PhasesOf,
         UnitsOK, BootsOK, QualifiedWasRebooted, NoBlink, TimerOK, RebootedOK, ReadsOK,
         Rebooting, Target
    <2> QED BY <2>2, <2>3, <2>4, <2>5, <2>6, <2>7, <2>8 DEF QualInv
  <1>3. CASE UNCHANGED request /\ Phase # "SSH_LOST"
    <2>1. request' = request
      BY <1>3
    <2>2. (QualTypeOK /\ QualifierOK)'
      BY <1>1, <1>3, <2>1 DEF QualInv, QualTypeOK, QualifierOK
    <2>3. ShapeOK'
      BY <1>1, <1>3, <2>1 DEF QualInv, QualTypeOK, ShapeOK
    <2>4. TaskOK'
      BY <1>1, <1>3, <2>1 DEF QualInv, QualTypeOK, QualifierOK, ShapeOK, TaskOK, PhasesOf,
         Target, Phase
    <2>5. UnitsOK'
      BY <1>1, <1>3, <2>1 DEF QualInv, QualTypeOK, UnitsOK
    <2>6. BootsOK'
      BY <1>1, <1>3, <2>1 DEF QualInv, QualTypeOK, BootsOK
    <2>7. QualifiedWasRebooted'
      BY <1>1, <1>3, <2>1 DEF QualInv, QualTypeOK, QualifiedWasRebooted
    <2>8. NoBlink'
      BY <1>1, <1>3, <2>1 DEF QualInv, QualTypeOK, QualifierOK, ShapeOK, TaskOK, PhasesOf,
         UnitsOK, BootsOK, QualifiedWasRebooted, NoBlink, TimerOK, RebootedOK, ReadsOK,
         Rebooting, Target
    <2> QED BY <2>2, <2>3, <2>4, <2>5, <2>6, <2>7, <2>8 DEF QualInv
  <1> QED BY <1>2, <1>3 DEF CommitReconnect, Record, requestState, Proceed

(* A qualified node has the next one as target, or none.                    *)
LEMMA MarkQualifiedKeeps ==
  ASSUME QualInv, MarkQualified
  PROVE  QualInv'
  <1>1. /\ request # NoRequest /\ Target \in Q!Nodes /\ request.status = "IN_PROGRESS"
        /\ Phase \in PhasesOf(qualifier.task)
        /\ UNCHANGED <<closed, edges, cut, troubles, reboots, blinked>>
        /\ qualifier.task = "qualify" /\ qualifier' = [qualifier EXCEPT !.task = "node"]
    BY DEF MarkQualified, Do, OnTask, QualInv, TaskOK, Proceed, nodeState, Record
  <1>2. CASE request' = Q!Apply(request, "qualified", Target, NoRequest)
    <2>1. /\ request' \in Q!Journal /\ request' # NoRequest /\ request'.run = request.run
          /\ request'.phase[Target] = "QUALIFIED"
          /\ request'.pre[Target] = request.pre[Target]
          /\ \A m \in Q!Nodes : m # Target =>
               request'.phase[m] = request.phase[m] /\ request'.pre[m] = request.pre[m]
          /\ request'.current = IF Target = "sbc1" THEN "sbc2" ELSE NoRequest
          /\ request'.status = request.status
      BY <1>1, <1>2, RecordFields DEF Q!Transitions, Q!From, Q!To
    <2>2. (QualTypeOK /\ QualifierOK)'
      BY <1>1, <1>2, <2>1 DEF QualInv, QualTypeOK, QualifierOK, ShapeOK, Tasks
    <2>3. ShapeOK'
      BY <1>1, <1>2, <2>1, NoRequestIs DEF QualInv, QualTypeOK, QualifierOK, ShapeOK,
         TaskOK, PhasesOf, UnitsOK, BootsOK, Target, Phase
    <2>4. TaskOK'
      BY <1>1, <1>2, <2>1 DEF QualInv, TaskOK
    <2>5. UnitsOK'
      BY <1>1, <1>2, <2>1 DEF QualInv, UnitsOK
    <2>6. BootsOK'
      BY <1>1, <1>2, <2>1 DEF QualInv, BootsOK
    <2>7. QualifiedWasRebooted'
      BY <1>1, <1>2, <2>1, NoRequestIs DEF QualInv, QualTypeOK, QualifierOK, ShapeOK,
         TaskOK, PhasesOf, UnitsOK, BootsOK, QualifiedWasRebooted, NoBlink, TimerOK,
         RebootedOK, Phase
    <2>8. NoBlink'
      BY <1>1, <1>2, <2>1, NoRequestIs DEF QualInv, QualTypeOK, QualifierOK, ShapeOK,
         TaskOK, PhasesOf, UnitsOK, BootsOK, QualifiedWasRebooted, NoBlink, TimerOK,
         RebootedOK, ReadsOK, Rebooting, Target
    <2> QED BY <2>2, <2>3, <2>4, <2>5, <2>6, <2>7, <2>8 DEF QualInv
  <1> QED BY <1>2 DEF MarkQualified, Record

(* A reconciled request leaves no unit pending.                             *)
LEMMA AbortKeeps ==
  ASSUME QualInv, Abort
  PROVE  QualInv'
  <1>1. /\ request # NoRequest /\ Target \in Q!Nodes /\ request.status = "IN_PROGRESS"
        /\ Phase \in PhasesOf(qualifier.task)
        /\ UNCHANGED <<closed, edges, cut, troubles, reboots, blinked>>
        /\ qualifier.task = "abort" /\ PlayEnds
    BY DEF Abort, Do, OnTask, QualInv, TaskOK, nodeState, Record
  <1>2. CASE request' = Q!Apply(request, "abort", Target, NoRequest)
    <2>1. /\ request' \in Q!Journal /\ request' # NoRequest /\ request'.run = request.run
          /\ request'.phase[Target] = "ABORTED_RECONCILED"
          /\ request'.pre[Target] = request.pre[Target]
          /\ \A m \in Q!Nodes : m # Target =>
               request'.phase[m] = request.phase[m] /\ request'.pre[m] = request.pre[m]
          /\ request'.current = request.current
          /\ request'.status = "ABORTED_RECONCILED"
      BY <1>1, <1>2, RecordFields DEF Q!Transitions, Q!From, Q!To
    <2>2. (QualTypeOK /\ QualifierOK)'
      BY <1>1, <1>2, <2>1 DEF QualInv, QualTypeOK, QualifierOK, ShapeOK, TaskOK, PhasesOf,
         UnitsOK, BootsOK, Tasks, PlayEnds, Idle
    <2>3. ShapeOK'
      BY <1>1, <1>2, <2>1, NoRequestIs DEF QualInv, QualTypeOK, QualifierOK, ShapeOK,
         TaskOK, PhasesOf, UnitsOK, BootsOK, Phase
    <2>4. TaskOK'
      BY <1>1, <1>2, <2>1 DEF QualInv, QualTypeOK, QualifierOK, ShapeOK, TaskOK, PhasesOf,
         PlayEnds, Idle
    <2>5. UnitsOK'
      BY <1>1, <1>2, <2>1 DEF QualInv, UnitsOK
    <2>6. BootsOK'
      BY <1>1, <1>2, <2>1 DEF QualInv, QualTypeOK, QualifierOK, ShapeOK, TaskOK, PhasesOf,
         UnitsOK, BootsOK, QualifiedWasRebooted, NoBlink, PlayEnds, Idle
    <2>7. QualifiedWasRebooted'
      BY <1>1, <1>2, <2>1 DEF QualInv, QualifiedWasRebooted
    <2>8. NoBlink'
      BY <1>1, <1>2, <2>1 DEF QualInv, QualTypeOK, QualifierOK, ShapeOK, TaskOK, PhasesOf,
         UnitsOK, BootsOK, QualifiedWasRebooted, NoBlink, TimerOK, RebootedOK, ReadsOK,
         Rebooting, Target, PlayEnds, Idle
    <2> QED BY <2>2, <2>3, <2>4, <2>5, <2>6, <2>7, <2>8 DEF QualInv
  <1> QED BY <1>2 DEF Abort, Record

(* A fresh request has both nodes pending.                                  *)
LEMMA FreshFields ==
  ASSUME NEW r \in Requests, request' = Q!FreshJournal(r)
  PROVE  /\ request' \in Q!Journal /\ request' # NoRequest
         /\ request'.run = r /\ request'.status = "IN_PROGRESS" /\ request'.current = "sbc1"
         /\ \A n \in Q!Nodes : request'.phase[n] = "PENDING" /\ request'.pre[n] = NoRequest
  BY NoRequestIs DEF Q!FreshJournal, Q!Journal, Q!Statuses, Q!NodePhases

(* A new request counts its reboots from nothing.                           *)
LEMMA NewRequestKeeps ==
  ASSUME QualInv, NewRequest
  PROVE  QualInv'
  <1>1. /\ request # NoRequest
        /\ request.status = "ABORTED_RECONCILED"
        /\ request.run + 1 \in Requests
        /\ request' = Q!FreshJournal(request.run + 1) /\ closed' = closed \cup {request}
        /\ reboots' = [n \in Q!Nodes |-> 0] /\ UNCHANGED <<edges, cut, qualifier, troubles,
                              blinked>>
        /\ qualifier.task = "idle"
    BY RequestFields, QualificationConstants DEF NewRequest, Requests, OnTask
  <1>2. (QualTypeOK /\ QualifierOK)'
    BY <1>1, FreshFields DEF QualInv, QualTypeOK, QualifierOK
  <1>3. ShapeOK'
    BY <1>1, FreshFields, NoRequestIs DEF QualInv, QualTypeOK, QualifierOK, ShapeOK
  <1>4. TaskOK'
    BY <1>1 DEF QualInv, TaskOK
  <1>5. UnitsOK'
    BY <1>1 DEF QualInv, UnitsOK
  <1>6. BootsOK'
    BY <1>1, FreshFields DEF QualInv, BootsOK
  <1>7. QualifiedWasRebooted'
    BY <1>1, FreshFields DEF QualInv, QualifiedWasRebooted
  <1>8. NoBlink'
    BY <1>1 DEF QualInv, QualTypeOK, QualifierOK, ShapeOK, TaskOK, PhasesOf, UnitsOK,
       BootsOK, QualifiedWasRebooted, NoBlink, TimerOK, RebootedOK, ReadsOK
  <1> QED BY <1>2, <1>3, <1>4, <1>5, <1>6, <1>7, <1>8 DEF QualInv

(* The play takes up the one request there is, or makes it.                 *)
LEMMA BeginRequestKeeps ==
  ASSUME QualInv, BeginRequest
  PROVE  QualInv'
  <1>1. /\ qualifier' = [qualifier EXCEPT !.task = "node"]
        /\ qualifier'.task = "node"
        /\ QualifierOK'
        /\ UNCHANGED <<closed, edges, cut, troubles, reboots, blinked>>
        /\ 1 \in Requests
    BY QualificationConstants DEF BeginRequest, Proceed, QualInv, QualifierOK, Tasks,
       nodeState, Requests
  <1>2. CASE request = NoRequest
    <2>1. request' = Q!FreshJournal(1)
      BY <1>2 DEF BeginRequest
    <2>2. NoBlink'
      BY <1>1, <1>2, <2>1 DEF QualInv, NoBlink, TimerOK, RebootedOK, ReadsOK
    <2> QED BY <1>1, <1>2, <2>1, <2>2, FreshFields, NoRequestIs DEF QualInv, QualTypeOK,
               Tasks, ShapeOK, TaskOK, UnitsOK, BootsOK, QualifiedWasRebooted, Target, Phase
  <1>3. CASE request # NoRequest
    <2>1. UNCHANGED request /\ request.status \in {"IN_PROGRESS", "COMPLETE"}
      BY <1>3 DEF BeginRequest, Do, Met, OnTask
    <2> QED BY <1>1, <1>3, <2>1, RequestFields, NoRequestIs DEF QualInv, QualTypeOK, Tasks,
               ShapeOK, TaskOK, UnitsOK, BootsOK, QualifiedWasRebooted, NoBlink, TimerOK,
               RebootedOK, ReadsOK, Rebooting
  <1> QED BY <1>2, <1>3

(* What a step records is a transition that applies.                        *)
LEMMA QualObeys ==
  ASSUME QualInv, QualNext, request # NoRequest, request' # request,
         request'.run = request.run
  PROVE  \/ Q!Completable(request) /\ request' = Q!Completed(request)
         \/ \E op \in Q!Transitions :
              /\ Q!Applicable(request, op, Target)
              /\ request' = Q!Apply(request, op, Target, qualifier.seen)
  <1> DEFINE Obeys == \E op \in Q!Transitions :
                        /\ Q!Applicable(request, op, Target)
                        /\ request' = Q!Apply(request, op, Target, qualifier.seen)
  <1>1. ASSUME NEW op \in Q!Transitions, NEW s, Record(op, s), Phase \in Q!From[op],
               op = "arm" => s = qualifier.seen,
               qualifier.task \notin {"idle", "begin", "node"}
        PROVE  Obeys
    <2>1. Q!Applicable(request, op, Target)
      BY <1>1 DEF QualInv, TaskOK, Phase, Target, Q!Applicable
    <2>2. request' = Q!Apply(request, op, Target, qualifier.seen)
      BY <1>1 DEF Record, Q!Apply
    <2> QED BY <2>1, <2>2
  <1>2. /\ {"arm", "scheduled", "loss", "reconnected", "qualified",
             "abort"} \subseteq Q!Transitions
        /\ Q!From["arm"] = {"PENDING"} /\ Q!From["scheduled"] = {"ARMED", "SCHEDULED"}
        /\ Q!From["loss"] = {"SCHEDULED"} /\ Q!From["reconnected"] = {"SSH_LOST"}
        /\ Q!From["qualified"] = {"RECONNECTED"}
        /\ Q!From["abort"] = Q!NodePhases \ {"PENDING"}
    BY DEF Q!Transitions, Q!From
  <1>3. CASE ArmTarget \/ MarkScheduled \/ MarkLoss \/ CommitReconnect \/ MarkQualified \/ Abort
    <2>1. qualifier.task \in {"arm", "scheduled", "loss", "commit", "qualify",
                              "abort"} => Phase \in PhasesOf(qualifier.task)
      BY DEF QualInv, TaskOK
    <2>2. CASE ArmTarget
      BY <1>1, <1>2, <2>1, <2>2 DEF ArmTarget, Do, OnTask, PhasesOf
    <2>3. CASE MarkScheduled
      BY <1>1, <1>2, <2>1, <2>3 DEF MarkScheduled, Do, OnTask, PhasesOf
    <2>4. CASE MarkLoss
      BY <1>1, <1>2, <2>1, <2>4 DEF MarkLoss, Do, OnTask, PhasesOf, requestState
    <2>5. CASE CommitReconnect
      BY <1>1, <1>2, <2>1, <2>5 DEF CommitReconnect, Do, OnTask, requestState
    <2>6. CASE MarkQualified
      BY <1>1, <1>2, <2>1, <2>6 DEF MarkQualified, Do, OnTask, PhasesOf
    <2>7. CASE Abort
      BY <1>1, <1>2, <2>1, <2>7 DEF Abort, Do, OnTask, PhasesOf, Q!NodePhases
    <2> QED BY <1>3, <2>2, <2>3, <2>4, <2>5, <2>6, <2>7
  <1>4. CASE NextNode
    BY <1>4 DEF NextNode
  <1>5. CASE NewRequest
    BY <1>5, RequestFields, FreshFields DEF NewRequest, Requests, Q!FreshJournal
  <1>6. ~BeginRequest
    BY DEF BeginRequest
  <1>7. ASSUME NEW n \in Q!Nodes, NodeStep(n) \/ UnitFails(n) \/ GoesDown(n) \/ CutOff(n)
        PROVE  FALSE
    BY <1>7 DEF NodeStep, UnitFires, ServicesStop, ShutDown, BootUp, ComesWell, Rejoin,
       UnitFails, GoesDown, CutOff, requestState
  <1>8. ~(StartPlay \/ LosePlay \/ Observe \/ Look \/ Schedule \/ SeeLoss \/ SeeNoLoss \/ Cancel
          \/ RecoveredTarget \/ ProvePeer \/ Reconnect \/ ReadReady \/ ProveReady
          \/ FreshCall \/ Refuse)
    BY DEF StartPlay, LosePlay, Observe, Look, Schedule, SeeLoss, SeeNoLoss, Cancel,
       RecoveredTarget, ProvePeer, Reconnect, ReadReady, ProveReady, FreshCall, Refuse,
       requestState
  <1> QED BY <1>3, <1>4, <1>5, <1>6, <1>7, <1>8 DEF QualNext, PlayStep

(* A step that changes nothing.                                             *)
LEMMA QualStutters ==
  ASSUME QualInv, UNCHANGED qualVars
  PROVE  QualInv'
  BY DEF qualVars, QualInv, QualTypeOK, QualifierOK, ShapeOK, TaskOK, UnitsOK, BootsOK,
     QualifiedWasRebooted, NoBlink, TimerOK, RebootedOK, ReadsOK, Rebooting, Target, Phase,
     Armed

(* Every step keeps the invariant.                                          *)
LEMMA QualInvKept ==
  ASSUME QualInv, [QualNext]_qualVars
  PROVE  QualInv'
  <1>1. CASE PlayStep
    BY <1>1, BeginRequestKeeps, NextNodeKeeps, ObserveKeeps, ArmTargetKeeps, LookKeeps,
       ScheduleKeeps, MarkScheduledKeeps, SeeLossKeeps, SeeNoLossKeeps, CancelKeeps,
       RecoveredTargetKeeps, AbortKeeps, ProvePeerKeeps, MarkLossKeeps, ReconnectKeeps,
       ReadReadyKeeps, ProveReadyKeeps, CommitReconnectKeeps, FreshCallKeeps,
       MarkQualifiedKeeps, RefuseKeeps DEF PlayStep
  <1>2. ASSUME NEW n \in Q!Nodes, NodeStep(n) \/ UnitFails(n) \/ GoesDown(n) \/ CutOff(n)
        PROVE  QualInv'
    BY <1>2, UnitFiresKeeps, ServicesStopKeeps, ShutDownKeeps, BootUpKeeps, ComesWellKeeps,
       RejoinKeeps, UnitFailsKeeps, GoesDownKeeps, CutOffKeeps DEF NodeStep
  <1> QED BY <1>1, <1>2, StartPlayKeeps, LosePlayKeeps, NewRequestKeeps, QualStutters
             DEF QualNext

(* The invariant holds from the start on.                                   *)
LEMMA QualInvHolds == QualSpec => []QualInv
  <1>1. ASSUME QualInit
        PROVE  QualInv
    <2>1. /\ request = NoRequest /\ blinked = FALSE /\ qualifier.task = "idle"
          /\ \A n \in Q!Nodes :
               edges[n].unit = "none" /\ edges[n].power = "up" /\ reboots[n] = 0
      BY <1>1 DEF QualInit, Idle
    <2>2. QualTypeOK
      <3>1. edges \in [Q!Nodes -> Edge] /\ reboots \in [Q!Nodes -> Nat]
        BY <1>1 DEF QualInit, Edge
      <3>2. troubles \in 0..MaxTroubles
        BY <1>1, QualificationConstants DEF QualInit
      <3> QED BY <1>1, <2>1, <3>1, <3>2 DEF QualInit, QualTypeOK, Edge, Tasks
    <2>3. QualifierOK
      BY <1>1 DEF QualInit, Idle, QualifierOK, Tasks
    <2> QED BY <2>1, <2>2, <2>3
        DEF QualInv, ShapeOK, TaskOK, UnitsOK, BootsOK, QualifiedWasRebooted, NoBlink, TimerOK,
            RebootedOK, ReadsOK
  <1> QED BY <1>1, QualInvKept, PTL DEF QualSpec

(* Request, nodes and play keep their types, and a play past `begin` has a  *)
(* request.                                                                 *)
THEOREM QualificationTypesHold == QualSpec => []QualTypeOK
  <1>1. QualInv => QualTypeOK
    BY DEF QualInv
  <1> QED BY <1>1, QualInvHolds, PTL

(* Whatever play, unit, connection or node is lost: no node is rebooted     *)
(* twice under one request nor after it was closed, unless it booted        *)
(* between two reads of one play; a node recorded as back has rebooted; and *)
(* the play gives no command that the journal refuses.                      *)
THEOREM RebootsStaySound == QualSpec => RebootsAreSound
  <1>1. QualInv => OneRebootEach /\ NothingLeftScheduled /\ QualifiedWasRebooted
    <2> SUFFICES ASSUME QualInv
                 PROVE  OneRebootEach /\ NothingLeftScheduled /\ QualifiedWasRebooted
      OBVIOUS
    <2>1. OneRebootEach
      BY DEF QualInv, QualTypeOK, NoBlink, RebootedOK, OneRebootEach
    <2>2. NothingLeftScheduled
      BY DEF QualInv, NoBlink, TimerOK, NothingLeftScheduled
    <2> QED BY <2>1, <2>2 DEF QualInv
  <1>2. QualInv /\ [QualNext]_qualVars =>
          [request # NoRequest /\ request' # request /\ request'.run = request.run =>
             \/ Q!Completable(request) /\ request' = Q!Completed(request)
             \/ \E op \in Q!Transitions :
                  /\ Q!Applicable(request, op, Target)
                  /\ request' = Q!Apply(request, op, Target, qualifier.seen)]_qualVars
    BY QualObeys
  <1> QED BY <1>1, <1>2, QualInvHolds, PTL DEF QualSpec, RebootsAreSound, PlayObeysJournal
================================================================================
