----------------------------- MODULE RebootRequest -----------------------------
(***************************************************************************)
(* What deploy/scripts/active_edge_reboot_journal.py promises: one durable *)
(* reboot request at a time, whose two nodes pass through their phases in  *)
(* the fixed order sbc1, sbc2, and which gives way to a fresh request only *)
(* when it was aborted and reconciled.  The journal record and the effect  *)
(* of each command on it are defined here; how the record reaches the disk *)
(* is RebootJournal's; the qualification playbook issues the commands.     *)
(***************************************************************************)
CONSTANTS
  Run,        \* run identifiers
  Snapshot,   \* contents of a node's preflight
  Nil

Nodes == {"sbc1", "sbc2"}

NodePhases == {"PENDING", "ARMED", "SCHEDULED", "SSH_LOST", "RECONNECTED",
               "QUALIFIED", "ABORTED_RECONCILED"}
Statuses == {"IN_PROGRESS", "COMPLETE", "ABORTED_RECONCILED"}

(* pre: the preflight a node was armed with; lost: nodes whose SSH loss was *)
(* observed and recorded.                                                   *)
Journal == [run : Run, status : Statuses, current : Nodes \cup {Nil},
            phase : [Nodes -> NodePhases], pre : [Nodes -> Snapshot \cup {Nil}],
            lost : SUBSET Nodes]

FreshJournal(r) ==
  [run |-> r, status |-> "IN_PROGRESS", current |-> "sbc1",
   phase |-> [n \in Nodes |-> "PENDING"], pre |-> [n \in Nodes |-> Nil],
   lost |-> {}]

-----------------------------------------------------------------------------
(* The transitions of _mutate.  mark-loss accepts an armed node, but then   *)
(* fails on its missing schedule timing.                                    *)

From == [arm         |-> {"PENDING"},
         scheduled   |-> {"ARMED", "SCHEDULED"},
         loss        |-> {"SCHEDULED"},
         reconnected |-> {"SSH_LOST"},
         qualified   |-> {"RECONNECTED"},
         abort       |-> NodePhases \ {"PENDING"}]

To == [arm         |-> "ARMED",
       scheduled   |-> "SCHEDULED",
       loss        |-> "SSH_LOST",
       reconnected |-> "RECONNECTED",
       qualified   |-> "QUALIFIED",
       abort       |-> "ABORTED_RECONCILED"]

Transitions == DOMAIN From

Applicable(j, op, n) ==
  /\ j.status = "IN_PROGRESS"
  /\ j.current = n
  /\ j.phase[n] \in From[op]

Apply(j, op, n, snapshot) ==
  [j EXCEPT
     !.phase[n] = To[op],
     !.pre[n]   = IF op = "arm" THEN snapshot ELSE @,
     !.lost     = IF op = "loss" THEN @ \cup {n} ELSE @,
     !.current  = IF op = "qualified" THEN IF n = "sbc1" THEN "sbc2" ELSE Nil
                  ELSE @,
     !.status   = IF op = "abort" THEN "ABORTED_RECONCILED" ELSE @]

(* complete                                                                 *)
Completable(j) ==
  j.status = "IN_PROGRESS" /\ \A n \in Nodes : j.phase[n] = "QUALIFIED"

(* Mutant: the status of a node is given to the run.                        *)
CompletedAsNode(j) == [j EXCEPT !.status = "QUALIFIED"]

Completed(j) == [j EXCEPT !.status = "COMPLETE"]

-----------------------------------------------------------------------------
VARIABLES
  journal,    \* the active request, or Nil
  archived    \* the requests that were rolled over

requestVars == <<journal, archived>>

RequestInit == journal = Nil /\ archived = {}

Unused(r) == r # journal.run /\ \A j \in archived : j.run # r

Allocate ==
  /\ journal = Nil
  /\ \E r \in Run : journal' = FreshJournal(r)
  /\ UNCHANGED archived

Advance ==
  /\ journal # Nil
  /\ \E op \in Transitions, n \in Nodes, s \in Snapshot :
       Applicable(journal, op, n) /\ journal' = Apply(journal, op, n, s)
  /\ UNCHANGED archived

Complete ==
  /\ journal # Nil /\ Completable(journal)
  /\ journal' = Completed(journal)
  /\ UNCHANGED archived

Rollover ==
  /\ journal # Nil /\ journal.status = "ABORTED_RECONCILED"
  /\ \E r \in Run : Unused(r) /\ journal' = FreshJournal(r)
  /\ archived' = archived \cup {journal}

RequestNext == Allocate \/ Advance \/ Complete \/ Rollover

RequestSpec == RequestInit /\ [][RequestNext]_requestVars
=============================================================================
