----------------------------- MODULE AzureDiskSku -----------------------------
(***************************************************************************)
(* remediate_edge_os_disk_sku.py: the two Edge nodes are deallocated one   *)
(* after the other, sbc2 first, to change the SKU of their OS disks.  The  *)
(* peer carries the calls meanwhile.  Every step is journalled before      *)
(* Azure is called; a run that fails restarts the node it works on without *)
(* advancing the journal, a run that is killed does nothing more, and both *)
(* are resumed by running the command again with the same journal.         *)
(***************************************************************************)
EXTENDS Naturals, FiniteSets, SequencesExt

CONSTANTS
  Journals,     \* journal paths an operator uses
  NoJournal,
  MaxMishaps    \* bound: crashes, sicknesses, failures and kills together

ASSUME SkuConstants == MaxMishaps \in Nat /\ NoJournal \notin Journals

Roles == {"sbc1", "sbc2"}

NodeOrder == <<"sbc2", "sbc1">>

Peer(r) == IF r = "sbc1" THEN "sbc2" ELSE "sbc1"

PhaseOrder == <<"PENDING", "BASELINED", "DEALLOCATE_REQUESTED", "DEALLOCATED",
                "OUTAGE_PEER_QUALIFIED", "SKU_UPDATE_REQUESTED", "SKU_UPDATED",
                "START_REQUESTED", "STARTED", "QUALIFIED">>

PhaseIndex(p) == CHOOSE i \in 1..Len(PhaseOrder) : PhaseOrder[i] = p

Powers == {"running", "stopped", "deallocating", "deallocated", "starting"}

Settled == {"running", "stopped", "deallocated"}

VARIABLES
  vms,          \* node -> power, disk SKU, boot identifier, runtime health
  approved,     \* the fleet the operator approved a plan of
  skuJournals,  \* path -> journal, or NoJournal
  converter,    \* the one run that holds the fleet lock
  mishaps

skuVars == <<vms, approved, skuJournals, converter, mishaps>>

-----------------------------------------------------------------------------
(* What the tool reads.                                                     *)

(* _read_control: an instance whose provisioning has not succeeded cannot   *)
(* be read.                                                                 *)
Readable(r) == vms[r].power \in Settled

(* _validate_control: the instance, its disk and its network as approved    *)
PoweredOn(r) == vms[r].power = "running"

(* _probe_remote with _validate_live_identity, and _fixture_call            *)
Healthy(r) == PoweredOn(r) /\ vms[r].well

(* The plan: every node running and well, each with its SKU and boot.       *)
Snapshot == [r \in Roles |-> [sku |-> vms[r].sku, boot |-> vms[r].boot]]

NoProof == [peer |-> "none", outage |-> FALSE]

(* Mutant: the call goes through the node under correction.                 *)
CallOwn(r) == [peer |-> r, outage |-> vms[r].power = "deallocated"]

(* A synthetic call completed through the peer, and whether the node under  *)
(* correction was deallocated at that time.                                 *)
CallProof(r) == [peer |-> Peer(r), outage |-> vms[r].power = "deallocated"]

FreshJournal(plan) ==
  [plan |-> plan, phase |-> [r \in Roles |-> "PENDING"],
   outageCall |-> [r \in Roles |-> NoProof]]

(* JOURNAL_STATUS_COMPLETE *)
Complete(j) == \A r \in Roles : j.phase[r] = "QUALIFIED"

(* _validate_journal, which every load and every write runs                 *)
JournalValid(j) ==
  /\ j.phase["sbc2"] # "QUALIFIED" => j.phase["sbc1"] = "PENDING"
  /\ \A r \in Roles :
       (PhaseIndex(j.phase[r]) >= PhaseIndex("OUTAGE_PEER_QUALIFIED"))
         <=> (j.outageCall[r] # NoProof)

(* The node a run works on: the first one not qualified.                    *)
ActiveRole(j) ==
  IF j.phase[NodeOrder[1]] # "QUALIFIED" THEN NodeOrder[1] ELSE NodeOrder[2]

-----------------------------------------------------------------------------
(* The run.                                                                 *)

IdleRun == [pc |-> "idle", path |-> NoJournal, outcome |-> "none"]

Journal == skuJournals[converter.path]
Active == ActiveRole(Journal)
NodePhase == Journal.phase[Active]

SkuAt(pc) == converter.pc = pc

SkuGoto(pc) == converter' = [converter EXCEPT !.pc = pc]

EndSku(outcome) == converter' = [IdleRun EXCEPT !.outcome = outcome]

(* _transition: one phase further, with its evidence                        *)
Transition(phase, proof) ==
  LET next == [Journal EXCEPT !.phase[Active] = phase,
                              !.outageCall[Active] =
                                IF proof = NoProof THEN @ ELSE proof]
  IN  /\ PhaseIndex(phase) = PhaseIndex(NodePhase) + 1
      /\ JournalValid(next)
      /\ skuJournals' = [skuJournals EXCEPT ![converter.path] = next]

InPhase(phase) == SkuAt("work") /\ NodePhase = phase

Advance(from, to) ==
  /\ NodePhase = from
  /\ Transition(to, NoProof)
  /\ UNCHANGED <<vms, approved, converter, mishaps>>

(* plan mode: two complete reads of a running fleet                         *)
ApprovePlan ==
  /\ SkuAt("idle")
  /\ \A r \in Roles : Healthy(r)
  /\ Snapshot # approved
  /\ approved' = Snapshot
  /\ UNCHANGED <<vms, skuJournals, converter, mishaps>>

(* apply mode under the fleet lock, on a path without a journal: the fresh  *)
(* plan must be the approved one and have both disks to convert.            *)
BeginCorrection(p) ==
  /\ SkuAt("idle") /\ skuJournals[p] = NoJournal
  /\ \A r \in Roles : Healthy(r)
  /\ Snapshot = approved
  /\ \A r \in Roles : vms[r].sku = "premium"
  /\ skuJournals' = [skuJournals EXCEPT ![p] = FreshJournal(Snapshot)]
  /\ converter' = [pc |-> "peer", path |-> p, outcome |-> "none"]
  /\ UNCHANGED <<vms, approved, mishaps>>

ResumeCorrection(p) ==
  /\ SkuAt("idle") /\ skuJournals[p] # NoJournal
  /\ JournalValid(skuJournals[p])
  /\ converter' = [pc |-> IF Complete(skuJournals[p]) THEN "verify" ELSE "peer",
                   path |-> p, outcome |-> "none"]
  /\ UNCHANGED <<vms, approved, skuJournals, mishaps>>

(* Mutant: only a node that has not been touched needs its peer proved.     *)
PeerProvedOnce ==
  /\ SkuAt("peer")
  /\ NodePhase = "PENDING" => Healthy(Peer(Active))
  /\ SkuGoto("own")
  /\ UNCHANGED <<vms, approved, skuJournals, mishaps>>

(* _apply_node begins with the peer: read, probed, and a call through it.   *)
ProvePeer ==
  /\ SkuAt("peer")
  /\ Healthy(Peer(Active))
  /\ SkuGoto("own")
  /\ UNCHANGED <<vms, approved, skuJournals, mishaps>>

OwnReadable ==
  Readable(Active) /\ (NodePhase = "STARTED" => PoweredOn(Active))

ReadOwn ==
  /\ SkuAt("own")
  /\ OwnReadable
  /\ SkuGoto("work")
  /\ UNCHANGED <<vms, approved, skuJournals, mishaps>>

Baseline ==
  /\ InPhase("PENDING") /\ Healthy(Active)
  /\ Advance("PENDING", "BASELINED")

RequestDeallocation ==
  /\ SkuAt("work")
  /\ Advance("BASELINED", "DEALLOCATE_REQUESTED")

InOutage == NodePhase \in {"DEALLOCATE_REQUESTED", "DEALLOCATED",
                       "OUTAGE_PEER_QUALIFIED", "SKU_UPDATE_REQUESTED"}

(* Mutant: a node is deallocated only when that was just requested.         *)
DeallocateOnce ==
  /\ InPhase("DEALLOCATE_REQUESTED")
  /\ vms[Active].power \in {"running", "stopped"}
  /\ vms' = [vms EXCEPT ![Active].power = "deallocating"]
  /\ UNCHANGED <<approved, skuJournals, converter, mishaps>>

(* A failed run may have restarted the node: it is deallocated again.       *)
Deallocate ==
  /\ SkuAt("work") /\ InOutage
  /\ vms[Active].power \in {"running", "stopped"}
  /\ vms' = [vms EXCEPT ![Active].power = "deallocating"]
  /\ UNCHANGED <<approved, skuJournals, converter, mishaps>>

(* Mutant: a journal that says deallocated is believed.                     *)
BelieveDeallocated ==
  /\ SkuAt("work") /\ InOutage
  /\ NodePhase = "DEALLOCATE_REQUESTED" => vms[Active].power = "deallocated"
  /\ SkuGoto("down")
  /\ UNCHANGED <<vms, approved, skuJournals, mishaps>>

(* Every run sees the node deallocated before it goes on in the outage.     *)
SeeDeallocated ==
  /\ SkuAt("work") /\ InOutage
  /\ vms[Active].power = "deallocated"
  /\ SkuGoto("down")
  /\ UNCHANGED <<vms, approved, skuJournals, mishaps>>

RecordDeallocated ==
  /\ SkuAt("down")
  /\ Advance("DEALLOCATE_REQUESTED", "DEALLOCATED")

(* A call through the peer during the outage.                               *)
QualifyOutage ==
  /\ SkuAt("down") /\ NodePhase = "DEALLOCATED"
  /\ Healthy(Peer(Active))
  /\ Transition("OUTAGE_PEER_QUALIFIED", CallProof(Active))
  /\ UNCHANGED <<vms, approved, converter, mishaps>>

RequestSku ==
  /\ SkuAt("down")
  /\ Advance("OUTAGE_PEER_QUALIFIED", "SKU_UPDATE_REQUESTED")

UpdateSku ==
  /\ SkuAt("down") /\ NodePhase = "SKU_UPDATE_REQUESTED"
  /\ vms[Active].sku = "premium"
  /\ vms' = [vms EXCEPT ![Active].sku = "standard"]
  /\ UNCHANGED <<approved, skuJournals, converter, mishaps>>

RecordSku ==
  /\ SkuAt("down") /\ NodePhase = "SKU_UPDATE_REQUESTED"
  /\ vms[Active].power = "deallocated" /\ vms[Active].sku = "standard"
  /\ Transition("SKU_UPDATED", NoProof)
  /\ SkuGoto("work")
  /\ UNCHANGED <<vms, approved, mishaps>>

RequestStart ==
  /\ SkuAt("work")
  /\ Advance("SKU_UPDATED", "START_REQUESTED")

StartActive ==
  /\ InPhase("START_REQUESTED")
  /\ vms[Active].power \in {"stopped", "deallocated"}
  /\ vms' = [vms EXCEPT ![Active].power = "starting"]
  /\ UNCHANGED <<approved, skuJournals, converter, mishaps>>

RecordStarted ==
  /\ SkuAt("work") /\ PoweredOn(Active)
  /\ Advance("START_REQUESTED", "STARTED")

(* Health, a new boot, the SKU, a call through the node, the peer again.    *)
Qualify ==
  /\ InPhase("STARTED")
  /\ \A r \in Roles : Healthy(r)
  /\ vms[Active].boot # Journal.plan[Active].boot
  /\ vms[Active].sku = "standard"
  /\ Transition("QUALIFIED", NoProof)
  /\ SkuGoto(IF Complete(skuJournals'[converter.path]) THEN "verify" ELSE "peer")
  /\ UNCHANGED <<vms, approved, mishaps>>

(* _verify_final_fleet *)
VerifyFleet ==
  /\ SkuAt("verify")
  /\ \A r \in Roles : Healthy(r) /\ vms[r].sku = "standard"
  /\ EndSku("applied")
  /\ UNCHANGED <<vms, approved, skuJournals, mishaps>>

-----------------------------------------------------------------------------
(* Failure, recovery and kills.                                             *)

(* A step that waits for the cloud or the node gives up; SIGINT, SIGTERM    *)
(* and a refused call end a run anywhere in the same way.                   *)
Stuck ==
  \/ SkuAt("peer") /\ ~Healthy(Peer(Active))
  \/ SkuAt("own") /\ ~OwnReadable
  \/ InPhase("PENDING") /\ ~Healthy(Active)
  \/ SkuAt("down") /\ NodePhase = "DEALLOCATED" /\ ~Healthy(Peer(Active))
  \/ InPhase("STARTED") /\ ~(\A r \in Roles : Healthy(r))

FailWork ==
  /\ converter.pc \in {"peer", "own", "work", "down"}
  /\ \/ Stuck /\ UNCHANGED mishaps
     \/ mishaps < MaxMishaps /\ mishaps' = mishaps + 1
  /\ SkuGoto("recover")
  /\ UNCHANGED <<vms, approved, skuJournals>>

(* _best_effort_start: waits for a settled power state, starts the node,    *)
(* waits for it to run and to be healthy.                                   *)
Recover ==
  /\ SkuAt("recover")
  /\ \/ /\ vms[Active].power \in {"stopped", "deallocated"}
        /\ vms' = [vms EXCEPT ![Active].power = "starting"]
        /\ UNCHANGED <<converter, mishaps>>
     \/ /\ Healthy(Active)
        /\ EndSku("recovered")
        /\ UNCHANGED <<vms, mishaps>>
     \/ /\ vms[Active].power = "running" /\ ~vms[Active].well
        /\ EndSku("recovery failed")
        /\ UNCHANGED <<vms, mishaps>>
     \/ /\ mishaps < MaxMishaps /\ mishaps' = mishaps + 1
        /\ EndSku("recovery failed")
        /\ UNCHANGED vms
  /\ UNCHANGED <<approved, skuJournals>>

(* The final verification is outside the recovery block.                    *)
FailVerify ==
  /\ SkuAt("verify")
  /\ ~(\A r \in Roles : Healthy(r))
  /\ EndSku("failed")
  /\ UNCHANGED <<vms, approved, skuJournals, mishaps>>

(* SIGKILL, or the operator's machine goes down.                            *)
Kill ==
  /\ ~SkuAt("idle") /\ mishaps < MaxMishaps
  /\ mishaps' = mishaps + 1
  /\ EndSku("killed")
  /\ UNCHANGED <<vms, approved, skuJournals>>

-----------------------------------------------------------------------------
(* Azure and the nodes.                                                     *)

FinishOperation(r) ==
  /\ \/ /\ vms[r].power = "deallocating"
        /\ vms' = [vms EXCEPT ![r].power = "deallocated"]
     \/ /\ vms[r].power = "starting"
        /\ vms' = [vms EXCEPT ![r].power = "running", ![r].boot = @ + 1,
                              ![r].well = TRUE]
  /\ UNCHANGED <<approved, skuJournals, converter, mishaps>>

(* A guest shuts down, or its runtime stops being healthy.                  *)
Mishap(r) ==
  /\ vms[r].power = "running" /\ vms[r].well
  /\ mishaps < MaxMishaps /\ mishaps' = mishaps + 1
  /\ \E power \in {"running", "stopped"} :
       vms' = [vms EXCEPT ![r].power = power, ![r].well = FALSE]
  /\ UNCHANGED <<approved, skuJournals, converter>>

(* The node's own operator: heals a runtime, starts a stopped guest.        *)
Heal(r) ==
  /\ vms[r].power \in {"running", "stopped"} /\ ~vms[r].well
  /\ vms' = [vms EXCEPT ![r] =
               IF @.power = "running" THEN [@ EXCEPT !.well = TRUE]
               ELSE [@ EXCEPT !.power = "starting"]]
  /\ UNCHANGED <<approved, skuJournals, converter, mishaps>>

-----------------------------------------------------------------------------
SkuInit ==
  /\ vms = [r \in Roles |-> [power |-> "running", sku |-> "premium",
                             boot |-> 0, well |-> TRUE]]
  /\ approved = Snapshot
  /\ skuJournals = [p \in Journals |-> NoJournal]
  /\ converter = IdleRun
  /\ mishaps = 0

RunStep ==
  \/ ProvePeer \/ ReadOwn \/ Baseline \/ RequestDeallocation \/ Deallocate
  \/ SeeDeallocated \/ RecordDeallocated \/ QualifyOutage \/ RequestSku
  \/ UpdateSku
  \/ RecordSku \/ RequestStart \/ StartActive \/ RecordStarted \/ Qualify
  \/ VerifyFleet \/ FailWork \/ Recover \/ FailVerify

SkuNext ==
  \/ ApprovePlan \/ RunStep \/ Kill
  \/ \E p \in Journals : BeginCorrection(p) \/ ResumeCorrection(p)
  \/ \E r \in Roles : FinishOperation(r) \/ Mishap(r) \/ Heal(r)

SkuSpec == SkuInit /\ [][SkuNext]_skuVars

(* Azure finishes what it accepted, a run goes on, the node's operator      *)
(* heals it, and the command is given again with every journal there is.    *)
(* Mishaps and kills stop at their bound.                                   *)
SkuFairness ==
  /\ WF_skuVars(RunStep)
  /\ \A p \in Journals : SF_skuVars(ResumeCorrection(p))
  /\ \A r \in Roles : WF_skuVars(FinishOperation(r)) /\ WF_skuVars(Heal(r))

-----------------------------------------------------------------------------
Fleets == [Roles -> [sku : {"premium", "standard"}, boot : Nat]]

SkuTypeOK ==
  /\ vms \in [Roles -> [power : Powers, sku : {"premium", "standard"},
                        boot : Nat, well : BOOLEAN]]
  /\ approved \in Fleets
  /\ \A p \in Journals : skuJournals[p] # NoJournal =>
       LET j == skuJournals[p] IN
       /\ j.plan \in Fleets
       /\ j.phase \in [Roles -> ToSet(PhaseOrder)]
       /\ \A r \in Roles :
            j.outageCall[r] \in [peer : {"none", Peer(r)}, outage : BOOLEAN]
  /\ converter.path \in Journals \cup {NoJournal}
  /\ mishaps \in 0..MaxMishaps

(* The module's promise "Only one Edge is ever deallocated at a time", over *)
(* failed and killed runs and over an abandoned journal that is taken up    *)
(* again while another one has a node in its outage.                        *)
OneOutage ==
  \E r \in Roles : vms[r].power \notin {"deallocating", "deallocated"}

(* The durable outage call of a node was made while that node really was    *)
(* deallocated, however often the run had to start over in between.         *)
OutageProofIsReal ==
  \A p \in Journals : skuJournals[p] # NoJournal =>
    \A r \in Roles :
      PhaseIndex(skuJournals[p].phase[r]) >= PhaseIndex("OUTAGE_PEER_QUALIFIED")
        => skuJournals[p].outageCall[r].outage

(* A correction that was begun can always be finished: giving the command   *)
(* again with its journal leads to two converted nodes, whatever failed or  *)
(* was killed at whatever step.                                             *)
CorrectionCompletes ==
  \A p \in Journals :
    skuJournals[p] # NoJournal ~> /\ skuJournals[p] # NoJournal
                                  /\ Complete(skuJournals[p])
                                  /\ \A r \in Roles : vms[r].sku = "standard"

(* At most one Edge is out at any time, and a recorded outage call is of a  *)
(* real outage.                                                             *)
OutagesAreSafe == OneOutage /\ OutageProofIsReal
=============================================================================
