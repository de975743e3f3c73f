-------------------------- MODULE RebootQualification --------------------------
(***************************************************************************)
(* qualify-active-edge-reboots.yml: a play reboots sbc1 and then sbc2 by a *)
(* transient systemd timer and proves that each comes back as it was while *)
(* its peer carries on.  The durable request is RebootRequest's; this      *)
(* module is what happens between its commands, on two nodes that reboot   *)
(* in their own time.  The play is repeated after every failure and takes  *)
(* the request up again.  One play runs at a time, as the acknowledgement  *)
(* asks; it may be lost at any task, and a task may be any time in coming. *)
(***************************************************************************)
EXTENDS Naturals, FiniteSets

CONSTANTS
  MaxRequests,   \* bound: requests, of which each after the first is a rollover
  NoRequest,
  MaxTroubles    \* bound: lost plays, cuts, failed units and own reboots

ASSUME QualificationConstants ==
  MaxRequests \in Nat \ {0} /\ MaxTroubles \in Nat

VARIABLES
  request,       \* the active request, or NoRequest
  closed,        \* the requests that were rolled over
  edges,         \* node -> power, boot identifier, health, transient unit
  cut,           \* nodes that run but cannot be reached
  qualifier,     \* the play: its task and the facts it registered
  troubles,
  reboots,       \* history: node -> how often a unit of this request fired
  blinked        \* history: a target booted between two reads of one play

requestState == <<request, closed>>
nodeState    == <<edges, cut, reboots, blinked>>
qualVars ==
  <<request, closed, edges, cut, qualifier, troubles, reboots, blinked>>

(* Run identifiers are time stamps: they come in order.                     *)
Requests == 1..MaxRequests

(* The boot identifiers of both nodes, as a play reads them.                *)
Boots == [{"sbc1", "sbc2"} -> Nat]

Q == INSTANCE RebootRequest WITH
  Run <- Requests, Nil <- NoRequest, journal <- request, archived <- closed,
  Snapshot <- Boots

ASSUME NoRequestAssumption ==
  NoRequest \notin Q!Journal \cup Boots \cup Q!Nodes

Other(n) == IF n = "sbc1" THEN "sbc2" ELSE "sbc1"

-----------------------------------------------------------------------------
(* The nodes.                                                               *)

Answers(n) == edges[n].power # "down" /\ n \notin cut

(* vivolution-edge-runtime health, the required units and the absence of a  *)
(* transaction, all as recorded                                             *)
Fit(n) == Answers(n) /\ edges[n].well

(* LoadState of the transient timer and service is not "not-found"          *)
Loaded(n) == edges[n].unit # "none"

SetEdge(n, e) == edges' = [edges EXCEPT ![n] = e]

(* The timer runs out and systemctl reboot is accepted: the services stop,  *)
(* and SSH some time after that.                                            *)
UnitFires(n) ==
  /\ edges[n].unit = "timer" /\ edges[n].power = "up"
  /\ SetEdge(n, [edges[n] EXCEPT !.power = "stopping", !.unit = "fired"])
  /\ reboots' = [reboots EXCEPT ![n] = @ + 1]
  /\ UNCHANGED <<requestState, cut, qualifier, troubles, blinked>>

ServicesStop(n) ==
  /\ edges[n].power = "stopping" /\ edges[n].well
  /\ SetEdge(n, [edges[n] EXCEPT !.well = FALSE])
  /\ UNCHANGED <<requestState, cut, qualifier, troubles, reboots, blinked>>

(* A transient unit does not survive the shutdown.                          *)
ShutDown(n) ==
  /\ edges[n].power = "stopping" /\ ~edges[n].well
  /\ SetEdge(n, [edges[n] EXCEPT !.power = "down", !.unit = "none"])
  /\ UNCHANGED <<requestState, cut, qualifier, troubles, reboots, blinked>>

BetweenReads(n) ==
  qualifier.task \in {"arm", "look", "schedule"} /\ request.current = n

BootUp(n) ==
  /\ edges[n].power = "down"
  /\ SetEdge(n, [edges[n] EXCEPT !.power = "up", !.boot = @ + 1])
  /\ blinked' = (blinked \/ BetweenReads(n))
  /\ UNCHANGED <<requestState, cut, qualifier, troubles, reboots>>

(* vivolution-edge-runtime-recover.service and the services come up.        *)
ComesWell(n) ==
  /\ edges[n].power = "up" /\ ~edges[n].well
  /\ SetEdge(n, [edges[n] EXCEPT !.well = TRUE])
  /\ UNCHANGED <<requestState, cut, qualifier, troubles, reboots, blinked>>

Trouble == troubles < MaxTroubles /\ troubles' = troubles + 1

(* systemctl reboot fails: the unit stays, and systemd is degraded.         *)
UnitFails(n) ==
  /\ Trouble
  /\ edges[n].unit = "timer" /\ edges[n].power = "up"
  /\ SetEdge(n, [edges[n] EXCEPT !.unit = "failed"])
  /\ UNCHANGED <<requestState, cut, qualifier, reboots, blinked>>

(* The node goes down by itself.                                            *)
GoesDown(n) ==
  /\ Trouble
  /\ edges[n].power = "up"
  /\ SetEdge(n, [edges[n] EXCEPT
                          !.power = "down", !.well = FALSE, !.unit = "none"])
  /\ UNCHANGED <<requestState, cut, qualifier, reboots, blinked>>

CutOff(n) ==
  /\ Trouble
  /\ n \notin cut /\ cut' = cut \cup {n}
  /\ UNCHANGED <<requestState, edges, qualifier, reboots, blinked>>

Rejoin(n) ==
  /\ n \in cut /\ cut' = cut \ {n}
  /\ UNCHANGED <<requestState, edges, qualifier, troubles, reboots, blinked>>

-----------------------------------------------------------------------------
(* The play.                                                                *)

Tasks == {"idle", "begin", "node", "observe", "arm", "look", "uncommitted",
          "recovered", "cancel", "abort", "schedule", "scheduled", "await", "peer", "loss",
          "reconnect", "ready", "proof", "commit", "call", "qualify"}

Idle == [task |-> "idle", seen |-> [n \in Q!Nodes |-> 0], after |-> 0]

Target == request.current
Phase  == request.phase[Target]
Armed  == request.pre[Target]     \* the durable preflight: both boot identifiers

OnTask(task)   == qualifier.task = task
Proceed(task) == qualifier' = [qualifier EXCEPT !.task = task]
PlayEnds   == qualifier' = Idle

Record(op, snapshot) ==
  /\ request' = Q!Apply(request, op, Target, snapshot)
  /\ UNCHANGED closed

(* The boot identifier the play read differs from the armed one.            *)
Changed == qualifier.seen[Target] # Armed[Target]

(* Mutant: a rebooted target is no longer the one that was armed.           *)
SameBoots ==
  /\ \A n \in Q!Nodes : Fit(n)
  /\ Phase # "PENDING" => \A n \in Q!Nodes : edges[n].boot = Armed[n]

(* Target and peer as committed, and the peer still as it was armed.        *)
AsArmed ==
  /\ \A n \in Q!Nodes : Fit(n)
  /\ Phase # "PENDING" => edges[Other(Target)].boot = Armed[Other(Target)]

(* What a task needs of the nodes; without it the play fails, at once or at *)
(* the end of its retries.                                                  *)
Met ==
  CASE OnTask("begin") ->
         request # NoRequest => request.status \in {"IN_PROGRESS", "COMPLETE"}
    [] OnTask("observe") -> AsArmed
    [] qualifier.task \in {"look", "cancel", "reconnect", "proof"} -> Answers(Target)
    [] OnTask("recovered") -> Fit(Target) /\ edges[Target].boot # Armed[Target]
    [] OnTask("schedule") ->
         Answers(Target) /\ edges[Target].power = "up" /\ ~Loaded(Target)
    [] OnTask("peer") ->
         /\ Fit(Other(Target))
         /\ edges[Other(Target)].boot = qualifier.seen[Other(Target)]
    [] OnTask("ready") ->
         Fit(Target) /\ edges[Target].power = "up" /\ edges[Target].unit # "failed"
    [] OnTask("call") ->
         /\ Fit(Target) /\ edges[Target].boot = qualifier.after
         /\ Fit(Other(Target)) /\ edges[Other(Target)].boot = Armed[Other(Target)]
    [] OTHER -> TRUE

Do(task) == OnTask(task) /\ Met

StartPlay ==
  /\ OnTask("idle") /\ Proceed("begin")
  /\ UNCHANGED <<requestState, nodeState, troubles>>

(* begin: the one request, new or resumed; a reconciled one is not taken up.*)
BeginRequest ==
  /\ Do("begin") /\ Proceed("node")
  /\ request' = IF request = NoRequest THEN Q!FreshJournal(1) ELSE request
  /\ UNCHANGED <<closed, nodeState, troubles>>

(* serial: 1, in the order of the request; after both, the evidence is      *)
(* compiled and the request completed, or found complete.                   *)
NextNode ==
  /\ Do("node")
  /\ \/ Target # NoRequest /\ Proceed("observe") /\ UNCHANGED request
     \/ Q!Completable(request) /\ request' = Q!Completed(request) /\ PlayEnds
     \/ request.status = "COMPLETE" /\ PlayEnds /\ UNCHANGED request
  /\ UNCHANGED <<closed, nodeState, troubles>>

(* Target and peer before the reboot, or when the request is taken up.      *)
Observe ==
  /\ Do("observe")
  /\ qualifier' = [qualifier EXCEPT !.seen = [n \in Q!Nodes |-> edges[n].boot],
                     !.task = IF Phase = "PENDING" THEN "arm" ELSE "look"]
  /\ UNCHANGED <<requestState, nodeState, troubles>>

ArmTarget ==
  /\ Do("arm")
  /\ Record("arm", qualifier.seen) /\ Proceed("look")
  /\ UNCHANGED <<nodeState, troubles>>

(* Mutant: the boot identifier is not compared.                             *)
BranchOnUnitsOnly ==
  CASE Phase = "SSH_LOST" -> "reconnect"
    [] Phase = "RECONNECTED" -> "ready"
    [] Phase = "ARMED" -> IF Loaded(Target) THEN "uncommitted" ELSE "schedule"
    [] Phase = "SCHEDULED" -> IF Loaded(Target) THEN "await" ELSE "abort"

(* Mutant: an uncommitted unit is reconciled without waiting for it.        *)
BranchAbortsAtOnce ==
  CASE Phase = "SSH_LOST" -> "reconnect"
    [] Phase = "RECONNECTED" -> "ready"
    [] Phase = "ARMED" -> IF Changed \/ Loaded(Target) THEN "abort" ELSE "schedule"
    [] Phase = "SCHEDULED" -> IF ~Changed /\ Loaded(Target) THEN "await" ELSE "abort"

(* Classify exact crash-resume state before any scheduling action           *)
Branch ==
  CASE Phase = "SSH_LOST" -> "reconnect"
    [] Phase = "RECONNECTED" -> "ready"
    [] Phase = "ARMED" -> IF Changed THEN "abort"
                          ELSE IF Loaded(Target) THEN "uncommitted" ELSE "schedule"
    [] Phase = "SCHEDULED" -> IF ~Changed /\ Loaded(Target) THEN "await" ELSE "abort"

(* Inspect exact transient reboot authority before schedule or resume       *)
Look ==
  /\ Do("look") /\ Proceed(Branch)
  /\ UNCHANGED <<requestState, nodeState, troubles>>

(* Mutant: the schedule is not recorded.                                    *)
ScheduleOnly ==
  /\ Do("schedule")
  /\ SetEdge(Target, [edges[Target] EXCEPT !.unit = "timer"]) /\ Proceed("await")
  /\ UNCHANGED <<requestState, cut, troubles, reboots, blinked>>

(* systemd-run --on-active=3s systemctl reboot                              *)
Schedule ==
  /\ Do("schedule")
  /\ SetEdge(Target, [edges[Target] EXCEPT !.unit = "timer"]) /\ Proceed("scheduled")
  /\ UNCHANGED <<requestState, cut, troubles, reboots, blinked>>

MarkScheduled ==
  /\ Do("scheduled")
  /\ Record("scheduled", NoRequest) /\ Proceed("await")
  /\ UNCHANGED <<nodeState, troubles>>

(* wait_for state=stopped polls the port each second for 60 seconds, in     *)
(* which the timer of 3 seconds runs out.                                   *)
SeeLoss ==
  /\ OnTask("await") \/ OnTask("uncommitted")
  /\ ~Answers(Target)
  /\ Proceed(IF OnTask("await") THEN "peer" ELSE "recovered")
  /\ UNCHANGED <<requestState, nodeState, troubles>>

SeeNoLoss ==
  /\ OnTask("await") \/ OnTask("uncommitted")
  /\ Answers(Target) /\ edges[Target].unit # "timer"
  /\ Proceed("cancel")
  /\ UNCHANGED <<requestState, nodeState, troubles>>

(* Stop and reset the transient units: a reboot under way goes on.          *)
Cancel ==
  /\ Do("cancel")
  /\ SetEdge(Target, IF edges[Target].power = "up"
                 THEN [edges[Target] EXCEPT !.unit = "none"] ELSE edges[Target])
  /\ Proceed("abort")
  /\ UNCHANGED <<requestState, cut, troubles, reboots, blinked>>

(* The uncommitted reboot happened, and the node is well.                   *)
RecoveredTarget ==
  /\ Do("recovered") /\ Proceed("abort")
  /\ UNCHANGED <<requestState, nodeState, troubles>>

Abort ==
  /\ Do("abort")
  /\ Record("abort", NoRequest) /\ PlayEnds
  /\ UNCHANGED <<nodeState, troubles>>

(* The peer while the target is away                                        *)
ProvePeer ==
  /\ Do("peer") /\ Proceed("loss")
  /\ UNCHANGED <<requestState, nodeState, troubles>>

(* mark-loss refuses a loss more than 60 seconds after the schedule.        *)
MarkLoss ==
  /\ Do("loss")
  /\ \/ Record("loss", NoRequest) /\ Proceed("reconnect")
     \/ PlayEnds /\ UNCHANGED requestState
  /\ UNCHANGED <<nodeState, troubles>>

(* wait_for_connection waits 2 seconds first, after the six commands on the *)
(* peer: the timer has run out.                                             *)
Reconnect ==
  /\ Do("reconnect") /\ edges[Target].unit # "timer"
  /\ Proceed("ready")
  /\ UNCHANGED <<requestState, nodeState, troubles>>

(* is-system-running --wait, the boot identifier and the health             *)
ReadReady ==
  /\ Do("ready")
  /\ qualifier' = [qualifier EXCEPT !.task = "proof", !.after = edges[Target].boot]
  /\ UNCHANGED <<requestState, nodeState, troubles>>

(* Require the transient reboot authority gone; no new boot, or a reconnect *)
(* out of time, is reconciled.                                              *)
ProveReady ==
  /\ Do("proof")
  /\ \/ qualifier.after = Armed[Target] /\ Proceed("abort")
     \/ /\ qualifier.after # Armed[Target] /\ ~Loaded(Target)
        /\ Proceed("commit") \/ (Phase = "SSH_LOST" /\ Proceed("abort"))
     \/ qualifier.after # Armed[Target] /\ Loaded(Target) /\ PlayEnds
  /\ UNCHANGED <<requestState, nodeState, troubles>>

(* mark-reconnected, unless it was; then the bound on readiness             *)
CommitReconnect ==
  /\ Do("commit")
  /\ IF Phase = "SSH_LOST" THEN Record("reconnected", NoRequest)
                           ELSE UNCHANGED requestState
  /\ Proceed("call") \/ Proceed("abort")
  /\ UNCHANGED <<nodeState, troubles>>

(* A fresh fixture call, and target and peer again after it                 *)
FreshCall ==
  /\ Do("call") /\ Proceed("qualify")
  /\ UNCHANGED <<requestState, nodeState, troubles>>

MarkQualified ==
  /\ Do("qualify")
  /\ Record("qualified", NoRequest) /\ Proceed("node")
  /\ UNCHANGED <<nodeState, troubles>>

(* A task fails for want of what it needs.                                  *)
Refuse ==
  /\ ~Met /\ PlayEnds
  /\ UNCHANGED <<requestState, nodeState, troubles>>

(* The play is lost at any task.                                            *)
LosePlay ==
  /\ Trouble /\ ~OnTask("idle") /\ PlayEnds
  /\ UNCHANGED <<requestState, nodeState>>

(* rollover, by the operator: a request that was reconciled incomplete      *)
NewRequest ==
  /\ OnTask("idle")
  /\ request # NoRequest /\ request.status = "ABORTED_RECONCILED"
  /\ request.run < MaxRequests /\ request' = Q!FreshJournal(request.run + 1)
  /\ closed' = closed \cup {request}
  /\ reboots' = [n \in Q!Nodes |-> 0]
  /\ UNCHANGED <<edges, cut, qualifier, troubles, blinked>>

PlayStep ==
  \/ BeginRequest \/ NextNode \/ Observe \/ ArmTarget \/ Look \/ Schedule
  \/ MarkScheduled \/ SeeLoss \/ SeeNoLoss \/ Cancel \/ RecoveredTarget
  \/ Abort \/ ProvePeer \/ MarkLoss \/ Reconnect \/ ReadReady \/ ProveReady \/ CommitReconnect \/ FreshCall
  \/ MarkQualified \/ Refuse

NodeStep(n) ==
  \/ UnitFires(n) \/ ServicesStop(n) \/ ShutDown(n) \/ BootUp(n) \/ ComesWell(n)
  \/ Rejoin(n)

QualInit ==
  /\ request = NoRequest /\ closed = {}
  /\ edges = [n \in Q!Nodes |-> [power |-> "up", boot |-> 0, well |-> TRUE,
                                 unit |-> "none"]]
  /\ cut = {} /\ qualifier = Idle /\ troubles = 0
  /\ reboots = [n \in Q!Nodes |-> 0] /\ blinked = FALSE

QualNext ==
  \/ StartPlay \/ PlayStep \/ LosePlay \/ NewRequest
  \/ \E n \in Q!Nodes : NodeStep(n) \/ UnitFails(n) \/ GoesDown(n) \/ CutOff(n)

QualSpec == QualInit /\ [][QualNext]_qualVars

(* Nodes come back, the play goes on, and the operator repeats it.          *)
FairQualSpec ==
  /\ QualSpec
  /\ WF_qualVars(StartPlay) /\ WF_qualVars(PlayStep)
  /\ \A n \in Q!Nodes : WF_qualVars(NodeStep(n))

-----------------------------------------------------------------------------
QualTypeOK ==
  /\ request \in Q!Journal \cup {NoRequest} /\ closed \subseteq Q!Journal
  /\ edges \in [Q!Nodes -> [power : {"up", "stopping", "down"}, boot : Nat,
                            well : BOOLEAN,
                            unit : {"none", "timer", "fired", "failed"}]]
  /\ cut \subseteq Q!Nodes /\ troubles \in 0..MaxTroubles
  /\ qualifier.task \in Tasks
  /\ qualifier.task \notin {"idle", "begin"} => request # NoRequest
  /\ reboots \in [Q!Nodes -> Nat] /\ blinked \in BOOLEAN

(* No node is rebooted twice under one request (deploy/README.md:691),      *)
(* unless a node came up between two reads of one play (`blinked`): the     *)
(* play decides on the boot identifier of line 498 and the unit of line 863.*)
OneRebootEach == ~blinked => \A n \in Q!Nodes : reboots[n] <= 1

(* A request that is closed leaves no reboot behind that has yet to happen. *)
NothingLeftScheduled ==
  request # NoRequest /\ request.status # "IN_PROGRESS" /\ ~blinked =>
    \A n \in Q!Nodes : edges[n].unit # "timer"

(* A node that is recorded as reconnected or qualified has been rebooted    *)
(* since it was armed.                                                      *)
QualifiedWasRebooted ==
  request # NoRequest =>
    \A n \in Q!Nodes :
      request.phase[n] \in {"RECONNECTED", "QUALIFIED"} =>
        edges[n].boot # request.pre[n][n]

(* The play gives no command that the journal refuses: within one request   *)
(* its steps are transitions that apply.                                    *)
PlayObeysJournal ==
  [][request # NoRequest /\ request' # request /\ request'.run = request.run =>
       \/ Q!Completable(request) /\ request' = Q!Completed(request)
       \/ \E op \in Q!Transitions :
            /\ Q!Applicable(request, op, Target)
            /\ request' = Q!Apply(request, op, Target, qualifier.seen)]_qualVars

(* What plays do to the nodes and what they record of it agree, whatever    *)
(* play, unit, connection or node was lost in between.                      *)
RebootsAreSound ==
  [](OneRebootEach /\ NothingLeftScheduled /\ QualifiedWasRebooted) /\ PlayObeysJournal

Open == request # NoRequest /\ request.status = "IN_PROGRESS"

(* A peer that rebooted by itself never equals the preflight again.         *)
PeerChanged ==
  /\ Target # NoRequest /\ Phase # "PENDING"
  /\ edges[Other(Target)].boot # Armed[Other(Target)]

(* A loss was recorded that was the network's, and the reboot failed: the   *)
(* failed unit keeps the system from running, and nothing resets it.        *)
UnitStuck ==
  Target # NoRequest /\ Phase = "SSH_LOST" /\ edges[Target].unit = "failed"

(* A request whose play is repeated is completed, or reconciled as          *)
(* incomplete, except in these two situations, which no command leaves.     *)
QualificationEnds ==
  Open ~> (request # NoRequest /\ (~Open \/ PeerChanged \/ UnitStuck))
=============================================================================
