----------------------------- MODULE AzureOverlay -----------------------------
(***************************************************************************)
(* cp1_carrier_nsg_overlay.py: two temporary carrier rules on the network  *)
(* security group of the control host, wanted while the generation-3 nodes *)
(* run.  One command looks at Azure and writes a plan that is good for ten *)
(* minutes; another looks again, refuses whatever changed, and has Azure   *)
(* deploy the rules (apply) or deletes them one by one (teardown).         *)
(*                                                                         *)
(* A look is two readings, the rules first and the deployment's state      *)
(* last, and Azure goes on between them.  One operator is assumed: the     *)
(* program takes no lock.                                                  *)
(***************************************************************************)
EXTENDS Naturals, FiniteSets

CONSTANTS
  Rules,          \* the overlay rules, two in the program
  NoPlan,
  PlanLife,       \* clock ticks a plan is good for
  Reserve,        \* ticks before its end at which a deployment is given up
  Deadline,       \* tick at which the deadman deallocates generation 3
  MaxClock,       \* bound on the clock
  MaxOverlayMishaps  \* bound on kills, refused calls and failed deployments

ASSUME OverlayConstants ==
  /\ PlanLife \in Nat \ {0} /\ Reserve \in 0..PlanLife
  /\ Deadline \in Nat /\ MaxClock \in Nat /\ MaxOverlayMishaps \in Nat

Terminal == {"ABSENT", "Succeeded", "Failed", "Canceled"}

VARIABLES
  nsg,         \* rule -> its ETag: how often it was created or deleted
  deployment,  \* state of the one named deployment
  g3Running,   \* the generation-3 nodes run
  azClock,
  savedPlan,   \* the plan file, or NoPlan
  overlayRun,  \* the command under way
  overlayFaults

overlayVars ==
  <<nsg, deployment, g3Running, azClock, savedPlan, overlayRun, overlayFaults>>

Present(rules) == {r \in Rules : rules[r] % 2 = 1}

-----------------------------------------------------------------------------
IdleCommand == [pc |-> "idle", cmd |-> "none", action |-> "none",
                seen |-> [r \in Rules |-> 0], left |-> {}, outcome |-> "none"]

OverlayGoto(pc) == overlayRun' = [overlayRun EXCEPT !.pc = pc]
EndOverlay(outcome) == overlayRun' = [IdleCommand EXCEPT !.outcome = outcome]
OverlayAt(pc) == overlayRun.pc = pc
Action == overlayRun.action

(* _require_plan_fresh *)
PlanFresh(reserve) == azClock + reserve < savedPlan.expires

(* The nodes are read before anything else, with the power the action asks  *)
(* for; an apply also needs the deadman armed before its deadline.          *)
NodesFit == IF Action = "apply" THEN g3Running /\ azClock < Deadline
            ELSE ~g3Running

StartPlan(action) ==
  /\ OverlayAt("idle")
  /\ overlayRun' = [IdleCommand EXCEPT !.pc = "rules", !.cmd = "plan",
                                       !.action = action]
  /\ UNCHANGED <<nsg, deployment, g3Running, azClock, savedPlan, overlayFaults>>

(* read_plan *)
StartExecute ==
  /\ OverlayAt("idle") /\ savedPlan # NoPlan /\ PlanFresh(0)
  /\ overlayRun' = [IdleCommand EXCEPT !.pc = "rules", !.cmd = "execute",
                                       !.action = savedPlan.action]
  /\ UNCHANGED <<nsg, deployment, g3Running, azClock, savedPlan, overlayFaults>>

(* collect_observations: nodes and rules                                    *)
LookAtRules ==
  /\ overlayRun.pc \in {"rules", "post"}
  /\ NodesFit
  /\ overlayRun' = [overlayRun EXCEPT !.seen = nsg,
                      !.pc = IF @ = "post" THEN "poststate" ELSE "state"]
  /\ UNCHANGED <<nsg, deployment, g3Running, azClock, savedPlan, overlayFaults>>

(* Mutant: only a deployment that succeeded counts as settled.              *)
SucceededOnly == deployment \in {"ABSENT", "Succeeded"}

(* Mutant: a deployment that was seen under way is not waited for.          *)
AnyState == TRUE

(* Mutant: a deployment that is being cancelled counts as settled.          *)
CancelingToo == deployment \in Terminal \cup {"Canceling"}

(* _read_overlay_deployment_state: absent or terminal                       *)
DeploymentSettled == deployment \in Terminal

(* The deployment's state last; the provider's what-if of an apply must     *)
(* agree with the rules seen before.                                        *)
LookFits ==
  /\ DeploymentSettled
  /\ Action = "apply" => Present(nsg) = Present(overlayRun.seen)

(* Mutant: the reserve is added to the life of the plan.                    *)
ExtendedPlan ==
  /\ OverlayAt("state") /\ overlayRun.cmd = "plan"
  /\ LookFits
  /\ savedPlan' = [action |-> Action, rules |-> overlayRun.seen,
                   expires |-> azClock + PlanLife + Reserve]
  /\ EndOverlay("planned")
  /\ UNCHANGED <<nsg, deployment, g3Running, azClock, overlayFaults>>

WritePlan ==
  /\ OverlayAt("state") /\ overlayRun.cmd = "plan"
  /\ LookFits
  /\ savedPlan' = [action |-> Action, rules |-> overlayRun.seen,
                   expires |-> azClock + PlanLife]
  /\ EndOverlay("planned")
  /\ UNCHANGED <<nsg, deployment, g3Running, azClock, overlayFaults>>

(* _require_reobserved                                                      *)
MatchesPlan ==
  /\ savedPlan.action = Action
  /\ IF Action = "apply" THEN overlayRun.seen = savedPlan.rules
     ELSE \A r \in Present(overlayRun.seen) :
            overlayRun.seen[r] = savedPlan.rules[r]

(* az deployment group create begins.                                       *)
Submit ==
  /\ OverlayAt("state") /\ overlayRun.cmd = "execute" /\ Action = "apply"
  /\ LookFits /\ MatchesPlan /\ PlanFresh(Reserve)
  /\ OverlayGoto("submitting")
  /\ UNCHANGED <<nsg, deployment, g3Running, azClock, savedPlan, overlayFaults>>

(* Azure takes its request, which replaces the earlier deployment.          *)
AcceptDeployment ==
  /\ OverlayAt("submitting")
  /\ deployment' = "Running"
  /\ OverlayGoto("deploying")
  /\ UNCHANGED <<nsg, g3Running, azClock, savedPlan, overlayFaults>>

DeploymentReturns ==
  /\ OverlayAt("deploying") /\ deployment \in Terminal
  /\ IF deployment = "Succeeded" THEN OverlayGoto("post") ELSE EndOverlay("refused")
  /\ UNCHANGED <<nsg, deployment, g3Running, azClock, savedPlan, overlayFaults>>

(* The authorisation ends before the create command does, which is killed,  *)
(* whether or not its request got out or its deployment has just ended.     *)
AuthorisationEnds ==
  /\ overlayRun.pc \in {"submitting", "deploying"} /\ ~PlanFresh(Reserve)
  /\ OverlayGoto("cancelling")
  /\ UNCHANGED <<nsg, deployment, g3Running, azClock, savedPlan, overlayFaults>>

(* _cancel_and_settle_deployment: the cancellation is a request; that there *)
(* is no deployment is as good.  One that is over may be answered either    *)
(* way.                                                                     *)
RequestCancel ==
  /\ OverlayAt("cancelling")
  /\ deployment' = IF deployment = "Running" THEN "Canceling" ELSE deployment
  /\ OverlayGoto("settling")
  /\ UNCHANGED <<nsg, g3Running, azClock, savedPlan, overlayFaults>>

(* could not be cancelled: over already, or Azure does not take the request *)
CancelRefused ==
  /\ OverlayAt("cancelling")
  /\ \/ deployment \in Terminal \ {"ABSENT"} /\ UNCHANGED overlayFaults
     \/ overlayFaults < MaxOverlayMishaps /\ overlayFaults' = overlayFaults + 1
  /\ EndOverlay("uncancelled")
  /\ UNCHANGED <<nsg, deployment, g3Running, azClock, savedPlan>>

(* Mutant: that the cancellation was taken is enough.                       *)
SettleUnseen ==
  /\ OverlayAt("settling")
  /\ EndOverlay("cancelled")
  /\ UNCHANGED <<nsg, deployment, g3Running, azClock, savedPlan, overlayFaults>>

(* crossed authorization and was cancelled: also said of a deployment that  *)
(* succeeded or failed meanwhile, or that there never was.                  *)
SettleDeployment ==
  /\ OverlayAt("settling") /\ deployment \in Terminal
  /\ EndOverlay("cancelled")
  /\ UNCHANGED <<nsg, deployment, g3Running, azClock, savedPlan, overlayFaults>>

(* did not reach a terminal state: Azure took longer than the ninety        *)
(* seconds.  The deployment goes on without its command.                    *)
GiveUpSettling ==
  /\ OverlayAt("settling") /\ deployment \notin Terminal
  /\ EndOverlay("unsettled")
  /\ UNCHANGED <<nsg, deployment, g3Running, azClock, savedPlan, overlayFaults>>

StartTeardown ==
  /\ OverlayAt("state") /\ overlayRun.cmd = "execute" /\ Action = "teardown"
  /\ LookFits /\ MatchesPlan
  /\ overlayRun' = [overlayRun EXCEPT !.pc = "deleting",
                                      !.left = Present(overlayRun.seen)]
  /\ UNCHANGED <<nsg, deployment, g3Running, azClock, savedPlan, overlayFaults>>

(* One rule at a time, each while the plan is fresh, If-Match its ETag.     *)
DeleteRule(r) ==
  /\ OverlayAt("deleting") /\ r \in overlayRun.left /\ PlanFresh(0)
  /\ nsg[r] = overlayRun.seen[r]
  /\ nsg' = [nsg EXCEPT ![r] = @ + 1]
  /\ overlayRun' = [overlayRun EXCEPT !.left = @ \ {r}]
  /\ UNCHANGED <<deployment, g3Running, azClock, savedPlan, overlayFaults>>

Deleted ==
  /\ OverlayAt("deleting") /\ overlayRun.left = {}
  /\ OverlayGoto("post")
  /\ UNCHANGED <<nsg, deployment, g3Running, azClock, savedPlan, overlayFaults>>

(* The postcondition is a look of its own.                                  *)
ReportOverlay ==
  /\ OverlayAt("poststate") /\ DeploymentSettled
  /\ IF Action = "apply" THEN Present(overlayRun.seen) = Rules /\ EndOverlay("applied")
     ELSE Present(overlayRun.seen) = {} /\ EndOverlay("removed")
  /\ UNCHANGED <<nsg, deployment, g3Running, azClock, savedPlan, overlayFaults>>

(* Every check that does not hold ends the command.                         *)
RefuseOverlay ==
  /\ \/ overlayRun.pc \in {"rules", "post"} /\ ~NodesFit
     \/ OverlayAt("state") /\ ~LookFits
     \/ /\ OverlayAt("state") /\ overlayRun.cmd = "execute"
        /\ ~(MatchesPlan /\ (Action = "apply" => PlanFresh(Reserve)))
     \/ OverlayAt("deleting") /\ overlayRun.left # {} /\ ~PlanFresh(0)
     \/ OverlayAt("deleting") /\ \E r \in overlayRun.left : nsg[r] # overlayRun.seen[r]
     \/ /\ OverlayAt("poststate")
        /\ Present(overlayRun.seen) # (IF Action = "apply" THEN Rules ELSE {})
     \/ OverlayAt("poststate") /\ ~DeploymentSettled
  /\ EndOverlay("refused")
  /\ UNCHANGED <<nsg, deployment, g3Running, azClock, savedPlan, overlayFaults>>

(* A kill, or a call of the Azure CLI that fails or times out, at any step: *)
(* a create that loses its deployment, a cancellation that is taken without *)
(* an answer, a state that cannot be read.                                  *)
Interrupt ==
  /\ ~OverlayAt("idle") /\ overlayFaults < MaxOverlayMishaps
  /\ overlayFaults' = overlayFaults + 1
  /\ EndOverlay("interrupted")
  /\ UNCHANGED <<nsg, deployment, g3Running, azClock, savedPlan>>

-----------------------------------------------------------------------------
(* Azure: a deployment creates its rules one after the other, succeeds when *)
(* both are there, and may fail in between.  All of this may still happen   *)
(* while it is being cancelled, which takes Azure some time.                *)
CreateRule(r) ==
  /\ deployment \notin Terminal /\ r \notin Present(nsg)
  /\ nsg' = [nsg EXCEPT ![r] = @ + 1]
  /\ UNCHANGED <<deployment, g3Running, azClock, savedPlan, overlayRun, overlayFaults>>

DeploymentSucceeds ==
  /\ deployment \notin Terminal /\ Present(nsg) = Rules
  /\ deployment' = "Succeeded"
  /\ UNCHANGED <<nsg, g3Running, azClock, savedPlan, overlayRun, overlayFaults>>

DeploymentFails ==
  /\ deployment \notin Terminal /\ overlayFaults < MaxOverlayMishaps
  /\ overlayFaults' = overlayFaults + 1
  /\ deployment' = "Failed"
  /\ UNCHANGED <<nsg, g3Running, azClock, savedPlan, overlayRun>>

CancellationEnds ==
  /\ deployment = "Canceling"
  /\ deployment' = "Canceled"
  /\ UNCHANGED <<nsg, g3Running, azClock, savedPlan, overlayRun, overlayFaults>>

Deadman ==
  /\ g3Running /\ azClock >= Deadline
  /\ g3Running' = FALSE
  /\ UNCHANGED <<nsg, deployment, azClock, savedPlan, overlayRun, overlayFaults>>

(* After its bound the clock stands still: a plan made then stays fresh.    *)
ClockTick ==
  /\ azClock < MaxClock
  /\ azClock' = azClock + 1
  /\ UNCHANGED <<nsg, deployment, g3Running, savedPlan, overlayRun, overlayFaults>>

-----------------------------------------------------------------------------
OverlayInit ==
  /\ nsg = [r \in Rules |-> 0]
  /\ deployment = "ABSENT"
  /\ g3Running = TRUE
  /\ azClock = 0
  /\ savedPlan = NoPlan
  /\ overlayRun = IdleCommand
  /\ overlayFaults = 0

CommandStep ==
  \/ LookAtRules \/ WritePlan \/ RefuseOverlay \/ ReportOverlay
  \/ Submit \/ AcceptDeployment \/ DeploymentReturns \/ AuthorisationEnds
  \/ RequestCancel \/ CancelRefused \/ SettleDeployment \/ GiveUpSettling
  \/ StartTeardown \/ Deleted
  \/ \E r \in Rules : DeleteRule(r)

AzureStep ==
  \/ DeploymentSucceeds \/ CancellationEnds \/ Deadman \/ ClockTick
  \/ \E r \in Rules : CreateRule(r)

OverlayNext ==
  \/ CommandStep \/ AzureStep \/ StartExecute \/ Interrupt \/ DeploymentFails
  \/ \E action \in {"apply", "teardown"} : StartPlan(action)

OverlaySpec == OverlayInit /\ [][OverlayNext]_overlayVars

(* Azure and the deadman go on, a command goes on, and the operator keeps   *)
(* planning and executing teardowns.                                        *)
OverlayFairness ==
  /\ WF_overlayVars(CommandStep)
  /\ WF_overlayVars(DeploymentSucceeds) /\ WF_overlayVars(CancellationEnds)
  /\ WF_overlayVars(Deadman) /\ WF_overlayVars(ClockTick)
  /\ \A r \in Rules : WF_overlayVars(CreateRule(r))
  /\ SF_overlayVars(StartPlan("teardown"))
  /\ SF_overlayVars(StartExecute /\ savedPlan.action = "teardown")

-----------------------------------------------------------------------------
OverlayTypeOK ==
  /\ nsg \in [Rules -> Nat]
  /\ deployment \in Terminal \cup {"Running", "Canceling"}
  /\ g3Running \in BOOLEAN /\ azClock \in 0..MaxClock
  /\ savedPlan # NoPlan =>
       /\ savedPlan.action \in {"apply", "teardown"}
       /\ savedPlan.rules \in [Rules -> Nat]
       /\ savedPlan.expires <= azClock + PlanLife
  /\ overlayRun.seen \in [Rules -> Nat] /\ overlayRun.left \subseteq Rules

(* CP1_CARRIER_NSG_OVERLAY_REMOVED is true and stays true until the next    *)
(* command: no rule is left, and no deployment is under way that will make  *)
(* one, not even one whose command was killed or gave up.                   *)
RemovedMeansGone ==
  overlayRun.outcome = "removed" => Present(nsg) = {} /\ deployment \in Terminal

(* A command may leave a deployment to itself, past the authorisation of    *)
(* its plan: when it is killed, when Azure does not take the cancellation   *)
(* and when that takes too long.  None that reports a plan, an applied      *)
(* overlay, a removed one or a cancellation has: what it reports is final.  *)
AnswersAreFinal ==
  overlayRun.outcome \in {"planned", "applied", "removed", "cancelled"}
    => deployment \in Terminal

(* A deployment left to itself is alone: until it has settled no command    *)
(* deletes rules that it could make again, or starts another one.           *)
LeftDeploymentIsAlone ==
  overlayRun.pc \in {"submitting", "deleting"} => deployment \in Terminal

(* Once the deadman has deallocated generation 3 the overlay can be taken   *)
(* down whatever happened before: partial, failed, cancelled or orphaned    *)
(* deployments, and teardowns that were interrupted after the first rule.   *)
OverlayCanBeRemoved ==
  ~g3Running ~> (Present(nsg) = {} /\ deployment \in Terminal)

(* What a command reports is true of deployment and rules, and stays so,    *)
(* and two commands never work on the rules through Azure at once.          *)
OverlayIsSound == RemovedMeansGone /\ AnswersAreFinal /\ LeftDeploymentIsAlone
=============================================================================
