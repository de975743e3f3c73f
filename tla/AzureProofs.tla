------------------------------ MODULE AzureProofs ------------------------------
(***************************************************************************)
(* Proofs about the two Azure tools of MCAzure: the carrier overlay, for   *)
(* all rules, times and plans, and the correction of the Edge disks, for   *)
(* any number of journals and mishaps.                                     *)
(***************************************************************************)
EXTENDS MCAzure, TLAPS

-----------------------------------------------------------------------------
(* The carrier overlay.                                                     *)

Steps == {"idle", "rules", "state", "submitting", "deploying", "cancelling", "settling",
          "deleting", "post", "poststate"}

Outcomes == {"none", "planned", "refused", "applied", "removed", "interrupted",
             "uncancelled", "cancelled", "unsettled"}

OverlayRuns ==
  [pc : Steps, cmd : {"none", "plan", "execute"}, action : {"none", "apply", "teardown"},
   seen : [Rules -> Nat], left : SUBSET Rules, outcome : Outcomes]

OverlayTypes ==
  /\ nsg \in [Rules -> Nat] /\ deployment \in Terminal \cup {"Running", "Canceling"}
  /\ g3Running \in BOOLEAN /\ azClock \in 0..MaxClock
  /\ savedPlan # NoPlan =>
       /\ savedPlan.action \in {"apply", "teardown"} /\ savedPlan.rules \in [Rules -> Nat]
       /\ savedPlan.expires \in Nat /\ savedPlan.expires <= azClock + PlanLife
  /\ overlayRun \in OverlayRuns

(* A command has an outcome when it is over, deploys for an apply only and  *)
(* deletes for a teardown only.                                             *)
CommandOK ==
  /\ overlayRun.outcome # "none" => OverlayAt("idle")
  /\ ~OverlayAt("idle") => Action # "none"
  /\ overlayRun.pc \in {"submitting", "deploying", "cancelling", "settling"}
     => Action = "apply"
  /\ OverlayAt("deleting") => Action = "teardown"

(* From its first deletion on nothing creates rules behind a teardown, and  *)
(* its last look is still true when the deployment is looked at.            *)
TeardownSees ==
  Action = "teardown" =>
    /\ overlayRun.pc \in {"deleting", "post", "poststate"} => deployment \in Terminal
    /\ OverlayAt("poststate") => overlayRun.seen = nsg

OverlayInv == OverlayTypes /\ CommandOK /\ TeardownSees /\ OverlayIsSound

LEMMA IdleCommandIs ==
  /\ IdleCommand \in OverlayRuns
  /\ IdleCommand.pc = "idle" /\ IdleCommand.outcome = "none"
  BY DEF IdleCommand, OverlayRuns, Steps, Outcomes

LEMMA OverlayInitInv == OverlayInit => OverlayInv
  BY IdleCommandIs, OverlayConstants
  DEF OverlayInit, OverlayInv, OverlayTypes, CommandOK, TeardownSees, OverlayIsSound,
      RemovedMeansGone, AnswersAreFinal, LeftDeploymentIsAlone, OverlayAt, Action,
      IdleCommand, Terminal

(* How a command ends.                                                      *)
LEMMA EndIs ==
  ASSUME NEW outcome \in Outcomes, EndOverlay(outcome)
  PROVE  /\ overlayRun' \in OverlayRuns /\ overlayRun'.pc = "idle"
         /\ overlayRun'.action = "none" /\ overlayRun'.outcome = outcome
  BY DEF EndOverlay, IdleCommand, OverlayRuns, Steps

(* A command that goes on keeps what it has seen.                           *)
LEMMA GotoIs ==
  ASSUME OverlayTypes, NEW pc \in Steps, OverlayGoto(pc)
  PROVE  /\ overlayRun' \in OverlayRuns /\ overlayRun'.pc = pc
         /\ overlayRun'.action = overlayRun.action /\ overlayRun'.seen = overlayRun.seen
         /\ overlayRun'.outcome = overlayRun.outcome
  BY DEF OverlayGoto, OverlayTypes, OverlayRuns

LEMMA RuleChanges ==
  ASSUME OverlayTypes, NEW r \in Rules, nsg' = [nsg EXCEPT ![r] = nsg[r] + 1]
  PROVE  nsg' \in [Rules -> Nat]
  BY DEF OverlayTypes

(* A command that ends and changes nothing: only an answer needs the        *)
(* deployment to be over, and a removal is another matter.                  *)
LEMMA EndingKeeps ==
  ASSUME OverlayInv, NEW outcome \in Outcomes \ {"removed"}, EndOverlay(outcome),
         outcome \in {"planned", "applied", "cancelled"} => deployment \in Terminal,
         UNCHANGED <<nsg, deployment, g3Running, azClock, savedPlan>>
  PROVE  OverlayInv'
  BY EndIs
  DEF OverlayInv, OverlayTypes, CommandOK, TeardownSees, OverlayIsSound,
      RemovedMeansGone, AnswersAreFinal, LeftDeploymentIsAlone, OverlayAt, Action

(* An apply that goes on, past its look and before its report.              *)
LEMMA ApplyGoesOn ==
  ASSUME OverlayInv, NEW pc \in {"submitting", "deploying", "cancelling", "settling", "post"},
         OverlayGoto(pc), Action = "apply", overlayRun.outcome = "none",
         UNCHANGED <<nsg, g3Running, azClock, savedPlan>>,
         deployment' \in Terminal \cup {"Running", "Canceling"},
         pc = "submitting" => deployment' \in Terminal
  PROVE  OverlayInv'
  <1>1. /\ overlayRun' \in OverlayRuns /\ overlayRun'.pc = pc
        /\ overlayRun'.action = "apply" /\ overlayRun'.outcome = "none"
    BY GotoIs DEF OverlayInv, Steps, Action
  <1>2. OverlayTypes'
    BY <1>1 DEF OverlayInv, OverlayTypes
  <1> QED BY <1>1, <1>2
      DEF OverlayInv, CommandOK, TeardownSees, OverlayIsSound,
          RemovedMeansGone, AnswersAreFinal, LeftDeploymentIsAlone, OverlayAt, Action

(* Azure goes on with a deployment that is not over.                        *)
LEMMA AzureGoesOn ==
  ASSUME OverlayInv, deployment \notin Terminal,
         deployment' \in Terminal \cup {"Running", "Canceling"}, nsg' \in [Rules -> Nat],
         UNCHANGED <<g3Running, azClock, savedPlan, overlayRun>>
  PROVE  OverlayInv'
  <1>1. /\ overlayRun.pc \notin {"submitting", "deleting"}
        /\ overlayRun.outcome \notin {"planned", "applied", "removed", "cancelled"}
        /\ Action = "teardown" => overlayRun.pc \notin {"deleting", "post", "poststate"}
    BY DEF OverlayInv, OverlayIsSound, AnswersAreFinal, LeftDeploymentIsAlone, TeardownSees
  <1>2. OverlayTypes'
    BY DEF OverlayInv, OverlayTypes
  <1> QED BY <1>1, <1>2
      DEF OverlayInv, CommandOK, TeardownSees, OverlayIsSound,
          RemovedMeansGone, AnswersAreFinal, LeftDeploymentIsAlone, OverlayAt, Action

LEMMA OverlayNextInv == OverlayInv /\ [OverlayNext]_overlayVars => OverlayInv'
  <1> SUFFICES ASSUME OverlayInv, [OverlayNext]_overlayVars PROVE OverlayInv'
    OBVIOUS
  <1> USE DEF OverlayAt, Action
  <1>0. OverlayTypes /\ CommandOK /\ TeardownSees /\ OverlayIsSound
    BY DEF OverlayInv
  <1>1. ASSUME NEW action \in {"apply", "teardown"}, StartPlan(action)
        PROVE  OverlayInv'
    <2>1. /\ overlayRun' \in OverlayRuns /\ overlayRun'.pc = "rules"
          /\ overlayRun'.outcome = "none" /\ overlayRun'.action # "none"
      BY <1>1, IdleCommandIs DEF StartPlan, OverlayRuns, IdleCommand, Steps
    <2> QED BY <1>0, <1>1, <2>1
        DEF StartPlan, OverlayInv, OverlayTypes, CommandOK, TeardownSees, OverlayIsSound,
            RemovedMeansGone, AnswersAreFinal, LeftDeploymentIsAlone
  <1>2. CASE StartExecute
    <2>1. /\ overlayRun' \in OverlayRuns /\ overlayRun'.pc = "rules"
          /\ overlayRun'.outcome = "none" /\ overlayRun'.action # "none"
      BY <1>0, <1>2, IdleCommandIs
      DEF StartExecute, OverlayRuns, IdleCommand, Steps, OverlayTypes
    <2> QED BY <1>0, <1>2, <2>1
        DEF StartExecute, OverlayInv, OverlayTypes, CommandOK, TeardownSees, OverlayIsSound,
            RemovedMeansGone, AnswersAreFinal, LeftDeploymentIsAlone
  <1>3. CASE LookAtRules
    <2>1. /\ overlayRun' \in OverlayRuns /\ overlayRun'.seen = nsg
          /\ overlayRun'.action = overlayRun.action /\ overlayRun'.outcome = "none"
          /\ overlayRun'.pc = IF overlayRun.pc = "post" THEN "poststate" ELSE "state"
      BY <1>0, <1>3 DEF LookAtRules, OverlayTypes, OverlayRuns, Steps, CommandOK
    <2> QED BY <1>0, <1>3, <2>1
        DEF LookAtRules, OverlayInv, OverlayTypes, CommandOK, TeardownSees, OverlayIsSound,
            RemovedMeansGone, AnswersAreFinal, LeftDeploymentIsAlone
  <1>4. CASE WritePlan
    <2>1. /\ savedPlan'.action = overlayRun.action /\ savedPlan'.rules = overlayRun.seen
          /\ savedPlan'.expires = azClock + PlanLife
      BY <1>4 DEF WritePlan
    <2>2. overlayRun.action \in {"apply", "teardown"}
      BY <1>0, <1>4 DEF WritePlan, OverlayTypes, OverlayRuns, CommandOK
    <2>3. /\ overlayRun' \in OverlayRuns /\ overlayRun'.pc = "idle"
          /\ overlayRun'.action = "none" /\ overlayRun'.outcome = "planned"
      BY <1>4, EndIs DEF WritePlan, Outcomes
    <2>4. overlayRun.seen \in [Rules -> Nat] /\ azClock \in Nat /\ PlanLife \in Nat
      BY <1>0, OverlayConstants DEF OverlayTypes, OverlayRuns
    <2>5. /\ deployment \in Terminal
          /\ UNCHANGED <<nsg, deployment, g3Running, azClock>>
      BY <1>4 DEF WritePlan, LookFits, DeploymentSettled
    <2>6. OverlayTypes'
      BY <1>0, <2>1, <2>2, <2>3, <2>4, <2>5 DEF OverlayTypes
    <2> QED BY <2>3, <2>5, <2>6
        DEF OverlayInv, CommandOK, TeardownSees, OverlayIsSound,
            RemovedMeansGone, AnswersAreFinal, LeftDeploymentIsAlone
  <1>5. CASE Submit \/ AcceptDeployment
    <2>1. overlayRun.outcome = "none"
      BY <1>0, <1>5 DEF Submit, AcceptDeployment, CommandOK
    <2>2. CASE Submit
      <3>1. deployment \in Terminal /\ Action = "apply" /\ OverlayGoto("submitting")
        BY <2>2 DEF Submit, LookFits, DeploymentSettled
      <3>2. UNCHANGED <<nsg, deployment, g3Running, azClock, savedPlan>>
        BY <2>2 DEF Submit
      <3> QED BY <2>1, <3>1, <3>2, ApplyGoesOn
    <2>3. CASE AcceptDeployment
      BY <1>0, <2>1, <2>3, ApplyGoesOn DEF AcceptDeployment, CommandOK
    <2> QED BY <1>5, <2>2, <2>3
  <1>6. CASE DeploymentReturns
    <2>1. CASE deployment = "Succeeded"
      BY <1>0, <1>6, <2>1, ApplyGoesOn DEF DeploymentReturns, CommandOK, OverlayTypes
    <2>2. CASE deployment # "Succeeded"
      BY <1>6, <2>2, EndingKeeps DEF DeploymentReturns, Outcomes
    <2> QED BY <2>1, <2>2
  <1>7. CASE AuthorisationEnds \/ RequestCancel
    <2>1. overlayRun.outcome = "none" /\ Action = "apply"
      BY <1>0, <1>7 DEF AuthorisationEnds, RequestCancel, CommandOK
    <2>2. /\ deployment' \in Terminal \cup {"Running", "Canceling"}
          /\ UNCHANGED <<nsg, g3Running, azClock, savedPlan>>
      BY <1>0, <1>7 DEF AuthorisationEnds, RequestCancel, OverlayTypes
    <2>3. OverlayGoto("cancelling") \/ OverlayGoto("settling")
      BY <1>7 DEF AuthorisationEnds, RequestCancel
    <2> QED BY <2>1, <2>2, <2>3, ApplyGoesOn
  <1>17. CASE CancelRefused \/ SettleDeployment \/ GiveUpSettling
    BY <1>17, EndingKeeps DEF CancelRefused, SettleDeployment, GiveUpSettling, Outcomes
  <1>8. CASE StartTeardown
    <2>1. /\ overlayRun' \in OverlayRuns /\ overlayRun'.pc = "deleting"
          /\ overlayRun'.action = "teardown" /\ overlayRun'.outcome = "none"
      BY <1>0, <1>8
      DEF StartTeardown, OverlayTypes, OverlayRuns, Steps, CommandOK, Present
    <2>2. deployment \in Terminal
      BY <1>8 DEF StartTeardown, LookFits, DeploymentSettled
    <2> QED BY <1>0, <1>8, <2>1, <2>2
        DEF StartTeardown, OverlayInv, OverlayTypes, CommandOK, TeardownSees,
            OverlayIsSound, RemovedMeansGone, AnswersAreFinal, LeftDeploymentIsAlone
  <1>9. ASSUME NEW r \in Rules, DeleteRule(r) PROVE OverlayInv'
    <2>1. /\ overlayRun' \in OverlayRuns /\ overlayRun'.pc = "deleting"
          /\ overlayRun'.action = "teardown" /\ overlayRun'.outcome = "none"
      BY <1>0, <1>9 DEF DeleteRule, OverlayTypes, OverlayRuns, CommandOK
    <2>2. nsg' \in [Rules -> Nat]
      BY <1>0, <1>9, RuleChanges DEF DeleteRule
    <2>3. deployment \in Terminal
      BY <1>0, <1>9 DEF DeleteRule, CommandOK, TeardownSees
    <2> QED BY <1>0, <1>9, <2>1, <2>2, <2>3
        DEF DeleteRule, OverlayInv, OverlayTypes, CommandOK, TeardownSees,
            OverlayIsSound, RemovedMeansGone, AnswersAreFinal, LeftDeploymentIsAlone
  <1>10. CASE Deleted
    <2>1. OverlayGoto("post") /\ "post" \in Steps
      BY <1>10 DEF Deleted, Steps
    <2> QED BY <1>0, <1>10, <2>1, GotoIs
        DEF Deleted, OverlayInv, OverlayTypes, CommandOK, TeardownSees,
            OverlayIsSound, RemovedMeansGone, AnswersAreFinal, LeftDeploymentIsAlone
  <1>11. CASE ReportOverlay
    <2>1. CASE Action = "apply"
      BY <1>11, <2>1, EndingKeeps DEF ReportOverlay, DeploymentSettled, Outcomes
    <2>2. CASE Action # "apply"
      <3>1. Present(overlayRun.seen) = {} /\ EndOverlay("removed")
        BY <1>11, <2>2 DEF ReportOverlay
      <3>2. deployment \in Terminal
        BY <1>11 DEF ReportOverlay, DeploymentSettled
      <3>3. Action = "teardown"
        BY <1>0, <1>11, <2>2 DEF ReportOverlay, OverlayTypes, OverlayRuns, CommandOK
      <3>4. overlayRun.seen = nsg
        BY <1>0, <1>11, <3>3 DEF ReportOverlay, TeardownSees
      <3>5. /\ overlayRun' \in OverlayRuns /\ overlayRun'.pc = "idle"
            /\ overlayRun'.action = "none" /\ overlayRun'.outcome = "removed"
        BY <3>1, EndIs DEF Outcomes
      <3> QED BY <1>0, <1>11, <3>1, <3>2, <3>4, <3>5
          DEF ReportOverlay, OverlayInv, OverlayTypes, CommandOK, TeardownSees,
              OverlayIsSound, RemovedMeansGone, AnswersAreFinal, LeftDeploymentIsAlone, Present
    <2> QED BY <2>1, <2>2
  <1>12. CASE RefuseOverlay \/ Interrupt
    BY <1>12, EndingKeeps DEF RefuseOverlay, Interrupt, Outcomes
  <1>13. ASSUME NEW r \in Rules, CreateRule(r) PROVE OverlayInv'
    <2>1. nsg' \in [Rules -> Nat]
      BY <1>0, <1>13, RuleChanges DEF CreateRule
    <2> QED BY <1>0, <1>13, <2>1, AzureGoesOn DEF CreateRule, OverlayTypes
  <1>14. CASE DeploymentSucceeds \/ DeploymentFails \/ CancellationEnds
    BY <1>0, <1>14, AzureGoesOn
    DEF DeploymentSucceeds, DeploymentFails, CancellationEnds, OverlayTypes, Terminal
  <1>15. CASE Deadman \/ ClockTick
    <2>1. azClock' \in 0..MaxClock /\ azClock <= azClock' /\ g3Running' \in BOOLEAN
      <3>1. CASE Deadman
        <4>1. azClock' = azClock /\ g3Running' \in BOOLEAN
          BY <3>1 DEF Deadman
        <4>2. azClock \in 0..MaxClock /\ azClock <= azClock
          BY <1>0, OverlayConstants DEF OverlayTypes
        <4> QED BY <4>1, <4>2
      <3>2. CASE ClockTick
        BY <1>0, <3>2, OverlayConstants DEF ClockTick, OverlayTypes
      <3> QED BY <1>15, <3>1, <3>2
    <2>2. OverlayTypes'
      BY <1>0, <1>15, <2>1, OverlayConstants DEF Deadman, ClockTick, OverlayTypes
    <2> QED BY <1>0, <1>15, <2>2
        DEF Deadman, ClockTick, OverlayInv, CommandOK, TeardownSees, OverlayIsSound,
            RemovedMeansGone, AnswersAreFinal, LeftDeploymentIsAlone
  <1>16. CASE UNCHANGED overlayVars
    BY <1>0, <1>16
    DEF overlayVars, OverlayInv, OverlayTypes, CommandOK, TeardownSees, OverlayIsSound,
        RemovedMeansGone, AnswersAreFinal, LeftDeploymentIsAlone, Present
  <1> QED BY <1>1, <1>2, <1>3, <1>4, <1>5, <1>6, <1>7, <1>8, <1>9, <1>10, <1>11, <1>12,
             <1>13, <1>14, <1>15, <1>16, <1>17
      DEF OverlayNext, CommandStep, AzureStep

LEMMA OverlayInvAlways == OverlaySpec => []OverlayInv
  BY OverlayInitInv, OverlayNextInv, PTL DEF OverlaySpec

(* Rules, deployment, plan and the command of cp1_carrier_nsg_overlay.py    *)
(* keep their types, and no plan outlives its ten minutes.                  *)
THEOREM OverlayTypesHold == OverlaySpec => []OverlayTypeOK
  <1>1. OverlayInv => OverlayTypeOK
    BY DEF OverlayInv, OverlayTypes, OverlayTypeOK, OverlayRuns
  <1> QED BY <1>1, OverlayInvAlways, PTL

(* A teardown that reports CP1_CARRIER_NSG_OVERLAY_REMOVED left no rule and *)
(* no deployment that will make one; what is reported planned, applied or   *)
(* cancelled left no deployment under way; and while one is, because its    *)
(* command was killed, refused the cancellation or gave up waiting for it,  *)
(* no command deletes or deploys.                                           *)
THEOREM OverlayAlwaysSound == OverlaySpec => []OverlayIsSound
  <1>1. OverlayInv => OverlayIsSound
    BY DEF OverlayInv
  <1> QED BY <1>1, OverlayInvAlways, PTL
-----------------------------------------------------------------------------
(* The correction of the disks.                                             *)

Phases == {"PENDING", "BASELINED", "DEALLOCATE_REQUESTED", "DEALLOCATED",
           "OUTAGE_PEER_QUALIFIED", "SKU_UPDATE_REQUESTED", "SKU_UPDATED",
           "START_REQUESTED", "STARTED", "QUALIFIED"}

(* The phases from the outage call on.                                      *)
Called == {"OUTAGE_PEER_QUALIFIED", "SKU_UPDATE_REQUESTED", "SKU_UPDATED",
           "START_REQUESTED", "STARTED", "QUALIFIED"}

LEMMA PhaseOrderIs ==
  /\ Len(PhaseOrder) = 10
  /\ PhaseOrder[1] = "PENDING" /\ PhaseOrder[2] = "BASELINED"
  /\ PhaseOrder[3] = "DEALLOCATE_REQUESTED" /\ PhaseOrder[4] = "DEALLOCATED"
  /\ PhaseOrder[5] = "OUTAGE_PEER_QUALIFIED" /\ PhaseOrder[6] = "SKU_UPDATE_REQUESTED"
  /\ PhaseOrder[7] = "SKU_UPDATED" /\ PhaseOrder[8] = "START_REQUESTED"
  /\ PhaseOrder[9] = "STARTED" /\ PhaseOrder[10] = "QUALIFIED"
  BY DEF PhaseOrder

LEMMA TenAre == \A i \in 1..10 : i = 1 \/ i = 2 \/ i = 3 \/ i = 4 \/ i = 5 \/ i = 6
                               \/ i = 7 \/ i = 8 \/ i = 9 \/ i = 10
  OBVIOUS

LEMMA PhasesAreOrdered == ToSet(PhaseOrder) = Phases
  <1>1. DOMAIN PhaseOrder = 1..10
    BY DEF PhaseOrder
  <1>2. \A i \in 1..10 : PhaseOrder[i] \in Phases
    BY PhaseOrderIs, TenAre DEF Phases
  <1>3. \A ph \in Phases : \E i \in 1..10 : PhaseOrder[i] = ph
    BY PhaseOrderIs DEF Phases
  <1> QED BY <1>1, <1>2, <1>3 DEF ToSet

(* A phase has one place.                                                   *)
LEMMA IndexIs ==
  ASSUME NEW n \in 1..10, NEW ph, PhaseOrder[n] = ph,
         \A i \in 1..10 : PhaseOrder[i] = ph => i = n
  PROVE  PhaseIndex(ph) = n
  <1>1. Len(PhaseOrder) = 10
    BY PhaseOrderIs
  <1> QED BY <1>1 DEF PhaseIndex

LEMMA IndicesAre ==
  /\ PhaseIndex("PENDING") = 1 /\ PhaseIndex("BASELINED") = 2
  /\ PhaseIndex("DEALLOCATE_REQUESTED") = 3 /\ PhaseIndex("DEALLOCATED") = 4
  /\ PhaseIndex("OUTAGE_PEER_QUALIFIED") = 5 /\ PhaseIndex("SKU_UPDATE_REQUESTED") = 6
  /\ PhaseIndex("SKU_UPDATED") = 7 /\ PhaseIndex("START_REQUESTED") = 8
  /\ PhaseIndex("STARTED") = 9 /\ PhaseIndex("QUALIFIED") = 10
  <1>1. PhaseIndex("PENDING") = 1
    BY IndexIs, PhaseOrderIs, TenAre
  <1>2. PhaseIndex("BASELINED") = 2
    BY IndexIs, PhaseOrderIs, TenAre
  <1>3. PhaseIndex("DEALLOCATE_REQUESTED") = 3
    BY IndexIs, PhaseOrderIs, TenAre
  <1>4. PhaseIndex("DEALLOCATED") = 4
    BY IndexIs, PhaseOrderIs, TenAre
  <1>5. PhaseIndex("OUTAGE_PEER_QUALIFIED") = 5
    BY IndexIs, PhaseOrderIs, TenAre
  <1>6. PhaseIndex("SKU_UPDATE_REQUESTED") = 6
    BY IndexIs, PhaseOrderIs, TenAre
  <1>7. PhaseIndex("SKU_UPDATED") = 7
    BY IndexIs, PhaseOrderIs, TenAre
  <1>8. PhaseIndex("START_REQUESTED") = 8
    BY IndexIs, PhaseOrderIs, TenAre
  <1>9. PhaseIndex("STARTED") = 9
    BY IndexIs, PhaseOrderIs, TenAre
  <1>10. PhaseIndex("QUALIFIED") = 10
    BY IndexIs, PhaseOrderIs, TenAre
  <1> QED BY <1>1, <1>2, <1>3, <1>4, <1>5, <1>6, <1>7, <1>8, <1>9, <1>10

LEMMA CalledAre ==
  \A ph \in Phases : PhaseIndex(ph) >= PhaseIndex("OUTAGE_PEER_QUALIFIED") <=> ph \in Called
  BY IndicesAre DEF Phases, Called

LEMMA RolesAre ==
  /\ \A r \in Roles : Peer(r) \in Roles /\ Peer(r) # r /\ Peer(Peer(r)) = r
  /\ \A r, q \in Roles : q = r \/ q = Peer(r)
  BY DEF Roles, Peer

Calls == [peer : {"none", "sbc1", "sbc2"}, outage : BOOLEAN]

Entries ==
  [plan : Fleets, phase : [Roles -> Phases], outageCall : [Roles -> Calls]]

Machines == [power : Powers, sku : {"premium", "standard"}, boot : Nat, well : BOOLEAN]

SkuRuns ==
  [pc : {"idle", "peer", "own", "work", "down", "recover", "verify"},
   path : Journals \cup {NoJournal},
   outcome : {"none", "applied", "recovered", "recovery failed", "failed", "killed"}]

SkuTypes ==
  /\ vms \in [Roles -> Machines] /\ approved \in Fleets
  /\ skuJournals \in [Journals -> Entries \cup {NoJournal}]
  /\ converter \in SkuRuns /\ mishaps \in 0..MaxMishaps

(* The calls recorded in a journal went through the peer, and from the      *)
(* outage call on it was one in an outage.                                  *)
Sound(j) ==
  \A r \in Roles :
    /\ j.outageCall[r].peer \in {"none", Peer(r)}
    /\ j.phase[r] \in Called => j.outageCall[r].outage = TRUE

JournalsOK == \A p \in Journals : skuJournals[p] # NoJournal => Sound(skuJournals[p])

(* A run has a journal of its own.                                          *)
RunOK ==
  ~SkuAt("idle") => converter.path \in Journals /\ Journal \in Entries /\ Sound(Journal)

Out(r) == vms[r].power \in {"deallocating", "deallocated"}

(* What the run has seen of the peer and of its node is still so: nobody    *)
(* else deallocates a node, or starts one that is deallocated.              *)
OutageOK ==
  /\ converter.pc \in {"own", "work", "down"} => ~Out(Peer(Active))
  /\ SkuAt("down") => vms[Active].power = "deallocated"
  /\ \A r \in Roles : Out(r) => ~Out(Peer(r))

SkuInv == SkuTypes /\ JournalsOK /\ RunOK /\ OutageOK

LEMMA SnapshotIs == vms \in [Roles -> Machines] => Snapshot \in Fleets
  BY DEF Snapshot, Fleets, Machines

LEMMA ActiveIs == Active \in Roles
  <1>1. NodeOrder[1] = "sbc2" /\ NodeOrder[2] = "sbc1"
    BY DEF NodeOrder
  <1> QED BY <1>1 DEF Active, ActiveRole, Roles

LEMMA IdleRunIs ==
  ASSUME NEW outcome \in {"applied", "recovered", "recovery failed", "failed", "killed"},
         EndSku(outcome)
  PROVE  converter' \in SkuRuns /\ converter'.pc = "idle"
  BY DEF EndSku, IdleRun, SkuRuns

LEMMA SkuGotoIs ==
  ASSUME SkuTypes, NEW pc \in {"peer", "own", "work", "down", "recover", "verify"},
         SkuGoto(pc)
  PROVE  converter' \in SkuRuns /\ converter'.pc = pc /\ converter'.path = converter.path
  BY DEF SkuGoto, SkuTypes, SkuRuns

LEMMA SkuInitInv == SkuInit => SkuInv
  <1> SUFFICES ASSUME SkuInit PROVE SkuInv
    OBVIOUS
  <1>1. vms \in [Roles -> Machines] /\ \A r \in Roles : vms[r].power = "running"
    BY DEF SkuInit, Machines, Powers
  <1>2. approved \in Fleets
    BY <1>1, SnapshotIs DEF SkuInit
  <1>3. converter \in SkuRuns /\ converter.pc = "idle"
    BY DEF SkuInit, IdleRun, SkuRuns
  <1>4. SkuTypes
    BY <1>1, <1>2, <1>3, SkuConstants DEF SkuInit, SkuTypes
  <1>5. JournalsOK /\ RunOK
    BY <1>3 DEF SkuInit, JournalsOK, RunOK, SkuAt
  <1>6. OutageOK
    BY <1>1, <1>3 DEF OutageOK, SkuAt, Out
  <1> QED BY <1>4, <1>5, <1>6 DEF SkuInv

(* A run ends.                                                              *)
LEMMA RunEnds ==
  ASSUME SkuInv, converter' \in SkuRuns, converter'.pc = "idle",
         mishaps' \in 0..MaxMishaps, UNCHANGED <<vms, approved, skuJournals>>
  PROVE  SkuInv'
  BY DEF SkuInv, SkuTypes, JournalsOK, RunOK, OutageOK, SkuAt, Out

(* A run goes on, and nothing else changes.                                 *)
LEMMA RunGoes ==
  ASSUME SkuInv, ~SkuAt("idle"),
         NEW pc \in {"peer", "own", "work", "down", "recover", "verify"}, SkuGoto(pc),
         mishaps' \in 0..MaxMishaps, UNCHANGED <<vms, approved, skuJournals>>,
         pc \in {"own", "work", "down"} => ~Out(Peer(Active)),
         pc = "down" => vms[Active].power = "deallocated"
  PROVE  SkuInv'
  <1>1. converter' \in SkuRuns /\ converter'.pc = pc /\ converter'.path = converter.path
    BY SkuGotoIs DEF SkuInv
  <1>2. Journal' = Journal /\ Active' = Active
    BY <1>1 DEF Journal, Active
  <1>3. SkuTypes' /\ JournalsOK'
    BY <1>1 DEF SkuInv, SkuTypes, JournalsOK
  <1>4. RunOK'
    BY <1>1, <1>2 DEF SkuInv, RunOK
  <1>5. \A r \in Roles : Out(r)' = Out(r)
    BY DEF Out
  <1>6. OutageOK'
    BY <1>1, <1>2, <1>5 DEF SkuInv, OutageOK, SkuAt, Out
  <1> QED BY <1>3, <1>4, <1>6 DEF SkuInv

(* One node changes, and nothing else does.                                 *)
LEMMA NodeChanges ==
  ASSUME SkuInv, NEW r \in Roles, NEW m \in Machines,
         vms' = [vms EXCEPT ![r] = m], mishaps' \in 0..MaxMishaps,
         UNCHANGED <<approved, skuJournals, converter>>,
         m.power \in {"deallocating", "deallocated"} => ~Out(Peer(r)),
         Out(r) \/ m.power \notin {"deallocating", "deallocated"}
           \/ converter.pc \notin {"own", "work", "down"} \/ r = Active,
         SkuAt("down") /\ r = Active => m.power = "deallocated"
  PROVE  SkuInv'
  <1>1. /\ vms' \in [Roles -> Machines] /\ vms'[r] = m
        /\ \A q \in Roles : q # r => vms'[q] = vms[q]
    BY DEF SkuInv, SkuTypes
  <1>2. Journal' = Journal /\ Active' = Active
    BY DEF Journal, Active
  <1>3. SkuTypes' /\ JournalsOK' /\ RunOK'
    BY <1>1, <1>2 DEF SkuInv, SkuTypes, JournalsOK, RunOK, SkuAt
  <1>4. /\ Out(r)' <=> m.power \in {"deallocating", "deallocated"}
        /\ \A q \in Roles : q # r => (Out(q)' <=> Out(q))
    BY <1>1 DEF Out
  <1>5. \A q \in Roles : Out(q)' => ~Out(Peer(q))'
    BY <1>4, RolesAre DEF SkuInv, OutageOK
  <1>6. converter'.pc \in {"own", "work", "down"} => ~Out(Peer(Active))'
    <2> SUFFICES ASSUME converter.pc \in {"own", "work", "down"}
                 PROVE  ~Out(Peer(Active))'
      OBVIOUS
    <2>1. ~Out(Peer(Active)) /\ Peer(Active) \in Roles /\ Peer(Active) # Active
      BY ActiveIs, RolesAre DEF SkuInv, OutageOK
    <2>2. vms'[Peer(Active)].power \notin {"deallocating", "deallocated"}
      <3>1. CASE Peer(Active) = r
        BY <1>1, <2>1, <3>1 DEF Out
      <3>2. CASE Peer(Active) # r
        BY <1>1, <2>1, <3>2 DEF Out
      <3> QED BY <3>1, <3>2
    <2> QED BY <1>2, <2>2 DEF Out
  <1>7. SkuAt("down")' => vms'[Active].power = "deallocated"
    BY <1>1, ActiveIs DEF SkuInv, OutageOK, SkuAt
  <1> QED BY <1>2, <1>3, <1>5, <1>6, <1>7 DEF SkuInv, OutageOK

(* _transition writes one entry: the node under correction is one phase     *)
(* further, and stays the one under correction until it is qualified.       *)
LEMMA TransitionIs ==
  ASSUME SkuInv, ~SkuAt("idle"), NEW to \in Phases,
         NEW proof \in [peer : {"none", Peer(Active)}, outage : BOOLEAN],
         Transition(to, proof),
         to \in Called =>
           IF proof = NoProof THEN NodePhase \in Called ELSE proof.outage = TRUE
  PROVE  /\ skuJournals' \in [Journals -> Entries \cup {NoJournal}]
         /\ skuJournals'[converter.path] \in Entries
         /\ Sound(skuJournals'[converter.path])
         /\ JournalsOK'
         /\ to # "QUALIFIED" => ActiveRole(skuJournals'[converter.path]) = Active
  <1> DEFINE next == [Journal EXCEPT !.phase[Active] = to,
                                     !.outageCall[Active] =
                                       IF proof = NoProof THEN @ ELSE proof]
  <1>1. /\ skuJournals \in [Journals -> Entries \cup {NoJournal}]
        /\ converter.path \in Journals /\ Journal \in Entries /\ Sound(Journal)
    BY DEF SkuInv, SkuTypes, RunOK
  <1>2. skuJournals' = [skuJournals EXCEPT ![converter.path] = next]
    BY DEF Transition
  <1>3. Active \in Roles
    BY ActiveIs
  <1>4. proof \in Calls /\ proof.peer \in {"none", Peer(Active)}
    BY <1>3 DEF Calls, Peer, Roles
  <1> DEFINE call == IF proof = NoProof THEN Journal.outageCall[Active] ELSE proof
  <1>5. call \in Calls
    BY <1>1, <1>3, <1>4 DEF Entries
  <1>6. /\ next.plan = Journal.plan
        /\ next.phase = [Journal.phase EXCEPT ![Active] = to]
        /\ next.outageCall = [Journal.outageCall EXCEPT ![Active] = call]
        /\ next \in Entries
    BY <1>1, <1>3, <1>5 DEF Entries
  <1>7. /\ next.phase[Active] = to /\ next.outageCall[Active] = call
        /\ \A r \in Roles : r # Active => /\ next.phase[r] = Journal.phase[r]
                                          /\ next.outageCall[r] = Journal.outageCall[r]
    BY <1>1, <1>3, <1>6 DEF Entries
  <1> HIDE DEF next
  <1>8. Sound(next)
    <2> SUFFICES ASSUME NEW r \in Roles
                 PROVE  /\ next.outageCall[r].peer \in {"none", Peer(r)}
                        /\ next.phase[r] \in Called => next.outageCall[r].outage = TRUE
      BY DEF Sound
    <2>1. CASE r # Active
      BY <1>1, <1>7, <2>1 DEF Sound
    <2>2. CASE r = Active
      <3>1. CASE proof = NoProof
        BY <1>1, <1>7, <2>2, <3>1 DEF Sound, NodePhase
      <3>2. CASE proof # NoProof
        BY <1>4, <1>7, <2>2, <3>2
      <3> QED BY <3>1, <3>2
    <2> QED BY <2>1, <2>2
  <1>9. /\ skuJournals'[converter.path] = next
        /\ \A p \in Journals : p # converter.path => skuJournals'[p] = skuJournals[p]
        /\ skuJournals' \in [Journals -> Entries \cup {NoJournal}]
    BY <1>1, <1>2, <1>6
  <1>10. JournalsOK'
    BY <1>8, <1>9 DEF SkuInv, JournalsOK, Sound
  <1>11. to # "QUALIFIED" => ActiveRole(next) = Active
    <2> SUFFICES ASSUME to # "QUALIFIED" PROVE ActiveRole(next) = Active
      OBVIOUS
    <2>1. NodeOrder[1] = "sbc2" /\ NodeOrder[2] = "sbc1"
      BY DEF NodeOrder
    <2>2. Active = IF Journal.phase["sbc2"] # "QUALIFIED" THEN "sbc2" ELSE "sbc1"
      BY <2>1 DEF Active, ActiveRole
    <2>3. ActiveRole(next) = IF next.phase["sbc2"] # "QUALIFIED" THEN "sbc2" ELSE "sbc1"
      BY <2>1 DEF ActiveRole
    <2> QED BY <1>7, <2>2, <2>3 DEF Roles
  <1> QED BY <1>6, <1>8, <1>9, <1>10, <1>11

LEMMA NoProofIs == NoProof \in [peer : {"none", Peer(Active)}, outage : BOOLEAN]
  BY DEF NoProof

(* The run records a phase of its node and goes on, or sees something less. *)
LEMMA RecordKeeps ==
  ASSUME SkuInv, NEW to \in Phases \ {"QUALIFIED"},
         NEW proof \in [peer : {"none", Peer(Active)}, outage : BOOLEAN],
         Transition(to, proof), converter.pc \in {"work", "down"},
         converter' \in SkuRuns, converter'.path = converter.path,
         converter'.pc = converter.pc \/ converter'.pc = "work",
         to \in Called =>
           IF proof = NoProof THEN NodePhase \in Called ELSE proof.outage = TRUE,
         UNCHANGED <<vms, approved, mishaps>>
  PROVE  SkuInv'
  <1>1. ~SkuAt("idle") /\ to # "QUALIFIED" /\ to \in Phases
    BY DEF SkuAt
  <1>2. /\ skuJournals' \in [Journals -> Entries \cup {NoJournal}]
        /\ skuJournals'[converter.path] \in Entries
        /\ Sound(skuJournals'[converter.path])
        /\ JournalsOK'
        /\ ActiveRole(skuJournals'[converter.path]) = Active
    BY <1>1, TransitionIs
  <1>3. Journal' = skuJournals'[converter.path] /\ Active' = Active
    BY <1>2 DEF Journal, Active
  <1>4. SkuTypes'
    BY <1>2 DEF SkuInv, SkuTypes
  <1>5. RunOK'
    BY <1>1, <1>2, <1>3 DEF SkuInv, RunOK, Sound
  <1>6. OutageOK'
    BY <1>3 DEF SkuInv, OutageOK, SkuAt, Out
  <1> QED BY <1>2, <1>4, <1>5, <1>6 DEF SkuInv

LEMMA AdvanceKeeps ==
  ASSUME SkuInv, converter.pc \in {"work", "down"},
         NEW from, NEW to \in Phases \ {"QUALIFIED"},
         to \in Called => from \in Called, Advance(from, to)
  PROVE  SkuInv'
  <1>1. /\ NodePhase = from /\ Transition(to, NoProof)
        /\ UNCHANGED <<vms, approved, converter, mishaps>>
    BY DEF Advance
  <1>2. converter' \in SkuRuns /\ converter'.path = converter.path
    BY <1>1 DEF SkuInv, SkuTypes
  <1> QED BY <1>1, <1>2, NoProofIs, RecordKeeps

LEMMA RunStepInv == ASSUME SkuInv, RunStep PROVE SkuInv'
  <1>0. /\ mishaps \in 0..MaxMishaps /\ vms \in [Roles -> Machines] /\ converter \in SkuRuns
        /\ Active \in Roles /\ vms[Active] \in Machines
    BY ActiveIs DEF SkuInv, SkuTypes
  <1>1. CASE ProvePeer
    <2>1. ~Out(Peer(Active))
      BY <1>1 DEF ProvePeer, Healthy, PoweredOn, Out
    <2> QED BY <1>0, <1>1, <2>1, RunGoes DEF ProvePeer, SkuAt
  <1>2. CASE ReadOwn
    <2>1. ~Out(Peer(Active))
      BY <1>2 DEF ReadOwn, SkuInv, OutageOK, SkuAt
    <2> QED BY <1>0, <1>2, <2>1, RunGoes DEF ReadOwn, SkuAt
  <1>3. CASE Baseline
    BY <1>3, AdvanceKeeps DEF Baseline, InPhase, SkuAt, Phases, Called
  <1>4. CASE RequestDeallocation
    BY <1>4, AdvanceKeeps DEF RequestDeallocation, SkuAt, Phases, Called
  <1>5. CASE Deallocate
    <2> DEFINE m == [vms[Active] EXCEPT !.power = "deallocating"]
    <2>1. m \in Machines /\ m.power = "deallocating" /\ vms' = [vms EXCEPT ![Active] = m]
      BY <1>0, <1>5 DEF Deallocate, Machines, Powers
    <2>2. ~Out(Peer(Active)) /\ ~SkuAt("down")
      BY <1>5 DEF Deallocate, SkuInv, OutageOK, SkuAt
    <2> HIDE DEF m
    <2> QED BY <1>0, <1>5, <2>1, <2>2, NodeChanges DEF Deallocate
  <1>6. CASE SeeDeallocated
    <2>1. ~Out(Peer(Active))
      BY <1>6 DEF SeeDeallocated, SkuInv, OutageOK, SkuAt
    <2> QED BY <1>0, <1>6, <2>1, RunGoes DEF SeeDeallocated, SkuAt
  <1>7. CASE RecordDeallocated
    BY <1>7, AdvanceKeeps DEF RecordDeallocated, SkuAt, Phases, Called
  <1>8. CASE QualifyOutage
    <2>1. /\ CallProof(Active) \in [peer : {"none", Peer(Active)}, outage : BOOLEAN]
          /\ CallProof(Active).outage = (vms[Active].power = "deallocated")
      BY DEF CallProof
    <2>2. vms[Active].power = "deallocated"
      BY <1>8 DEF QualifyOutage, SkuInv, OutageOK
    <2>3. CallProof(Active).outage = TRUE
      BY <2>1, <2>2
    <2>4. CallProof(Active) # NoProof
      BY <2>3 DEF NoProof
    <2>5. "OUTAGE_PEER_QUALIFIED" \in Phases \ {"QUALIFIED"}
      BY DEF Phases
    <2>6. /\ Transition("OUTAGE_PEER_QUALIFIED", CallProof(Active))
          /\ converter.pc \in {"work", "down"}
          /\ UNCHANGED <<vms, approved, converter, mishaps>>
      BY <1>8 DEF QualifyOutage, SkuAt
    <2> QED BY <1>0, <2>1, <2>3, <2>4, <2>5, <2>6, RecordKeeps
  <1>9. CASE RequestSku
    BY <1>9, AdvanceKeeps DEF RequestSku, SkuAt, Phases, Called
  <1>10. CASE UpdateSku
    <2> DEFINE m == [vms[Active] EXCEPT !.sku = "standard"]
    <2>1. /\ m \in Machines /\ m.power = vms[Active].power
          /\ vms' = [vms EXCEPT ![Active] = m]
      BY <1>0, <1>10 DEF UpdateSku, Machines
    <2>2. vms[Active].power = "deallocated" /\ ~Out(Peer(Active))
      BY <1>10 DEF UpdateSku, SkuInv, OutageOK, SkuAt
    <2> HIDE DEF m
    <2> QED BY <1>0, <1>10, <2>1, <2>2, NodeChanges DEF UpdateSku
  <1>11. CASE RecordSku
    <2>1. /\ Transition("SKU_UPDATED", NoProof) /\ SkuGoto("work")
          /\ NodePhase = "SKU_UPDATE_REQUESTED" /\ converter.pc \in {"work", "down"}
          /\ UNCHANGED <<vms, approved, mishaps>>
      BY <1>11 DEF RecordSku, SkuAt
    <2>2. converter' \in SkuRuns /\ converter'.pc = "work" /\ converter'.path = converter.path
      BY <2>1, SkuGotoIs DEF SkuInv
    <2>3. "SKU_UPDATED" \in Phases \ {"QUALIFIED"} /\ NodePhase \in Called
      BY <2>1 DEF Phases, Called
    <2> QED BY <2>1, <2>2, <2>3, NoProofIs, RecordKeeps
  <1>12. CASE RequestStart
    BY <1>12, AdvanceKeeps DEF RequestStart, SkuAt, Phases, Called
  <1>13. CASE StartActive
    <2> DEFINE m == [vms[Active] EXCEPT !.power = "starting"]
    <2>1. m \in Machines /\ m.power = "starting" /\ vms' = [vms EXCEPT ![Active] = m]
      BY <1>0, <1>13 DEF StartActive, Machines, Powers
    <2>2. ~SkuAt("down")
      BY <1>13 DEF StartActive, InPhase, SkuAt
    <2> HIDE DEF m
    <2> QED BY <1>0, <1>13, <2>1, <2>2, NodeChanges DEF StartActive
  <1>14. CASE RecordStarted
    BY <1>14, AdvanceKeeps DEF RecordStarted, SkuAt, Phases, Called
  <1>15. CASE Qualify
    <2>1. /\ Transition("QUALIFIED", NoProof) /\ NodePhase = "STARTED" /\ SkuAt("work")
          /\ UNCHANGED <<vms, approved, mishaps>>
      BY <1>15 DEF Qualify, InPhase
    <2>2. PICK pc \in {"verify", "peer"} : SkuGoto(pc)
      BY <1>15 DEF Qualify
    <2>3. converter' \in SkuRuns /\ converter'.pc = pc /\ converter'.path = converter.path
      BY <2>2, SkuGotoIs DEF SkuInv
    <2>4. "QUALIFIED" \in Phases /\ NodePhase \in Called /\ ~SkuAt("idle")
      BY <2>1 DEF Phases, Called, SkuAt
    <2>5. /\ skuJournals' \in [Journals -> Entries \cup {NoJournal}]
          /\ skuJournals'[converter.path] \in Entries
          /\ Sound(skuJournals'[converter.path]) /\ JournalsOK'
      BY <2>1, <2>4, NoProofIs, TransitionIs
    <2>6. Journal' = skuJournals'[converter.path]
      BY <2>3 DEF Journal
    <2>7. SkuTypes'
      BY <2>1, <2>3, <2>5 DEF SkuInv, SkuTypes
    <2>8. RunOK'
      BY <2>3, <2>4, <2>5, <2>6 DEF SkuInv, RunOK, Sound
    <2>9. OutageOK'
      BY <2>1, <2>3 DEF SkuInv, OutageOK, SkuAt, Out
    <2> QED BY <2>5, <2>7, <2>8, <2>9 DEF SkuInv
  <1>16. CASE VerifyFleet \/ FailVerify
    <2>1. PICK outcome \in {"applied", "failed"} : EndSku(outcome)
      BY <1>16 DEF VerifyFleet, FailVerify
    <2> QED BY <1>0, <1>16, <2>1, IdleRunIs, RunEnds DEF VerifyFleet, FailVerify
  <1>17. CASE FailWork
    <2>1. mishaps' \in 0..MaxMishaps
      BY <1>0, <1>17, SkuConstants DEF FailWork
    <2> QED BY <1>17, <2>1, RunGoes DEF FailWork, SkuAt
  <1>18. CASE Recover
    <2>0. SkuAt("recover") /\ ~SkuAt("down") /\ UNCHANGED <<approved, skuJournals>>
      BY <1>18 DEF Recover, SkuAt
    <2>1. CASE /\ vms' = [vms EXCEPT ![Active].power = "starting"]
               /\ UNCHANGED <<converter, mishaps>>
      <3> DEFINE m == [vms[Active] EXCEPT !.power = "starting"]
      <3>1. m \in Machines /\ m.power = "starting" /\ vms' = [vms EXCEPT ![Active] = m]
        BY <1>0, <2>1 DEF Machines, Powers
      <3> HIDE DEF m
      <3> QED BY <1>0, <2>0, <2>1, <3>1, NodeChanges
    <2>2. CASE /\ EndSku("recovered") \/ EndSku("recovery failed")
               /\ UNCHANGED vms /\ mishaps' \in 0..MaxMishaps
      BY <2>0, <2>2, IdleRunIs, RunEnds
    <2>3. mishaps < MaxMishaps /\ mishaps' = mishaps + 1 => mishaps' \in 0..MaxMishaps
      BY <1>0, SkuConstants
    <2> QED BY <1>0, <1>18, <2>1, <2>2, <2>3 DEF Recover
  <1> QED BY <1>1, <1>2, <1>3, <1>4, <1>5, <1>6, <1>7, <1>8, <1>9, <1>10, <1>11, <1>12,
             <1>13, <1>14, <1>15, <1>16, <1>17, <1>18
      DEF RunStep

(* A journal is begun, or taken up again.                                   *)
LEMMA CommandInv ==
  ASSUME SkuInv, NEW p \in Journals, BeginCorrection(p) \/ ResumeCorrection(p)
  PROVE  SkuInv'
  <1>1. CASE BeginCorrection(p)
    <2>1. /\ vms \in [Roles -> Machines] /\ Snapshot \in Fleets
          /\ skuJournals \in [Journals -> Entries \cup {NoJournal}]
      BY SnapshotIs DEF SkuInv, SkuTypes
    <2> DEFINE fresh == FreshJournal(Snapshot)
    <2>2. fresh \in Entries /\ Sound(fresh)
      BY <2>1 DEF FreshJournal, Entries, Sound, NoProof, Phases, Calls, Called
    <2>3. /\ skuJournals' = [skuJournals EXCEPT ![p] = fresh]
          /\ converter' = [pc |-> "peer", path |-> p, outcome |-> "none"]
          /\ UNCHANGED <<vms, approved, mishaps>>
      BY <1>1 DEF BeginCorrection
    <2> HIDE DEF fresh
    <2>4. /\ skuJournals' \in [Journals -> Entries \cup {NoJournal}]
          /\ skuJournals'[p] = fresh
          /\ \A q \in Journals : q # p => skuJournals'[q] = skuJournals[q]
      BY <2>1, <2>2, <2>3
    <2>5. converter' \in SkuRuns /\ converter'.pc = "peer" /\ converter'.path = p
      BY <2>3 DEF SkuRuns
    <2>6. SkuTypes'
      BY <2>3, <2>4, <2>5 DEF SkuInv, SkuTypes
    <2>7. JournalsOK'
      BY <2>2, <2>4 DEF SkuInv, JournalsOK, Sound
    <2>8. RunOK'
      <3>1. Journal' = fresh
        BY <2>4, <2>5 DEF Journal
      <3> QED BY <2>2, <2>5, <3>1 DEF RunOK, Sound
    <2>9. OutageOK'
      BY <2>3, <2>5 DEF SkuInv, OutageOK, SkuAt, Out
    <2> QED BY <2>6, <2>7, <2>8, <2>9 DEF SkuInv
  <1>2. CASE ResumeCorrection(p)
    <2>1. /\ skuJournals[p] # NoJournal /\ UNCHANGED <<vms, approved, skuJournals, mishaps>>
          /\ converter' \in SkuRuns /\ converter'.pc \in {"verify", "peer"}
          /\ converter'.path = p
      BY <1>2 DEF ResumeCorrection, SkuRuns
    <2>2. Journal' = skuJournals[p]
      BY <2>1 DEF Journal
    <2>3. skuJournals[p] \in Entries /\ Sound(skuJournals[p])
      BY <2>1 DEF SkuInv, SkuTypes, JournalsOK
    <2>4. SkuTypes' /\ JournalsOK'
      BY <2>1 DEF SkuInv, SkuTypes, JournalsOK
    <2>5. RunOK'
      BY <2>1, <2>2, <2>3 DEF RunOK, Sound
    <2>6. OutageOK'
      BY <2>1 DEF SkuInv, OutageOK, SkuAt, Out
    <2> QED BY <2>4, <2>5, <2>6 DEF SkuInv
  <1> QED BY <1>1, <1>2

(* Azure and the guests take no node out that is not on its way out.        *)
LEMMA NodeInv ==
  ASSUME SkuInv, NEW r \in Roles, FinishOperation(r) \/ Mishap(r) \/ Heal(r)
  PROVE  SkuInv'
  <1>0. vms \in [Roles -> Machines] /\ vms[r] \in Machines /\ mishaps \in 0..MaxMishaps
    BY DEF SkuInv, SkuTypes
  <1>1. \E m \in Machines :
          /\ vms' = [vms EXCEPT ![r] = m]
          /\ m.power \in {"deallocating", "deallocated"} => Out(r)
          /\ vms[r].power # "deallocated"
    <2>1. CASE FinishOperation(r)
      <3>1. CASE vms[r].power = "deallocating"
        <4> DEFINE m == [vms[r] EXCEPT !.power = "deallocated"]
        <4>1. m \in Machines /\ vms' = [vms EXCEPT ![r] = m]
          BY <1>0, <2>1, <3>1 DEF FinishOperation, Machines, Powers
        <4> QED BY <3>1, <4>1 DEF Out
      <3>2. CASE vms[r].power = "starting"
        <4> DEFINE m == [vms[r] EXCEPT !.power = "running", !.boot = @ + 1, !.well = TRUE]
        <4>1. /\ m \in Machines /\ m.power = "running"
              /\ vms' = [vms EXCEPT ![r] = m]
          BY <1>0, <2>1, <3>2 DEF FinishOperation, Machines, Powers
        <4> QED BY <3>2, <4>1
      <3> QED BY <2>1, <3>1, <3>2 DEF FinishOperation
    <2>2. CASE Mishap(r)
      <3>1. PICK power \in {"running", "stopped"} :
              vms' = [vms EXCEPT ![r].power = power, ![r].well = FALSE]
        BY <2>2 DEF Mishap
      <3> DEFINE m == [vms[r] EXCEPT !.power = power, !.well = FALSE]
      <3>2. m \in Machines /\ m.power = power /\ vms' = [vms EXCEPT ![r] = m]
        BY <1>0, <3>1 DEF Machines, Powers
      <3> QED BY <2>2, <3>2 DEF Mishap
    <2>3. CASE Heal(r)
      <3> DEFINE m == IF vms[r].power = "running" THEN [vms[r] EXCEPT !.well = TRUE]
                      ELSE [vms[r] EXCEPT !.power = "starting"]
      <3>1. /\ m \in Machines /\ m.power \in {"running", "starting"}
            /\ vms' = [vms EXCEPT ![r] = m]
        BY <1>0, <2>3 DEF Heal, Machines, Powers
      <3> QED BY <2>3, <3>1 DEF Heal
    <2> QED BY <2>1, <2>2, <2>3
  <1>2. mishaps' \in 0..MaxMishaps /\ UNCHANGED <<approved, skuJournals, converter>>
    BY <1>0, SkuConstants DEF FinishOperation, Mishap, Heal
  <1>3. PICK m \in Machines : /\ vms' = [vms EXCEPT ![r] = m]
                              /\ m.power \in {"deallocating", "deallocated"} => Out(r)
                              /\ vms[r].power # "deallocated"
    BY <1>1
  <1>4. Out(r) => ~Out(Peer(r))
    BY DEF SkuInv, OutageOK
  <1>5. ~(SkuAt("down") /\ r = Active)
    BY <1>3 DEF SkuInv, OutageOK
  <1> QED BY <1>2, <1>3, <1>4, <1>5, NodeChanges

LEMMA SkuNextInv == SkuInv /\ [SkuNext]_skuVars => SkuInv'
  <1> SUFFICES ASSUME SkuInv, [SkuNext]_skuVars PROVE SkuInv'
    OBVIOUS
  <1>1. CASE ApprovePlan
    <2>1. approved' \in Fleets
      BY <1>1, SnapshotIs DEF ApprovePlan, SkuInv, SkuTypes
    <2>2. UNCHANGED <<vms, skuJournals, converter, mishaps>>
      BY <1>1 DEF ApprovePlan
    <2>3. Journal' = Journal /\ Active' = Active
      BY <2>2 DEF Journal, Active
    <2> QED BY <2>1, <2>2, <2>3
        DEF SkuInv, SkuTypes, JournalsOK, RunOK, OutageOK, SkuAt, Out
  <1>2. CASE RunStep
    BY <1>2, RunStepInv
  <1>3. CASE Kill
    <2>1. mishaps' \in 0..MaxMishaps
      BY <1>3, SkuConstants DEF Kill, SkuInv, SkuTypes
    <2> QED BY <1>3, <2>1, IdleRunIs, RunEnds DEF Kill
  <1>4. ASSUME NEW p \in Journals, BeginCorrection(p) \/ ResumeCorrection(p)
        PROVE  SkuInv'
    BY <1>4, CommandInv
  <1>5. ASSUME NEW r \in Roles, FinishOperation(r) \/ Mishap(r) \/ Heal(r)
        PROVE  SkuInv'
    BY <1>5, NodeInv
  <1>6. CASE UNCHANGED skuVars
    <2>1. UNCHANGED <<vms, approved, skuJournals, converter, mishaps>>
      BY <1>6 DEF skuVars
    <2>2. Journal' = Journal /\ Active' = Active
      BY <2>1 DEF Journal, Active
    <2> QED BY <2>1, <2>2
        DEF SkuInv, SkuTypes, JournalsOK, RunOK, OutageOK, SkuAt, Out
  <1> QED BY <1>1, <1>2, <1>3, <1>4, <1>5, <1>6 DEF SkuNext

LEMMA SkuInvAlways == SkuSpec => []SkuInv
  BY SkuInitInv, SkuNextInv, PTL DEF SkuSpec

(* Machines, approved plan, journals and run of remediate_edge_os_disk_sku  *)
(* keep their types, for any number of journals and mishaps.                *)
THEOREM SkuTypesHold == SkuSpec => []SkuTypeOK
  <1>1. SkuInv => SkuTypeOK
    <2> SUFFICES ASSUME SkuInv PROVE SkuTypeOK
      OBVIOUS
    <2>1. /\ vms \in [Roles -> Machines] /\ approved \in Fleets
          /\ converter.path \in Journals \cup {NoJournal} /\ mishaps \in 0..MaxMishaps
      BY DEF SkuInv, SkuTypes, SkuRuns
    <2>2. ASSUME NEW p \in Journals, skuJournals[p] # NoJournal
          PROVE  /\ skuJournals[p].plan \in Fleets
                 /\ skuJournals[p].phase \in [Roles -> Phases]
                 /\ \A r \in Roles : skuJournals[p].outageCall[r]
                                       \in [peer : {"none", Peer(r)}, outage : BOOLEAN]
      <3>1. skuJournals[p] \in Entries /\ Sound(skuJournals[p])
        BY <2>2 DEF SkuInv, SkuTypes, JournalsOK
      <3> QED BY <3>1 DEF Entries, Calls, Sound
    <2> QED BY <2>1, <2>2, PhasesAreOrdered DEF SkuTypeOK, Machines
  <1> QED BY <1>1, SkuInvAlways, PTL

(* Only one Edge is ever deallocated at a time, and the outage call that a  *)
(* journal of remediate_edge_os_disk_sku records was made in an outage,     *)
(* whatever fails or is killed and however many journals are under way.     *)
THEOREM OutagesAreAlwaysSafe == SkuSpec => []OutagesAreSafe
  <1>1. SkuInv => OutagesAreSafe
    <2> SUFFICES ASSUME SkuInv PROVE OutagesAreSafe
      OBVIOUS
    <2>1. OneOutage
      <3>1. "sbc1" \in Roles /\ Peer("sbc1") \in Roles
        BY DEF Roles, Peer
      <3> QED BY <3>1 DEF SkuInv, OutageOK, OneOutage, Out
    <2>2. OutageProofIsReal
      <3> SUFFICES ASSUME NEW p \in Journals, skuJournals[p] # NoJournal, NEW r \in Roles,
                          PhaseIndex(skuJournals[p].phase[r])
                            >= PhaseIndex("OUTAGE_PEER_QUALIFIED")
                   PROVE  skuJournals[p].outageCall[r].outage
        BY DEF OutageProofIsReal
      <3>1. skuJournals[p] \in Entries /\ Sound(skuJournals[p])
        BY DEF SkuInv, SkuTypes, JournalsOK
      <3>2. skuJournals[p].phase[r] \in Phases
        BY <3>1 DEF Entries
      <3>3. skuJournals[p].outageCall[r].outage = TRUE
        BY <3>1, <3>2, CalledAre DEF Sound
      <3> QED BY <3>3
    <2> QED BY <2>1, <2>2 DEF OutagesAreSafe
  <1> QED BY <1>1, SkuInvAlways, PTL

-----------------------------------------------------------------------------
(* The types of both tools hold in the machine that runs either.            *)
THEOREM AzureTypesHold == AzureSpec => []AzureTypesOK
  <1>1. AzureSpec => AzureInit /\ [][AzureNext]_azureVars
    BY PTL DEF AzureSpec
  <1>2. AzureInit => SkuInit /\ OverlayInit
    BY DEF AzureInit
  <1>3. [AzureNext]_azureVars => [SkuNext]_skuVars /\ [OverlayNext]_overlayVars
    BY DEF AzureNext, Correcting, Overlaying, azureVars
  <1>4. AzureSpec => SkuSpec /\ OverlaySpec
    BY <1>1, <1>2, <1>3, PTL DEF SkuSpec, OverlaySpec
  <1>5. SkuTypeOK /\ OverlayTypeOK => AzureTypesOK
    BY DEF AzureTypesOK
  <1> QED BY <1>4, <1>5, SkuTypesHold, OverlayTypesHold, PTL
================================================================================
