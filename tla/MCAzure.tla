-------------------------------- MODULE MCAzure --------------------------------
(***************************************************************************)
(* The correction of the Edge disks and the carrier overlay of the control *)
(* host.  They share no state: a behaviour is one of the tool Init picks,  *)
(* and the other stands still.                                             *)
(***************************************************************************)
EXTENDS AzureDiskSku, AzureOverlay

VARIABLE azTool

azureVars == <<azTool, skuVars, overlayVars>>

Correcting == azTool = "sku" /\ UNCHANGED <<azTool, overlayVars>>

Overlaying == azTool = "overlay" /\ UNCHANGED <<azTool, skuVars>>

AzureInit == azTool \in {"sku", "overlay"} /\ SkuInit /\ OverlayInit

AzureNext ==
  \/ Correcting /\ SkuNext
  \/ Overlaying /\ OverlayNext

(* SkuFairness and OverlayFairness, each for its tool.                      *)
AzureSpec ==
  /\ AzureInit /\ [][AzureNext]_azureVars
  /\ WF_azureVars(Correcting /\ RunStep)
  /\ \A p \in Journals : SF_azureVars(Correcting /\ ResumeCorrection(p))
  /\ \A r \in Roles : /\ WF_azureVars(Correcting /\ FinishOperation(r))
                      /\ WF_azureVars(Correcting /\ Heal(r))
  /\ WF_azureVars(Overlaying /\ CommandStep)
  /\ WF_azureVars(Overlaying /\ DeploymentSucceeds)
  /\ WF_azureVars(Overlaying /\ CancellationEnds)
  /\ WF_azureVars(Overlaying /\ Deadman) /\ WF_azureVars(Overlaying /\ ClockTick)
  /\ \A r \in Rules : WF_azureVars(Overlaying /\ CreateRule(r))
  /\ SF_azureVars(Overlaying /\ StartPlan("teardown"))
  /\ SF_azureVars(Overlaying /\ StartExecute /\ savedPlan.action = "teardown")

(* The type invariants of the two tools.                                    *)
AzureTypesOK == SkuTypeOK /\ OverlayTypeOK

(* A correction that began completes, and the overlay can be taken away.    *)
AzureWorkEnds == CorrectionCompletes /\ OverlayCanBeRemoved
=============================================================================
