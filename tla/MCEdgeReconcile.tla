---------------------------- MODULE MCEdgeReconcile ----------------------------
(***************************************************************************)
(* What playbooks and timers come back to on the Edges: the activation of  *)
(* two successive manifests, and the rotations of credentials.  They share *)
(* no state here: a behaviour is one of the part Init picks, and the other *)
(* stands still.                                                           *)
(***************************************************************************)
EXTENDS MCEdgeActivationPair, CredentialRotation

VARIABLE part

reconcileVars == <<part, allVars, rotationVars>>

Activating == part = "activation" /\ UNCHANGED <<part, rotationVars>>

Rotating == part = "credentials" /\ UNCHANGED <<part, allVars>>

ReconcileInit ==
  part \in {"activation", "credentials"} /\ ActivationInit /\ RotationInit

ReconcileNext ==
  \/ Activating /\ (ActivationNext \/ NodeStabilises)
  \/ Rotating /\ RotationNext

(* ActivationFairness and RotationFairness, each for its part.              *)
ReconcileSpec ==
  /\ ReconcileInit /\ [][ReconcileNext]_reconcileVars
  /\ WF_reconcileVars(Activating /\ HelperStep)
  /\ SF_reconcileVars(Activating /\ BootUnit)
  /\ \A s \in Services : WF_reconcileVars(Activating /\ StartJob(s))
  /\ WF_reconcileVars(Activating /\ PlayStep)
  /\ SF_reconcileVars(Activating /\ RecoverPending)
  /\ WF_reconcileVars(Rotating /\ RotationStep)
  /\ \A h \in Helpers : SF_reconcileVars(Rotating /\ StartRotation(h))

(* A pending activation is brought to its end, and so are the rotations.    *)
ReconciliationEnds == PendingIsReconciled /\ RotationsEnd
=============================================================================
