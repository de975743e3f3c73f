----------------------------- MODULE MCEdgeRecovery -----------------------------
(***************************************************************************)
(* What repetition brings to its end on the Edges: a switch of the runtime *)
(* helper, and a qualification of reboots.  They share no state: a         *)
(* behaviour is one of the part Init picks, and the other stands still.    *)
(***************************************************************************)
EXTENDS MCEdgeRuntimeLive, RebootQualification

VARIABLE side

recoveryVars == <<side, vars, qualVars>>

Switching == side = "switch" /\ UNCHANGED <<side, qualVars>>

Qualifying == side = "reboots" /\ UNCHANGED <<side, vars>>

RecoveryInit == side \in {"switch", "reboots"} /\ Init /\ QualInit

RecoveryNext ==
  \/ Switching /\ (Next \/ Stabilise)
  \/ Qualifying /\ QualNext

(* The fairness of FairSpec and of FairQualSpec, each for its part.         *)
RecoverySpec ==
  /\ RecoveryInit /\ [][RecoveryNext]_recoveryVars
  /\ WF_recoveryVars(Switching /\ Steps)
  /\ WF_recoveryVars(Switching /\ RecoverJournal)
  /\ WF_recoveryVars(Switching /\ BootRecover)
  /\ \A s \in Services : WF_recoveryVars(Switching /\ RunStartJob(s))
  /\ WF_recoveryVars(Qualifying /\ StartPlay)
  /\ WF_recoveryVars(Qualifying /\ PlayStep)
  /\ \A n \in Q!Nodes : WF_recoveryVars(Qualifying /\ NodeStep(n))

(* Recovery brings a switch to its end, and reruns the qualification.       *)
RecoveryEnds == SwitchResolves /\ QualificationEnds
=============================================================================
