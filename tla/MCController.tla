------------------------------ MODULE MCController ------------------------------
(***************************************************************************)
(* The restore of a replacement controller and the installer of a          *)
(* standalone one.  They share no state: a behaviour is one of the tool    *)
(* Init picks, and the other stands still.                                 *)
(***************************************************************************)
EXTENDS ControllerRestore, ControllerInstaller

VARIABLE tool

controllerVars == <<tool, restoreVars, installVars>>

Restoring == tool = "restore" /\ UNCHANGED <<tool, installVars>>

Installing == tool = "installer" /\ UNCHANGED <<tool, restoreVars>>

(* One source tree is as good a first one as another.                       *)
ControllerInit ==
  /\ tool \in {"restore", "installer"}
  /\ RestoreInit /\ InstallInit
  /\ sourceTree = CHOOSE s \in Sources : TRUE

ControllerNext ==
  \/ Restoring /\ RestoreNext
  \/ Installing /\ InstallNext

ControllerSpec ==
  /\ ControllerInit /\ [][ControllerNext]_controllerVars
  /\ WF_controllerVars(\/ Restoring /\ RestoreStep
                       \/ Installing /\ InstallGoes)

(* The type invariants of the two tools.                                    *)
ControllerTypesOK == RestoreTypeOK /\ InstallTypeOK

(* Whatever the two tools began is brought to its end by repeating it.      *)
ControllerWorkEnds == RestoreResolves /\ InstallResumes
=============================================================================
