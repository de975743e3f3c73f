------------------------- MODULE MCEdgeActivationPair -------------------------
(* EdgeActivation on two successive manifests.                              *)
EXTENDS EdgeActivation, TLC

CONSTANTS c1, c2

MCCandidate == {c1, c2}
MCSeqOf == (c1 :> 1) @@ (c2 :> 2)
MCParent == (c1 :> Bootstrap) @@ (c2 :> c1)
=============================================================================
