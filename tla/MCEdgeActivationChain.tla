------------------------- MODULE MCEdgeActivationChain -------------------------
(* EdgeActivation on three manifests, each following the one before, so that *)
(* a rolled-back node is offered a successor of the release it left.         *)
EXTENDS EdgeActivation, TLC

CONSTANTS c1, c2, c3

MCCandidate == {c1, c2, c3}
MCSeqOf == (c1 :> 1) @@ (c2 :> 2) @@ (c3 :> 3)
MCParent == (c1 :> Bootstrap) @@ (c2 :> c1) @@ (c3 :> c2)
=============================================================================
