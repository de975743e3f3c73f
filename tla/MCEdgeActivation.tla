--------------------------- MODULE MCEdgeActivation ---------------------------
(* EdgeActivation on three manifests: c2 and c3 both follow c1, as when c2  *)
(* is aborted and the controller issues c3 against the same LKG.            *)
EXTENDS EdgeActivation, TLC

CONSTANTS c1, c2, c3

MCCandidate == {c1, c2, c3}
MCSeqOf == (c1 :> 1) @@ (c2 :> 2) @@ (c3 :> 3)
MCParent == (c1 :> Bootstrap) @@ (c2 :> c1) @@ (c3 :> c1)
=============================================================================
