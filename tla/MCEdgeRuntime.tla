----------------------------- MODULE MCEdgeRuntime -----------------------------
(* EdgeRuntime on small sets of signed candidates.                          *)
EXTENDS EdgeRuntime, TLC

CONSTANTS c1, c2, c3

(* c1 is the first manifest; c2 and c3 both follow it, c3 as the manifest   *)
(* reissued after a failed sequence 2 does.                                 *)
MCCandidate == {c1, c2, c3}
MCSeqOf == (c1 :> 1) @@ (c2 :> 2) @@ (c3 :> 3)
MCParent == (c1 :> Bootstrap) @@ (c2 :> c1) @@ (c3 :> c1)
=============================================================================
