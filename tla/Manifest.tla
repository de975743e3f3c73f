------------------------------- MODULE Manifest -------------------------------
(***************************************************************************)
(* What the Edge agent and the Edge runtime read of a signed manifest: its *)
(* sequence and the lineage it claims.  A candidate is one signed manifest *)
(* (a sequence together with a digest); signatures, artifacts and network  *)
(* allocations are checked by the same calls and are not told apart here:  *)
(* a manifest that fails them is simply not a member of Candidate.         *)
(***************************************************************************)
EXTENDS Naturals

CONSTANTS
  Candidate,   \* signed candidates
  Bootstrap,   \* what a node runs before its first manifest; null lineage
  SeqOf,       \* manifest.sequence
  Parent       \* manifest.previousDigest / rollbackTarget

Release == Candidate \cup {Bootstrap}

ASSUME ManifestConstants ==
  /\ Bootstrap \notin Candidate
  /\ SeqOf \in [Candidate -> Nat \ {0}]
  /\ Parent \in [Candidate -> Release]

Seq0(r) == IF r = Bootstrap THEN 0 ELSE SeqOf[r]

(* Mutant: the accepted release is compared by sequence order only.         *)
LineageBySequence(c, accepted) ==
  /\ (SeqOf[c] = 1) <=> (Parent[c] = Bootstrap)
  /\ Seq0(accepted) < SeqOf[c]

(* _validate_rollback and the high-water checks of validate_envelope:       *)
(* exactly the first sequence has null lineage, a parent has a lower        *)
(* sequence, and the lineage names the accepted release.                    *)
LineageOK(c, accepted) ==
  /\ (SeqOf[c] = 1) <=> (Parent[c] = Bootstrap)
  /\ Seq0(Parent[c]) < SeqOf[c]
  /\ Parent[c] = accepted
  /\ Seq0(accepted) < SeqOf[c]
=============================================================================
