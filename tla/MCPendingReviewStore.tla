------------------------ MODULE MCPendingReviewStore ------------------------
(* Instances of PendingReviewStore for TLC. *)
EXTENDS PendingReviewStore, TLC

CONSTANTS r1, r2, b1, b2

MCIds2 == {r1, r2}
MCBodies == {b1, b2}

(* Ids and bodies are only compared with themselves. *)
MCSymmetry2 == Permutations(MCIds2) \cup Permutations(MCBodies)
=============================================================================
