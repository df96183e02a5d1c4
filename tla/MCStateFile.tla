---------------------------- MODULE MCStateFile ----------------------------
(* Instances of StateFile for TLC. *)
EXTENDS StateFile, TLC

CONSTANTS r1, r2, c1

MCIds == {r1, r2}

(* A write, a cargo test, and a write whose target was not captured, which *)
(* has no persisted form.                                                  *)
MCReviews == {NewWithWriteTargetState("WriteFile", c1),
              NewWithWorkspaceFingerprint("RunCargoTest", c1),
              New("WriteFile")}

MCSymmetry == Permutations(MCIds)
=============================================================================
