----------------------------- MODULE MCAuditLog -----------------------------
(* Instances of AuditLog for TLC. *)
EXTENDS AuditLog

CONSTANTS w1, w2, w3

MCTwo == {w1, w2}
MCThree == {w1, w2, w3}
=============================================================================
