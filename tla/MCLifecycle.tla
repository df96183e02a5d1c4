----------------------------- MODULE MCLifecycle -----------------------------
(* Instances of Lifecycle for TLC. *)
EXTENDS Lifecycle

Sent(uid, len, ends) ==
    [uid |-> uid, len |-> len, ends |-> ends, utf8 |-> TRUE, valid |-> TRUE,
     takesReply |-> TRUE]

(* Lines around a limit of 2, silent clients of both users, one that does  *)
(* not read its answer, and two lines that are no commands.                *)
MCLines ==
    {Sent("owner", 2, "newline"), Sent("owner", 3, "newline"),
     Sent("owner", 3, "open"), Sent("owner", 0, "eof"), Sent("owner", 1, "open"),
     Sent("other", 1, "open"), Sent("other", 2, "eof"),
     [Sent("owner", 2, "newline") EXCEPT !.takesReply = FALSE],
     [Sent("owner", 1, "eof") EXCEPT !.utf8 = FALSE],
     [Sent("owner", 2, "eof") EXCEPT !.valid = FALSE]}
=============================================================================
