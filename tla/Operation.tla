------------------------------ MODULE Operation ------------------------------
(***************************************************************************)
(* What the executors have in common: one call of one of them, from the    *)
(* moment main.rs makes it to its Result.  Each executor's module adds the *)
(* state it works on; module Operations puts them together.                *)
(***************************************************************************)
EXTENDS Integers

VARIABLES
    kind,       \* which executor was called
    pc,         \* the step it takes next; "done" when it has returned
    answer,     \* the Result it returned
    held,       \* what it has started or created and not yet released
    stuck       \* what it tried to release and could not

callState == <<kind, pc, answer, held, stuck>>

NoAnswer == [is |-> "none"]
Ok(value) == [is |-> "Ok", value |-> value]
Err(why) == [is |-> "Err", why |-> why]

Answered == pc = "done"

CallInit == pc = "start" /\ answer = NoAnswer /\ held = {} /\ stuck = {}

(* The next step of the call, which keeps what it holds.                   *)
Goto(step) ==
    /\ pc' = step
    /\ UNCHANGED <<kind, answer, held, stuck>>

(* The next step, with the things it holds changed.                        *)
GotoHolding(step, things) ==
    /\ pc' = step
    /\ held' = things
    /\ UNCHANGED <<kind, answer, stuck>>

(* The call returns; each thing it releases on the way out may stay, when  *)
(* its removal fails and the failure is ignored.                           *)
ReturnReleasing(result, things) ==
    /\ pc' = "done"
    /\ answer' = result
    /\ \E kept \in SUBSET (things \cap held) :
        /\ stuck' = stuck \cup kept
        /\ held' = held \ (things \ kept)
    /\ UNCHANGED kind

Return(result) == ReturnReleasing(result, {})

(* a min b, and the bounded readers' "at most maximum".                    *)
Least(a, b) == IF a < b THEN a ELSE b
=============================================================================
