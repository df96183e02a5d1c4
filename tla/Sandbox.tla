------------------------------- MODULE Sandbox -------------------------------
(***************************************************************************)
(* An addition in the Wasm sandbox (src/src/sandbox.rs): the calling       *)
(* thread and a timer thread that bumps the engine's epoch when it is not  *)
(* cancelled in time.  Wasmtime is external: a call checks the epoch when  *)
(* it enters the function, takes fuel, and traps when either is against it;*)
(* the sum itself is its i32.add.                                          *)
(***************************************************************************)
EXTENDS Operation

CONSTANTS
    FuelNeeded,     \* what Wasmtime charges for the function
    FuelLimits      \* SandboxConfig.fuel_limit, any configured value

ASSUME SandboxAssumption ==
    FuelNeeded \in Nat /\ FuelLimits \subseteq Nat

VARIABLES
    fuel,           \* fuel_limit
    epoch,          \* of the engine; the store's deadline is 1
    timer,          \* "none", "waiting", "expired", "ended"
    cancelled,      \* the cancel message has been sent
    sum             \* what add.call returned

sandboxVars == <<fuel, epoch, timer, cancelled, sum>>

SandboxInit ==
    /\ fuel = 0
    /\ epoch = 0 /\ timer = "none" /\ cancelled = FALSE /\ sum = NoAnswer

SandboxCalled ==
    /\ fuel \in FuelLimits
    /\ epoch = 0 /\ timer = "none" /\ cancelled = FALSE /\ sum = NoAnswer

(* The engine, the module, the store with its limits and fuel, the         *)
(* instance and the typed function: each may fail, nothing is held yet.    *)
SandboxSetUp ==
    /\ pc = "start"
    /\ \/ Goto("startTimer")
       \/ \E step \in {"engine", "module", "fuel", "instance", "function"} :
            Return(Err(step))
    /\ UNCHANGED sandboxVars

StartTimer ==
    /\ pc = "startTimer"
    /\ timer' = "waiting"
    /\ GotoHolding("call", held \cup {"timer"})
    /\ UNCHANGED <<fuel, epoch, cancelled, sum>>

(* add.call: past the check on entry the addition runs to its end.         *)
CallAdd ==
    /\ pc = "call"
    /\ sum' = IF epoch >= 1 THEN Err("interrupted")
              ELSE IF fuel < FuelNeeded THEN Err("out of fuel")
              ELSE Ok("sum")
    /\ Goto("cancel")
    /\ UNCHANGED <<fuel, epoch, timer, cancelled>>

SendCancel ==
    /\ pc = "cancel"
    /\ cancelled' = TRUE
    /\ Goto("join")
    /\ UNCHANGED <<fuel, epoch, timer, sum>>

(* timer.join, then the result of the call.                                *)
JoinTimer ==
    /\ pc = "join"
    /\ timer = "ended"
    /\ pc' = "done" /\ answer' = sum /\ held' = held \ {"timer"}
    /\ UNCHANGED <<kind, stuck, sandboxVars>>

(* recv_timeout: the message, or the end of the time; then the epoch.      *)
TimerExpires ==
    /\ timer = "waiting" /\ ~ cancelled
    /\ timer' = "expired"
    /\ UNCHANGED <<callState, fuel, epoch, cancelled, sum>>

IncrementEpoch ==
    /\ timer = "expired"
    /\ epoch' = epoch + 1
    /\ timer' = "ended"
    /\ UNCHANGED <<callState, fuel, cancelled, sum>>

ReceiveCancel ==
    /\ timer = "waiting" /\ cancelled
    /\ timer' = "ended"
    /\ UNCHANGED <<callState, fuel, epoch, cancelled, sum>>

RunAddition ==
    SandboxSetUp \/ StartTimer \/ CallAdd \/ SendCancel \/ JoinTimer
TimerThread == TimerExpires \/ IncrementEpoch \/ ReceiveCancel

SandboxNext == RunAddition \/ TimerThread
SandboxFairness == WF_<<callState, sandboxVars>>(kind = "add" /\ RunAddition)
                /\ WF_<<callState, sandboxVars>>(kind = "add" /\ TimerThread)

=============================================================================
