------------------------------- MODULE HostCall -------------------------------
(***************************************************************************)
(* What one hako API entry point promises the host that calls it, with    *)
(* the call as a single atomic step (hako.h: "Caller owns, free with ..." *)
(* and "@return ... exception ..." on every entry point).                 *)
(*                                                                         *)
(* The call runs and then returns once, with one of Results.  At that     *)
(* moment every reference the call acquired is either freed or handed to *)
(* the host: nothing is stray.  A result in Failures (JS_EXCEPTION, a     *)
(* NULL buffer) comes with an exception pending in the context, for      *)
(* HAKO_GetLastError.  Later the host may consume what it was given (free *)
(* it, or pass it to the next call), after which nothing of the call is   *)
(* left.  A call that can run is not stopped forever: the program is one *)
(* thread and each entry point runs to its return.                        *)
(***************************************************************************)
CONSTANTS
    Results,    \* what the entry point may return
    Failures,   \* the results that report an error
    NONE        \* no result yet, or no longer held

VARIABLES
    phase,      \* "running", "returned" or "consumed"
    result,     \* what the call returned
    pending,    \* an exception is pending when the call has returned
    stray       \* references the call holds that nobody owns

vars == << phase, result, pending, stray >>

Init ==
    /\ phase = "running"
    /\ result = NONE
    /\ pending = FALSE
    /\ stray = {}

\* The entry point returns r.
Return ==
    /\ phase = "running"
    /\ phase' = "returned"
    /\ result' \in Results
    /\ pending' \in IF result' \in Failures THEN {TRUE} ELSE BOOLEAN
    /\ stray' = {}

\* The host takes over what the call returned and releases its part.
Consume ==
    /\ phase = "returned"
    /\ phase' = "consumed"
    /\ result' = NONE
    /\ pending' = FALSE
    /\ stray' = {}

Next == Return \/ Consume

\* The call itself always returns; whether the host consumes the result
\* is up to the host.
Spec == Init /\ [][Next]_vars /\ WF_vars(Return)

=============================================================================
