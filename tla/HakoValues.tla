------------------------------ MODULE HakoValues ------------------------------
(***************************************************************************)
(* Entry points of hako.c that hand the host a C string, a buffer or a    *)
(* boxed value: HAKO_Dump, HAKO_ToJson, HAKO_CopyArrayBuffer,             *)
(* HAKO_CopyTypedArrayBuffer, HAKO_BJSON_Encode, HAKO_BJSON_Decode,        *)
(* HAKO_GetLastError and the property, class, TypedArray, throw and       *)
(* symbol entry points; the host-callback wrappers; and the job queue     *)
(* (HAKO_IsJobPending, HAKO_ExecutePendingJob).  A host calls them one    *)
(* after the other on one context.  After each call it releases the       *)
(* result with the function hako.h names for it: HAKO_FreeCString,        *)
(* HAKO_FreeValuePointer or HAKO_Free.                                    *)
(*                                                                         *)
(* As in HakoModules, a C local that holds a reference is a local here    *)
(* and live[l] counts the references held for it.  A reference created   *)
(* and released inside one statement group (a JSON string converted to a *)
(* C string, a property value stored into an object, which consumes it)  *)
(* is not counted.  Values are abstracted to what the code tests of them *)
(* (an Error or not, an ArrayBuffer whose data is NULL, ...).  The        *)
(* exception pending in the context is carried from call to call.        *)
(***************************************************************************)
EXTENDS Integers, Sequences

CONSTANTS
    MaxCalls,       \* entry points the host calls in one behaviour
    MaxJobs,        \* jobs that running jobs may enqueue in one behaviour
    BoxMayFail,     \* TRUE: the js_malloc of jsvalue_to_heap may fail
    NoException     \* what JS_GetException returns with nothing pending:
                    \* "null" or "uninitialized", per QuickJS version

ASSUME MaxCalls \in Nat /\ MaxJobs \in Nat /\ BoxMayFail \in BOOLEAN
ASSUME NoException \in {"null", "uninitialized"}

NULL == "NULL"
UNDEF == "undefined"
EXC == "exception"
REF == "ref"
NONE == "none"

\* HAKO_NewSymbol's helpers.
SymbolHelpers == {"global", "Symbol", "descriptionValue", "Symbol_for"}

Locals == {"error_obj", "current_error", "result", "buffer", "key",
           "description", "atom", "cstr", "copy", "box"} \cup SymbolHelpers

VARIABLES
    vpc,        \* the next step, "idle" between calls
    arg,        \* what the value argument of the running call is
    loc,        \* the locals
    live,       \* live references held for each local
    depth,      \* HAKO_Dump's depth
    out,        \* what the running call returns, NONE before it does
    pending,    \* an exception is pending in the context
    calls,      \* calls made so far
    badFree,    \* history: the host freed what its free function cannot
    jobs,       \* the runtime's job queue: the context of each job
    enqueued,   \* jobs enqueued by running jobs so far
    executed,   \* HAKO_ExecutePendingJob's executed
    pctx,       \* its pctx, filled in by JS_ExecutePendingJob
    lastCtx,    \* the host's variable *out_last_job_ctx points to
    failedIn    \* history: the context of the job that failed, NONE if none

jobVars == << jobs, enqueued, executed, pctx, lastCtx, failedIn >>
vars == << vpc, arg, loc, live, depth, out, pending, calls, badFree, jobVars >>

\* The context the host calls on, and another context of the runtime.
Ctxs == {"ctx", "other"}

\* Add d to the count of l and set it to v.
Set(l, v, d) == /\ loc' = [loc EXCEPT ![l] = v]
                /\ live' = [live EXCEPT ![l] = @ + d]

\* The done: labels: every local of ls that holds a reference drops it.
Release(ls) ==
    /\ live' = [l \in Locals |-> IF l \in ls /\ loc[l] = REF THEN live[l] - 1
                                                           ELSE live[l]]
    /\ loc' = [l \in Locals |-> IF l \in ls THEN UNDEF ELSE loc[l]]

\* jsvalue_to_heap (lines 313-318) on a value that holds a reference
\* (ref) or not: a box, or NULL when js_malloc fails, and then the value
\* is dropped where it is.
Boxes(ref) == {IF ref THEN "box_ref" ELSE "box_plain"}
              \cup (IF BoxMayFail THEN {NULL} ELSE {})

\* Hand v to the caller boxed: the box takes the reference of l.
BoxFrom(l, ref) ==
    \E b \in Boxes(ref) :
        /\ out' = b
        /\ live' = [live EXCEPT ![l] = IF b = "box_ref" THEN @ - 1 ELSE @,
                                ![ "box"] = IF b = "box_ref" THEN @ + 1 ELSE @]

(***************************************************************************)
(* HAKO_Dump (lines 1247-1378).                                           *)
(***************************************************************************)
\* Lines 1260-1264: for an Error, a fresh object to copy its fields into
\* (JS_NewObject may throw) and a reference to the error.
DumpStart ==
    /\ vpc = "d_start"
    /\ IF arg \in {"error", "cyclic_error"}
       THEN /\ \E ok \in BOOLEAN :
                 /\ loc' = [loc EXCEPT !["error_obj"] = IF ok THEN REF ELSE EXC,
                                       !["current_error"] = REF]
                 /\ live' = [live EXCEPT !["error_obj"] = IF ok THEN @ + 1 ELSE @,
                                         !["current_error"] = @ + 1]
                 /\ pending' = (pending \/ ~ok)
            /\ depth' = 0
            /\ vpc' = "d_level"
       ELSE /\ vpc' = "d_json"
            /\ UNCHANGED << loc, live, depth, pending >>
    /\ UNCHANGED << arg, out, calls, badFree >>

\* Lines 1266-1296: message, name and stack are copied when they are
\* neither undefined nor an exception; a getter may throw, and the
\* exception is left pending.
FieldsThrow == \E m, n, s \in BOOLEAN : pending' = (pending \/ m \/ n \/ s)

\* What the cause property of the error at hand may be.  In a cyclic chain
\* (e.cause = e) it is always the same Error again.
Causes(a) == IF a = "cyclic_error" THEN {"error"}
             ELSE {"exception", "undefined", "null", "error", "value"}

\* (mutant) the loop descends without depth++
DumpLevelNoIncrement ==
    /\ vpc = "d_level"
    /\ depth < 3
    /\ \E cause \in Causes(arg) :
         /\ IF cause = "error" /\ depth < 2
            THEN UNCHANGED << vpc, loc, live, depth >>
            ELSE /\ Set("current_error", UNDEF, -1)
                 /\ vpc' = "d_json"
                 /\ UNCHANGED depth
         /\ IF cause = "exception" THEN pending' = TRUE ELSE FieldsThrow
    /\ UNCHANGED << arg, out, calls, badFree >>

\* (mutant) the loop ends without JS_FreeValue(ctx, current_error)
DumpLevelKeepsError ==
    /\ vpc = "d_level"
    /\ depth < 3
    /\ \E cause \in Causes(arg) :
         /\ IF cause = "error" /\ depth < 2
            THEN /\ depth' = depth + 1
                 /\ UNCHANGED << vpc, loc, live >>
            ELSE /\ Set("current_error", UNDEF, 0)
                 /\ vpc' = "d_json"
                 /\ UNCHANGED depth
         /\ IF cause = "exception" THEN pending' = TRUE ELSE FieldsThrow
    /\ UNCHANGED << arg, out, calls, badFree >>

\* Lines 1298-1321: the cause.  An Error cause below depth 2 becomes the
\* next level, in a fresh object stored as "cause"; any other cause that
\* is not undefined, null or an exception is stored as it is; then the
\* current error is released and the loop ends.
DumpLevel ==
    /\ vpc = "d_level"
    /\ depth < 3
    /\ \E cause \in Causes(arg) :
         /\ IF cause = "error" /\ depth < 2
            THEN /\ depth' = depth + 1
                 /\ UNCHANGED << vpc, loc, live >>
            ELSE /\ Set("current_error", UNDEF, -1)
                 /\ vpc' = "d_json"
                 /\ UNCHANGED depth
         /\ IF cause = "exception" THEN pending' = TRUE ELSE FieldsThrow
    /\ UNCHANGED << arg, out, calls, badFree >>

\* Lines 1324-1354: JSON.stringify of the copy (then released) or of the
\* value itself.  A string is converted with JS_ToCString, NULL when that
\* fails; an exception selects the static error_buffer of lines 1349-1354.
DumpJson ==
    /\ vpc = "d_json"
    /\ \E r \in {"cstring", "static", NULL} :
         /\ out' = r
         /\ live' = [l \in Locals |->
                       CASE l = "error_obj" /\ loc[l] = REF -> live[l] - 1
                         [] l = "cstr" /\ r = "cstring" -> live[l] + 1
                         [] OTHER -> live[l]]
         /\ pending' = (pending \/ r # "cstring")
    /\ loc' = [loc EXCEPT !["error_obj"] = UNDEF]
    /\ vpc' = "d_done"
    /\ UNCHANGED << arg, depth, calls, badFree >>


(***************************************************************************)
(* The other entry points.                                                *)
(***************************************************************************)
\* Lines 1709-1741: HAKO_ToJson.  undefined and null give a new string
\* (JS_NewString may throw); anything else goes through JSON.stringify,
\* which gives a string, undefined (for a function) or an exception; the
\* result is boxed whatever it is.
ToJson ==
    /\ vpc = "to_json"
    /\ \E r \in {"string", "undefined", "exception"} :
         IF r = "string"
         THEN /\ Set("result", REF, 1)
              /\ vpc' = "box_result"
              /\ UNCHANGED pending
         ELSE /\ Set("result", IF r = "exception" THEN EXC ELSE UNDEF, 0)
              /\ pending' = (pending \/ r = "exception")
              /\ vpc' = "box_result"
    /\ UNCHANGED << arg, depth, out, calls, badFree >>

\* Where each entry point goes after it boxed its result.
AfterBox == [box_result |-> "returned", sym_box |-> "sym_done"]

\* jsvalue_to_heap of the result, which may hold a reference or not.
BoxResult ==
    /\ vpc \in DOMAIN AfterBox
    /\ BoxFrom("result", loc["result"] = REF)
    /\ loc' = [loc EXCEPT !["result"] = UNDEF]
    /\ vpc' = AfterBox[vpc]
    /\ UNCHANGED << arg, depth, pending, calls, badFree >>

\* JS_GetArrayBuffer (QuickJS): NULL for a value that is not an
\* ArrayBuffer or is detached (both throw) and for an ArrayBuffer that
\* HAKO_NewArrayBuffer made with length 0 (its data is NULL; no throw).
BufferData(a) == a = "buffer"
BufferThrows(a) == a \in {"detached", "other"}

\* Lines 695-721: HAKO_CopyArrayBuffer.
CopyArrayBuffer ==
    /\ vpc = "copy_ab"
    /\ IF ~BufferData(arg)
       THEN /\ out' = NULL
            /\ pending' = (pending \/ BufferThrows(arg))
            /\ UNCHANGED << loc, live >>
       ELSE \E ok \in BOOLEAN :                 \* js_malloc throws on failure
              IF ok THEN Set("copy", UNDEF, 1) /\ out' = "buffer" /\ UNCHANGED pending
                    ELSE out' = NULL /\ pending' = TRUE /\ UNCHANGED << loc, live >>
    /\ vpc' = "returned"
    /\ UNCHANGED << arg, depth, calls, badFree >>

\* Lines 1656-1674: HAKO_CopyTypedArrayBuffer.  A non-typed-array throws;
\* otherwise JS_GetTypedArrayBuffer gives a reference to its ArrayBuffer.
GetTypedArrayBuffer ==
    /\ vpc = "copy_ta"
    /\ IF arg = "other"
       THEN /\ out' = NULL
            /\ pending' = TRUE
            /\ vpc' = "returned"
            /\ UNCHANGED << loc, live >>
       ELSE /\ Set("buffer", REF, 1)
            /\ vpc' = "ta_copy"
            /\ UNCHANGED << out, pending >>
    /\ UNCHANGED << arg, depth, calls, badFree >>

\* Lines 1676-1705: the data is read (NULL for a detached buffer, which
\* throws, and for an empty one, which does not), the range checked (a
\* view outside a shrunk buffer is a RangeError) and copied (js_malloc may
\* fail); the cleanup: label releases the ArrayBuffer.
CopyTypedArray ==
    /\ vpc = "ta_copy"
    /\ \E inRange, ok \in BOOLEAN :
         LET copied == BufferData(arg) /\ inRange /\ ok
         IN /\ out' = IF copied THEN "buffer" ELSE NULL
            /\ live' = [live EXCEPT !["buffer"] = @ - 1,
                                    !["copy"] = IF copied THEN @ + 1 ELSE @]
            /\ loc' = [loc EXCEPT !["buffer"] = UNDEF]
            /\ pending' = (pending \/ BufferThrows(arg)
                           \/ (BufferData(arg) /\ ~copied))
    /\ vpc' = "returned"
    /\ UNCHANGED << arg, depth, calls, badFree >>

\* Lines 1612-1629: HAKO_BJSON_Encode; JS_WriteObject throws and returns
\* NULL for what it cannot serialise.
BjsonEncode ==
    /\ vpc = "bjson_enc"
    /\ \E ok \in BOOLEAN :
         /\ out' = IF ok THEN "buffer" ELSE NULL
         /\ live' = [live EXCEPT !["copy"] = IF ok THEN @ + 1 ELSE @]
         /\ pending' = (pending \/ ~ok)
    /\ vpc' = "returned"
    /\ UNCHANGED << arg, loc, depth, calls, badFree >>

\* Lines 1631-1642: HAKO_BJSON_Decode; an empty buffer is a TypeError, and
\* JS_ReadObject throws on a malformed one.
BjsonDecode ==
    /\ vpc = "bjson_dec"
    /\ \E ok \in BOOLEAN :
         IF arg = "buffer" /\ ok
         THEN Set("result", REF, 1) /\ vpc' = "box_result" /\ UNCHANGED pending
         ELSE Set("result", EXC, 0) /\ pending' = TRUE /\ vpc' = "box_result"
    /\ UNCHANGED << arg, depth, out, calls, badFree >>

\* Lines 1230-1245: HAKO_GetLastError.  Given a box holding JS_EXCEPTION,
\* or no box, JS_GetException takes the pending exception and clears it;
\* with nothing pending it gives NoException.  Without a box only a null
\* exception means "none"; a box holding any other value gives NULL.
GetLastError ==
    /\ vpc = "last_error"
    /\ LET taken == IF pending THEN "error" ELSE NoException
       IN IF arg = "exception_box" \/ (arg = "no_box" /\ taken # "null")
          THEN \E b \in Boxes(pending) :
                 /\ out' = b
                 /\ live' = [live EXCEPT !["box"] = IF b = "box_ref" THEN @ + 1
                                                                      ELSE @]
          ELSE out' = NULL /\ UNCHANGED live
    /\ pending' = (pending /\ arg = "value_box")
    /\ vpc' = "returned"
    /\ UNCHANGED << arg, loc, depth, calls, badFree >>

\* Lines 1012-1033: HAKO_GetProp.  The name becomes an atom (a failure of
\* JS_ValueToAtom is not tested) and the property is read; an exception
\* gives NULL, any value is boxed.
GetProp ==
    /\ vpc = "get_prop"
    /\ \E ok \in BOOLEAN :
         IF ok THEN Set("result", REF, 1) /\ vpc' = "box_result"
                    /\ UNCHANGED << out, pending >>
               ELSE out' = NULL /\ pending' = TRUE /\ vpc' = "returned"
                    /\ UNCHANGED << loc, live >>
    /\ UNCHANGED << arg, depth, calls, badFree >>

\* Lines 1050, 1068-1070: the property name becomes an atom, JS_ATOM_NULL
\* when the conversion throws.  HAKO_DefineProp returns -1 at once for it;
\* HAKO_SetProp does not test it.
PropAtom ==
    /\ vpc \in {"set_prop", "define_prop"}
    /\ \E a \in {REF, NULL} :
         /\ pending' = (pending \/ a = NULL)
         /\ IF vpc = "define_prop" /\ a = NULL
            THEN out' = "-1" /\ vpc' = "returned" /\ UNCHANGED << loc, live >>
            ELSE Set("atom", a, IF a = REF THEN 1 ELSE 0) /\ vpc' = vpc \o "_atom"
                 /\ UNCHANGED out
    /\ UNCHANGED << arg, depth, calls, badFree >>

\* Lines 1051-1054, 1072-1106: JS_SetProperty with a copy of the value, or
\* JS_DefineProperty with the flags of the descriptor; a descriptor with a
\* getter or setter and a value or writable is refused with a TypeError
\* first.  Either way the atom is freed and 1, 0 or -1 returned.
SetOrDefine ==
    /\ vpc \in {"set_prop_atom", "define_prop_atom"}
    /\ \E r \in IF vpc = "define_prop_atom" /\ arg = "mixed" THEN {"-1"}
                  ELSE {"true", "false", "-1"} :
         /\ out' = r
         /\ pending' = (pending \/ r = "-1")
    /\ Release({"atom"})
    /\ vpc' = "returned"
    /\ UNCHANGED << arg, depth, calls, badFree >>

\* The arguments each of these entry points refuses with a thrown error:
\* a class id the runtime has registered (JS_NewClass fails, lines
\* 2078-2083), a TypedArray type out of range (lines 2141-2145, 2165-2168);
\* HAKO_Throw and HAKO_ThrowError always throw (lines 320-355).
Refused == [new_class |-> {"registered"}, new_typed_array |-> {"bad_type"},
            throw |-> {"any"}]

\* Lines 2065-2097, 2136-2172, 320-355: the value (the class constructor,
\* the TypedArray) is made, and may itself be an exception; it is boxed.
MakeValue ==
    /\ vpc \in DOMAIN Refused
    /\ \E made \in IF arg \in Refused[vpc] THEN {EXC} ELSE {REF, EXC} :
         /\ Set("result", made, IF made = REF THEN 1 ELSE 0)
         /\ pending' = (pending \/ made = EXC)
    /\ vpc' = "box_result"
    /\ UNCHANGED << arg, depth, out, calls, badFree >>

\* Lines 915-936: HAKO_NewSymbol.  The global object, its Symbol, the
\* description string and, for a global symbol, Symbol.for are fetched
\* (all but the first may be exceptions); then Symbol or Symbol.for is
\* called, which fails when one of them did.
NewSymbol ==
    /\ vpc = "new_symbol"
    /\ \E got \in [SymbolHelpers \ {"global"} -> {REF, EXC}] :
         LET used == IF arg = "global" THEN SymbolHelpers
                                       ELSE SymbolHelpers \ {"Symbol_for"}
             held(h) == h \in used /\ (h = "global" \/ got[h] = REF)
             allHeld == \A h \in used : held(h)
         IN \E called \in IF allHeld THEN {REF, EXC} ELSE {EXC} :
              /\ loc' = [l \in Locals |->
                           CASE l = "result" -> called
                             [] l \in used -> IF held(l) THEN REF ELSE EXC
                             [] OTHER -> loc[l]]
              /\ live' = [l \in Locals |->
                            IF held(l) \/ (l = "result" /\ called = REF)
                            THEN live[l] + 1 ELSE live[l]]
              /\ pending' = (pending \/ called = EXC)
    /\ vpc' = "sym_box"
    /\ UNCHANGED << arg, depth, out, calls, badFree >>

\* Lines 722-738: hako_get_symbol_key, Symbol.keyFor(value): a string for a
\* registered symbol, undefined for another symbol, a TypeError for a value
\* that is not a symbol, or an exception of the helper lookups.
SymbolKeys(a) == {EXC} \cup CASE a = "global" -> {REF}
                              [] a = "local" -> {UNDEF}
                              [] OTHER -> {}

\* Lines 954-960, 979-988: the key is fetched.  HAKO_IsGlobalSymbol frees
\* it at once and answers "global" for anything but undefined.
SymbolKey ==
    /\ vpc \in {"describe", "is_global"}
    /\ \E k \in SymbolKeys(arg) :
         /\ pending' = (pending \/ k = EXC)
         /\ IF vpc = "describe"
            THEN Set("key", k, IF k = REF THEN 1 ELSE 0) /\ vpc' = "describe_key"
                 /\ UNCHANGED out
            ELSE /\ out' = IF k # UNDEF THEN "true" ELSE "false"
                 /\ vpc' = "returned"
                 /\ UNCHANGED << loc, live >>
    /\ UNCHANGED << arg, depth, calls, badFree >>

\* Lines 961-970: JS_ToCString of the key, or of the symbol's description
\* when the key is undefined; NULL (with an exception) for an exception or
\* when the conversion fails.
SymbolDescribe ==
    /\ vpc = "describe_key"
    /\ \E desc \in IF loc["key"] = UNDEF THEN {REF, EXC} ELSE {UNDEF},
          r \in {"cstring", NULL} :
         LET source == IF loc["key"] = UNDEF THEN desc ELSE loc["key"]
             res == IF source = EXC THEN NULL ELSE r
         IN /\ out' = res
            /\ loc' = [loc EXCEPT !["description"] = desc]
            /\ live' = [live EXCEPT !["description"] = IF desc = REF THEN @ + 1 ELSE @,
                                    !["cstr"] = IF res = "cstring" THEN @ + 1 ELSE @]
            /\ pending' = (pending \/ source = EXC \/ res = NULL)
    /\ vpc' = "describe_done"
    /\ UNCHANGED << arg, depth, calls, badFree >>

\* The done: labels of HAKO_Dump (1356-1377), HAKO_NewSymbol (938-952)
\* and HAKO_GetSymbolDescriptionOrKey (972-977) and the locals they free.
CleanupOf == [d_done |-> {"error_obj", "current_error"},
              sym_done |-> SymbolHelpers,
              describe_done |-> {"key", "description"}]

Cleanup ==
    /\ vpc \in DOMAIN CleanupOf
    /\ Release(CleanupOf[vpc])
    /\ vpc' = "returned"
    /\ UNCHANGED << arg, depth, out, pending, calls, badFree >>

(***************************************************************************)
(* Host callbacks: JavaScript calls a function made by HAKO_NewFunction   *)
(* or constructs a class made by HAKO_NewClass, and QuickJS runs the      *)
(* wrapper hako_call_function or hako_class_constructor_wrapper.          *)
(***************************************************************************)
\* What the host callback may return: a box holding a value it made, the
\* box of HAKO_Throw or HAKO_ThrowError (JS_EXCEPTION, thrown), a pointer to
\* a static constant (HAKO_GetUndefined ...), NULL, or NULL after it threw
\* with HAKO_RuntimeJSThrow or after the box of HAKO_Throw failed.
CallbackReturns == {"box_ref", "box_exception", "static", "null", "null_thrown"}

\* host_call_function or host_class_constructor runs (lines 1523, 2021).
HostCallback ==
    /\ vpc = "callback"
    /\ \E r \in CallbackReturns :
         /\ out' = r
         /\ live' = [live EXCEPT !["box"] = IF r = "box_ref" THEN @ + 1 ELSE @]
         /\ pending' = (pending \/ r \in {"box_exception", "null_thrown"})
    /\ vpc' = "unbox"
    /\ UNCHANGED << arg, loc, depth, calls, badFree >>

\* Lines 1518-1535 and 2014-2031: NULL becomes undefined for a function and
\* JS_EXCEPTION for a constructor; a static constant is copied; any other
\* box is copied and js_free'd, its reference passing to QuickJS.
Unbox ==
    /\ vpc = "unbox"
    /\ out' = CASE out \in {"null", "null_thrown"} ->
                      IF arg = "constructor" THEN "js_exception" ELSE "js_undefined"
               [] out = "box_exception" -> "js_exception"
               [] OTHER -> "js_value"
    /\ live' = [live EXCEPT !["box"] = IF out = "box_ref" THEN @ - 1 ELSE @]
    /\ vpc' = "returned"
    /\ UNCHANGED << arg, loc, depth, pending, calls, badFree >>

\* Lines 366-421: HAKO_RuntimeComputeMemoryUsage.  A new object (or the
\* exception of JS_NewObject) gets the counters as properties, each set
\* consuming its number, and is boxed.
ComputeMemoryUsage ==
    /\ vpc = "memory_usage"
    /\ \E made \in {REF, EXC} :
         /\ Set("result", made, IF made = REF THEN 1 ELSE 0)
         /\ pending' = (pending \/ made = EXC)
    /\ vpc' = "box_result"
    /\ UNCHANGED << arg, depth, out, calls, badFree >>

\* Lines 424-446: HAKO_RuntimeDumpMemoryUsage.  A 1024-byte buffer from
\* js_malloc_rt, written through fmemopen; when fmemopen fails the buffer
\* is freed and NULL returned.  No exception is thrown either way.
DumpMemoryUsage ==
    /\ vpc = "dump_memory"
    /\ \E allocated, opened \in BOOLEAN :
         LET ok == allocated /\ opened
         IN /\ out' = IF ok THEN "buffer" ELSE NULL
            /\ live' = [live EXCEPT !["copy"] = IF ok THEN @ + 1 ELSE @]
    /\ vpc' = "returned"
    /\ UNCHANGED << arg, loc, depth, pending, calls, badFree >>

\* Lines 1487-1496: HAKO_NewPromiseCapability boxes the promise and both
\* resolving functions.  JS_NewPromiseCapability writes resolve_funcs only
\* when it succeeds (on out of memory QuickJS returns JS_EXCEPTION first),
\* so then two boxes hold whatever the uninitialised array held: a value
\* without a reference count, or a stale value with one.
NewPromiseCapability ==
    /\ vpc = "promise_capability"
    /\ \E made \in {REF, EXC}, stale \in {"plain", "refcounted"} :
         /\ out' = IF made = REF THEN "capability"
                   ELSE IF stale = "plain" THEN "capability_plain"
                   ELSE "capability_stale"
         /\ live' = [live EXCEPT !["box"] = IF made = REF THEN @ + 3 ELSE @]
         /\ pending' = (pending \/ made = EXC)
    /\ vpc' = "returned"
    /\ UNCHANGED << arg, loc, depth, calls, badFree >>

(***************************************************************************)
(* The job queue: HAKO_IsJobPending and HAKO_ExecutePendingJob (lines    *)
(* 988-1009).  JS_ExecutePendingJob runs the job at the head of the      *)
(* runtime's queue in the job's own context: it returns 1 and sets *pctx  *)
(* to that context, or -1 when the job threw (the exception is left       *)
(* pending there); on an empty queue it sets *pctx to NULL and returns 0. *)
(* A job may enqueue further jobs (promise reactions), up to MaxJobs.     *)
(***************************************************************************)
\* The max_jobs_to_execute the host passes.
MaxJobsArg == [negative |-> -1, zero |-> 0, one |-> 1]

\* Line 988.
IsJobPending ==
    /\ vpc = "job_pending"
    /\ out' = IF jobs # << >> THEN "true" ELSE "false"
    /\ vpc' = "returned"
    /\ UNCHANGED << arg, loc, live, depth, pending, calls, badFree, jobVars >>

\* Lines 992-994.
ExecuteStart ==
    /\ vpc = "execute_jobs"
    /\ executed' = 0
    /\ pctx' = NULL
    /\ failedIn' = NONE
    /\ vpc' = "job_loop"
    /\ UNCHANGED << arg, loc, live, depth, out, pending, calls, badFree,
                    jobs, enqueued, lastCtx >>

\* Lines 1007-1008, the loop's exit with pctx = p: *lastJobContext = pctx
\* and the count.
JobsReturn(p) == /\ lastCtx' = p
              /\ out' = "count"
              /\ vpc' = "returned"

\* (mutant) the error path returns -1 without *lastJobContext = pctx
RunJobNoErrorStore ==
    /\ vpc = "job_loop"
    /\ executed # MaxJobsArg[arg]
    /\ jobs # << >>
    /\ \E more \in IF enqueued < MaxJobs THEN {<< >>} \cup [1..1 -> Ctxs] ELSE {<< >>},
          threw \in BOOLEAN :
         LET c == Head(jobs)
         IN /\ jobs' = Tail(jobs) \o more
            /\ enqueued' = enqueued + Len(more)
            /\ pctx' = c
            /\ lastCtx' = IF threw THEN lastCtx ELSE c
            /\ IF threw
               THEN /\ out' = "error"
                    /\ failedIn' = c
                    /\ pending' = (pending \/ c = "ctx")
                    /\ vpc' = "returned"
                    /\ UNCHANGED executed
               ELSE /\ executed' = executed + 1
                    /\ UNCHANGED << out, failedIn, pending, vpc >>
    /\ UNCHANGED << arg, loc, live, depth, calls, badFree >>

\* Lines 996-1005: one JS_ExecutePendingJob while executed != max.  The job
\* at the head runs and may enqueue one more job; when it threw, -1 is
\* returned at once with its context stored.
RunJob ==
    /\ vpc = "job_loop"
    /\ executed # MaxJobsArg[arg]
    /\ jobs # << >>
    /\ \E more \in IF enqueued < MaxJobs THEN {<< >>} \cup [1..1 -> Ctxs] ELSE {<< >>},
          threw \in BOOLEAN :
         LET c == Head(jobs)
         IN /\ jobs' = Tail(jobs) \o more
            /\ enqueued' = enqueued + Len(more)
            /\ pctx' = c
            /\ lastCtx' = c
            /\ IF threw
               THEN /\ out' = "error"
                    /\ failedIn' = c
                    /\ pending' = (pending \/ c = "ctx")
                    /\ vpc' = "returned"
                    /\ UNCHANGED executed
               ELSE /\ executed' = executed + 1
                    /\ UNCHANGED << out, failedIn, pending, vpc >>
    /\ UNCHANGED << arg, loc, live, depth, calls, badFree >>

\* The queue is empty: status 0, *pctx = NULL, and the loop ends.
NoJob ==
    /\ vpc = "job_loop"
    /\ executed # MaxJobsArg[arg]
    /\ jobs = << >>
    /\ pctx' = NULL
    /\ JobsReturn(NULL)
    /\ UNCHANGED << arg, loc, live, depth, pending, calls, badFree,
                    jobs, enqueued, executed, failedIn >>

\* executed has reached max: the loop ends.
JobLimit ==
    /\ vpc = "job_loop"
    /\ executed = MaxJobsArg[arg]
    /\ JobsReturn(pctx)
    /\ UNCHANGED << arg, loc, live, depth, pending, calls, badFree,
                    jobs, enqueued, executed, pctx, failedIn >>

(***************************************************************************)
(* The host.                                                              *)
(***************************************************************************)
\* The entry points and the arguments the host may pass each.
Entries ==
    [d_start |-> {"error", "cyclic_error", "value"},
     to_json |-> {"value"},
     copy_ab |-> {"buffer", "empty", "detached", "other"},
     copy_ta |-> {"buffer", "empty", "detached", "other"},
     bjson_enc |-> {"value"},
     bjson_dec |-> {"buffer", "empty"},
     last_error |-> {"no_box", "exception_box", "value_box"},
     get_prop |-> {"value"},
     new_class |-> {"new_id", "registered"},
     new_typed_array |-> {"valid_type", "bad_type"},
     throw |-> {"any"},
     new_symbol |-> {"global", "local"},
     describe |-> {"global", "local", "not_symbol"},
     is_global |-> {"global", "local", "not_symbol"},
     callback |-> {"function", "constructor"},
     set_prop |-> {"value"},
     memory_usage |-> {"none"},
     promise_capability |-> {"none"},
     dump_memory |-> {"none"},
     define_prop |-> {"data", "accessor", "mixed"},
     job_pending |-> {"none"},
     execute_jobs |-> DOMAIN MaxJobsArg]

\* The host calls an entry point.
HostCall ==
    /\ vpc = "idle"
    /\ calls < MaxCalls
    /\ \E e \in DOMAIN Entries : \E a \in Entries[e] : vpc' = e /\ arg' = a
    /\ out' = NONE
    /\ calls' = calls + 1
    /\ UNCHANGED << loc, live, depth, pending, badFree >>

\* The host releases the result as hako.h says: HAKO_FreeCString for a C
\* string (JS_FreeCString, which drops the string's reference and cannot
\* tell Dump's static buffer from one), HAKO_FreeValuePointer for a box
\* (lines 599-606: JS_FreeValue drops the reference the boxed value seems
\* to hold, stale or not), HAKO_Free or HAKO_RuntimeFree for a buffer.
HostRelease ==
    /\ vpc = "returned"
    /\ live' = [l \in Locals |->
                  CASE l = "cstr" /\ out = "cstring" -> live[l] - 1
                    [] l = "box" /\ out = "box_ref" -> live[l] - 1
                    [] l = "box" /\ out = "capability" -> live[l] - 3
                    [] l = "copy" /\ out = "buffer" -> live[l] - 1
                    [] OTHER -> live[l]]
    /\ badFree' = (badFree \/ out \in {"static", "capability_stale"})
    /\ vpc' = "idle"
    /\ UNCHANGED << arg, loc, depth, out, pending, calls >>

Done ==
    /\ vpc = "idle"
    /\ calls = MaxCalls
    /\ UNCHANGED vars

Init ==
    /\ vpc = "idle"
    /\ arg = NONE
    /\ loc = [l \in Locals |-> UNDEF]
    /\ live = [l \in Locals |-> 0]
    /\ depth = 0
    /\ out = NONE
    /\ pending = FALSE
    /\ calls = 0
    /\ badFree = FALSE
    /\ jobs \in UNION {[1..n -> Ctxs] : n \in 0..2}
    /\ enqueued = 0
    /\ executed = 0
    /\ pctx = NULL
    /\ lastCtx = NULL
    /\ failedIn = NONE

\* The steps that leave the job queue alone.
ValueStep ==
    \/ DumpStart \/ DumpLevel \/ DumpJson \/ Cleanup
    \/ ToJson \/ BoxResult \/ CopyArrayBuffer \/ GetTypedArrayBuffer \/ CopyTypedArray
    \/ BjsonEncode \/ BjsonDecode \/ GetLastError \/ GetProp \/ PropAtom \/ SetOrDefine \/ MakeValue
    \/ ComputeMemoryUsage \/ DumpMemoryUsage \/ NewPromiseCapability
    \/ NewSymbol \/ SymbolKey \/ SymbolDescribe \/ HostCallback \/ Unbox
    \/ HostCall \/ HostRelease \/ Done

Next ==
    \/ ValueStep /\ UNCHANGED jobVars
    \/ IsJobPending \/ ExecuteStart \/ RunJob \/ NoJob \/ JobLimit

\* One thread: each entry point runs to its return, and the host callback
\* is a host function that returns.
Spec == Init /\ [][Next]_vars /\ WF_vars(Next)

=============================================================================
