------------------------------ MODULE HakoEval ------------------------------
(***************************************************************************)
(* HAKO_Eval (hako.c): one evaluation, step by step, with the references  *)
(* it acquires.  Every QuickJS call is a step whose outcome (exception,   *)
(* promise, plain value, module, failed allocation) is chosen from what   *)
(* that call can return.  The JavaScript the call runs may re-enter the   *)
(* API, but it cannot touch this frame's locals, so nested calls are left *)
(* out.                                                                    *)
(*                                                                         *)
(* Each local of the C function that can hold an owned value is a local  *)
(* here.  A local holds UNDEF (JS_UNDEFINED or NULL), EXC (JS_EXCEPTION,  *)
(* not reference counted) or REF, the one owned value the code creates   *)
(* for it: the code assigns each local at most once.  refs[l] counts the  *)
(* live references to the value created for l, whoever holds them; the   *)
(* heap box jsvalue_to_heap returns is the caller's.                     *)
(***************************************************************************)
EXTENDS Integers

CONSTANTS
    EvalCalls,      \* the calls: [strip, module, detect, compileOnly]
    HeapMayFail     \* TRUE: js_malloc in jsvalue_to_heap may return NULL

ASSUME HeapMayFail \in BOOLEAN

NULL == "NULL"
UNDEF == "undefined"
EXC == "exception"
REF == "ref"

\* The locals of HAKO_Eval that own a value; then_atom is a JSAtom.
Locals == {"stripped_js", "func_obj", "eval_result", "module_namespace",
           "then_resolve_module_namespace", "new_promise", "then_atom"}

VARIABLES
    pc,         \* the next statement group
    call,       \* the arguments of this call
    isModule,   \* is_module
    module,     \* module != NULL
    loc,        \* the locals
    refs,       \* live references to the value created for each local
    evalKind,   \* what eval_result is: "promise" or another value
    result      \* the returned JSValue*: NULL, or a box holding EXC or a local's value

vars == << pc, call, isModule, module, loc, refs, evalKind, result >>

Acquire(l) == /\ loc' = [loc EXCEPT ![l] = REF]
              /\ refs' = [refs EXCEPT ![l] = 1]

\* jsvalue_to_heap(v) for v the value of local l (or EXC when l = EXC):
\* the box, or NULL when js_malloc fails, which drops v.
Boxes(l) == {IF l = EXC THEN EXC ELSE l} \cup (IF HeapMayFail THEN {NULL} ELSE {})

(***************************************************************************)
(* Steps.                                                                  *)
(***************************************************************************)
\* Lines 766-798: HAKO_StripTypes on a .ts file or with the strip flag.
\* SUCCESS and UNSUPPORTED keep the output; any other status returns a
\* boxed SyntaxError at once, without the done: label.
StripStep ==
    /\ pc = "strip"
    /\ \/ /\ ~call.strip
          /\ pc' = "detect"
          /\ UNCHANGED << loc, refs, result >>
       \/ /\ call.strip
          /\ Acquire("stripped_js")
          /\ pc' = "detect"
          /\ UNCHANGED result
       \/ /\ call.strip
          /\ \E b \in Boxes(EXC) : result' = b
          /\ pc' = "returned"
          /\ UNCHANGED << loc, refs >>
    /\ UNCHANGED << call, isModule, module, evalKind >>

\* Lines 800-808: module detection from the extension or the syntax.
Detect ==
    /\ pc = "detect"
    /\ \E detected \in BOOLEAN :
         isModule' = (call.module \/ (call.detect /\ detected))
    /\ pc' = IF isModule' /\ ~call.compileOnly THEN "compile" ELSE "eval"
    /\ UNCHANGED << call, module, loc, refs, evalKind, result >>

\* Lines 810-835: compile the module; an exception or a non-module value
\* is returned boxed.  JS_VALUE_GET_PTR of a module value is never NULL.
Compile ==
    /\ pc = "compile"
    /\ \/ /\ loc' = [loc EXCEPT !["func_obj"] = UNDEF]
          /\ \E b \in Boxes(EXC) : result' = b
          /\ pc' = "done"
          /\ UNCHANGED << refs, module >>
       \/ /\ Acquire("func_obj")
          /\ module' = TRUE
          /\ pc' = "eval_function"
          /\ UNCHANGED result
       \/ /\ refs' = [refs EXCEPT !["func_obj"] = 0]   \* freed at line 821
          /\ loc' = [loc EXCEPT !["func_obj"] = UNDEF]
          /\ \E b \in Boxes(EXC) : result' = b
          /\ pc' = "done"
          /\ UNCHANGED module
    /\ UNCHANGED << call, isModule, evalKind >>

\* (mutant) func_obj is not reset to JS_UNDEFINED after JS_EvalFunction
EvalFunctionNoReset ==
    /\ pc = "eval_function"
    /\ \E k \in {EXC, "promise", "value"} :
         /\ evalKind' = k
         /\ IF k = EXC
            THEN /\ loc' = [loc EXCEPT !["eval_result"] = EXC]
                 /\ refs' = [refs EXCEPT !["func_obj"] = @ - 1]
            ELSE /\ loc' = [loc EXCEPT !["eval_result"] = REF]
                 /\ refs' = [refs EXCEPT !["func_obj"] = @ - 1, !["eval_result"] = 1]
    /\ pc' = "classify"
    /\ UNCHANGED << call, isModule, module, result >>

\* Lines 837-838: JS_EvalFunction takes over func_obj's reference.
EvalFunction ==
    /\ pc = "eval_function"
    /\ \E k \in {EXC, "promise", "value"} :
         /\ evalKind' = k
         /\ IF k = EXC
            THEN /\ loc' = [loc EXCEPT !["eval_result"] = EXC, !["func_obj"] = UNDEF]
                 /\ refs' = [refs EXCEPT !["func_obj"] = @ - 1]
            ELSE /\ loc' = [loc EXCEPT !["eval_result"] = REF, !["func_obj"] = UNDEF]
                 /\ refs' = [refs EXCEPT !["func_obj"] = @ - 1, !["eval_result"] = 1]
    /\ pc' = "classify"
    /\ UNCHANGED << call, isModule, module, result >>

\* Lines 839-841: JS_Eval of a script, or of anything with the compile-only
\* flag, which yields the compiled function or module.
EvalScript ==
    /\ pc = "eval"
    /\ \E k \in IF call.compileOnly THEN {EXC, "value"}
                                   ELSE {EXC, "promise", "value"} :
         /\ evalKind' = k
         /\ IF k = EXC
            THEN /\ loc' = [loc EXCEPT !["eval_result"] = EXC]
                 /\ UNCHANGED refs
            ELSE Acquire("eval_result")
    /\ pc' = "classify"
    /\ UNCHANGED << call, isModule, module, result >>

\* Lines 843-859 and 889-893: an exception or a non-promise is returned boxed; for a
\* module that is its namespace, JS_GetModuleNamespace(ctx, module).
Classify ==
    /\ pc = "classify"
    /\ \/ /\ evalKind = EXC
          /\ \E b \in Boxes(EXC) : result' = b
          /\ loc' = [loc EXCEPT !["eval_result"] = UNDEF]
          /\ pc' = "done"
          /\ UNCHANGED refs
       \/ /\ evalKind = "value"
          /\ ~isModule
          /\ \E b \in Boxes("eval_result") : result' = b
          /\ loc' = [loc EXCEPT !["eval_result"] = UNDEF]
          /\ pc' = "done"
          /\ UNCHANGED refs
       \/ /\ evalKind = "value"
          /\ isModule
          /\ ~module
          /\ pc' = "crashed"          \* module is NULL: dereferenced
          /\ UNCHANGED << loc, refs, result >>
       \/ /\ evalKind = "value"
          /\ isModule
          /\ module
          /\ \/ /\ loc' = [loc EXCEPT !["module_namespace"] = UNDEF]
                /\ \E b \in Boxes(EXC) : result' = b
                /\ UNCHANGED refs
             \/ /\ refs' = [refs EXCEPT !["module_namespace"] = 1]
                /\ loc' = [loc EXCEPT !["module_namespace"] = UNDEF]
                /\ \E b \in Boxes("module_namespace") : result' = b
          /\ pc' = "done"
       \/ /\ evalKind = "promise"
          /\ pc' = IF isModule THEN "namespace" ELSE "done"
          /\ IF isModule
             THEN UNCHANGED << loc, result >>
             ELSE /\ \E b \in Boxes("eval_result") : result' = b
                  /\ loc' = [loc EXCEPT !["eval_result"] = UNDEF]
          /\ UNCHANGED refs
    /\ UNCHANGED << call, isModule, module, evalKind >>

\* Lines 863-870: the namespace the returned promise will resolve to.
Namespace ==
    /\ pc = "namespace"
    /\ \/ /\ loc' = [loc EXCEPT !["module_namespace"] = UNDEF]
          /\ \E b \in Boxes(EXC) : result' = b
          /\ pc' = "done"
          /\ UNCHANGED refs
       \/ /\ Acquire("module_namespace")
          /\ pc' = "then_function"
          /\ UNCHANGED result
    /\ UNCHANGED << call, isModule, module, evalKind >>

\* (mutant) the local namespace is dropped without JS_FreeValue
ThenFunctionKeepsNamespace ==
    /\ pc = "then_function"
    /\ \/ /\ loc' = [loc EXCEPT !["module_namespace"] = UNDEF,
                                !["then_resolve_module_namespace"] = UNDEF]
          /\ refs' = [refs EXCEPT !["module_namespace"] = @ - 1]
          /\ \E b \in Boxes(EXC) : result' = b
          /\ pc' = "done"
       \/ /\ loc' = [loc EXCEPT !["module_namespace"] = UNDEF,
                                !["then_resolve_module_namespace"] = REF]
          /\ refs' = [refs EXCEPT !["then_resolve_module_namespace"] = 1]
          /\ pc' = "invoke"
          /\ UNCHANGED result
    /\ UNCHANGED << call, isModule, module, evalKind >>

\* Lines 872-881: a C function closing over a duplicate of the namespace;
\* the local reference is then released.
ThenFunction ==
    /\ pc = "then_function"
    /\ \/ /\ loc' = [loc EXCEPT !["module_namespace"] = UNDEF,
                                !["then_resolve_module_namespace"] = UNDEF]
          /\ refs' = [refs EXCEPT !["module_namespace"] = @ - 1]
          /\ \E b \in Boxes(EXC) : result' = b
          /\ pc' = "done"
       \/ /\ loc' = [loc EXCEPT !["module_namespace"] = UNDEF,
                                !["then_resolve_module_namespace"] = REF]
          \* the function's data holds its own duplicate of the namespace
          /\ refs' = [refs EXCEPT !["module_namespace"] = @ - 1,
                                  !["then_resolve_module_namespace"] = 1]
          /\ pc' = "invoke"
          /\ UNCHANGED result
    /\ UNCHANGED << call, isModule, module, evalKind >>

\* Lines 883-888: promise.then(resolve) through the "then" atom; whatever
\* JS_Invoke returns, exception included, is returned boxed.
Invoke ==
    /\ pc = "invoke"
    /\ \E ok \in BOOLEAN :
         /\ loc' = [loc EXCEPT !["then_atom"] = REF, !["new_promise"] = UNDEF]
         /\ refs' = [refs EXCEPT !["then_atom"] = 1,
                                 !["new_promise"] = IF ok THEN 1 ELSE 0]
         /\ \E b \in Boxes(IF ok THEN "new_promise" ELSE EXC) : result' = b
    /\ pc' = "done"
    /\ UNCHANGED << call, isModule, module, evalKind >>

\* Lines 895-912, the done: label: every local that is not undefined is
\* released.
Done ==
    /\ pc = "done"
    /\ refs' = [l \in Locals |-> IF loc[l] = REF THEN refs[l] - 1 ELSE refs[l]]
    /\ loc' = [l \in Locals |-> UNDEF]
    /\ pc' = "returned"
    /\ UNCHANGED << call, isModule, module, evalKind, result >>

\* The call has returned; the state stays.
Returned ==
    /\ pc \in {"returned", "crashed"}
    /\ UNCHANGED vars

Init ==
    /\ pc = "strip"
    /\ call \in EvalCalls
    /\ isModule = FALSE
    /\ module = FALSE
    /\ loc = [l \in Locals |-> UNDEF]
    /\ refs = [l \in Locals |-> 0]
    /\ evalKind = "none"
    /\ result = NULL

Next ==
    \/ StripStep \/ Detect \/ Compile \/ EvalFunction \/ EvalScript
    \/ Classify \/ Namespace \/ ThenFunction \/ Invoke \/ Done \/ Returned

Spec == Init /\ [][Next]_vars /\ WF_vars(Next)

(***************************************************************************)
(* Properties.                                                            *)
(***************************************************************************)
\* No value is released more often than it was acquired: the done: label
\* frees every local that is not undefined, so a local whose reference was
\* handed to JS_EvalFunction, JS_NewCFunctionData or jsvalue_to_heap must
\* have been reset to JS_UNDEFINED first.
NoOverRelease == \A l \in Locals : refs[l] >= 0

\* When HAKO_Eval returns, every value it acquired has been released,
\* except the one in the returned box, which the caller owns with
\* exactly one reference.
OwnershipAtReturn ==
    pc = "returned" =>
        \A l \in Locals : refs[l] = IF result = l THEN 1 ELSE 0

\* HAKO_Eval returns: no path dereferences a NULL module pointer.
EvalReturns == <>(pc = "returned")
=============================================================================
