---------------------------- MODULE StripContext ----------------------------
(***************************************************************************)
(* The stripper context and its allocator binding (ts_strip.c) together   *)
(* with hako's per-runtime use of it (hako.c).                            *)
(*                                                                         *)
(* tree-sitter allocates through four bridge functions that forward to    *)
(* the process-global g_current_allocator, or to libc when it is NULL.    *)
(* A context copies a user allocator; hako gives every runtime a context  *)
(* whose allocator is js_malloc_rt/js_free_rt of that runtime and keeps   *)
(* it as the runtime opaque.  The model tracks every heap block the       *)
(* context, the parser and a strip call own, and the allocator that       *)
(* allocated it, so that a block handed to a different allocator, a       *)
(* block left behind, or a binding left set, is visible in the state.     *)
(*                                                                         *)
(* The program is single-threaded and each API call runs to completion,   *)
(* so an API call is one action.  Inside it the C statements are a list  *)
(* of memory operations executed in code order by Exec; an allocation    *)
(* that may fail branches to the code's error path.                       *)
(***************************************************************************)
EXTENDS Naturals, Sequences, FiniteSets

CONSTANTS
    Runtimes,          \* JSRuntime pointers (model values)
    ResetAfterParse,   \* TRUE: ts_parser_parse resets the parser before it
                       \*   returns, so no call-scoped parser state survives
                       \*   a parse (the behaviour of the vendored tree-sitter)
    TsAllocMayFail,    \* TRUE: an allocation made by tree-sitter may return NULL
    MaxAllocFailures,  \* allocation failures allowed within one API call
    MaxEvalDepth       \* HAKO_Eval calls nested through host callbacks

ASSUME ResetAfterParse \in BOOLEAN /\ TsAllocMayFail \in BOOLEAN
ASSUME MaxAllocFailures \in Nat /\ MaxEvalDepth \in Nat

\* The caller of ts_strip(), which builds a context on the default allocator.
ONESHOT == "oneshot"
\* The process heap: default_malloc and the bridges' fallback when unbound.
LIBC == "libc"
NULL == "null"

Owners == Runtimes \cup {ONESHOT}
Allocators == Runtimes \cup {LIBC}

\* hako's ts_strip_*_wrapper pass user_data = rt to js_*_rt.
AllocatorOf(o) == IF o = ONESHOT THEN LIBC ELSE o

\* What the bridges call: ctx_* of the bound allocator, else libc.
Route(g) == IF g = NULL THEN LIBC ELSE g

(* Blocks.  "ctx" is the ts_strip_ctx_t, "parser" the TSParser, "pool"   *)
(* the buffers the parser keeps and grows across parses (stack, subtree  *)
(* pool), "scratch" the state of one parse that ts_parser_reset discards,*)
(* "tree" the TSTree, "ranges" the edit array and "out" the output.  An  *)
(* output is tagged with the HAKO_Eval nesting level n that holds it.    *)
ContextHeld == {"ctx", "parser", "pool", "scratch"}


VARIABLES
    g,          \* g_current_allocator: NULL or the allocator it points at
    opaque,     \* runtimes whose JS_GetRuntimeOpaque is a context
    evalDepth,  \* per runtime, HAKO_Eval frames holding a stripped output
    blocks,     \* live heap blocks
    badFrees,   \* history: blocks released through another allocator
    trapped,    \* history: tree-sitter dereferenced a NULL allocation
    lastCall    \* history: the last API call and the status it returned

vars == << g, opaque, evalDepth, blocks, badFrees, trapped, lastCall >>

(***************************************************************************)
(* Memory operations and their interpreter.                               *)
(***************************************************************************)
Bind == [op |-> "bind"]
Unbind == [op |-> "unbind"]
Ret(code) == [op |-> "ret", code |-> code]
\* tree-sitter allocates, grows (realloc) or frees through the bridges
TsAlloc(w) == [op |-> "ts_alloc", w |-> w]
TsGrow(w) == [op |-> "ts_grow", w |-> w]
TsFree(w) == [op |-> "ts_free", w |-> w]
\* ctx_malloc / ctx_free on the context's own allocator copy
CtxAlloc(w, onFail) == [op |-> "ctx_alloc", w |-> w, onFail |-> onFail]
CtxFree(w) == [op |-> "ctx_free", w |-> w]


BlocksOf(s, o, w) == {b \in s.blocks : b.who = o /\ b.what = w}

NewBlock(o, w, n, by) == [who |-> o, what |-> w, n |-> n, by |-> by]

\* Release every block o holds of kind w through allocator a.
ReleaseSet(s, B, a) ==
    [s EXCEPT !.blocks = @ \ B, !.bad = @ \cup {b \in B : b.by # a}]

\* ctx_free(ptr) releases the one block ptr names: the caller's, at level n.
ReleaseOwn(s, o, w, n, a) == ReleaseSet(s, {b \in BlocksOf(s, o, w) : b.n = n}, a)

Release(s, o, w, a) == ReleaseSet(s, BlocksOf(s, o, w), a)

Acquire(s, o, w, n, a) == [s EXCEPT !.blocks = @ \cup {NewBlock(o, w, n, a)}]

CanFail(s) == s.fails < MaxAllocFailures

\* An allocation by tree-sitter that returned NULL: it is not checked.
Trap(s) == [s EXCEPT !.trap = TRUE, !.stop = TRUE]

RECURSIVE Exec(_, _, _, _)
\* The final states of running ops for owner o at eval level n from s.
Exec(o, n, ops, s) ==
  IF ops = << >> \/ s.stop THEN {s}
  ELSE
    LET x == Head(ops)
        rest == Tail(ops)
        via == Route(s.g)
        tsFails == IF TsAllocMayFail /\ CanFail(s) THEN {Trap(s)} ELSE {}
    IN CASE x.op = "bind" ->
              Exec(o, n, rest, [s EXCEPT !.g = AllocatorOf(o)])
         [] x.op = "unbind" ->
              Exec(o, n, rest, [s EXCEPT !.g = NULL])
         [] x.op = "ret" ->
              {[s EXCEPT !.result = x.code, !.stop = TRUE]}
         [] x.op = "ts_alloc" ->
              Exec(o, n, rest, Acquire(s, o, x.w, 0, via)) \cup tsFails
         [] x.op = "ts_grow" ->
              Exec(o, n, rest,
                   Acquire(Release(s, o, x.w, via), o, x.w, 0, via))
                \cup tsFails
         [] x.op = "ts_free" ->
              Exec(o, n, rest, Release(s, o, x.w, via))
         [] x.op = "ctx_alloc" ->
              Exec(o, n, rest, Acquire(s, o, x.w, n, AllocatorOf(o)))
                \cup (IF CanFail(s)
                      THEN Exec(o, n, x.onFail, [s EXCEPT !.fails = @ + 1])
                      ELSE {})
         [] x.op = "ctx_free" ->
              Exec(o, n, rest, ReleaseOwn(s, o, x.w, n, AllocatorOf(o)))

\* Run ops after each of the states S, as a call made by the same caller.
\* A trap ends everything; a returned status does not stop the caller.
Then(o, n, S, ops) == UNION {Exec(o, n, ops, [s EXCEPT !.stop = s.trap]) : s \in S}

(***************************************************************************)
(* The C functions, as operation lists in code order.                     *)
(***************************************************************************)
\* ts_strip_ctx_new_with_allocator: the context from the user allocator,
\* then ts_parser_new under the binding.  ts_parser_new allocates the
\* parser and its stack and subtree pool; ts_parser_set_language fails only
\* on a grammar ABI mismatch, which is fixed at build time.
CtxNewOps ==
    << CtxAlloc("ctx", << Ret("OUT_OF_MEMORY") >>),
       Bind, TsAlloc("parser"), TsAlloc("pool"), Unbind >>

\* (mutant) ts_parser_delete called without binding the context allocator
CtxDeleteOpsUnbound ==
    << TsFree("scratch"), TsFree("pool"), TsFree("parser"), CtxFree("ctx") >>

\* ts_strip_ctx_delete: ts_parser_delete under the binding (it resets the
\* parser, then frees its buffers and itself), then the context through a
\* copy of its allocator.
CtxDeleteOps ==
    << Bind, TsFree("scratch"), TsFree("pool"), TsFree("parser"), Unbind,
       CtxFree("ctx") >>

\* ts_parser_parse_string: grows the parser's buffers, builds the parse
\* state and the tree and, in the vendored tree-sitter, resets itself.
ParseOps ==
    << TsGrow("pool"), TsAlloc("scratch"), TsAlloc("tree") >>
      \o (IF ResetAfterParse THEN << TsFree("scratch") >> ELSE << >>)

\* (mutant) the range-array failure path returns without ts_tree_delete
StripOpsTreeLeak(empty, code) ==
    IF empty
    THEN << CtxAlloc("out", << Ret("OUT_OF_MEMORY") >>), Ret("SUCCESS") >>
    ELSE << TsFree("scratch"), Bind >> \o ParseOps \o
         << CtxAlloc("ranges", << Unbind, Ret("OUT_OF_MEMORY") >>),
            CtxAlloc("out", << CtxFree("ranges"), TsFree("tree"), Unbind,
                               Ret("OUT_OF_MEMORY") >>),
            CtxFree("ranges"), TsFree("tree"), Unbind, Ret(code) >>

\* (mutant) the range-array failure path returns with the binding still set
StripOpsStaleBinding(empty, code) ==
    IF empty
    THEN << CtxAlloc("out", << Ret("OUT_OF_MEMORY") >>), Ret("SUCCESS") >>
    ELSE << TsFree("scratch"), Bind >> \o ParseOps \o
         << CtxAlloc("ranges", << TsFree("tree"), Ret("OUT_OF_MEMORY") >>),
            CtxAlloc("out", << CtxFree("ranges"), TsFree("tree"), Unbind,
                               Ret("OUT_OF_MEMORY") >>),
            CtxFree("ranges"), TsFree("tree"), Unbind, Ret(code) >>

\* ts_strip_with_ctx on an empty or a non-empty source whose traversal
\* ends in code (SUCCESS or UNSUPPORTED).  ts_parser_reset runs before
\* g_current_allocator is bound.  A failed range-array growth is ignored
\* by the code and changes no block, so it is not an operation here.
StripOps(empty, code) ==
    IF empty
    THEN << CtxAlloc("out", << Ret("OUT_OF_MEMORY") >>), Ret("SUCCESS") >>
    ELSE << TsFree("scratch"), Bind >> \o ParseOps \o
         << CtxAlloc("ranges", << TsFree("tree"), Unbind,
                                  Ret("OUT_OF_MEMORY") >>),
            CtxAlloc("out", << CtxFree("ranges"), TsFree("tree"), Unbind,
                               Ret("OUT_OF_MEMORY") >>),
            CtxFree("ranges"), TsFree("tree"), Unbind, Ret(code) >>

\* The state of a call about to start.
Begin == [g |-> g, blocks |-> blocks, bad |-> badFrees, trap |-> trapped,
          result |-> "NONE", fails |-> 0, stop |-> FALSE]

\* Make the call's final state s the program state.
Commit(s, call, who, status) ==
    /\ g' = s.g
    /\ blocks' = s.blocks
    /\ badFrees' = s.bad
    /\ trapped' = s.trap
    /\ lastCall' = [call |-> call, who |-> who, status |-> status]

Produced(s) == s.result \in {"SUCCESS", "UNSUPPORTED"}

(***************************************************************************)
(* Actions: the API calls.                                                 *)
(***************************************************************************)
\* HAKO_InitTypeStripper: nothing when the runtime already has a context;
\* otherwise a context on the runtime's allocator, stored as the opaque.
InitTypeStripper(r) ==
    \/ /\ r \in opaque
       /\ lastCall' = [call |-> "init", who |-> r, status |-> "SUCCESS"]
       /\ UNCHANGED << g, opaque, evalDepth, blocks, badFrees, trapped >>
    \/ /\ r \notin opaque
       /\ \E s \in Exec(r, 0, CtxNewOps \o << Ret("SUCCESS") >>, Begin) :
            /\ Commit(s, "init", r, s.result)
            /\ opaque' = IF s.result = "SUCCESS" THEN opaque \cup {r}
                                                 ELSE opaque
       /\ UNCHANGED evalDepth

\* HAKO_CleanupTypeStripper: ts_strip_ctx_delete and a NULL opaque.
CleanupTypeStripper(r) ==
    \/ /\ r \notin opaque
       /\ lastCall' = [call |-> "cleanup", who |-> r, status |-> "NONE"]
       /\ UNCHANGED << g, opaque, evalDepth, blocks, badFrees, trapped >>
    \/ /\ r \in opaque
       /\ \E s \in Exec(r, 0, CtxDeleteOps, Begin) :
            Commit(s, "cleanup", r, "NONE")
       /\ opaque' = opaque \ {r}
       /\ UNCHANGED evalDepth

\* HAKO_StripTypes: INVALID_ARGS without a context in the runtime opaque,
\* else ts_strip_with_ctx, whose result codes map one to one.
HakoStripTypes(r, n, empty, code) ==
    IF r \notin opaque
    THEN {[Begin EXCEPT !.result = "INVALID_ARGS"]}
    ELSE Exec(r, n, StripOps(empty, code), Begin)

\* HAKO_Eval (and HAKO_CompileToByteCode, which has the same code) on a
\* TypeScript source: HAKO_StripTypes, then on SUCCESS or UNSUPPORTED the
\* stripped text is held by this Eval frame until its done: label; on any
\* other status a SyntaxError is returned.  The frame nests when the
\* evaluated code calls a host function that evaluates again.
EvalStrip(r) ==
    /\ evalDepth[r] < MaxEvalDepth
    /\ \E empty \in BOOLEAN, code \in {"SUCCESS", "UNSUPPORTED"} :
         \E s \in HakoStripTypes(r, evalDepth[r] + 1, empty, code) :
            /\ Commit(s, "eval", r, s.result)
            /\ evalDepth' = IF Produced(s) THEN [evalDepth EXCEPT ![r] = @ + 1]
                                           ELSE evalDepth
    /\ UNCHANGED opaque

\* The done: label of that HAKO_Eval: js_free(ctx, stripped_js).
EvalDone(r) ==
    /\ evalDepth[r] > 0
    /\ LET s == ReleaseOwn(Begin, r, "out", evalDepth[r], r)
       IN Commit(s, "eval_done", r, "NONE")
    /\ evalDepth' = [evalDepth EXCEPT ![r] = @ - 1]
    /\ UNCHANGED opaque

\* ts_strip: a context on the default allocator, one strip, the delete;
\* the caller then free()s the output.
OneShot ==
    /\ \E empty \in BOOLEAN, code \in {"SUCCESS", "UNSUPPORTED"} :
         \E s1 \in Exec(ONESHOT, 0, CtxNewOps, Begin) :
            IF s1.stop
            THEN Commit(s1, "ts_strip", ONESHOT, s1.result)
            ELSE \E s \in Then(ONESHOT, 0,
                               Then(ONESHOT, 0, {s1}, StripOps(empty, code)),
                               CtxDeleteOps \o << CtxFree("out") >>) :
                   Commit(s, "ts_strip", ONESHOT, s.result)
    /\ UNCHANGED << opaque, evalDepth >>

Init ==
    /\ g = NULL
    /\ opaque = {}
    /\ evalDepth = [r \in Runtimes |-> 0]
    /\ blocks = {}
    /\ badFrees = {}
    /\ trapped = FALSE
    /\ lastCall = [call |-> "none", who |-> ONESHOT, status |-> "NONE"]

\* A trap ends the WebAssembly instance: nothing runs after it.
Next ==
    /\ ~trapped
    /\ \/ \E r \in Runtimes :
            \/ InitTypeStripper(r)
            \/ CleanupTypeStripper(r)
            \/ EvalStrip(r)
            \/ EvalDone(r)
       \/ OneShot

Spec == Init /\ [][Next]_vars

(***************************************************************************)
(* Properties.                                                            *)
(***************************************************************************)
\* Every block that has been released went back to the allocator that
\* produced it: the bridges route tree-sitter's frees through whatever
\* g_current_allocator is bound at that moment, so a parser block freed
\* while another runtime's allocator, or none, is bound corrupts a heap.
FreedByOwner == badFrees = {}

\* Between API calls every block is accounted for: the context, parser and
\* parser buffers of a runtime exist exactly while its opaque holds the
\* context; trees and range arrays never outlive a call, on the error
\* paths included; and each HAKO_Eval frame that took a stripped output
\* holds exactly one until its done: label frees it.
Accounted ==
    /\ \A b \in blocks :
         /\ b.what \in ContextHeld => b.who \in opaque
         /\ b.what \notin {"tree", "ranges"}
         /\ b.what = "out" => b.who \in Runtimes /\ b.n \in 1..evalDepth[b.who]
    /\ \A r \in opaque : \A w \in {"ctx", "parser", "pool"} :
         BlocksOf([blocks |-> blocks], r, w) # {}
    /\ \A r \in Runtimes : \A d \in 1..evalDepth[r] :
         Cardinality({b \in BlocksOf([blocks |-> blocks], r, "out") : b.n = d}) = 1

\* The binding is neutral between calls: every exit path of
\* ts_strip_ctx_new_with_allocator, ts_strip_ctx_delete and
\* ts_strip_with_ctx leaves g_current_allocator NULL, so no later
\* tree-sitter use is routed into a context that may be gone.
NeutralBinding == g = NULL

=============================================================================
