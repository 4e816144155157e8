# TLA+ models of hako and its TypeScript type stripper

This directory holds TLA+ models of the C sources under `src/`, the TLC
configurations that check them, and `PROJECT.json`. `PROJECT.json` lists the
components, the runs, the mutants, the source lines each definition models,
the findings and the hazards.

## The system

`src/` has two parts.

* **The type stripper** (`src/ts_strip/ts_strip.c`, `ts_strip.h`). It turns
  TypeScript into JavaScript by erasure: it blanks every byte of type-only
  syntax, so the output has the same length and lines as the input.
  `ts_strip_with_ctx` runs in five steps:
  1. It parses the source with tree-sitter's TypeScript grammar.
  2. It walks the tree with a recursive visitor (`visit_node` and its
     helpers).
  3. The visitor appends *edits* `(flag, start, end)` to a growable int
     array (`range_array_*`). The flag is a plain blank, or "replace the
     first byte with `;`".
  4. `build_output` replays the edits over the source.
  5. It returns SUCCESS, UNSUPPORTED (constructs that cannot be erased were
     found), OUT_OF_MEMORY, PARSE_FAILED or INVALID_INPUT.

  A context (`ts_strip_ctx_t`) holds the parser and a user allocator.
  tree-sitter's allocations are routed to that allocator through the global
  `g_current_allocator`.
* **The QuickJS embedding** (`src/hako.c`, `hako.h`), compiled to
  WebAssembly. It keeps one stripper context per runtime, as the runtime
  opaque (`HAKO_InitTypeStripper`). It strips `.ts` sources, or sources
  evaluated with the strip flag, before `HAKO_Eval` and
  `HAKO_CompileToByteCode` compile them. On UNSUPPORTED it compiles the
  partly erased output anyway.

`spec.md` describes the stripper's intended behaviour: the decision table,
the ASI rule, the namespace runtime-evidence rule and the testable
properties. The test program `suite.c` and the demonstration `example.c`
are not part of the system.

## Modules

| Module | Models | Source |
|---|---|---|
| `Cst` | The tree the parser hands over. A node has a kind, a field name, its children and a `[start, end)` byte range. `Parse` lays out a tree written as terms and computes the offsets. Each token is one byte, and trivia (a space or newline) belongs to no node, as in tree-sitter. Bytes are abstracted to the classes the stripper tells apart: newline, `;`, `:`, `(`, `!`, space and any other byte `c`. | external (tree-sitter) |
| `OutputBuilder` | `build_output` and `get_space_char`, as recursive operators over byte sequences. This covers the clamp of a start to the previous end, the `;` written for a REPLACE_WITH_SEMI edit, and the cut at `in_len`. | `ts_strip.c` 18–21, 734–797 |
| `TsStrip` | One call of `ts_strip_with_ctx`, described below. | `ts_strip.c` 13–16, 50–60, 122–732, 860–942 |
| `TsStripMC` | The programs the runs check. Each statement is written as the tree tree-sitter TSX produces for the source shown in the comment beside it. | — |
| `StripContext` | The stripper context, the allocator binding and hako's per-runtime contexts. It tracks every heap block and the allocator that made it, across runtimes and nested evaluations. | `ts_strip.c` 50–119, 799–955; `hako.c` 96–111, 451–511, 766–798, 895–898 |
| `HakoEval` | One `HAKO_Eval`, step by step, with the references each local holds. | `hako.c` 312–318, 747–913 |
| `HakoPropertyNames` | One `HAKO_GetOwnPropertyNames`: the atom table, the flag filter and the boxes written to `ptrs`. | `hako.c` 1118–1216 |
| `HakoModules` | `HAKO_CompileToByteCode`, then `HAKO_EvalByteCode` on the buffer it returned, with the module hooks QuickJS calls back. The hooks are `hako_module_check_attributes`, `hako_normalize_module` and `hako_load_module`, which uses `hako_compile_module` and `hako_module_set_import_meta`. | `hako.c` 114–309, 484–510, 599–606, 1554–1595, 1820–1973 |
| `HakoValues` | The entry points that hand the host a C string, a buffer or a box. These are `HAKO_Dump` with its error/cause loop, `HAKO_ToJson`, `HAKO_CopyArrayBuffer`, `HAKO_CopyTypedArrayBuffer`, `HAKO_BJSON_Encode`, `HAKO_BJSON_Decode`, `HAKO_GetLastError`, `HAKO_GetProp`, `HAKO_SetProp`, `HAKO_DefineProp`, `HAKO_NewClass`, `HAKO_NewTypedArray(WithBuffer)`, `HAKO_Throw(Error)`, `HAKO_NewSymbol`, `HAKO_GetSymbolDescriptionOrKey`, `HAKO_IsGlobalSymbol`, `HAKO_IsJobPending`, `HAKO_ExecutePendingJob`, `HAKO_RuntimeComputeMemoryUsage`, `HAKO_RuntimeDumpMemoryUsage` and `HAKO_NewPromiseCapability`. It also covers the wrappers QuickJS runs when JavaScript calls a host callback: `hako_call_function` and `hako_class_constructor_wrapper`. A host calls them one after another and releases each result with the free function `hako.h` names. | `hako.c` 313–319, 366–446, 645–651, 695–738, 915–1009, 1012–1033, 1045–1106, 1230–1378, 1487–1496, 1518–1535, 1612–1642, 1656–1741, 2014–2031, 2065–2172; `hako.h` 464–476, 540–569 |
| `HostCall` | The abstract contract of one entry point, as `hako.h` states it. The call returns once. Every reference it acquired is then freed or handed to the host. A failure result comes with a pending exception. Later the host consumes the result. `HakoPropertyNames` and `HakoModules` are shown to implement it. | `hako.h` |
| `StripContextMC`, `HakoEvalMC`, `HakoPropertyNamesMC`, `HakoModulesMC`, `HakoValuesMC` | The constants of the runs: runtimes as model values with symmetry, and every combination of call arguments. | — |

### How `TsStrip` corresponds to the code

* **State.** The variables are the fields of `parse_ctx_t`:
  * `ranges` and `capacity` (the range array);
  * `seenJs`, `hasUnsupported`, `parentStmt` and `inFnBody`;
  * the result and output of the call.

  Two history variables exist only for properties: `flagged` (nodes that
  set `has_unsupported`) and `dropped` (edits lost to a failed realloc).
  `allocFailures` counts the allocation failures the run allows.
* **The recursion** is an explicit stack of frames. A handler action pops
  the frame of the node it handles. It then pushes, in code order, the calls
  that handler makes:
  * visits of children;
  * `blank_range`/`blank_semi` (frame `push`);
  * the restore of `in_function_body` (frame `depth`);
  * when the node was visited from `visit_children` or from the top-level
    loop and returns VISITED_JS, the caller's `seen_js = true` (frame
    `seen`).

  So `blank_stmt` reads `seen_js` and `in_function_body` at the point of the
  walk where the C code reads them, and `RecordEdit` appends edits in the
  order the code appends them.
* **Actions.** There is one action per branch of `visit_node`:
  * `VisitError`, `VisitAmbient` and `VisitTypeDeclaration`;
  * `VisitImport`, `VisitImportAlias` and `VisitExport`;
  * `VisitVariableDeclarator` and `VisitDeclaration`;
  * `VisitFunctionLike`, `VisitArrowFunction`, `VisitBinaryExpression` and
    `VisitClassDeclaration`;
  * `VisitFieldDefinition`, `VisitEnum`, `VisitLegacyModule` and
    `VisitNamespace`;
  * `VisitAsExpression`, `VisitTypeAssertion`, `VisitNonNull`, `VisitCall`,
    `VisitTypeNode` and `VisitDefault`.

  Each handler's loop over the children is a sequence of frames.
  `has_runtime_values` and `has_param_props` are pure operators, and
  `HasRuntimeValues` is recursive.
* **The range recorder.** `RecordEdit` is `range_array_push`. It has three
  disjuncts:
  * room in the array;
  * a full array that doubles;
  * a full array whose realloc fails, which drops the edit. Nothing in the
    code looks at the `false` that push returns.
* **The call.**
  * `StripCall` covers the empty source (a 1-byte buffer, or
    OUT_OF_MEMORY), then the parse and the range array allocation (or
    OUT_OF_MEMORY).
  * `VisitTopLevel` is one iteration of the top-level loop; it sets
    `parent_statement`.
  * `Finish` runs `build_output` and picks the result; the output
    allocation may fail.
  * `Returned` is the terminal state after the call returns. All parse
    state is local to the call, so one call is the whole behaviour.

### How the context and hako modules correspond to the code

* **`StripContext`.**
  * *State.* `g` is `g_current_allocator`, and `opaque` is the set of runtimes whose opaque holds a context. `evalDepth` counts the `HAKO_Eval` frames of each runtime that hold a stripped output. `blocks` is the set of live heap blocks, each tagged with its owner, kind, eval level and the allocator that made it. `badFrees` (blocks released to another allocator) and `trapped` are history.
  * *Operations.* Every API call runs to completion on one thread, so each call is one action:
    * `InitTypeStripper` and `CleanupTypeStripper`;
    * `HakoStripTypes`;
    * `EvalStrip`/`EvalDone`, the strip and the free of the output in one `HAKO_Eval` frame;
    * `OneShot`, which is `ts_strip`.
  * *Inside an action.* The C statements of a call are a list of memory operations in code order: bind, unbind, tree-sitter alloc/grow/free, context alloc/free, return. The recursive interpreter `Exec` runs them. An allocation that fails continues on the code's error path (`CtxAlloc`'s `onFail`). tree-sitter's own allocations go through `Route(g)`, the binding in force at that moment. `ResetAfterParse = TRUE` is the vendored tree-sitter: `ts_parser_parse` resets the parser at the end of every parse, so the `ts_parser_reset` that `ts_strip_with_ctx` runs before binding the allocator (`ts_strip.c` 884) has nothing to free. That early reset is therefore not listed as a hazard; it would matter only with a tree-sitter that keeps per-parse state.
* **`HakoEval` and `HakoPropertyNames`.** `pc` names the next statement group, and each group is one action. Each local that can own a value is an entry of `loc`: UNDEF, EXC or REF. `refs` counts the live references to the value created for each local. Each QuickJS call's outcome is chosen from what that call can return: an exception, a promise, a plain value or a module. `Done` is the `done:` label.
* **`HakoModules`.**
  * Two host calls, in the order a host makes them. `HAKO_CompileToByteCode` runs first. Then `HAKO_EvalByteCode` runs on the buffer it returned, which may be NULL.
  * Between the calls, the host reads the pending exception. At the end it releases the box and the buffer.
  * The hooks are called from the step of the QuickJS call that runs them:
    * the attribute check while `JS_Eval` parses a module with import attributes;
    * the normalizer and the loader while `JS_EvalFunction` links the module's import.
  * `CallTo`/`Return` keep a stack of return points. `live` counts what each local acquired, and `excPending` records whether an exception is pending.
  * `TsStripExits` and `HakoStatus` give the strip outcomes a caller of `HAKO_StripTypes` can see.
* **Refinement of `HostCall`.**
  * `HakoPropertyNames` maps to one call. The phase is "returned" once `pc` is. The stray set names the kinds of resource still held: atoms, the table, `ptrs`, or a lost value.
  * `HakoModules` maps to two instances, `Compile` and `Evaluate`.
    * `Outer`, the bottom of the return stack, says which call is running, even while a hook runs inside it.
    * `Stray(kept)` is the set of locals whose count differs from what the host is meant to hold.
    * A NULL buffer or a boxed JS_EXCEPTION is a failure, and must come with `excPending`.
  * The runs check `CallContract` and `HostContract`, the abstract `Spec` under each mapping, as temporal properties with the fairness below.
* **`HakoValues`.**
  * `vpc` names the next step of the running entry point, or "idle" between calls. `arg` is what the value argument is, abstracted to what the code tests: an Error or not; an ArrayBuffer with data, empty (NULL data) or detached; a box holding JS_EXCEPTION or another value.
  * `loc` and `live` track the references held for `HAKO_Dump`'s `error_obj` and `current_error`, `HAKO_ToJson`'s `result`, `HAKO_CopyTypedArrayBuffer`'s `buffer`, and what the host holds: `cstr`, `box` and `copy`. A reference made and released, or consumed, within one statement group is not counted. Examples are the JSON string converted by `JS_ToCString`, and a property value stored by `JS_SetPropertyStr`.
  * `DumpLevel` is one pass of the `while (depth < 3)` loop. Getters that throw leave an exception pending. `pending` is carried from call to call. `HAKO_GetLastError` takes it, and `NoException` is the value `JS_GetException` returns when nothing is pending.
  * Entry points that make a value and box it share steps. `MakeValue` covers the class constructor, the TypedArrays and the thrown errors; `Refused` lists the arguments each one rejects with a thrown error. `BoxResult` is `jsvalue_to_heap`. `Cleanup` is the `done:` label of `HAKO_Dump`, `HAKO_NewSymbol` and `HAKO_GetSymbolDescriptionOrKey`, with the locals each one frees.
  * `HostCallback` is the host's `host_call_function` or `host_class_constructor`. It may return a value box, the JS_EXCEPTION box of `HAKO_Throw`, a static constant, or NULL (with or without having thrown). `Unbox` is the wrapper: NULL becomes undefined for a function and JS_EXCEPTION for a constructor. A static constant is copied. Any other box is copied and freed, and its reference passes to QuickJS.
  * The job queue. `jobs` is the runtime's queue, each job named by its context (the one the host calls on, or another). `RunJob` is one `JS_ExecutePendingJob` of the loop: the job at the head runs in its context, may enqueue another job (up to `MaxJobs`), and may throw, which leaves the exception pending in that context and returns -1 with `pctx` stored. `NoJob` is the call that finds the queue empty: QuickJS sets `pctx` to NULL and returns 0. `JobLimit` is the loop test failing when `executed` reaches the limit. `JobsReturn` is the store of `pctx` and the return of the count. `MaxJobsArg` is the limit the host passes: -1, 0 or 1.
  * `PropAtom` converts the property name of `HAKO_SetProp` or `HAKO_DefineProp` to an atom, held in the local `atom`. Only `HAKO_DefineProp` tests for JS_ATOM_NULL. `SetOrDefine` sets or defines the property and frees the atom, also on the path that refuses a descriptor with both accessors and a value.
  * `Causes`: in a cyclic cause chain the cause is always the same Error again.
  * `ComputeMemoryUsage` boxes a new object of counters, or the exception of `JS_NewObject`. `DumpMemoryUsage` returns the report buffer, or NULL when `js_malloc_rt` or `fmemopen` fails (the buffer is then freed). The text of the report is not modelled.
  * `HostRelease` calls `HAKO_FreeCString`, `HAKO_FreeValuePointer`, `HAKO_Free` or `HAKO_RuntimeFree`, as `hako.h` says for the result. `badFree` records a `HAKO_FreeCString` of `HAKO_Dump`'s static `error_buffer`, and a `HAKO_FreeValuePointer` of a box holding an uninitialized value.
  * `NewPromiseCapability` is `HAKO_NewPromiseCapability`: three boxes on success. On failure QuickJS returns JS_EXCEPTION without writing the resolving functions, and the code boxes the stack garbage anyway. Reading it is undefined, so the model chooses whether the garbage looks like a plain value or a refcounted one.

## Runs

| Run (cfg) | Module | Expect | Bounds | What it shows |
|---|---|---|---|---|
| `strip_oom` (`StripOom.cfg`) | `TsStripMC` | pass | Every sequence of at most two of 36 statement shapes, plus the empty source, and every triple from an ASI-sensitive set (statements ending without `;`, erased statements and suffixes, `(y);`). `InitCapacity = 3` (one edit fits, then the array doubles). `MaxAllocFailures = 1`. | `EditsOrdered`: edits are recorded in source order and never overlap, which is what `build_output`'s clamp needs to stay inside its buffer. `RangesFitCapacity`: every recorded int lies inside the allocated array through every doubling. `OutputIsBlanking`: output has the source's length, keeps every newline, and changes bytes only to a space or `;`. `UnsupportedLeftVerbatim`: constructs flagged UNSUPPORTED are byte-for-byte unchanged; this matters because hako compiles UNSUPPORTED output. `SuccessErasesExactlyTypes`: on SUCCESS of a call whose allocations all succeeded, every byte of TypeScript-only syntax is erased and every other byte is copied. The reference list of TypeScript-only syntax comes from the spec's decision table. It is not asked of the generic call that tree-sitter misreads as shifts, where the tree does not say which bytes are types. `AsiPreserved`: no erasure lets a top-level statement starting with `(` continue the previous expression, also when an allocation fails. |
| `erasure_spec` (`ErasureSpec.cfg`) | `TsStripMC` | violation | `export interface`, `import type`, `public m() {}`, `abstract class`, `namespace N { type A = B; }`, `a << b > c;`. | `ErasureFollowsSpec` fails. It is the conjunction of three statements of the spec. TypeScript survives in SUCCESS output. A type-only namespace is UNSUPPORTED and kept. Plain JavaScript `a << b > c;` is rewritten to `a       c;`. |
| `alloc_failure_ignored` | `TsStripMC` | violation | As `strip_oom`. | `AllocationFailureReported` fails: a dropped edit still ends in SUCCESS. |
| `context_ownership` (`StripContext.cfg`) | `StripContextMC` | pass | Two runtimes (symmetric), one allocation failure per call, `HAKO_Eval` nested two deep, and `ts_strip` in between. | `FreedByOwner`: every block goes back to the allocator that made it. `Accounted`: context blocks live exactly while the opaque holds the context; no tree or range array outlives a call; each eval frame holds exactly one output. `NeutralBinding`: no call leaves `g_current_allocator` bound. |
| `eval_ownership` (`HakoEval.cfg`) | `HakoEvalMC` | pass | All 16 combinations of strip, module flag, detection and compile-only. Every outcome of every QuickJS call. | `NoOverRelease`: no value is released more often than it was acquired. `OwnershipAtReturn`: at return, only the returned box holds a reference. |
| `eval_compile_only_module` (`ModuleCompileOnly.cfg`) | `HakoEvalMC` | violation | The same calls. | `EvalReturns` fails: a module evaluated with the compile-only flag reaches `JS_GetModuleNamespace(ctx, NULL)`. |
| `property_names` (`PropertyNames.cfg`) | `HakoPropertyNamesMC` | pass | Every atom table of up to 3 atoms (int, string, symbol), all 8 flag combinations, no allocation failure. | `PtrsInBounds`: `ptrs` is never written past `total_props`. `CallContract`: the call implements `HostCall`. When it returns, every atom, the table and any array not handed over are freed, and no value made from an atom is lost. |
| `hako_modules` (`HakoModules.cfg`) | `HakoModulesMC` | pass | All 3,072 argument combinations: file extension, the flags, stripper present or not, import attributes of up to two keys, import or none, custom normalizer. Every answer of the host loader. A normalizer that finds the name. | `HostContract`: both calls implement `HostCall`. When each returns, every buffer and value of the call and of its hooks is released exactly once or handed to the host. This includes the strip output that the fatal path frees before `done:`. A NULL buffer or a boxed JS_EXCEPTION comes with a pending exception. |
| `normalize_unreported` (`NormalizeUnreported.cfg`) | `HakoModulesMC` | violation | The same, with a normalizer that may return NULL. | `FailureReported` fails: `hako_normalize_module` passes the host's NULL on without throwing, so the host gets JS_EXCEPTION with nothing pending. |
| `hako_values` (`HakoValues.cfg`) | `HakoValuesMC` | pass | Two calls in a row. Each call is any entry point or host callback, with every argument kind (including a cyclic cause chain) and every outcome of the QuickJS calls. The box allocation does not fail. | `ValuesBalanced`: no count goes negative. Between calls, once the host has released its result, no reference is held. The loop's frees, the `done:` labels, the cleanup of the typed-array buffer and the hand-over into and out of boxes all balance. `CallsReturn`: every entry point returns to the host, including `HAKO_Dump` on a cyclic cause chain and `HAKO_ExecutePendingJob` with any limit. `JobsRunAsReported`: when `HAKO_ExecutePendingJob` returns -1, `*out_last_job_ctx` is the context of the job that threw, where the host finds the exception. When it returns a count short of the limit, the queue is empty. |
| `dump_static_free` (`DumpStaticFree.cfg`) | `HakoValuesMC` | violation | The same. | `FreedAsAllocated` fails: when `JSON.stringify` throws, `HAKO_Dump` returns its static `error_buffer`, and the host frees it with `HAKO_FreeCString` as `hako.h` says. A failed `HAKO_NewPromiseCapability` also breaks it (see Findings). |
| `jobs_as_documented` (`JobsAsDocumented.cfg`) | `HakoValuesMC` | violation | The same. | `JobsAsDocumented` fails. It states `hako.h`'s two sentences on `HAKO_ExecutePendingJob`. A limit of 0 ("unlimited") runs no job and leaves the queue as it was. After a call that ran jobs and drained the queue, `*out_last_job_ctx` is NULL, not the last job's context. |

The passing runs between them fire every action and every disjunct of
each module's `Next`.

### Mutants

Each passing property has a mutant in `PROJECT.json`: a plausible bug in
the mapped code that TLC then catches. The mutants are:

* a wrong flag value for the `;` edit;
* the `as` suffix blanked before its operand is visited;
* the `;` written without skipping its byte;
* an instantiated namespace blanked as well as flagged;
* the growth test `size > capacity` instead of `size + 3 > capacity`;
* `blank_type_anno` stepping back over any byte;
* `blank_stmt` without the `;` repair;
* `ts_strip_ctx_delete` freeing the parser without binding the allocator;
* the tree not deleted on a failed output allocation;
* an error path that keeps the binding;
* `func_obj` not reset after `JS_EvalFunction`;
* the local namespace not freed after the then-function takes its copy;
* the tagged-integer branch without its `continue`;
* an excluded string not freed;
* `HAKO_StripTypes` without its UNSUPPORTED case;
* `HAKO_Dump`'s loop ending without freeing `current_error`;
* `HAKO_Dump`'s loop descending without `depth++`;
* `HAKO_ExecutePendingJob` returning -1 without storing `pctx`.

### Findings

Details are in `PROJECT.json`.

* `visit_binary_expression`'s repair of mis-parsed generic calls fires on
  plain JavaScript shifts.
* `has_runtime_values` is applied to the namespace node, whose body block
  always counts as evidence. So no namespace with a body is ever erased,
  contrary to the spec's Scenario F.
* These are never erased: `export interface`, `import type` (the code asks
  for a field `import_clause` that does not exist), accessibility modifiers
  on methods, and `abstract`.
* A failed range-array realloc is ignored. The spec says it propagates
  OutOfMemory.
* `HAKO_Eval` with a module source and the compile-only flag passes a NULL
  module to `JS_GetModuleNamespace`.
* `hako_normalize_module` returns the host's NULL without throwing. Every
  other failure path of the module hooks throws.
* `HAKO_Dump` returns a static buffer when serialisation fails. `hako.h`
  says the caller frees the result with `HAKO_FreeCString`.
* `HAKO_ExecutePendingJob` runs no job for a limit of 0, which `hako.h`
  calls unlimited. After draining the queue it reports a NULL last-job
  context.
* `HAKO_NewPromiseCapability` boxes the resolving functions even when
  `JS_NewPromiseCapability` fails and leaves them unwritten. The host then
  frees uninitialized values with `HAKO_FreeValuePointer`, as `hako.h` says.

`PROJECT.json`'s hazards record what TLC shows outside the checked bounds:
* ASI inside function bodies, which the spec leaves out of its rule;
* the out-of-memory leaks of `jsvalue_to_heap` and of the property-name
  array (with `BoxMayFail = TRUE`, `ValuesBalanced` fails after 5 states);
* exceptions `HAKO_Dump` leaves pending;
* NULL with nothing pending from the buffer copies of an empty ArrayBuffer;
* `HAKO_ExecutePendingJob` storing through a NULL `out_last_job_ctx`,
  which `hako.h` allows;
* `HAKO_RuntimeDumpMemoryUsage`'s fixed 1024-byte report buffer, which
  truncates the report and may leave it unterminated, depending on the libc;
* `HAKO_GetLastError`'s test for JS_NULL;
* host callbacks that return NULL: a constructor then unwinds with no
  exception pending, and a function that threw returns undefined with its
  exception still pending;
* `HAKO_GetProp` and `HAKO_SetProp` not testing `JS_ValueToAtom`;
* `HAKO_IsGlobalSymbol` answering "global" for a non-symbol;
* `HAKO_FreeRuntime`, which `hako.h` says frees all resources, does not
  delete the runtime's stripper context.

## Bounds and why they suffice

* **Tree size and shapes.** Every handler's code path is a shape in the
  library: each `visit_node` branch, each CASE arm, both outcomes of every
  guard. Pairs of statements give every handler a predecessor that did or
  did not set `seen_js`, which is the state the ASI choice depends on.
  Triples give the ASI property its three actors: an expression ending
  without `;`, an erased statement or suffix, and a `(` statement.
* **Capacity.** `InitCapacity = 3` makes the second edit of a program grow
  the array, so growth and the failed realloc happen on every program with
  two edits. Larger capacities are used where growth is not the question.
* **Allocation failures.** One failure per call reaches each allocation
  site, and each site has its own error path.
* **Bytes.** Byte classes keep exactly the distinctions the code tests for,
  so one-byte tokens lose nothing the properties can see.
* **Runtimes and nesting.** Two runtimes are enough to bind one runtime's
  allocator while the other's blocks exist. Nesting depth 2 gives an inner
  `HAKO_Eval` that strips while the outer frame holds its output.
* **Atoms.** Three atoms give every pair of kinds in both orders, so a
  branch that writes twice, or skips its `continue`, overruns `ptrs`.
* **Host calls.** Two calls of `HakoValues` in a row let a result, or an
  exception left pending by the first, meet the second. `HAKO_GetLastError`
  then sees each kind of state the other calls leave. The Dump loop runs to
  its depth bound of 2 within one call. With a cyclic cause chain, only that
  bound ends the loop, which is what `CallsReturn` checks.
* **Jobs.** The queue starts with up to two jobs, in either context, and
  one running job may enqueue one more (`MaxJobs = 1`). So one call can
  drain a queue, stop at a limit of 1 with a job left, or fail on a job of
  either context after another ran. A second call then meets what the
  first left. The bound on enqueued jobs is also what lets a negative
  limit return; the code has none.
* **Imports.** One import is enough. A hook's failure reaches the host the
  same way whichever import fails.

## Fairness

`TsStrip`, `HakoEval`, `HakoPropertyNames`, `HakoModules` and `HakoValues` have weak
fairness on `Next`. This is justified by how the code runs:
* the program has one thread;
* each entry point runs to its return, without suspension;
* the host hooks are host functions that return.

`EvalReturns`, `CallsReturn` and the two `HostCall` refinements are the
properties that rely on it. `HostCall` itself asks weak fairness only of
`Return`. Whether the host ever consumes a result is up to the host.
`StripContext` checks safety only.

## Not modelled, and why

* PARSE_FAILED and INVALID_INPUT. `ts_parser_parse_string` returns NULL only
  with a cancellation flag or timeout, which this code never sets. The
  callers pass non-null arguments.
* The parser itself. Trees are inputs, written as tree-sitter produces
  them. Its allocation failures are a hazard, because tree-sitter is not
  under `src/`.
* UTF-8 multi-byte blanking. `get_space_char` treats every byte alike; byte
  classes cover this.
* Offsets at or above 2^31 bytes, and recursion depth (see `hazards`).
* The spec's idempotence property. It needs the output to be re-parsed.
* The JavaScript that QuickJS runs, and QuickJS itself. Each QuickJS call is
  the set of outcomes it can return.
* The rest of `hako.c`. These are one-call wrappers over QuickJS with no
  state of their own:
  * the primitive constructors and `HAKO_GetPropNumber`;
  * `HAKO_Call`, the type tests (`HAKO_TypeOf`, `HAKO_GetLength`) and the
    promise accessors other than `HAKO_NewPromiseCapability`;
  * the class finalizer and gc_mark wrappers, which the GC runs.
