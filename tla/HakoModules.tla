----------------------------- MODULE HakoModules -----------------------------
(***************************************************************************)
(* Bytecode and modules in hako.c: HAKO_CompileToByteCode, then           *)
(* HAKO_EvalByteCode on the buffer it returned, with the hooks QuickJS    *)
(* calls back while it compiles or links a module: the import-attribute   *)
(* check, hako_normalize_module and hako_load_module (which compiles a    *)
(* source through hako_compile_module and hako_module_set_import_meta).    *)
(*                                                                         *)
(* The C functions are step actions over a pc and a stack of return       *)
(* points; a hook is called from the step of the QuickJS call that runs   *)
(* it.  Each C local that holds an owned value or buffer is a local here:  *)
(* UNDEF (JS_UNDEFINED or NULL), EXC (JS_EXCEPTION) or REF; live[l]       *)
(* counts the live references to what was created for l.  The host reads *)
(* the pending exception after each call (HAKO_GetLastError) and releases *)
(* what it was given (HAKO_FreeValuePointer, HAKO_Free).  Allocation      *)
(* failures of jsvalue_to_heap are left out here (see HakoEval); the      *)
(* build is WASI, where use_realpath has no effect.                        *)
(***************************************************************************)
EXTENDS Integers, Sequences

CONSTANTS
    Calls,              \* the host's arguments, see CallShape in the MC module
    NormalizeResults,   \* what host_normalize_module may return: NULL or NAME
    ModuleSources       \* what host_load_module may return: a type ("null"
                        \* for a NULL record) and whether its data is set

NULL == "NULL"
UNDEF == "undefined"
EXC == "exception"
REF == "ref"
NAME == "name"
OK == "ok"
FAIL == "fail"
NONE == "none"

Locals == {"stripped_js", "compiled_obj", "js_bytecode_buf",
           "module_name", "meta_obj", "tab", "js_module_name",
           "module_source", "source_code", "func_val",
           "obj", "result", "module_namespace"}

VARIABLES
    pc,         \* the next step of the running function
    stack,      \* the return points of its callers
    call,       \* the host's arguments
    loc,        \* the locals
    live,       \* live references to what was created for each local
    isModule,   \* is_module of HAKO_CompileToByteCode
    i,          \* the loop index of hako_module_check_attributes
    ret,        \* what the last function returned: OK (0 or a pointer),
                \* FAIL (-1 or NULL), or NONE before the first
    box,        \* what HAKO_EvalByteCode's box holds: NULL, EXC or a local
    excPending  \* an exception is pending in the context

vars == << pc, stack, call, loc, live, isModule, i, ret, box, excPending >>

\* ends_with_ts and ends_with_module_extension (lines 114-146) on the
\* extension of the filename.
EndsWithTs(f) == f \in {"ts", "mts"}
EndsWithModuleExtension(f) == f \in {"mjs", "mts"}

\* ts_strip_with_ctx's exits (ts_strip.c 864-941): the result, and whether
\* *js_out holds a buffer.  *js_out is NULL on every failure.  PARSE_FAILED
\* needs a cancellation flag, which is never set, and hako passes valid
\* arguments, so INVALID_INPUT is unreachable.
TsStripExits == {[res |-> "SUCCESS", out |-> TRUE],
                 [res |-> "UNSUPPORTED", out |-> TRUE],
                 [res |-> "OUT_OF_MEMORY", out |-> FALSE]}

\* (mutant) the switch without its UNSUPPORTED case, which then falls to
\* the default
HakoStatusNoUnsupported(res) ==
    CASE res = "SUCCESS" -> "SUCCESS"
      [] res = "INVALID_INPUT" -> "INVALID_ARGS"
      [] res = "PARSE_FAILED" -> "PARSE_FAILED"
      [] res = "OUT_OF_MEMORY" -> "OUT_OF_MEMORY"
      [] OTHER -> "PARSE_FAILED"

\* Lines 497-510: the status HAKO_StripTypes maps a result to.
HakoStatus(res) ==
    CASE res = "SUCCESS" -> "SUCCESS"
      [] res = "INVALID_INPUT" -> "INVALID_ARGS"
      [] res = "PARSE_FAILED" -> "PARSE_FAILED"
      [] res = "UNSUPPORTED" -> "UNSUPPORTED"
      [] res = "OUT_OF_MEMORY" -> "OUT_OF_MEMORY"
      [] OTHER -> "PARSE_FAILED"

\* Lines 484-495: HAKO_StripTypes; INVALID_ARGS when the runtime has no
\* stripper context.
StripOutcomes(ready) ==
    IF ready THEN {[st |-> HakoStatus(e.res), out |-> e.out] : e \in TsStripExits}
             ELSE {[st |-> "INVALID_ARGS", out |-> FALSE]}

\* A function call: control moves to entry, and returns to back.
CallTo(entry, back) == /\ pc' = entry
                       /\ stack' = << back >> \o stack
Return == /\ pc' = Head(stack)
          /\ stack' = Tail(stack)

\* The release of the done: labels: every local of ls that holds a
\* reference gives it up and becomes UNDEF.
Release(ls) ==
    /\ live' = [l \in Locals |-> IF l \in ls /\ loc[l] = REF THEN live[l] - 1
                                                           ELSE live[l]]
    /\ loc' = [l \in Locals |-> IF l \in ls THEN UNDEF ELSE loc[l]]

(***************************************************************************)
(* HAKO_CompileToByteCode (lines 1820-1907).                              *)
(***************************************************************************)
\* Lines 1834-1839: a NULL argument throws.
CompileArgs ==
    /\ pc = "c_args"
    /\ \/ /\ ~call.validArgs
          /\ excPending' = TRUE
          /\ pc' = "c_done"
       \/ /\ call.validArgs
          /\ pc' = "c_strip"
          /\ UNCHANGED excPending
    /\ UNCHANGED << stack, call, loc, live, isModule, i, ret, box >>

\* Lines 1841-1868: strip a .ts file or with the strip flag.  SUCCESS and
\* UNSUPPORTED keep the output; on any other status a buffer is freed
\* with js_free_rt, stripped_js keeps its value, and control goes to done:.
CompileStrip ==
    /\ pc = "c_strip"
    /\ LET should == call.strip \/ EndsWithTs(call.file)
       IN \/ /\ ~should
             /\ pc' = "c_detect"
             /\ UNCHANGED << loc, live, excPending >>
          \/ /\ should
             /\ \E o \in StripOutcomes(call.stripper) :
                  LET kept == o.st \in {"SUCCESS", "UNSUPPORTED"}
                  IN /\ loc' = [loc EXCEPT !["stripped_js"] = IF o.out THEN REF ELSE UNDEF]
                     /\ live' = [live EXCEPT !["stripped_js"] =
                                   IF o.out /\ kept THEN @ + 1 ELSE @]
                     /\ pc' = IF kept THEN "c_detect" ELSE "c_done"
                     /\ excPending' = ~kept
    /\ UNCHANGED << stack, call, isModule, i, ret, box >>

\* Lines 1870-1879: module detection; JS_DetectModule may say either.
CompileDetect ==
    /\ pc = "c_detect"
    /\ \E detected \in BOOLEAN :
         isModule' = \/ call.moduleFlag
                     \/ /\ call.detect
                        /\ EndsWithModuleExtension(call.file) \/ detected
    /\ pc' = "c_eval"
    /\ UNCHANGED << stack, call, loc, live, i, ret, box, excPending >>

\* Line 1881: JS_Eval with JS_EVAL_FLAG_COMPILE_ONLY.  Parsing a module
\* whose import carries attributes calls the attribute check, whose
\* failure makes JS_Eval fail; otherwise it may throw a SyntaxError or
\* yield the compiled module or function.
CompileEval ==
    /\ pc = "c_eval"
    /\ \/ /\ isModule /\ call.attrs # << >>
          /\ ret = NONE
          /\ CallTo("a_start", "c_eval")
          /\ i' = 1
          /\ UNCHANGED << loc, live, excPending >>
       \/ /\ ret = FAIL
          /\ loc' = [loc EXCEPT !["compiled_obj"] = EXC]
          /\ pc' = "c_done"
          /\ UNCHANGED << stack, live, i, excPending >>
       \/ /\ ret # FAIL /\ (isModule /\ call.attrs # << >> => ret = OK)
          /\ \/ /\ loc' = [loc EXCEPT !["compiled_obj"] = EXC]
                /\ excPending' = TRUE
                /\ pc' = "c_done"
                /\ UNCHANGED stack
             \/ /\ loc' = [loc EXCEPT !["compiled_obj"] = REF]
                /\ IF isModule THEN CallTo("m_name", "c_meta")
                               ELSE pc' = "c_write" /\ UNCHANGED stack
                /\ UNCHANGED excPending
          /\ live' = [live EXCEPT !["compiled_obj"] =
                        IF loc'["compiled_obj"] = REF THEN @ + 1 ELSE @]
          /\ UNCHANGED i
    /\ UNCHANGED << call, isModule, ret, box >>
\* Lines 1884-1885: a failed import.meta setup ends the call.
CompileMeta ==
    /\ pc = "c_meta"
    /\ pc' = IF ret = FAIL THEN "c_done" ELSE "c_write"
    /\ UNCHANGED << stack, call, loc, live, isModule, i, ret, box, excPending >>

\* Lines 1887-1894: JS_WriteObject, or an InternalError when it fails.
CompileWrite ==
    /\ pc = "c_write"
    /\ \/ /\ loc' = [loc EXCEPT !["js_bytecode_buf"] = REF]
          /\ live' = [live EXCEPT !["js_bytecode_buf"] = @ + 1]
          /\ UNCHANGED excPending
       \/ /\ excPending' = TRUE
          /\ UNCHANGED << loc, live >>
    /\ pc' = "c_done"
    /\ UNCHANGED << stack, call, isModule, i, ret, box >>

\* Lines 1896-1901, the done: label: stripped_js and compiled_obj are
\* freed when set; the buffer goes to the host, which reads the pending
\* exception when it is NULL.
CompileDone ==
    /\ pc = "c_done"
    /\ Release({"stripped_js", "compiled_obj"})
    /\ pc' = "e_args"
    /\ UNCHANGED << stack, call, isModule, i, ret, box, excPending >>

(***************************************************************************)
(* hako_module_set_import_meta (lines 148-199).                           *)
(***************************************************************************)
\* Lines 156-163: the module name as a C string; NULL when
\* JS_AtomToCString runs out of memory, which throws.
MetaName ==
    /\ pc = "m_name"
    /\ \/ /\ excPending' = TRUE
          /\ pc' = "m_done"
          /\ UNCHANGED << loc, live >>
       \/ /\ loc' = [loc EXCEPT !["module_name"] = REF]
          /\ live' = [live EXCEPT !["module_name"] = @ + 1]
          /\ pc' = "m_meta"
          /\ UNCHANGED excPending
    /\ ret' = FAIL
    /\ UNCHANGED << stack, call, isModule, i, box >>

\* Lines 165-190: the URL is built in a fixed buffer (pstrcat bounds it);
\* JS_GetImportMeta may throw; url and main are defined, and the result
\* of those definitions is not looked at.
MetaObject ==
    /\ pc = "m_meta"
    /\ \/ /\ excPending' = TRUE
          /\ UNCHANGED << loc, live, ret >>
       \/ /\ loc' = [loc EXCEPT !["meta_obj"] = REF]
          /\ live' = [live EXCEPT !["meta_obj"] = @ + 1]
          /\ ret' = OK
          /\ UNCHANGED excPending
    /\ pc' = "m_done"
    /\ UNCHANGED << stack, call, isModule, i, box >>

\* Lines 192-198, the done: label.
MetaDone ==
    /\ pc = "m_done"
    /\ Release({"module_name", "meta_obj"})
    /\ Return
    /\ UNCHANGED << call, isModule, i, ret, box, excPending >>

(***************************************************************************)
(* hako_module_check_attributes (lines 1554-1595).                        *)
(***************************************************************************)
\* Lines 1563-1567: the own enumerable string keys of the attributes.
AttrsEnumerate ==
    /\ pc = "a_start"
    /\ \/ /\ excPending' = TRUE
          /\ ret' = FAIL
          /\ pc' = "a_done"
          /\ UNCHANGED << loc, live >>
       \/ /\ loc' = [loc EXCEPT !["tab"] = REF]
          /\ live' = [live EXCEPT !["tab"] = @ + 1]
          /\ pc' = "a_loop"
          /\ UNCHANGED << ret, excPending >>
    /\ UNCHANGED << stack, call, isModule, i, box >>

\* Lines 1569-1587: one key; only "type" is accepted.  Both exits throw.
AttrsKey ==
    /\ pc = "a_loop"
    /\ i <= Len(call.attrs)
    /\ \/ /\ excPending' = TRUE                 \* JS_AtomToCString fails
          /\ ret' = FAIL
          /\ pc' = "a_done"
          /\ UNCHANGED i
       \/ /\ call.attrs[i] # "type"
          /\ excPending' = TRUE
          /\ ret' = FAIL
          /\ pc' = "a_done"
          /\ UNCHANGED i
       \/ /\ call.attrs[i] = "type"
          /\ i' = i + 1
          /\ UNCHANGED << pc, ret, excPending >>
    \* the C string is freed on both paths that get one
    /\ UNCHANGED << stack, call, loc, live, isModule, box >>

\* Lines 1571 and 1589-1594: the loop ends with 0; the table is freed.
AttrsDone ==
    /\ \/ pc = "a_loop" /\ i > Len(call.attrs) /\ ret' = OK
       \/ pc = "a_done" /\ UNCHANGED ret
    /\ Release({"tab"})
    /\ Return
    /\ UNCHANGED << call, isModule, i, box, excPending >>
(***************************************************************************)
(* The module hooks QuickJS calls while it links an imported module.      *)
(***************************************************************************)
\* Lines 290-309: hako_normalize_module.  The host's name is copied with
\* js_strdup for QuickJS, which frees it; the host's buffer is freed at
\* done: on every path.  A NULL from the host is returned as it is.
NormalizeModule ==
    /\ pc = "n_start"
    /\ \E r \in NormalizeResults :
         IF r = NULL
         THEN /\ ret' = FAIL
              /\ UNCHANGED << loc, live, excPending >>
         ELSE \/ /\ excPending' = TRUE            \* js_strdup fails
                 /\ ret' = FAIL
                 /\ UNCHANGED << loc, live >>
              \/ /\ loc' = [loc EXCEPT !["js_module_name"] = REF]
                 /\ live' = [live EXCEPT !["js_module_name"] = @ + 1]
                 /\ ret' = OK
                 /\ UNCHANGED excPending
    /\ Return
    /\ UNCHANGED << call, isModule, i, box >>

\* Lines 244-278: the loader throws a TypeError for a NULL record, a NULL
\* source text, a NULL precompiled module and an error record.
LoadThrows(src) == ~(src.type \in {"string", "precompiled"} /\ src.data)

\* Lines 233-284: hako_load_module.  host_load_module gives a record the
\* loader owns: source text (which it owns too), a precompiled module, or
\* an error.  Source text is compiled; every other outcome but a valid
\* precompiled module throws a TypeError.
LoadModule ==
    /\ pc = "l_start"
    /\ \E src \in ModuleSources :
         IF src.type = "null"
         THEN /\ excPending' = LoadThrows(src)
              /\ ret' = FAIL
              /\ pc' = "l_done"
              /\ UNCHANGED << stack, loc, live >>
         ELSE LET code == src.type = "string" /\ src.data
              IN /\ loc' = [loc EXCEPT !["module_source"] = REF,
                                       !["source_code"] = IF code THEN REF ELSE UNDEF]
                 /\ live' = [live EXCEPT !["module_source"] = @ + 1,
                                         !["source_code"] = IF code THEN @ + 1 ELSE @]
                 /\ IF code THEN CallTo("cm_eval", "l_done")
                            ELSE pc' = "l_done" /\ UNCHANGED stack
                 /\ ret' = IF src.type = "precompiled" /\ src.data THEN OK ELSE FAIL
                 /\ excPending' = (excPending \/ (~code /\ LoadThrows(src)))
    /\ UNCHANGED << call, isModule, i, box >>

\* Lines 280-285, the done: label of hako_load_module.
LoadDone ==
    /\ pc = "l_done"
    /\ Release({"source_code", "module_source"})
    /\ Return
    /\ UNCHANGED << call, isModule, i, ret, box, excPending >>

\* Lines 203-215 and 223: hako_compile_module compiles the text as a
\* module.  With JS_EVAL_TYPE_MODULE and COMPILE_ONLY, JS_Eval yields a
\* module or throws, so the non-module check of lines 217-221 never fires.
CompileModule ==
    /\ pc = "cm_eval"
    /\ \/ /\ excPending' = TRUE
          /\ ret' = FAIL
          /\ pc' = "cm_done"
          /\ UNCHANGED << stack, loc, live >>
       \/ /\ loc' = [loc EXCEPT !["func_val"] = REF]
          /\ live' = [live EXCEPT !["func_val"] = @ + 1]
          /\ CallTo("m_name", "cm_done")
          /\ UNCHANGED << ret, excPending >>
    /\ UNCHANGED << call, isModule, i, box >>

\* Lines 224-230: the module pointer (or NULL) is returned and func_val is
\* released; the context keeps the module.
CompileModuleDone ==
    /\ pc = "cm_done"
    /\ Release({"func_val"})
    /\ Return
    /\ UNCHANGED << call, isModule, i, ret, box, excPending >>
(***************************************************************************)
(* HAKO_EvalByteCode (lines 1909-1973), on the buffer HAKO_CompileToByteCode *)
(* returned.  The host has read the pending exception of the compile.      *)
(***************************************************************************)
\* Lines 1916-1919: a NULL buffer is a boxed TypeError.
EvalArgs ==
    /\ pc = "e_args"
    /\ LET none == loc["js_bytecode_buf"] = UNDEF
       IN /\ box' = IF none THEN EXC ELSE NULL
          /\ excPending' = none
          /\ pc' = IF none THEN "e_done" ELSE "e_read"
    /\ ret' = NONE
    /\ UNCHANGED << stack, call, loc, live, isModule, i >>

\* Lines 1921-1937: JS_ReadObject gives back the compiled module or
\* function, or throws.  With load_only the object is returned boxed.
EvalRead ==
    /\ pc = "e_read"
    /\ \/ /\ box' = EXC
          /\ excPending' = TRUE
          /\ pc' = "e_done"
          /\ UNCHANGED << loc, live >>
       \/ /\ live' = [live EXCEPT !["obj"] = @ + 1]
          /\ IF call.loadOnly
             THEN /\ box' = "obj"
                  /\ pc' = "e_done"
                  /\ UNCHANGED loc
             ELSE /\ loc' = [loc EXCEPT !["obj"] = REF]
                  /\ pc' = IF isModule THEN "e_module" ELSE "e_script"
                  /\ UNCHANGED box
          /\ UNCHANGED excPending
    /\ UNCHANGED << stack, call, isModule, i, ret >>

\* Lines 1939-1942: JS_EvalFunction takes obj's reference.  Linking an
\* import normalizes its name (with hako_normalize_module when the loader
\* was enabled with use_custom_normalize) and loads it.
EvalModule ==
    /\ pc = "e_module"
    /\ loc' = [loc EXCEPT !["obj"] = UNDEF]
    /\ live' = [live EXCEPT !["obj"] = @ - 1]
    /\ IF ~call.imports THEN pc' = "e_run" /\ UNCHANGED stack
       ELSE IF call.customNormalize THEN CallTo("n_start", "e_load")
       ELSE CallTo("l_start", "e_linked")
    /\ UNCHANGED << call, isModule, i, ret, box, excPending >>

\* QuickJS calls the loader with the normalized name unless normalizing
\* returned NULL.
EvalLoad ==
    /\ pc = "e_load"
    /\ IF ret = FAIL THEN pc' = "e_run" /\ UNCHANGED stack
                     ELSE CallTo("l_start", "e_linked")
    /\ UNCHANGED << call, loc, live, isModule, i, ret, box, excPending >>

\* QuickJS frees the name hako_normalize_module allocated for it.
EvalLinked ==
    /\ pc = "e_linked"
    /\ Release({"js_module_name"})
    /\ pc' = "e_run"
    /\ UNCHANGED << stack, call, isModule, i, ret, box, excPending >>

\* Lines 1941-1948: the module runs, unless a hook failed, in which case
\* JS_EvalFunction returns JS_EXCEPTION with whatever the hook left
\* pending; an exception is returned boxed.
EvalRun ==
    /\ pc = "e_run"
    /\ \/ /\ ret = FAIL
          /\ box' = EXC
          /\ pc' = "e_done"
          /\ UNCHANGED << loc, live, excPending >>
       \/ /\ ret # FAIL
          /\ box' = EXC
          /\ excPending' = TRUE
          /\ pc' = "e_done"
          /\ UNCHANGED << loc, live >>
       \/ /\ ret # FAIL
          /\ loc' = [loc EXCEPT !["result"] = REF]
          /\ live' = [live EXCEPT !["result"] = @ + 1]
          /\ pc' = "e_namespace"
          /\ UNCHANGED << box, excPending >>
    /\ UNCHANGED << stack, call, isModule, i, ret >>

\* Lines 1950-1956: the namespace (or the exception of getting it) is
\* returned boxed, and result is released.
EvalNamespace ==
    /\ pc = "e_namespace"
    /\ \/ /\ box' = EXC
          /\ excPending' = TRUE
          /\ live' = [live EXCEPT !["result"] = @ - 1]
       \/ /\ box' = "module_namespace"
          /\ live' = [live EXCEPT !["result"] = @ - 1, !["module_namespace"] = @ + 1]
          /\ UNCHANGED excPending
    /\ loc' = [loc EXCEPT !["result"] = UNDEF]
    /\ pc' = "e_done"
    /\ UNCHANGED << stack, call, isModule, i, ret >>

\* Lines 1958-1962: a script runs; its result is returned boxed.
EvalScript ==
    /\ pc = "e_script"
    /\ \/ /\ box' = EXC
          /\ excPending' = TRUE
          /\ live' = [live EXCEPT !["obj"] = @ - 1]
       \/ /\ box' = "result"
          /\ live' = [live EXCEPT !["obj"] = @ - 1, !["result"] = @ + 1]
          /\ UNCHANGED excPending
    /\ loc' = [loc EXCEPT !["obj"] = UNDEF]
    /\ pc' = "e_done"
    /\ UNCHANGED << stack, call, isModule, i, ret >>

\* Lines 1964-1972, the done: label.
EvalDone ==
    /\ pc = "e_done"
    /\ Release({"obj", "result", "module_namespace"})
    /\ pc' = "host"
    /\ UNCHANGED << stack, call, isModule, i, ret, box, excPending >>

\* The host releases what it was given: HAKO_FreeValuePointer on the box
\* (lines 599-606) and HAKO_Free on the bytecode buffer (line 645).
HostRelease ==
    /\ pc = "host"
    /\ live' = [l \in Locals |-> IF l = box \/ (l = "js_bytecode_buf" /\ loc[l] = REF)
                                 THEN live[l] - 1 ELSE live[l]]
    /\ loc' = [loc EXCEPT !["js_bytecode_buf"] = UNDEF]
    /\ pc' = "end"
    /\ UNCHANGED << stack, call, isModule, i, ret, box, excPending >>

Finished ==
    /\ pc = "end"
    /\ UNCHANGED vars

Init ==
    /\ pc = "c_args"
    /\ stack = << >>
    /\ call \in Calls
    /\ loc = [l \in Locals |-> UNDEF]
    /\ live = [l \in Locals |-> 0]
    /\ isModule = FALSE
    /\ i = 1
    /\ ret = NONE
    /\ box = NULL
    /\ excPending = FALSE

Next ==
    \/ CompileArgs \/ CompileStrip \/ CompileDetect \/ CompileEval
    \/ CompileMeta \/ CompileWrite \/ CompileDone
    \/ MetaName \/ MetaObject \/ MetaDone
    \/ AttrsEnumerate \/ AttrsKey \/ AttrsDone
    \/ NormalizeModule \/ LoadModule \/ LoadDone
    \/ CompileModule \/ CompileModuleDone
    \/ EvalArgs \/ EvalRead \/ EvalModule \/ EvalLoad \/ EvalLinked
    \/ EvalRun \/ EvalNamespace \/ EvalScript \/ EvalDone
    \/ HostRelease \/ Finished

\* One thread runs each call to its return; the hooks are host functions
\* that return (see HostCall).
Spec == Init /\ [][Next]_vars /\ WF_vars(Next)

(***************************************************************************)
(* Properties.                                                            *)
(***************************************************************************)
\* The function running at the bottom of the stack: the entry point.
Outer == IF stack = << >> THEN pc ELSE stack[Len(stack)]

CompilePcs == {"c_args", "c_strip", "c_detect", "c_eval", "c_meta",
               "c_write", "c_done"}

\* The locals whose reference count differs from what the host holds:
\* one reference for each local in kept, none for the others.
Stray(kept) == {l \in Locals : live[l] # IF l \in kept THEN 1 ELSE 0}

\* The bytecode buffer, when the compile produced one.
Buffer == {l \in {"js_bytecode_buf"} : loc[l] = REF}

Compile == INSTANCE HostCall
    WITH phase <- CASE Outer \in CompilePcs -> "running"
                    [] pc = "e_args" -> "returned"
                    [] OTHER -> "consumed",
         result <- IF pc = "e_args" THEN loc["js_bytecode_buf"] ELSE NONE,
         pending <- pc = "e_args" /\ excPending,
         stray <- IF pc = "e_args" THEN Stray(Buffer) ELSE {},
         Results <- {REF, UNDEF}, Failures <- {UNDEF}

Evaluate == INSTANCE HostCall
    WITH phase <- CASE pc = "host" -> "returned"
                    [] pc = "end" -> "consumed"
                    [] OTHER -> "running",
         result <- IF pc = "host" THEN box ELSE NONE,
         pending <- pc = "host" /\ excPending,
         stray <- CASE pc = "host" -> Stray({box} \cup Buffer)
                    [] pc = "end" -> Stray({})
                    [] OTHER -> {},
         Results <- {EXC, "obj", "result", "module_namespace"},
         Failures <- {EXC}

\* HAKO_CompileToByteCode and then HAKO_EvalByteCode each keep the
\* entry-point contract of HostCall, hooks and nested module compiles
\* included: each returns once; at its return every buffer and value
\* it or a hook acquired is released exactly once or is the host's (no
\* done: label frees what an earlier step freed, as the fatal-strip path
\* of HAKO_CompileToByteCode risks); a NULL buffer or a JS_EXCEPTION box
\* comes with an exception pending; and once the host has released the
\* box and the buffer nothing is left.
HostContract == Compile!Spec /\ Evaluate!Spec

\* A failure reaches the host with an exception pending, which it reads
\* with HAKO_GetLastError: a NULL bytecode buffer, and a box holding
\* JS_EXCEPTION, including one that JS_EvalFunction returns because a
\* module hook returned NULL or -1 (QuickJS expects the hook to throw).
FailureReported ==
    /\ pc = "e_args" /\ loc["js_bytecode_buf"] = UNDEF => excPending
    /\ pc = "host" /\ box = EXC => excPending
=============================================================================
