------------------------------ MODULE TsStrip ------------------------------
(***************************************************************************)
(* One call of ts_strip_with_ctx (src/ts_strip/ts_strip.c) on a parsed     *)
(* tree: the recursive-descent visitor, the range recorder it appends      *)
(* edits to, and build_output.                                             *)
(*                                                                         *)
(* The C recursion is run on an explicit stack of frames.  A handler       *)
(* action pops the frame of the node it handles and pushes, in the order   *)
(* the C code performs them, the calls it makes: visits of children,       *)
(* blank_range/blank_semi calls (frame "push"), the restore of             *)
(* in_function_body (frame "depth"), and, when the node was visited from   *)
(* visit_children or from the top-level loop and returned VISITED_JS, the  *)
(* "seen_js = true" that follows the return (frame "seen").  So every      *)
(* read of seen_js, in_function_body and parent_statement happens at the   *)
(* point of the traversal where the C code performs it.                    *)
(***************************************************************************)
EXTENDS Naturals, Sequences, SequencesExt, Cst, OutputBuilder

CONSTANTS
    Programs,          \* the sources, as [stmts, trailing] terms of Cst
    InitCapacity,      \* range_array_init: ints allocated first (128)
    MaxAllocFailures   \* how many allocations of the call may fail

ASSUME InitCapacity \in Nat \ {0}
ASSUME MaxAllocFailures \in Nat

\* ts_strip_result_t
SUCCESS == "SUCCESS"
UNSUPPORTED == "UNSUPPORTED"
OUT_OF_MEMORY == "OUT_OF_MEMORY"
Results == {SUCCESS, UNSUPPORTED, OUT_OF_MEMORY}

\* enum visit_result
VISIT_BLANKED == 0
VISITED_JS == 1

VARIABLES
    tree,            \* the parsed tree: [node, src]
    phase,           \* "call", "visit" (traversal running), "done"
    stack,           \* pending frames of the traversal, top first
    ranges,          \* ctx->ranges: the recorded edits, in order
    capacity,        \* ctx->ranges.capacity, in ints
    seenJs,          \* ctx->seen_js
    hasUnsupported,  \* ctx->has_unsupported
    parentStmt,      \* ctx->parent_statement
    inFnBody,        \* ctx->in_function_body
    out,             \* *js_out
    result,          \* the returned ts_strip_result_t
    allocFailures,   \* allocations that have failed so far
    flagged,         \* history: nodes whose visit set has_unsupported
    dropped          \* history: edits whose range_array_push failed

vars == <<tree, phase, stack, ranges, capacity, seenJs, hasUnsupported,
          parentStmt, inFnBody, out, result, allocFailures, flagged, dropped>>

src == tree.src

-----------------------------------------------------------------------------
(* Node access: ts_node_type, ts_node_start_byte, ts_node_end_byte, the   *)
(* children, and the helpers is_type, get_child_by_field, find_child_type.*)

Kind(n) == IF n = Null THEN "" ELSE tree.node[n].kind
Start(n) == tree.node[n].s
End(n) == tree.node[n].e
Kids(n) == IF n = Null THEN << >> ELSE tree.node[n].kids

IsType(n, t) == n # Null /\ Kind(n) = t

ChildByField(n, f) ==
    LET i == SelectInSeq(Kids(n), LAMBDA k : tree.node[k].field = f)
    IN IF i = 0 THEN Null ELSE Kids(n)[i]

FindChildType(n, t) ==
    LET i == SelectInSeq(Kids(n), LAMBDA k : Kind(k) = t)
    IN IF i = 0 THEN Null ELSE Kids(n)[i]

-----------------------------------------------------------------------------
(* Frames.                                                                 *)

\* visit_node(ctx, n) whose result is ignored by the caller
Visit(n) == [op |-> "visit", n |-> n, rep |-> FALSE]
\* visit_node(ctx, n) from visit_children or the top-level loop
VisitChild(n) == [op |-> "visit", n |-> n, rep |-> TRUE]
\* one iteration of the top-level loop of ts_strip_with_ctx
TopLevel(n) == [op |-> "top", n |-> n]
SeenJsFrame == [op |-> "seen"]
RestoreDepth(d) == [op |-> "depth", d |-> d]

\* blank_range, blank_semi, blank_node
BlankRange(s, e) == [op |-> "push", flag |-> FLAG_BLANK, s |-> s, e |-> e]
\* mutant: blank_semi pushing a flag value build_output does not know
BlankSemiWrongFlag(s, e) == [op |-> "push", flag |-> 1, s |-> s, e |-> e]
BlankSemi(s, e) == [op |-> "push", flag |-> FLAG_REPLACE_WITH_SEMI, s |-> s, e |-> e]
BlankNode(n) == BlankRange(Start(n), End(n))

\* blank_stmt: ';' when JS was seen outside any function body
\* mutant: a whole-statement erasure that never repairs with ';'
BlankStmtNoSemi(n) == BlankRange(Start(n), End(n))

BlankStmt(n) ==
    IF seenJs /\ inFnBody = 0
    THEN BlankSemi(Start(n), End(n))
    ELSE BlankRange(Start(n), End(n))

\* mutant: blank_type_anno stepping back over a byte that is not ':'
BlankTypeAnnoAlways(n) == BlankRange(Start(n) - 1, End(n))

\* blank_type_anno: absorb a ':' just before the annotation
BlankTypeAnno(n) ==
    LET s == Start(n)
    IN BlankRange(IF s > 0 /\ src[s] = ":" THEN s - 1 ELSE s, End(n))

\* visit_children: every child, each result folded into seen_js
VisitChildren(n) == [i \in DOMAIN Kids(n) |-> VisitChild(Kids(n)[i])]

-----------------------------------------------------------------------------
(* The handler being run, and how it continues: its calls go on top of    *)
(* the stack, followed by the caller's seen_js update when the caller is  *)
(* visit_children or the top-level loop and the handler returns JS.       *)

Cur == Head(stack).n

AtVisit(kinds) ==
    /\ phase = "visit"
    /\ stack # << >>
    /\ Head(stack).op = "visit"
    /\ Kind(Cur) \in kinds

Continue(calls, res) ==
    stack' = calls
             \o (IF Head(stack).rep /\ res = VISITED_JS THEN << SeenJsFrame >> ELSE << >>)
             \o Tail(stack)

\* ctx->has_unsupported = true; return VISITED_JS;
MarkUnsupported ==
    /\ hasUnsupported' = TRUE
    /\ flagged' = flagged \cup {Cur}
    /\ Continue(<< >>, VISITED_JS)
    /\ UNCHANGED <<tree, phase, ranges, capacity, seenJs, parentStmt, inFnBody,
                   out, result, allocFailures, dropped>>

\* a handler that only pushes calls and returns res
Proceed(calls, res) ==
    /\ Continue(calls, res)
    /\ UNCHANGED <<tree, phase, ranges, capacity, seenJs, hasUnsupported,
                   parentStmt, inFnBody, out, result, allocFailures, flagged, dropped>>

-----------------------------------------------------------------------------
(* Pure helpers of the visitor.                                            *)

\* has_runtime_values: a direct child of n that is a runtime statement,
\* declaration, instantiated nested namespace or exported one of those.
RuntimeDecls == {"lexical_declaration", "variable_declaration",
                 "class_declaration", "function_declaration"}

RECURSIVE HasRuntimeValues(_)
HasRuntimeValues(n) ==
    \E i \in DOMAIN Kids(n) :
        LET c == Kids(n)[i]
            d == ChildByField(c, "declaration")
        IN /\ Kind(c) # "ambient_declaration"
           /\ \/ Kind(c) \in {"expression_statement", "statement_block"} \cup RuntimeDecls
              \/ Kind(c) = "internal_module" /\ HasRuntimeValues(c)
              \/ /\ Kind(c) = "export_statement"
                 /\ \/ d # Null /\ Kind(d) \in RuntimeDecls
                    \/ d # Null /\ Kind(d) = "internal_module" /\ HasRuntimeValues(d)
                    \/ FindChildType(c, "import_alias") # Null

\* has_param_props: a parameter carrying an accessibility modifier or readonly
ParamPropKinds == {"accessibility_modifier", "public", "private", "protected", "readonly"}

HasParamProps(params) ==
    \E p \in ToSet(Kids(params)) : \E c \in ToSet(Kids(p)) : Kind(c) \in ParamPropKinds

\* visit_formal_parameters: blank each parameter's annotation and '?'
FormalParameterCalls(params) ==
    FlattenSeq([i \in DOMAIN Kids(params) |->
        LET p == Kids(params)[i]
        IN [j \in DOMAIN Kids(p) |->
               IF Kind(Kids(p)[j]) \in {"type_annotation", "?"}
               THEN BlankNode(Kids(p)[j]) ELSE Visit(Kids(p)[j])]])

\* the children loop shared by visit_function_like and visit_arrow_function
SignatureCalls(n) ==
    FlattenSeq([i \in DOMAIN Kids(n) |->
        LET c == Kids(n)[i]
        IN CASE Kind(c) \in {"type_annotation", "type_parameters"} -> << BlankNode(c) >>
             [] Kind(c) = "formal_parameters" -> FormalParameterCalls(c)
             [] OTHER -> << Visit(c) >>])

\* visit_binary_expression: the start of the real argument list of a
\* mis-parsed generic call, found from the end of an arrow function
ActualCall(right) ==
    LET IsArgs(c) == \/ IsType(c, "binary_expression")
                        /\ IsType(ChildByField(c, "right"), "parenthesized_expression")
                     \/ IsType(c, "parenthesized_expression")
        i == SelectLastInSeq(Kids(right), IsArgs)
        c == Kids(right)[i]
    IN IF ~IsType(right, "arrow_function") \/ i = 0 THEN right
       ELSE IF IsType(c, "binary_expression") THEN ChildByField(c, "right") ELSE c

-----------------------------------------------------------------------------
(* visit_node, one action per branch.                                      *)

VisitError == AtVisit({"ERROR"}) /\ MarkUnsupported

VisitAmbient ==
    /\ AtVisit({"ambient_declaration"})
    /\ LET m == FindChildType(Cur, "module")
           name == ChildByField(m, "name")
       IN IF m # Null /\ name # Null /\ ~IsType(name, "string")
          THEN MarkUnsupported
          ELSE Proceed(<< BlankStmt(Cur) >>, VISIT_BLANKED)

VisitTypeDeclaration ==
    /\ AtVisit({"type_alias_declaration", "interface_declaration"})
    /\ Proceed(<< BlankStmt(Cur) >>, VISIT_BLANKED)

VisitImport ==
    /\ AtVisit({"import_statement"})
    /\ LET clause == ChildByField(Cur, "import_clause")
       IN CASE FindChildType(Cur, "import_require_clause") # Null -> MarkUnsupported
            [] clause # Null /\ FindChildType(clause, "type") # Null ->
                   Proceed(<< BlankStmt(Cur) >>, VISIT_BLANKED)
            [] OTHER -> Proceed(<< >>, VISITED_JS)

VisitImportAlias == AtVisit({"import_alias"}) /\ Proceed(<< >>, VISITED_JS)

VisitExport ==
    /\ AtVisit({"export_statement"})
    /\ CASE FindChildType(Cur, "type") # Null -> Proceed(<< BlankStmt(Cur) >>, VISIT_BLANKED)
         [] FindChildType(Cur, "=") # Null -> MarkUnsupported
         [] OTHER -> Proceed(VisitChildren(Cur), VISITED_JS)

VisitVariableDeclarator ==
    /\ AtVisit({"variable_declarator"})
    /\ Proceed([i \in DOMAIN Kids(Cur) |->
                  LET c == Kids(Cur)[i]
                  IN CASE Kind(c) = "type_annotation" -> BlankTypeAnno(c)
                       [] Kind(c) = "!" -> BlankNode(c)
                       [] OTHER -> Visit(c)], VISITED_JS)

VisitDeclaration ==
    /\ AtVisit({"lexical_declaration", "variable_declaration"})
    /\ Proceed(VisitChildren(Cur), VISITED_JS)

FunctionKinds == {"function_declaration", "function_signature",
                  "method_definition", "method_signature"}

\* visit_function_like; in_function_body is raised before the children are
\* visited and restored by the last frame
VisitFunctionLike ==
    /\ AtVisit(FunctionKinds)
    /\ LET params == ChildByField(Cur, "parameters")
       IN CASE ChildByField(Cur, "body") = Null ->
                   Proceed(<< BlankStmt(Cur) >>, VISIT_BLANKED)
            [] params # Null /\ HasParamProps(params) -> MarkUnsupported
            [] OTHER ->
                   /\ inFnBody' = inFnBody + 1
                   /\ Continue(SignatureCalls(Cur) \o << RestoreDepth(inFnBody) >>, VISITED_JS)
                   /\ UNCHANGED <<tree, phase, ranges, capacity, seenJs, hasUnsupported,
                                  parentStmt, out, result, allocFailures, flagged, dropped>>

VisitArrowFunction ==
    /\ AtVisit({"arrow_function"})
    /\ Proceed(SignatureCalls(Cur), VISITED_JS)

VisitBinaryExpression ==
    /\ AtVisit({"binary_expression"})
    /\ LET left == ChildByField(Cur, "left")
           innerLeft == ChildByField(left, "left")
           call == ActualCall(ChildByField(Cur, "right"))
       IN IF /\ IsType(ChildByField(Cur, "operator"), ">")
             /\ IsType(left, "binary_expression")
             /\ IsType(ChildByField(left, "operator"), "<<")
             /\ IsType(innerLeft, "identifier")
          THEN Proceed(<< Visit(innerLeft),
                          BlankRange(End(innerLeft), Start(call)),
                          Visit(call) >>, VISITED_JS)
          ELSE Proceed(VisitChildren(Cur), VISITED_JS)

VisitClassDeclaration ==
    /\ AtVisit({"class_declaration", "abstract_class_declaration"})
    /\ Proceed(FlattenSeq([i \in DOMAIN Kids(Cur) |->
                  LET c == Kids(Cur)[i]
                  IN CASE Kind(c) = "type_parameters" -> << BlankNode(c) >>
                       [] Kind(c) = "class_heritage" ->
                              [j \in DOMAIN Kids(c) |->
                                  IF IsType(Kids(c)[j], "implements_clause")
                                  THEN BlankNode(Kids(c)[j]) ELSE Visit(Kids(c)[j])]
                       [] OTHER -> << Visit(c) >>]), VISITED_JS)

FieldTypeKinds == {"type_annotation", "!", "?", "accessibility_modifier", "readonly"}

VisitFieldDefinition ==
    /\ AtVisit({"public_field_definition", "property_signature"})
    /\ Proceed([i \in DOMAIN Kids(Cur) |->
                  IF Kind(Kids(Cur)[i]) \in FieldTypeKinds
                  THEN BlankNode(Kids(Cur)[i]) ELSE Visit(Kids(Cur)[i])], VISITED_JS)

VisitEnum == AtVisit({"enum_declaration"}) /\ MarkUnsupported

VisitLegacyModule == AtVisit({"module"}) /\ MarkUnsupported

\* mutant: an instantiated namespace flagged and erased all the same
VisitNamespaceBlanking ==
    /\ AtVisit({"internal_module"})
    /\ IF HasRuntimeValues(Cur)
       THEN /\ hasUnsupported' = TRUE
            /\ flagged' = flagged \cup {Cur}
            /\ Continue(<< BlankStmt(Cur) >>, VISITED_JS)
            /\ UNCHANGED <<tree, phase, ranges, capacity, seenJs, parentStmt, inFnBody,
                           out, result, allocFailures, dropped>>
       ELSE Proceed(<< BlankStmt(Cur) >>, VISIT_BLANKED)

VisitNamespace ==
    /\ AtVisit({"internal_module"})
    /\ IF HasRuntimeValues(Cur)
       THEN MarkUnsupported
       ELSE Proceed(<< BlankStmt(Cur) >>, VISIT_BLANKED)

\* mutant: the suffix blanked before the operand is visited
VisitAsExpressionSuffixFirst ==
    /\ AtVisit({"as_expression", "satisfies_expression"})
    /\ LET expr == Kids(Cur)[1]
       IN Proceed(<< BlankRange(End(expr), End(Cur)), Visit(expr) >>, VISITED_JS)

\* the suffix is replaced by ';' when it ends the top-level statement and the
\* statement relied on ASI
VisitAsExpression ==
    /\ AtVisit({"as_expression", "satisfies_expression"})
    /\ LET expr == Kids(Cur)[1]
           asi == /\ parentStmt # Null
                  /\ End(Cur) = End(parentStmt)
                  /\ End(Cur) < Len(src)
                  /\ src[End(Cur) + 1] # ";"
       IN Proceed(<< Visit(expr),
                     IF asi THEN BlankSemi(End(expr), End(Cur))
                     ELSE BlankRange(End(expr), End(Cur)) >>, VISITED_JS)

VisitTypeAssertion == AtVisit({"type_assertion"}) /\ MarkUnsupported

VisitNonNull ==
    /\ AtVisit({"non_null_expression"})
    /\ Proceed(<< Visit(Kids(Cur)[1]), BlankRange(End(Cur) - 1, End(Cur)) >>, VISITED_JS)

VisitCall ==
    /\ AtVisit({"call_expression", "new_expression"})
    /\ Proceed([i \in DOMAIN Kids(Cur) |->
                  IF IsType(Kids(Cur)[i], "type_arguments")
                  THEN BlankNode(Kids(Cur)[i]) ELSE Visit(Kids(Cur)[i])], VISITED_JS)

VisitTypeNode ==
    /\ AtVisit({"type_annotation", "type_arguments", "type_parameters"})
    /\ Proceed(<< BlankNode(Cur) >>, VISIT_BLANKED)

HandledKinds ==
    {"ERROR", "ambient_declaration", "type_alias_declaration", "interface_declaration",
     "import_statement", "import_alias", "export_statement", "variable_declarator",
     "lexical_declaration", "variable_declaration", "arrow_function", "binary_expression",
     "class_declaration", "abstract_class_declaration", "public_field_definition",
     "property_signature", "enum_declaration", "module", "internal_module",
     "as_expression", "satisfies_expression", "type_assertion", "non_null_expression",
     "call_expression", "new_expression", "type_annotation", "type_arguments",
     "type_parameters"} \cup FunctionKinds

VisitDefault ==
    /\ phase = "visit"
    /\ stack # << >>
    /\ Head(stack).op = "visit"
    /\ Kind(Cur) \notin HandledKinds
    /\ Proceed(VisitChildren(Cur), VISITED_JS)

-----------------------------------------------------------------------------
(* The other frames.                                                       *)

AtFrame(op) == phase = "visit" /\ stack # << >> /\ Head(stack).op = op

\* mutant: range_array_push testing size > capacity instead of size + 3 > capacity
RecordEditLateGrow ==
    /\ AtFrame("push")
    /\ LET f == Head(stack)
           edit == [flag |-> f.flag, s |-> f.s, e |-> f.e]
           full == 3 * Len(ranges) > capacity
       IN \/ /\ ~full
             /\ ranges' = Append(ranges, edit)
             /\ UNCHANGED <<capacity, allocFailures, dropped>>
          \/ /\ full
             /\ ranges' = Append(ranges, edit)
             /\ capacity' = 2 * capacity
             /\ UNCHANGED <<allocFailures, dropped>>
    /\ stack' = Tail(stack)
    /\ UNCHANGED <<tree, phase, seenJs, hasUnsupported, parentStmt, inFnBody,
                   out, result, flagged>>

\* range_array_push: the array doubles when full; a failed realloc drops the
\* edit, and every caller ignores the false it returns
RecordEdit ==
    /\ AtFrame("push")
    /\ LET f == Head(stack)
           edit == [flag |-> f.flag, s |-> f.s, e |-> f.e]
           full == 3 * Len(ranges) + 3 > capacity
       IN \/ /\ ~full
             /\ ranges' = Append(ranges, edit)
             /\ UNCHANGED <<capacity, allocFailures, dropped>>
          \/ /\ full
             /\ ranges' = Append(ranges, edit)
             /\ capacity' = 2 * capacity
             /\ UNCHANGED <<allocFailures, dropped>>
          \/ /\ full
             /\ allocFailures < MaxAllocFailures
             /\ allocFailures' = allocFailures + 1
             /\ dropped' = Append(dropped, edit)
             /\ UNCHANGED <<ranges, capacity>>
    /\ stack' = Tail(stack)
    /\ UNCHANGED <<tree, phase, seenJs, hasUnsupported, parentStmt, inFnBody,
                   out, result, flagged>>

\* visit_children / top-level loop: seen_js = true after a VISITED_JS child
MarkSeenJs ==
    /\ AtFrame("seen")
    /\ seenJs' = TRUE
    /\ stack' = Tail(stack)
    /\ UNCHANGED <<tree, phase, ranges, capacity, hasUnsupported, parentStmt,
                   inFnBody, out, result, allocFailures, flagged, dropped>>

\* visit_function_like: ctx->in_function_body = prev_depth
RestoreFunctionDepth ==
    /\ AtFrame("depth")
    /\ inFnBody' = Head(stack).d
    /\ stack' = Tail(stack)
    /\ UNCHANGED <<tree, phase, ranges, capacity, seenJs, hasUnsupported,
                   parentStmt, out, result, allocFailures, flagged, dropped>>

\* ts_strip_with_ctx, top-level loop: parent_statement = child; visit it
VisitTopLevel ==
    /\ AtFrame("top")
    /\ parentStmt' = Head(stack).n
    /\ stack' = << VisitChild(Head(stack).n) >> \o Tail(stack)
    /\ UNCHANGED <<tree, phase, ranges, capacity, seenJs, hasUnsupported,
                   inFnBody, out, result, allocFailures, flagged, dropped>>

-----------------------------------------------------------------------------
(* The call.                                                               *)

\* The allocation at an allocation site either succeeds or, while failures
\* remain to be had, fails.
AllocFails == /\ allocFailures < MaxAllocFailures
              /\ allocFailures' = allocFailures + 1

\* ts_strip_with_ctx up to the top-level loop: an empty source gets a
\* one-byte buffer; otherwise the tree is parsed (as given by tree) and the
\* range array is allocated; a failed allocation returns OUT_OF_MEMORY.
StripCall ==
    /\ phase = "call"
    /\ \/ /\ Len(src) = 0
          /\ \/ /\ result' = SUCCESS
                /\ UNCHANGED allocFailures
             \/ AllocFails /\ result' = OUT_OF_MEMORY
          /\ phase' = "done"
          /\ UNCHANGED <<stack, capacity>>
       \/ /\ Len(src) > 0
          /\ \/ /\ phase' = "visit"
                /\ stack' = [i \in DOMAIN Kids(1) |-> TopLevel(Kids(1)[i])]
                /\ capacity' = InitCapacity
                /\ UNCHANGED <<result, allocFailures>>
             \/ /\ AllocFails
                /\ phase' = "done"
                /\ result' = OUT_OF_MEMORY
                /\ UNCHANGED <<stack, capacity>>
    /\ UNCHANGED <<tree, ranges, seenJs, hasUnsupported, parentStmt, inFnBody,
                   out, flagged, dropped>>

\* build_output, then the result: OUT_OF_MEMORY when the output buffer
\* cannot be allocated, else UNSUPPORTED if any construct was flagged
Finish ==
    /\ phase = "visit"
    /\ stack = << >>
    /\ \/ /\ out' = BuildOutput(src, ranges)
          /\ result' = IF hasUnsupported THEN UNSUPPORTED ELSE SUCCESS
          /\ UNCHANGED allocFailures
       \/ AllocFails /\ result' = OUT_OF_MEMORY /\ UNCHANGED out
    /\ phase' = "done"
    /\ UNCHANGED <<tree, stack, ranges, capacity, seenJs, hasUnsupported,
                   parentStmt, inFnBody, flagged, dropped>>

\* the call has returned
Returned == phase = "done" /\ UNCHANGED vars

Init ==
    /\ tree \in {Parse(p.stmts, p.trailing) : p \in Programs}
    /\ phase = "call"
    /\ stack = << >>
    /\ ranges = << >>
    /\ capacity = 0
    /\ seenJs = FALSE
    /\ hasUnsupported = FALSE
    /\ parentStmt = Null
    /\ inFnBody = 0
    /\ out = << >>
    /\ result = "NONE"
    /\ allocFailures = 0
    /\ flagged = {}
    /\ dropped = << >>

Visitor ==
    \/ VisitError \/ VisitAmbient \/ VisitTypeDeclaration \/ VisitImport
    \/ VisitImportAlias \/ VisitExport \/ VisitVariableDeclarator
    \/ VisitDeclaration \/ VisitFunctionLike \/ VisitArrowFunction
    \/ VisitBinaryExpression \/ VisitClassDeclaration \/ VisitFieldDefinition
    \/ VisitEnum \/ VisitLegacyModule \/ VisitNamespace \/ VisitAsExpression
    \/ VisitTypeAssertion \/ VisitNonNull \/ VisitCall \/ VisitTypeNode
    \/ VisitDefault

Next ==
    \/ StripCall
    \/ VisitTopLevel
    \/ Visitor
    \/ RecordEdit
    \/ MarkSeenJs
    \/ RestoreFunctionDepth
    \/ Finish
    \/ Returned

\* The call runs on one thread without suspension: it keeps taking steps.
Spec == Init /\ [][Next]_vars /\ WF_vars(Next)

-----------------------------------------------------------------------------
(* Properties.                                                             *)

Edits == [flag : {FLAG_BLANK, FLAG_REPLACE_WITH_SEMI}, s : Nat, e : Nat]

TypeOK ==
    /\ phase \in {"call", "visit", "done"}
    /\ ranges \in Seq(Edits)
    /\ dropped \in Seq(Edits)
    /\ capacity \in Nat
    /\ seenJs \in BOOLEAN
    /\ hasUnsupported \in BOOLEAN
    /\ parentStmt \in DOMAIN tree.node \cup {Null}
    /\ inFnBody \in Nat
    /\ out \in Seq(ByteClasses)
    /\ result \in Results \cup {"NONE"}
    /\ flagged \subseteq DOMAIN tree.node
    /\ allocFailures \in 0 .. MaxAllocFailures

(* The edits are recorded in source order and never overlap: each starts  *)
(* at or after the end of the one before it and is a proper range.  The   *)
(* traversal order of every handler and the rule that a blanked node is    *)
(* never entered are what make this hold; build_output's clamp of a start  *)
(* to the previous end silently relies on it, and an edit that ends before *)
(* the previous one would make build_output copy bytes twice and overrun  *)
(* its in_len + 1 byte buffer.                                             *)
EditsOrdered ==
    \A i \in DOMAIN ranges :
        /\ ranges[i].s <= ranges[i].e
        /\ ranges[i].e <= Len(src)
        /\ i > 1 => ranges[i - 1].e <= ranges[i].s

(* Whenever ts_strip_with_ctx returns output (SUCCESS or UNSUPPORTED),     *)
(* the output is the source with some bytes blanked: the same length,     *)
(* every byte equal to the source byte or, where the source byte is not a *)
(* newline, a space or a ';'.  This is the spec's length invariance,      *)
(* newline preservation and whitespace-only diff, about the edits the     *)
(* visitor records and how build_output replays them.                     *)
OutputIsBlanking ==
    phase = "done" /\ result \in {SUCCESS, UNSUPPORTED} =>
        /\ Len(out) = Len(src)
        /\ \A i \in DOMAIN src :
              \/ out[i] = src[i]
              \/ src[i] \notin {"\n", "\r"} /\ out[i] \in {" ", ";"}

(* range_array_push never writes past the array it allocated: while the   *)
(* traversal runs, the three ints of every recorded edit lie within the    *)
(* capacity (in ints) of ranges.data, through every doubling.  A wrong     *)
(* growth test is a heap overflow that no output comparison shows.         *)
RangesFitCapacity ==
    phase = "visit" => 3 * Len(ranges) <= capacity

(* Unsupported constructs are left verbatim: no byte of a node the visitor *)
(* flagged (enum, parameter properties, instantiated namespace, CommonJS   *)
(* import/export, prefix assertion, ERROR) is changed in the output.  The  *)
(* UNSUPPORTED output is still handed to the compiler by                   *)
(* HAKO_CompileToByteCode, so a partly blanked enum or namespace would be  *)
(* compiled as different code instead of failing.                          *)
UnsupportedLeftVerbatim ==
    phase = "done" /\ result \in {SUCCESS, UNSUPPORTED} =>
        \A n \in flagged : \A i \in Start(n) + 1 .. End(n) : out[i] = src[i]

-----------------------------------------------------------------------------
(* Reference definitions, from the decision table and glossary of the     *)
(* specification, used by the properties below.                            *)

Parent(n) == CHOOSE p \in DOMAIN tree.node : n \in ToSet(Kids(p))

\* the last byte at or before offset k that is not whitespace, 0 if none
LastSig(text, k) ==
    LET sig == {i \in 1 .. k : text[i] \notin {" ", "\n"}}
    IN IF sig = {} THEN 0 ELSE CHOOSE i \in sig : \A j \in sig : j <= i

\* a statement of a statement list
IsStatement(n) == n # 1 /\ Kind(Parent(n)) \in {"program", "statement_block"}

\* syntax that exists only in TypeScript
TsOnlyKinds == {"type_annotation", "type_arguments", "type_parameters",
                "interface_declaration", "type_alias_declaration",
                "ambient_declaration", "implements_clause", "function_signature",
                "method_signature", "abstract_method_signature",
                "accessibility_modifier", "override_modifier"}

TsOnly(n) ==
    \/ Kind(n) \in TsOnlyKinds
    \/ Kind(n) \in {"?", "!", "readonly"} /\
          Kind(Parent(n)) \in {"optional_parameter", "required_parameter",
                               "public_field_definition", "property_signature",
                               "variable_declarator", "non_null_expression"}
    \/ Kind(n) = "abstract" /\ Kind(Parent(n)) = "abstract_class_declaration"
    \/ Kind(n) \in {"import_statement", "export_statement"} /\
          \E i \in DOMAIN Kids(n) : Kind(Kids(n)[i]) = "type"
    \/ Kind(n) = "export_statement" /\
          Kind(ChildByField(n, "declaration")) \in TsOnlyKinds

\* the bytes of the type after 'as' / 'satisfies'
AsSuffix(n) == End(Kids(n)[1]) + 1 .. End(n)

TsOnlyBytes ==
    UNION {Start(n) + 1 .. End(n) : n \in {m \in DOMAIN tree.node : TsOnly(m)}}
    \cup UNION {AsSuffix(n) : n \in {m \in DOMAIN tree.node :
                                       Kind(m) \in {"as_expression", "satisfies_expression"}}}

\* output bytes that carry no code: blanks, newlines and the ';' of a repair
Erased(i) == out[i] \in {" ", "\n", ";"}

(* On SUCCESS the output is plain JavaScript: every byte of TypeScript-only *)
(* syntax (annotations, type parameter and argument lists, interfaces,    *)
(* aliases, ambient and overload declarations, implements clauses,        *)
(* modifiers, '?'/'!' markers, type-only imports and exports, the type of *)
(* an as/satisfies expression) is erased.  About the whole decision table  *)
(* of visit_node, including which node a handler blanks and which it only  *)
(* recurses into.                                                          *)
SuccessMeansErased ==
    phase = "done" /\ result = SUCCESS => \A i \in TsOnlyBytes : Erased(i)

\* The tree reads a generic call as shifts and comparisons, the one shape
\* of the programs checked where tree-sitter's reading is not what was
\* written; the TypeScript-only bytes are then not those of the tree.
MisreadGeneric == \E n \in DOMAIN tree.node : Kind(n) = "<<"

(* On SUCCESS of a call in which every allocation succeeded, the erasure  *)
(* is exact: the bytes of TypeScript-only syntax carry no code in the     *)
(* output and every other byte is copied unchanged.  The second half is   *)
(* about what handlers must not blank: the ':' absorbed by                *)
(* blank_type_anno, the 'extends' kept beside an implements clause, the    *)
(* operand of '!' and of 'as', the body of a function whose signature is   *)
(* blanked.  (A failed allocation is AllocationFailureReported's matter.)  *)
SuccessErasesExactlyTypes ==
    phase = "done" /\ result = SUCCESS /\ allocFailures = 0 /\ ~MisreadGeneric =>
        \A i \in DOMAIN src :
            /\ i \in TsOnlyBytes => Erased(i)
            /\ i \notin TsOnlyBytes => out[i] = src[i]

(* Erasure never changes where ASI ends a statement: when a statement that *)
(* starts with '(' is kept, the last code byte before it in the output is  *)
(* a ';' or the same byte that precedes it in the source, so no erased     *)
(* statement or suffix lets the '(' continue an earlier expression as a    *)
(* call.  About blank_stmt's choice between a blank and a ';' (seen_js,    *)
(* in_function_body) and the as/satisfies end-of-statement rule.           *)
AsiPreserved ==
    phase = "done" /\ result \in {SUCCESS, UNSUPPORTED} =>
        \A b \in DOMAIN tree.node :
            IsStatement(b) /\ src[Start(b) + 1] = "(" /\ out[Start(b) + 1] = "(" =>
                LET j == LastSig(out, Start(b))
                IN j # 0 /\ out[j] # ";" => j = LastSig(src, Start(b))

(* A source without TypeScript-only syntax passes through unchanged with   *)
(* SUCCESS (the specification's Passthrough property), whatever shapes the *)
(* special cases of visit_node look for.                                   *)
Passthrough ==
    phase = "done" /\ result # OUT_OF_MEMORY /\ TsOnlyBytes = {} =>
        result = SUCCESS /\ out = src

(* A namespace whose body declares only types is erased (the specification *)
(* runtime-evidence rule and its Scenario F): has_runtime_values decides  *)
(* on the body's statements, not on the namespace's own children.          *)
TypeOnlyNamespaceErased ==
    phase = "done" /\ result # OUT_OF_MEMORY =>
        \A n \in DOMAIN tree.node :
            /\ Kind(n) = "internal_module"
            /\ ~HasRuntimeValues(ChildByField(n, "body"))
            => \A i \in Start(n) + 1 .. End(n) : Erased(i)

(* The output follows the specification's erasure rules wherever the call *)
(* does not run out of memory: the TypeScript-only syntax of SUCCESS       *)
(* output is erased, a type-only namespace is erased, and plain JavaScript *)
(* passes through unchanged.  About the decision table of visit_node as a  *)
(* whole: the shapes it never erases and the shapes it wrongly rewrites.   *)
ErasureFollowsSpec ==
    SuccessMeansErased /\ TypeOnlyNamespaceErased /\ Passthrough

(* Every allocation failure is reported: a call in which an allocation     *)
(* failed returns OUT_OF_MEMORY (the specification's range-recorder        *)
(* contract), rather than output with some edits missing.                  *)
AllocationFailureReported ==
    phase = "done" /\ allocFailures > 0 => result = OUT_OF_MEMORY

=============================================================================
