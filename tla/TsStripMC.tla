----------------------------- MODULE TsStripMC -----------------------------
(***************************************************************************)
(* Programs for checking TsStrip.  Each statement is the tree tree-sitter  *)
(* TSX gives for the source shown beside it (child order, field names and *)
(* token kinds as in its grammar); every statement starts on a new line.  *)
(***************************************************************************)
EXTENDS TsStrip

\* a token after a space, after nothing, and at the start of a line
T(k) == Tok(k, "", Sp)
T0(k) == Tok(k, "", NoTrivia)
L(k) == Tok(k, "", Nl)
F(k, f) == Tok(k, f, Sp)
F0(k, f) == Tok(k, f, NoTrivia)
LF(k, f) == Tok(k, f, Nl)

Anno == Node("type_annotation", "type", << T0(":"), T("type_identifier") >>)
RetAnno == Node("type_annotation", "return_type", << T0(":"), T("type_identifier") >>)
NoParams == Node("formal_parameters", "parameters", << T0("("), T0(")") >>)
Block(f, ks) == Node("statement_block", f, << T("{") >> \o ks \o << T("}") >>)
ExprStmt(ks) == Node("expression_statement", "", ks)

\* let x: T = 1;
LetTyped == Node("lexical_declaration", "", << LF("let", "kind"),
    Node("variable_declarator", "", << F("identifier", "name"), Anno, T("="),
                                       F("number", "value") >>), T0(";") >>)
\* let y! : T;
LetDefinite == Node("lexical_declaration", "", << LF("let", "kind"),
    Node("variable_declarator", "", << F("identifier", "name"), T0("!"),
        Node("type_annotation", "type", << T(":"), T("type_identifier") >>) >>), T0(";") >>)
\* let v = w
LetPlain == Node("lexical_declaration", "", << LF("let", "kind"),
    Node("variable_declarator", "", << F("identifier", "name"), T("="),
                                       F("identifier", "value") >>) >>)
\* interface I {}
Interface == Node("interface_declaration", "", << L("interface"), F("type_identifier", "name"),
    Node("interface_body", "body", << T("{"), T0("}") >>) >>)
\* type A = B;
TypeAlias == Node("type_alias_declaration", "", << L("type"), F("type_identifier", "name"),
    T("="), F("type_identifier", "value"), T0(";") >>)
\* enum E {}
Enum == Node("enum_declaration", "", << L("enum"), F("identifier", "name"),
    Node("enum_body", "body", << T("{"), T0("}") >>) >>)
\* x as T      and      x as T;
AsExpr == Node("as_expression", "", << L("identifier"), T("as"), T("type_identifier") >>)
AsNoSemi == ExprStmt(<< AsExpr >>)
AsSemi == ExprStmt(<< AsExpr, T0(";") >>)
\* y! as T;
AsNonNull == ExprStmt(<< Node("as_expression", "", <<
    Node("non_null_expression", "", << L("identifier"), T0("!") >>),
    T("as"), T("type_identifier") >>), T0(";") >>)
\* (y);
Paren == ExprStmt(<< Node("parenthesized_expression", "",
                        << L("("), T0("identifier"), T0(")") >>), T0(";") >>)
\* g()
CallNoSemi == ExprStmt(<< Node("call_expression", "", << LF("identifier", "function"),
    Node("arguments", "arguments", << T0("("), T0(")") >>) >>) >>)
\* f<T>(a);
CallGeneric == ExprStmt(<< Node("call_expression", "", << LF("identifier", "function"),
    Node("type_arguments", "type_arguments", << T0("<"), T0("type_identifier"), T0(">") >>),
    Node("arguments", "arguments", << T0("("), T0("identifier"), T0(")") >>) >>), T0(";") >>)
\* x!;
NonNull == ExprStmt(<< Node("non_null_expression", "", << L("identifier"), T0("!") >>), T0(";") >>)
\* <T>x;
TypeAssertion == ExprStmt(<< Node("type_assertion", "", <<
    Node("type_arguments", "", << L("<"), T0("type_identifier"), T0(">") >>),
    T0("identifier") >>), T0(";") >>)

\* function f(a?: T): R { g(); }
FunctionTyped == Node("function_declaration", "", << L("function"), F("identifier", "name"),
    Node("formal_parameters", "parameters", << T0("("),
        Node("optional_parameter", "", << F0("identifier", "pattern"), T0("?"), Anno >>),
        T0(")") >>),
    RetAnno,
    Block("body", << ExprStmt(<< Node("call_expression", "", << F("identifier", "function"),
        Node("arguments", "arguments", << T0("("), T0(")") >>) >>), T0(";") >>) >>) >>)
\* function f(): R;
Overload == Node("function_signature", "", << L("function"), F("identifier", "name"),
    NoParams, RetAnno, T0(";") >>)
\* class C<T> implements I { x?: T; m(): R; }
ClassTyped == Node("class_declaration", "", << L("class"), F("type_identifier", "name"),
    Node("type_parameters", "type_parameters", << T0("<"),
        Node("type_parameter", "", << T0("type_identifier") >>), T0(">") >>),
    Node("class_heritage", "", << Node("implements_clause", "", << T("implements"),
        T("type_identifier") >>) >>),
    Node("class_body", "body", << T("{"),
        Node("public_field_definition", "", << F("property_identifier", "name"), T0("?"), Anno >>),
        T0(";"),
        Node("method_signature", "", << F("property_identifier", "name"), NoParams, RetAnno >>),
        T0(";"), T("}") >>) >>)
\* class D extends B { m(a: T) {} }
ClassMethod == Node("class_declaration", "", << L("class"), F("type_identifier", "name"),
    Node("class_heritage", "", << Node("extends_clause", "", << T("extends"),
        F("identifier", "value") >>) >>),
    Node("class_body", "body", << T("{"),
        Node("method_definition", "", << F("property_identifier", "name"),
            Node("formal_parameters", "parameters", << T0("("),
                Node("required_parameter", "", << F0("identifier", "pattern"), Anno >>),
                T0(")") >>),
            Block("body", << >>) >>),
        T("}") >>) >>)
\* class P { constructor(private a) {} }
ClassParamProp == Node("class_declaration", "", << L("class"), F("type_identifier", "name"),
    Node("class_body", "body", << T("{"),
        Node("method_definition", "", << F("property_identifier", "name"),
            Node("formal_parameters", "parameters", << T0("("),
                Node("required_parameter", "", <<
                    Node("accessibility_modifier", "", << T0("private") >>),
                    F("identifier", "pattern") >>),
                T0(")") >>),
            Block("body", << >>) >>),
        T("}") >>) >>)

\* namespace N { type A = B; }
NamespaceTypes == ExprStmt(<< Node("internal_module", "", << L("namespace"),
    F("identifier", "name"),
    Block("body", << Node("type_alias_declaration", "", << T("type"),
        F("type_identifier", "name"), T("="), F("type_identifier", "value"), T0(";") >>) >>)
    >>) >>)
\* namespace N { 1; }
NamespaceRuntime == ExprStmt(<< Node("internal_module", "", << L("namespace"),
    F("identifier", "name"),
    Block("body", << ExprStmt(<< T("number"), T0(";") >>) >>) >>) >>)
\* declare const x: T;
DeclareConst == Node("ambient_declaration", "", << L("declare"),
    Node("lexical_declaration", "", << T("const"),
        Node("variable_declarator", "", << F("identifier", "name"), Anno >>), T0(";") >>) >>)
\* declare module M {}      and      declare module "m" {}
DeclareModule(nameKind) == Node("ambient_declaration", "", << L("declare"),
    Node("module", "", << T("module"), F(nameKind, "name"), Block("body", << >>) >>) >>)
\* import x = require("m");
ImportRequire == Node("import_statement", "", << L("import"),
    Node("import_require_clause", "", << T("identifier"), T("="), T("require"),
        T0("("), T0("string"), T0(")") >>), T0(";") >>)
\* import { A } from "m";
ImportNamed == Node("import_statement", "", << L("import"),
    Node("import_clause", "", << Node("named_imports", "", << T("{"),
        Node("import_specifier", "", << F("identifier", "name") >>), T("}") >>) >>),
    T("from"), F("string", "source"), T0(";") >>)
\* export type { A };
ExportTypeClause == Node("export_statement", "", << L("export"), T("type"),
    Node("export_clause", "", << T("{"),
        Node("export_specifier", "", << F("identifier", "name") >>), T("}") >>), T0(";") >>)
\* export = x;
ExportAssign == Node("export_statement", "", << L("export"), T("="), T("identifier"), T0(";") >>)
\* export const a = b as T;
ExportConst == Node("export_statement", "", << L("export"),
    Node("lexical_declaration", "declaration", << T("const"),
        Node("variable_declarator", "", << F("identifier", "name"), T("="),
            Node("as_expression", "value", << T("identifier"), T("as"),
                T("type_identifier") >>) >>), T0(";") >>) >>)
\* const f = (a: T): R => a;
ArrowTyped == Node("lexical_declaration", "", << LF("const", "kind"),
    Node("variable_declarator", "", << F("identifier", "name"), T("="),
        Node("arrow_function", "value", <<
            Node("formal_parameters", "parameters", << T("("),
                Node("required_parameter", "", << F0("identifier", "pattern"), Anno >>),
                T0(")") >>),
            RetAnno, T("=>"), F("identifier", "body") >>) >>), T0(";") >>)
\* const b = foo<<T>(x: T) => number>(() => 1);   (the parser's reading)
GenericArrowCall == Node("lexical_declaration", "", << LF("const", "kind"),
    Node("variable_declarator", "", << F("identifier", "name"), T("="),
        Node("binary_expression", "value", <<
            Node("binary_expression", "left", << F("identifier", "left"),
                F0("<<", "operator"), F0("identifier", "right") >>),
            F0(">", "operator"),
            Node("arrow_function", "right", <<
                Node("formal_parameters", "parameters", << T0("("),
                    Node("required_parameter", "", << F0("identifier", "pattern"), Anno >>),
                    T0(")") >>),
                T("=>"),
                Node("binary_expression", "body", << F("identifier", "left"),
                    F0(">", "operator"),
                    Node("parenthesized_expression", "right", << T0("("),
                        Node("arrow_function", "", << NoParams, T("=>"),
                            F("number", "body") >>), T0(")") >>) >>) >>) >>) >>),
    T0(";") >>)
\* a << b > c;     (plain JavaScript: (a << b) > c)
ShiftCompare == ExprStmt(<< Node("binary_expression", "", <<
    Node("binary_expression", "left", << LF("identifier", "left"), F("<<", "operator"),
        F("identifier", "right") >>),
    F(">", "operator"), F("identifier", "right") >>), T0(";") >>)
\* x satisfies T;
Satisfies == ExprStmt(<< Node("satisfies_expression", "", << L("identifier"),
    T("satisfies"), T("type_identifier") >>), T0(";") >>)
\* @;   (a token the grammar has no rule for)
ErrorStmt == Node("ERROR", "", << L("@") >>)

\* import X = N;
ImportAlias == Node("import_alias", "", << L("import"), T("identifier"), T("="),
    T("identifier"), T0(";") >>)
\* module M {}
LegacyModule == Node("module", "", << L("module"), F("identifier", "name"),
    Block("body", << >>) >>)
\* try {} catch (e: T) {}
CatchTyped == Node("try_statement", "", << L("try"), Block("body", << >>),
    Node("catch_clause", "handler", << T("catch"), T0("("), F0("identifier", "parameter"),
        Node("type_annotation", "type", << T0(":"), T("type_identifier") >>), T0(")"),
        Block("body", << >>) >>) >>)
\* export interface I {}
ExportInterface == Node("export_statement", "", << L("export"),
    Node("interface_declaration", "declaration", << T("interface"),
        F("type_identifier", "name"), Node("interface_body", "body", << T("{"), T0("}") >>) >>) >>)
\* import type { A } from "m";    ('type' is a token of import_statement)
ImportType == Node("import_statement", "", << L("import"), T("type"),
    Node("import_clause", "", << Node("named_imports", "", << T("{"),
        Node("import_specifier", "", << F("identifier", "name") >>), T("}") >>) >>),
    T("from"), F("string", "source"), T0(";") >>)
\* class K { public m() {} }
PublicMethod == Node("class_declaration", "", << L("class"), F("type_identifier", "name"),
    Node("class_body", "body", << T("{"),
        Node("method_definition", "", << Node("accessibility_modifier", "", << T("public") >>),
            F("property_identifier", "name"), NoParams, Block("body", << >>) >>),
        T("}") >>) >>)
\* abstract class A {}
AbstractClass == Node("abstract_class_declaration", "", << L("abstract"), T("class"),
    F("type_identifier", "name"), Node("class_body", "body", << T("{"), T("}") >>) >>)
\* function h() { <statements> }
FnWith(ks) == Node("function_declaration", "", << L("function"), F("identifier", "name"),
    NoParams, Block("body", ks) >>)

-----------------------------------------------------------------------------
Programs1(lib, n) == {[stmts |-> s, trailing |-> Nl] : s \in BoundedSeq(lib, n)}

\* constructs the visitor erases or reports
Supported ==
    {LetTyped, LetDefinite, LetPlain, Interface, TypeAlias, Enum, AsNoSemi, AsSemi, AsNonNull,
     Paren, CallNoSemi, CallGeneric, NonNull, TypeAssertion, FunctionTyped, Overload,
     ClassTyped, ClassMethod, ClassParamProp, NamespaceTypes, NamespaceRuntime,
     DeclareConst, DeclareModule("identifier"), DeclareModule("string"), ImportRequire,
     ImportNamed, ExportTypeClause, ExportAssign, ExportConst, ArrowTyped,
     GenericArrowCall, Satisfies, ErrorStmt, ImportAlias, LegacyModule, CatchTyped}

\* every pair of statements, and the empty source
MCPrograms == Programs1(Supported, 2) \cup {[stmts |-> << >>, trailing |-> << >>]}

\* where ASI matters: a statement ending without ';', an erased statement or
\* suffix, and a statement starting with '('
AsiLib == {CallNoSemi, LetPlain, AsNoSemi, TypeAlias, Interface, DeclareConst,
           Overload, ExportTypeClause, Paren}
AsiPrograms == Programs1(AsiLib, 3)

\* every pair of statements and the ASI triples, checked together
StripPrograms == MCPrograms \cup AsiPrograms

\* the same inside a function body
FnBodyAsiPrograms ==
    {[stmts |-> << FnWith(<< CallNoSemi, TypeAlias, Paren >>) >>, trailing |-> Nl],
     [stmts |-> << FnWith(<< AsNoSemi, Paren >>) >>, trailing |-> Nl]}

\* TypeScript-only syntax the decision table does not erase
LeakPrograms == Programs1({ExportInterface, ImportType, PublicMethod, AbstractClass}, 1)

\* Scenario F's type-only namespace
NamespacePrograms == Programs1({NamespaceTypes}, 1)

\* plain JavaScript: a shift compared with '>'
ShiftPrograms == Programs1({ShiftCompare, CallNoSemi}, 1)

\* the three families above, for the erasure rules as a whole
SpecPrograms == LeakPrograms \cup NamespacePrograms \cup ShiftPrograms


=============================================================================
