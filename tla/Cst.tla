-------------------------------- MODULE Cst --------------------------------
(***************************************************************************)
(* The concrete syntax tree handed to the type stripper by the external    *)
(* tree-sitter TSX parser, reduced to what ts_strip.c looks at: a node's   *)
(* type string, the field name it has in its parent, its ordered visible   *)
(* children and its [start, end) byte range in the source.                *)
(*                                                                         *)
(* A tree is written as a term (Tok for a token, Node for an inner node)   *)
(* and laid out by Parse into a node table numbered in preorder, so that   *)
(* byte offsets are computed rather than written by hand.  Every token is  *)
(* one byte long; the trivia before it (a space or a newline) is part of   *)
(* the source but of no node, as in tree-sitter.  Bytes are abstracted to  *)
(* the classes the stripper tells apart: the newline it must keep, the     *)
(* ';' it tests for ASI, the ':' it absorbs into a type annotation, and    *)
(* any other byte ("c").  The parser itself is not modelled.               *)
(***************************************************************************)
EXTENDS Naturals, Sequences

ByteClasses == {"c", " ", "\n", ";", ":", "(", "!"}

\* ts_node_is_null: node id 0 is the null node.
Null == 0

Sp == <<" ">>
Nl == <<"\n">>
NoTrivia == <<>>

ByteOf(kind) == IF kind \in {";", ":", "(", "!"} THEN kind ELSE "c"

Tok(kind, field, pre) ==
    [kind |-> kind, field |-> field, pre |-> pre, kids |-> <<>>]

Node(kind, field, kids) ==
    [kind |-> kind, field |-> field, pre |-> <<>>, kids |-> kids]

(***************************************************************************)
(* Layout.  Flat(t, id, off) numbers t and its descendants from id in      *)
(* preorder, t's trivia starting at byte offset off; it returns the node   *)
(* records, the ids of t's children, and the bytes t spans.  An inner      *)
(* node spans from its first child's start to its last child's end.       *)
(***************************************************************************)
RECURSIVE Flat(_, _, _), FlatKids(_, _, _)

Flat(t, id, off) ==
    IF t.kids = <<>>
    THEN [nodes |-> << [kind |-> t.kind, field |-> t.field, kids |-> <<>>,
                        s |-> off + Len(t.pre), e |-> off + Len(t.pre) + 1] >>,
          text  |-> t.pre \o << ByteOf(t.kind) >>]
    ELSE LET k == FlatKids(t.kids, id + 1, off)
             first == k.nodes[1]
             last  == k.nodes[k.ids[Len(k.ids)] - id]
         IN [nodes |-> << [kind |-> t.kind, field |-> t.field, kids |-> k.ids,
                           s |-> first.s, e |-> last.e] >> \o k.nodes,
             text  |-> k.text]

FlatKids(ts, id, off) ==
    IF ts = <<>>
    THEN [nodes |-> <<>>, text |-> <<>>, ids |-> <<>>]
    ELSE LET h == Flat(Head(ts), id, off)
             r == FlatKids(Tail(ts), id + Len(h.nodes), off + Len(h.text))
         IN [nodes |-> h.nodes \o r.nodes, text |-> h.text \o r.text,
             ids |-> <<id>> \o r.ids]

(***************************************************************************)
(* The tree of a program: a "program" root (node 1) over the top-level     *)
(* statements, followed by trailing trivia.  An empty program is the empty *)
(* source, for which ts_strip_with_ctx never calls the parser.             *)
(***************************************************************************)
Parse(stmts, trailing) ==
    LET k == FlatKids(stmts, 2, 0)
        len == Len(k.text) + Len(trailing)
    IN [node |-> << [kind |-> "program", field |-> "", kids |-> k.ids,
                     s |-> 0, e |-> len] >> \o k.nodes,
        src  |-> k.text \o trailing]

=============================================================================
