-------------------------- MODULE HakoPropertyNames --------------------------
(***************************************************************************)
(* HAKO_GetOwnPropertyNames (hako.c): the enumeration of an object's own  *)
(* property names into an array of boxed values for the host.             *)
(*                                                                         *)
(* JS_GetOwnPropertyNames hands over a table of atoms, each holding one   *)
(* reference.  The loop turns every atom into a boxed value or drops it,  *)
(* according to three flags: include strings, include integer indices as *)
(* numbers, and the standard-compliant mode that reports them as strings. *)
(* Symbols only reach the table when the caller asked for them.  An atom  *)
(* is abstracted to its kind: a tagged integer, a string or a symbol.     *)
(***************************************************************************)
EXTENDS Naturals, Sequences

CONSTANTS
    Tables,         \* the atom tables JS_GetOwnPropertyNames can return
    FlagSets,       \* the flags: [string, number, compliant]
    AllocMayFail    \* TRUE: js_malloc of ptrs and of each box may fail

ASSUME AllocMayFail \in BOOLEAN

NULL == "NULL"
EXC == "exception"

AtomKinds == {"int", "string", "symbol"}

VARIABLES
    pc,         \* the next statement group
    flags,      \* the caller's flags
    tab,        \* the atom table, or << >> when none was returned
    atomLive,   \* indices of tab whose atom reference is still held
    tabLive,    \* the tab array is allocated
    ptrs,       \* the boxes written so far: a value's kind, or NULL
    ptrsLive,   \* the ptrs array is allocated and not yet handed over
    i,          \* the loop index
    lost,       \* indices whose value was created and then dropped
    result      \* the returned JSValue*

vars == << pc, flags, tab, atomLive, tabLive, ptrs, ptrsLive, i, lost,
           result >>

\* Lines 1147-1155: the flags as the code reads them.
IncludeString(f) == f.string
IncludeNumber(f) == IF f.compliant THEN FALSE ELSE f.number



\* Lines 1133-1170: arguments, then JS_GetOwnPropertyNames (which may
\* throw, from a proxy's ownKeys), then the ptrs array.
Enumerate ==
    /\ pc = "enumerate"
    /\ \/ /\ result' = EXC                 \* JS_GetException, boxed
          /\ pc' = "done"
          /\ UNCHANGED << tab, atomLive, tabLive, ptrs, ptrsLive >>
       \/ \E t \in Tables :
            /\ tab' = t
            /\ atomLive' = DOMAIN t
            /\ tabLive' = TRUE
            /\ IF t = << >>
               THEN /\ pc' = "done"
                    /\ UNCHANGED << ptrs, ptrsLive, result >>
               ELSE \E ok \in IF AllocMayFail THEN BOOLEAN ELSE {TRUE} :
                      IF ok
                      THEN /\ ptrs' = << >>
                           /\ ptrsLive' = TRUE
                           /\ pc' = "loop"
                           /\ UNCHANGED result
                      ELSE /\ result' = EXC      \* JS_ThrowOutOfMemory
                           /\ pc' = "done"
                           /\ UNCHANGED << ptrs, ptrsLive >>
    /\ UNCHANGED << flags, i, lost >>

\* (mutant) the tagged-integer branch without its continue: the atom then
\* also goes through JS_AtomToValue, which gives its string form
ReportedNoContinue(k, f) ==
    CASE k = "int" -> (IF IncludeNumber(f) THEN << "int" >>
                       ELSE IF IncludeString(f) /\ f.compliant THEN << "string" >>
                       ELSE << >>)
                      \o (IF IncludeString(f) THEN << "string" >> ELSE << >>)
      [] k = "string" /\ IncludeString(f) -> << "string" >>
      [] k = "string" -> << >>
      [] k = "symbol" -> << "symbol" >>

\* What one atom of kind k adds to ptrs under flags f (lines 1175-1201).
Reported(k, f) ==
    CASE k = "int" /\ IncludeNumber(f) -> << "int" >>
      [] k = "int" /\ IncludeString(f) /\ f.compliant -> << "string" >>
      [] k = "int" -> << >>
      [] k = "string" /\ IncludeString(f) -> << "string" >>
      [] k = "string" -> << >>
      [] k = "symbol" -> << "symbol" >>

\* Indices of new whose jsvalue_to_heap may return NULL.
FailedBoxes(new) == IF AllocMayFail THEN SUBSET DOMAIN new ELSE {{}}

\* (mutant) a string excluded by the flags is not freed (the JS_FreeValue of line 1193 missing)
IterateNoFreeExcluded ==
    /\ pc = "loop"
    /\ i <= Len(tab)
    /\ LET new == Reported(tab[i], flags)
       IN \E nulls \in FailedBoxes(new) :
            /\ ptrs' = ptrs \o [j \in DOMAIN new |-> IF j \in nulls THEN NULL
                                                              ELSE new[j]]
            /\ lost' = IF nulls = {} /\ (tab[i] # "string" \/ IncludeString(flags))
                       THEN lost ELSE lost \cup {i}
    /\ atomLive' = atomLive \ {i}
    /\ i' = i + 1
    /\ UNCHANGED << pc, flags, tab, tabLive, ptrsLive, result >>

\* Lines 1172-1202: one iteration.  The atom's reference is released on
\* every branch; a value made from it is either boxed into ptrs or freed.
Iterate ==
    /\ pc = "loop"
    /\ i <= Len(tab)
    /\ LET new == Reported(tab[i], flags)
       IN \E nulls \in FailedBoxes(new) :
            /\ ptrs' = ptrs \o [j \in DOMAIN new |-> IF j \in nulls THEN NULL
                                                              ELSE new[j]]
            /\ lost' = IF nulls = {} THEN lost ELSE lost \cup {i}
    /\ atomLive' = atomLive \ {i}
    /\ i' = i + 1
    /\ UNCHANGED << pc, flags, tab, tabLive, ptrsLive, result >>

\* Lines 1204-1206: the array is handed to the caller through *out_ptrs.
Finish ==
    /\ pc = "loop"
    /\ i > Len(tab)
    /\ ptrsLive' = FALSE
    /\ pc' = "done"
    /\ UNCHANGED << flags, tab, atomLive, tabLive, ptrs, i, lost, result >>

\* Lines 1208-1215, the done: label: js_free of tab, which releases the
\* array and not the atoms in it, and of ptrs when it was not handed over.
Done ==
    /\ pc = "done"
    /\ tabLive' = FALSE
    /\ ptrsLive' = FALSE
    /\ pc' = "returned"
    /\ UNCHANGED << flags, tab, atomLive, ptrs, i, lost, result >>

Returned ==
    /\ pc = "returned"
    /\ UNCHANGED vars

Init ==
    /\ pc = "enumerate"
    /\ flags \in FlagSets
    /\ tab = << >>
    /\ atomLive = {}
    /\ tabLive = FALSE
    /\ ptrs = << >>
    /\ ptrsLive = FALSE
    /\ i = 1
    /\ lost = {}
    /\ result = NULL

Next == Enumerate \/ Iterate \/ Finish \/ Done \/ Returned

\* One thread runs the call to its return (see HostCall).
Spec == Init /\ [][Next]_vars /\ WF_vars(Next)

(***************************************************************************)
(* Properties.                                                            *)
(***************************************************************************)
\* ptrs is allocated with room for total_props pointers and the loop writes
\* ptrs[out_props++]: no iteration writes more than one entry per atom
\* seen, so the array is never overrun.
PtrsInBounds == Len(ptrs) <= i - 1 /\ Len(ptrs) <= Len(tab)

\* What the call holds that is neither freed nor the caller's: atom
\* references, the tab array, an unreturned ptrs, values dropped unboxed.
Held == [atoms |-> atomLive # {}, tab |-> tabLive, ptrs |-> ptrsLive,
         values |-> lost # {}]

Call == INSTANCE HostCall
        WITH phase <- IF pc = "returned" THEN "returned" ELSE "running",
             result <- IF pc = "returned" THEN result ELSE "none",
             pending <- FALSE,
             stray <- IF pc = "returned" THEN {k \in DOMAIN Held : Held[k]}
                                         ELSE {},
             Results <- {NULL, EXC}, Failures <- {}, NONE <- "none"

\* HAKO_GetOwnPropertyNames keeps the entry-point contract of HostCall:
\* it returns once, and then every atom reference of the table has been
\* released, the table and any array not handed to the caller are freed,
\* and every value created from an atom is in a box the caller owns or
\* was freed.
CallContract == Call!Spec
=============================================================================
