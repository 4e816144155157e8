--------------------------- MODULE OutputBuilder ---------------------------
(***************************************************************************)
(* build_output (ts_strip.c): replays the recorded edits over the source.  *)
(* An edit is a record [flag, s, e] as range_array_push stores it (three   *)
(* ints per edit); offsets are 0-based byte offsets, the source and the    *)
(* output are sequences of bytes (1-based, so byte offset j is src[j+1]).  *)
(***************************************************************************)
EXTENDS Naturals, Sequences

\* enum range_flag
FLAG_BLANK == 0
FLAG_REPLACE_WITH_SEMI == 3

\* get_space_char: a blanked byte becomes a space unless it ends a line.
GetSpaceChar(c) == IF c \in {"\n", "\r"} THEN c ELSE " "

\* The bytes in[from] .. in[to - 1] (offsets), empty when to <= from.
Slice(in, from, to) == [j \in 1 .. (to - from) |-> in[from + j]]

(***************************************************************************)
(* The loop over the edits.  prev is the end of the previous edit; an      *)
(* edit's start is clamped to it, the unchanged bytes since prev are       *)
(* copied, a REPLACE_WITH_SEMI edit writes ';' and skips its first byte,   *)
(* and the rest of the range, cut at in_len, is blanked byte by byte.      *)
(* prev then becomes the edit's end, whatever the clamp did.               *)
(***************************************************************************)
\* mutant: the ';' written without skipping the byte it replaces
RECURSIVE BuildLoopNoSkip(_, _, _, _)
BuildLoopNoSkip(in, ranges, prev, out) ==
    IF ranges = <<>>
    THEN out \o Slice(in, prev, Len(in))
    ELSE LET r     == Head(ranges)
             start == IF r.s < prev THEN prev ELSE r.s
             semi  == IF r.flag = FLAG_REPLACE_WITH_SEMI THEN << ";" >> ELSE << >>
             to    == IF r.e < Len(in) THEN r.e ELSE Len(in)
             blank == [j \in 1 .. (to - start) |-> GetSpaceChar(in[start + j])]
         IN BuildLoopNoSkip(in, Tail(ranges), r.e,
                            out \o Slice(in, prev, start) \o semi \o blank)

RECURSIVE BuildLoop(_, _, _, _)
BuildLoop(in, ranges, prev, out) ==
    IF ranges = <<>>
    THEN out \o Slice(in, prev, Len(in))
    ELSE LET r     == Head(ranges)
             start == IF r.s < prev THEN prev ELSE r.s
             semi  == IF r.flag = FLAG_REPLACE_WITH_SEMI THEN << ";" >> ELSE << >>
             from  == start + Len(semi)
             to    == IF r.e < Len(in) THEN r.e ELSE Len(in)
             blank == [j \in 1 .. (to - from) |-> GetSpaceChar(in[from + j])]
         IN BuildLoop(in, Tail(ranges), r.e,
                      out \o Slice(in, prev, start) \o semi \o blank)

\* build_output, both branches: no edits is a plain copy.
BuildOutput(in, ranges) ==
    IF ranges = <<>> THEN in ELSE BuildLoop(in, ranges, 0, << >>)

=============================================================================
