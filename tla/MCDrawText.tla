----------------------------- MODULE MCDrawText -----------------------------
(***************************************************************************)
(* Small glyphs on a small screen, with an int of 5 bits and a UINTN of 8. *)
(* The characters take different ways through draw_text: glyphs with and   *)
(* without bearings, one that is wide, one that is too high, a blank one,  *)
(* and one the font does not have.                                         *)
(***************************************************************************)
EXTENDS DrawText

MCGlyph ==
  [A     |-> [index |-> 1, width |-> 2, rows |-> 2, left |-> 0, drop |-> 0],
   j     |-> [index |-> 2, width |-> 1, rows |-> 3, left |-> -1, drop |-> 1],
   wide  |-> [index |-> 3, width |-> 9, rows |-> 1, left |-> 2, drop |-> 0],
   high  |-> [index |-> 4, width |-> 1, rows |-> 3, left |-> 1, drop |-> -2],
   space |-> [index |-> 5, width |-> 0, rows |-> 0, left |-> 0, drop |-> 0],
   undef |-> [index |-> 0, width |-> 0, rows |-> 0, left |-> 0, drop |-> 0]]

\* Every text of up to four characters.
MCTexts == UNION {[1 .. n -> DOMAIN MCGlyph] : n \in 0 .. 4}

\* "A" draws its successor nearer, and "wide" so near that the pen passes the left
\* edge (from 10 to -2, which is 254); its bearing takes it back to column 0, and its
\* width the pen to 15.  A text that begins with "j" has its column left of the edge.
MCKerning ==
  [p \in {MCGlyph[c].index : c \in DOMAIN MCGlyph} \X {MCGlyph[c].index : c \in DOMAIN MCGlyph} |->
     IF p = <<1, 3>> THEN -12 ELSE IF p[1] = 1 THEN -3 ELSE 1]

MCMayFail == {"Load", "Render", "Alloc", "Blt"}
=============================================================================
