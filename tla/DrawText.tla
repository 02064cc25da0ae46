------------------------------ MODULE DrawText ------------------------------
(***************************************************************************)
(* draw_text() of the Release build: one line of text, a Blt per glyph.    *)
(*                                                                         *)
(* The pen x is a UINTN while kerning and bearings are signed, so every    *)
(* sum wraps; the firmware refuses a Blt that leaves the screen.  A        *)
(* character is described by its glyph: the index (0 if the font has       *)
(* none), the size of its bitmap, and where the bitmap lies from the pen.  *)
(***************************************************************************)
EXTENDS Integers, Sequences

CONSTANTS
  Texts,        \* the texts that may be drawn: sequences of characters
  Glyph,        \* [character -> its glyph]
  Kerning,      \* [pairs of glyph indices -> Int]: delta.x >> 6
  HasKerning,   \* FT_HAS_KERNING(face)
  StartY,       \* the line's y
  ScreenW,      \* the resolution of the mode that was set
  ScreenH,
  IntMod,       \* 2^32, the number of values of an int
  UintnMod,     \* 2^64, of a UINTN
  MayFail       \* what may fail: "Load", "Render", "Alloc", "Blt"

Chars == DOMAIN Glyph
Indices == {Glyph[c].index : c \in Chars}

Gap == 8   \* the columns left between two glyphs

IsInt(n) == n \in Int /\ -IntMod <= 2 * n /\ 2 * n < IntMod

\* Bearings and kerning are ints, the drop is the sum of two, and a resolution
\* has the size of an int.
ASSUME DrawAssumption ==
  /\ Texts \subseteq Seq(Chars)
  /\ \A c \in Chars :
       /\ Glyph[c] \in [index : Nat, width : Nat, rows : Nat, left : Int, drop : Int]
       /\ IsInt(Glyph[c].left) /\ Glyph[c].drop \in -IntMod .. IntMod
  /\ Kerning \in [Indices \X Indices -> Int]
  /\ \A p \in Indices \X Indices : IsInt(Kerning[p])
  /\ HasKerning \in BOOLEAN
  /\ IntMod \in Nat /\ IntMod > Gap
  /\ StartY \in 0 .. IntMod /\ ScreenW \in 0 .. IntMod /\ ScreenH \in 0 .. IntMod
  /\ UintnMod \in Nat /\ UintnMod >= 8 * IntMod
  /\ MayFail \subseteq {"Load", "Render", "Alloc", "Blt"}

VARIABLES
  text,       \* the text
  pc,         \* "loop", "done" or "error"
  i,          \* the next character
  x,          \* the pen
  prev,       \* prev_glyph_index
  shown,      \* history: what was drawn, and at which column and row
  reported,   \* history: the characters for which a message was printed
  unloaded    \* history: the characters whose glyph was empty for want of loading

drawVars == <<text, pc, i, x, prev, shown, reported, unloaded>>

DrawInit ==
  /\ text \in Texts
  /\ pc = "loop"
  /\ i = 1 /\ x = 0 /\ prev = 0
  /\ shown = <<>>
  /\ reported = {}
  /\ unloaded = {}

----------------------------------------------------------------------------

Looping == pc = "loop" /\ i <= Len(text)
Current == Glyph[text[i]]

\* The sum of a UINTN and an int.  (Wrong: the pen is an int; or it is kept from
\* passing the left edge.)
PlusMutSigned(u, n) == u + n
PlusMutClamped(u, n) == IF u + n < 0 THEN 0 ELSE (u + n) % UintnMod
Plus(u, n) == (u + n) % UintnMod

\* Blt to a rectangle that is not inside the screen fails, and may fail anyway.
BltSucceeds(col, row, g) == col + g.width <= ScreenW /\ row + g.rows <= ScreenH

\* FT_Render_Glyph gives an empty bitmap.
IsBlank(g) == g.width = 0 \/ g.rows = 0

\* "Undefined character code."  (Wrong: the character is looked at again.)
ReportUndefinedMutStays ==
  /\ Looping /\ Current.index = 0
  /\ reported' = reported \cup {i}
  /\ UNCHANGED <<text, pc, i, x, prev, shown, unloaded>>
ReportUndefined ==
  /\ Looping /\ Current.index = 0
  /\ i' = i + 1
  /\ reported' = reported \cup {i}
  /\ UNCHANGED <<text, pc, x, prev, shown, unloaded>>

\* "FT_Render_Glyph() failed."  The result of FT_Load_Glyph is ignored; a slot
\* that was cleared and not loaded has no format that can be rendered.
ReportRenderFailure ==
  /\ Looping /\ Current.index # 0
  /\ MayFail \cap {"Load", "Render"} # {}
  /\ i' = i + 1
  /\ reported' = reported \cup {i}
  /\ UNCHANGED <<text, pc, x, prev, shown, unloaded>>

\* A CFF glyph that could not be loaded may leave an outline of no contours,
\* which renders to an empty bitmap and is passed over without a message.
LoadFails ==
  /\ Looping /\ Current.index # 0
  /\ "Load" \in MayFail
  /\ i' = i + 1
  /\ unloaded' = unloaded \cup {i}
  /\ UNCHANGED <<text, pc, x, prev, shown, reported>>

\* An empty bitmap, such as a space, moves nothing.  (Wrong: it counts as the
\* glyph before the next.)
SkipBlankMutPrev ==
  /\ Looping /\ Current.index # 0 /\ IsBlank(Current)
  /\ i' = i + 1
  /\ prev' = Current.index
  /\ UNCHANGED <<text, pc, x, shown, reported, unloaded>>
SkipBlank ==
  /\ Looping /\ Current.index # 0 /\ IsBlank(Current)
  /\ i' = i + 1
  /\ UNCHANGED <<text, pc, x, prev, shown, reported, unloaded>>

\* The kerning of glyph v behind glyph u, none if u is the first; and the pen
\* kerned for the current glyph.
Kern(u, v) == IF u # 0 /\ HasKerning THEN Kerning[<<u, v>>] ELSE 0
Pen == Plus(x, Kern(prev, Current.index))

\* The pen after a glyph at pen u, and where its bitmap goes.
Advance(u, g) == Plus(u, g.width + Gap)
Column(u, g) == Plus(u, g.left)
Row(g) == Plus(StartY, g.drop)

Visible == Looping /\ Current.index # 0 /\ ~IsBlank(Current)

ShowGlyph ==
  /\ Visible /\ BltSucceeds(Column(Pen, Current), Row(Current), Current)
  /\ shown' = Append(shown, [n |-> i, col |-> Column(Pen, Current), row |-> Row(Current)])
  /\ x' = Advance(Pen, Current)
  /\ prev' = Current.index
  /\ i' = i + 1
  /\ UNCHANGED <<text, pc, reported, unloaded>>

\* "Blt() failed.", after the pen has moved.  (Wrong: the next glyph is drawn.)
BltFailsMutGoesOn ==
  /\ Visible
  /\ "Blt" \in MayFail \/ ~BltSucceeds(Column(Pen, Current), Row(Current), Current)
  /\ x' = Advance(Pen, Current)
  /\ prev' = Current.index
  /\ i' = i + 1
  /\ UNCHANGED <<text, pc, shown, reported, unloaded>>
BltFails ==
  /\ Visible
  /\ "Blt" \in MayFail \/ ~BltSucceeds(Column(Pen, Current), Row(Current), Current)
  /\ x' = Advance(Pen, Current)
  /\ prev' = Current.index
  /\ pc' = "error"
  /\ UNCHANGED <<text, i, shown, reported, unloaded>>

\* "conv_bitmap() failed."
ConversionFails ==
  /\ Visible /\ "Alloc" \in MayFail
  /\ x' = Pen
  /\ prev' = Current.index
  /\ pc' = "error"
  /\ UNCHANGED <<text, i, shown, reported, unloaded>>

EndOfText ==
  /\ pc = "loop" /\ i = Len(text) + 1
  /\ pc' = "done"
  /\ UNCHANGED <<text, i, x, prev, shown, reported, unloaded>>

DrawNext ==
  \/ ReportUndefined \/ ReportRenderFailure \/ LoadFails \/ SkipBlank
  \/ ShowGlyph \/ BltFails \/ ConversionFails \/ EndOfText

DrawSpec == DrawInit /\ [][DrawNext]_drawVars /\ WF_drawVars(DrawNext)

----------------------------------------------------------------------------
(***************************************************************************)
(* The layout that the line should have, from the glyphs that were drawn,  *)
(* in integers: the first glyph's pen is at 0, each other one's is a gap   *)
(* behind its predecessor and kerned against it.                           *)
(***************************************************************************)
GlyphOf(m) == Glyph[text[shown[m].n]]

KernBefore(m) ==
  IF HasKerning THEN Kerning[<<GlyphOf(m - 1).index, GlyphOf(m).index>>] ELSE 0

\* The pen from which glyph m was drawn, in integers.
PenOf(m) == shown[m].col - GlyphOf(m).left

\* Where the pen has to be for glyph m.
PenFor(m) ==
  IF m = 1 THEN 0 ELSE PenOf(m - 1) + GlyphOf(m - 1).width + Gap + KernBefore(m)

(***************************************************************************)
(* Properties                                                              *)
(***************************************************************************)

\* Every variable stays in its type.
DrawTypeOK ==
  /\ text \in Texts
  /\ pc \in {"loop", "done", "error"}
  /\ i \in 1 .. Len(text) + 1
  /\ x \in 0 .. UintnMod - 1
  /\ prev \in Indices \cup {0}
  /\ shown \in Seq([n : 1 .. Len(text), col : Nat, row : Nat])
  /\ reported \subseteq 1 .. Len(text)
  /\ unloaded \subseteq 1 .. Len(text)

\* Each glyph that was drawn is where the layout in integers puts it, although
\* the program computes with unsigned numbers that wrap; and it is inside the
\* screen.
DrawnInPlace ==
  \A m \in DOMAIN shown :
    /\ PenOf(m) = PenFor(m)
    /\ shown[m].row = StartY + GlyphOf(m).drop
    /\ shown[m].col + GlyphOf(m).width <= ScreenW
    /\ shown[m].row + GlyphOf(m).rows <= ScreenH

\* No character gets lost unless its glyph could not be loaded: what the loop
\* has passed was drawn, has been reported, or is blank; and what was drawn
\* keeps the order of the text.
NoneLost ==
  /\ \A n \in 1 .. i - 1 :
       \/ n \in reported \cup unloaded
       \/ IsBlank(Glyph[text[n]])
       \/ \E m \in DOMAIN shown : shown[m].n = n
  /\ \A l, m \in DOMAIN shown : l < m => shown[l].n < shown[m].n

\* The function returns or ends in an error message.
DrawEnds == <>(pc # "loop")

=============================================================================
