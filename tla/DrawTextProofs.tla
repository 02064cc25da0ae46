--------------------------- MODULE DrawTextProofs ---------------------------
(***************************************************************************)
(* draw_text loses no character, keeps their order and puts each glyph     *)
(* where a layout in integers has it, for every text, font and screen,     *)
(* whatever fails.                                                         *)
(*                                                                         *)
(* The pen is right only modulo 2^64 (PenCongruent): kerning and bearings  *)
(* take it below zero and back.  A glyph that Blt accepts lies inside the  *)
(* screen, as its predecessor does, and 32-bit bearings and kerning cannot *)
(* take it from there to another number of the same residue; so the place  *)
(* of a glyph that is shown is right as an integer (Placed).               *)
(***************************************************************************)
EXTENDS DrawText, TLAPS

\* What has been drawn lies behind the loop.
DrawnBefore == \A m \in DOMAIN shown : shown[m].n < i

\* a and b are the same UINTN.
Congruent(a, b) == \E k \in Int : a = b + k * UintnMod

\* The pen is a gap behind the glyph drawn last, which is the one that prev
\* remembers.
PenCongruent ==
  pc = "loop" =>
    IF shown = <<>> THEN x = 0 /\ prev = 0
    ELSE /\ prev = GlyphOf(Len(shown)).index /\ prev # 0
         /\ Congruent(x, PenOf(Len(shown)) + GlyphOf(Len(shown)).width + Gap)

DrawInv == DrawTypeOK /\ DrawnBefore /\ NoneLost /\ PenCongruent /\ DrawnInPlace

Shown == [n : 1 .. Len(text), col : Nat, row : Nat]

----------------------------------------------------------------------------
(* Lemmas about the operators                                              *)

LEMMA GlyphType ==
  ASSUME NEW c \in Chars
  PROVE  /\ Glyph[c].index \in Nat /\ Glyph[c].width \in Nat /\ Glyph[c].rows \in Nat
         /\ Glyph[c].left \in Int /\ Glyph[c].drop \in Int
         /\ Glyph[c].index \in Indices
         /\ IsInt(Glyph[c].left) /\ Glyph[c].drop \in -IntMod .. IntMod
  BY DrawAssumption DEF DrawAssumption, Indices

\* The moduli, and what the sizes of the screen are next to them.
LEMMA Moduli ==
  /\ UintnMod \in Nat /\ UintnMod > 0 /\ UintnMod >= 8 * IntMod
  /\ IntMod \in Nat /\ IntMod > 8
  /\ StartY \in 0 .. IntMod /\ ScreenW \in 0 .. IntMod /\ ScreenH \in 0 .. IntMod
  BY DrawAssumption DEF DrawAssumption, Gap

LEMMA PlusIsUintn ==
  ASSUME NEW u \in Int, NEW n \in Int PROVE Plus(u, n) \in 0 .. UintnMod - 1
  BY Moduli DEF Plus

\* A sum of a UINTN is the sum in integers, up to multiples of the modulus.
LEMMA PlusCongruent ==
  ASSUME NEW u \in Int, NEW v \in Int, NEW n \in Int, Congruent(u, v)
  PROVE  Congruent(Plus(u, n), v + n)
<1>1. PICK k \in Int : u = v + k * UintnMod
  BY DEF Congruent
<1> DEFINE a == u + n
           q == a \div UintnMod
<1>2. a \in Int /\ q \in Int /\ a = UintnMod * q + Plus(u, n) /\ Plus(u, n) \in Int
  BY Moduli DEF Plus
<1> HIDE DEF q
<1>3. k - q \in Int /\ Plus(u, n) = v + n + (k - q) * UintnMod
  BY <1>1, <1>2, Moduli
<1> QED
  BY <1>3 DEF Congruent

LEMMA SelfCongruent == ASSUME NEW u \in Int PROVE Congruent(u, u)
<1>1. u = u + 0 * UintnMod
  BY Moduli
<1> QED
  BY <1>1 DEF Congruent

\* Numbers of the same residue that are less than the modulus apart are equal.
LEMMA CongruentEqual ==
  ASSUME NEW a \in Int, NEW b \in Int, Congruent(a, b),
         a - b < UintnMod, b - a < UintnMod
  PROVE  a = b
<1>1. PICK k \in Int : a = b + k * UintnMod
  BY DEF Congruent
<1>2. CASE k = 0
  BY <1>1, <1>2, Moduli
<1>3. CASE k >= 1
  <2>1. (k - 1) * UintnMod >= 0
    BY <1>3, Moduli
  <2> QED
    BY <1>1, <2>1, Moduli
<1>4. CASE k <= -1
  <2>1. (-1 - k) * UintnMod >= 0
    BY <1>4, Moduli
  <2> QED
    BY <1>1, <2>1, Moduli
<1> QED
  BY <1>2, <1>3, <1>4

\* The arithmetic of the bounds, for integers.
LEMMA BehindAGlyph ==
  ASSUME NEW w \in Nat, NEW s \in 0 .. IntMod, NEW col \in Nat, NEW l \in Int,
         NEW k \in Int, NEW b \in Int, IsInt(l), IsInt(k), IsInt(b), col + w <= s
  PROVE  /\ -2 * IntMod <= (col - l) + w + 8 + k + b
         /\ (col - l) + w + 8 + k + b <= 4 * IntMod
  BY Moduli DEF IsInt

LEMMA SameIfNear ==
  ASSUME NEW a \in Nat, NEW b \in Int, NEW w \in Nat, NEW s \in 0 .. IntMod, Congruent(a, b),
         a + w <= s, -2 * IntMod <= b, b <= 4 * IntMod
  PROVE  a = b
<1>1. a - b < UintnMod /\ b - a < UintnMod
  BY Moduli
<1> QED
  BY <1>1, CongruentEqual

LEMMA KernIsInt ==
  ASSUME NEW u \in Indices \cup {0}, NEW v \in Indices
  PROVE  Kern(u, v) \in Int /\ IsInt(Kern(u, v))
<1>1. CASE u # 0 /\ HasKerning
  BY <1>1, DrawAssumption DEF Kern, DrawAssumption
<1>2. CASE ~(u # 0 /\ HasKerning)
  BY <1>2, Moduli DEF Kern, IsInt
<1> QED
  BY <1>1, <1>2

\* A character the loop looks at is one of the font's, and every place the
\* program computes from it is a UINTN.
LEMMA LookingAt ==
  ASSUME DrawTypeOK, Looping
  PROVE  /\ i \in 1 .. Len(text) /\ Len(text) \in Nat
         /\ Current.index \in Indices
         /\ Pen \in 0 .. UintnMod - 1
         /\ Advance(Pen, Current) \in 0 .. UintnMod - 1
         /\ Column(Pen, Current) \in Nat
         /\ Row(Current) \in Nat
<1>1. text \in Seq(Chars) /\ StartY \in Nat /\ UintnMod \in Nat
  BY DrawAssumption DEF DrawAssumption, DrawTypeOK
<1>2. Len(text) \in Nat /\ i \in 1 .. Len(text)
  BY <1>1 DEF DrawTypeOK, Looping
<1>3. text[i] \in Chars
  BY <1>1, <1>2
<1>4. /\ Current.index \in Indices
      /\ Current.width \in Nat /\ Current.left \in Int /\ Current.drop \in Int
  BY <1>3, GlyphType DEF Current
<1>5. x \in Int /\ prev \in Indices \cup {0}
  BY <1>1 DEF DrawTypeOK
<1>6. Kern(prev, Current.index) \in Int
  BY <1>4, <1>5, KernIsInt
<1>7. Pen \in 0 .. UintnMod - 1
  BY <1>5, <1>6, PlusIsUintn DEF Pen
<1>8. Pen \in Int /\ Current.width + Gap \in Int
  BY <1>1, <1>4, <1>7 DEF Gap
<1>9. Advance(Pen, Current) \in 0 .. UintnMod - 1
  BY <1>8, PlusIsUintn DEF Advance
<1>10. Column(Pen, Current) \in 0 .. UintnMod - 1
  BY <1>4, <1>8, PlusIsUintn DEF Column
<1>11. Row(Current) \in 0 .. UintnMod - 1
  <2>1. StartY \in Int
    BY <1>1
  <2> QED
    BY <2>1, <1>4, PlusIsUintn DEF Row
<1> QED
  BY <1>1, <1>2, <1>4, <1>7, <1>9, <1>10, <1>11

\* The places in the text that were drawn are numbers.
LEMMA ShownType ==
  ASSUME DrawTypeOK, Len(text) \in Nat
  PROVE  \A m \in DOMAIN shown : shown[m].n \in Nat
<1>1. shown \in Seq(Shown)
  BY DEF DrawTypeOK, Shown
<1>2. ASSUME NEW m \in DOMAIN shown PROVE shown[m] \in Shown
  BY <1>1
<1>3. ASSUME NEW s \in Shown PROVE s.n \in Nat
  BY <1>3 DEF Shown
<1> QED
  BY <1>2, <1>3

----------------------------------------------------------------------------
(* The invariant                                                           *)

LEMMA DrawInitInv == ASSUME DrawInit PROVE DrawInv
<1>1. text \in Seq(Chars) /\ UintnMod > 0 /\ UintnMod \in Nat
  BY DrawAssumption, Moduli DEF DrawAssumption, DrawInit
<1>2. DrawTypeOK
  BY <1>1 DEF DrawInit, DrawTypeOK
<1>3. shown = <<>> /\ i = 1 /\ x = 0 /\ prev = 0
  BY DEF DrawInit
<1> QED
  BY <1>2, <1>3 DEF DrawInv, DrawnBefore, NoneLost, PenCongruent, DrawnInPlace

\* What was drawn stays where it is if nothing is drawn.
LEMMA PlacedStutter ==
  ASSUME DrawInv, UNCHANGED <<text, shown>>,
         pc' # "loop" \/ UNCHANGED <<pc, x, prev>>
  PROVE  PenCongruent' /\ DrawnInPlace'
<1>1. /\ \A m : GlyphOf(m)' = GlyphOf(m) /\ PenOf(m)' = PenOf(m)
      /\ \A m : PenFor(m)' = PenFor(m)
  BY DEF GlyphOf, PenOf, PenFor, KernBefore
<1> QED
  BY <1>1 DEF DrawInv, PenCongruent, DrawnInPlace

\* A step that passes a character without drawing it, having reported it or
\* found nothing to draw.
LEMMA PassStep ==
  ASSUME DrawInv, Looping, i' = i + 1,
         UNCHANGED <<text, pc, x, prev, shown>>,
         reported \subseteq reported', unloaded \subseteq unloaded',
         reported' \subseteq reported \cup {i}, unloaded' \subseteq unloaded \cup {i},
         i \in reported' \cup unloaded' \/ IsBlank(Current)
  PROVE  DrawInv'
<1>1. i \in 1 .. Len(text) /\ Len(text) \in Nat
  BY LookingAt DEF DrawInv
<1>2. DrawTypeOK'
  BY <1>1 DEF DrawInv, DrawTypeOK
<1>3. DrawnBefore'
  <2>1. \A m \in DOMAIN shown : shown[m].n \in Nat
    BY <1>1, ShownType DEF DrawInv
  <2> QED
    BY <1>1, <2>1 DEF DrawInv, DrawnBefore
<1>4. NoneLost'
  <2>1. ASSUME NEW n \in 1 .. i' - 1
        PROVE  \/ n \in reported' \cup unloaded'
               \/ IsBlank(Glyph[text[n]])
               \/ \E m \in DOMAIN shown : shown[m].n = n
    <3>1. n \in 1 .. i - 1 \/ n = i
      BY <1>1
    <3> QED
      BY <3>1 DEF DrawInv, NoneLost, Current
  <2> QED
    BY <2>1 DEF DrawInv, NoneLost, IsBlank
<1> QED
  BY <1>2, <1>3, <1>4, PlacedStutter DEF DrawInv

\* The types of what was drawn.
LEMMA DrawnType ==
  ASSUME DrawTypeOK, NEW m \in DOMAIN shown
  PROVE  /\ shown[m].n \in 1 .. Len(text) /\ shown[m].col \in Nat /\ shown[m].row \in Nat
         /\ GlyphOf(m).index \in Indices /\ GlyphOf(m).width \in Nat
         /\ GlyphOf(m).left \in Int /\ IsInt(GlyphOf(m).left)
         /\ PenOf(m) \in Int
<1>1. shown \in Seq(Shown) /\ text \in Seq(Chars)
  BY DrawAssumption DEF DrawTypeOK, Shown, DrawAssumption
<1>2. shown[m] \in Shown
  BY <1>1
<1>3. shown[m].n \in 1 .. Len(text) /\ shown[m].col \in Nat /\ shown[m].row \in Nat
  BY <1>2 DEF Shown
<1>4. text[shown[m].n] \in Chars
  BY <1>1, <1>3
<1> QED
  BY <1>3, <1>4, GlyphType DEF GlyphOf, PenOf

\* The pen for the glyph at hand, kerned, is the one the layout wants, up to
\* multiples of the modulus; and the layout does not take the bitmap further
\* from the screen than two bearings and the kerning can.
LEMMA PenIsFor ==
  ASSUME DrawInv, Looping
  PROVE  \E t \in Int :
           /\ t = IF shown = <<>> THEN 0
                  ELSE PenOf(Len(shown)) + GlyphOf(Len(shown)).width + Gap
                         + (IF HasKerning
                              THEN Kerning[<<GlyphOf(Len(shown)).index, Current.index>>]
                              ELSE 0)
           /\ Congruent(Pen, t)
           /\ -2 * IntMod <= t + Current.left
           /\ t + Current.left <= 4 * IntMod
<1> DEFINE l == Len(shown)
           k == Kern(prev, Current.index)
<1>1. DrawTypeOK /\ pc = "loop"
  BY DEF DrawInv, Looping
<1>2. Current.index \in Indices /\ Current.left \in Int /\ IsInt(Current.left)
  <2>1. text \in Seq(Chars) /\ i \in 1 .. Len(text)
    BY <1>1, DrawAssumption, LookingAt DEF DrawAssumption, DrawTypeOK
  <2>2. text[i] \in Chars
    BY <2>1
  <2> QED
    BY <2>2, GlyphType DEF Current
<1>3. prev \in Indices \cup {0} /\ x \in Int
  BY <1>1, Moduli DEF DrawTypeOK
<1>4. k \in Int /\ IsInt(k)
  BY <1>2, <1>3, KernIsInt
<1>5. Pen = Plus(x, k)
  BY DEF Pen
<1>6. CASE shown = <<>>
  <2>1. x = 0 /\ k = 0
    BY <1>1, <1>6 DEF DrawInv, PenCongruent, Kern
  <2>2. Congruent(Pen, 0 + 0)
    BY <1>3, <1>4, <1>5, <2>1, SelfCongruent, PlusCongruent
  <2>3. -2 * IntMod <= 0 + Current.left /\ 0 + Current.left <= 4 * IntMod
    BY <1>2, Moduli DEF IsInt
  <2> QED
    BY <1>6, <2>2, <2>3
<1>7. CASE shown # <<>>
  <2>1. l \in DOMAIN shown
    BY <1>1, <1>7 DEF DrawTypeOK
  <2>2. /\ GlyphOf(l).index \in Indices /\ GlyphOf(l).width \in Nat
        /\ GlyphOf(l).left \in Int /\ IsInt(GlyphOf(l).left)
        /\ shown[l].col \in Nat /\ PenOf(l) \in Int
    BY <1>1, <2>1, DrawnType
  <2>3. /\ prev = GlyphOf(l).index /\ prev # 0
        /\ Congruent(x, PenOf(l) + GlyphOf(l).width + Gap)
    BY <1>1, <1>7 DEF DrawInv, PenCongruent
  <2>4. k = IF HasKerning THEN Kerning[<<GlyphOf(l).index, Current.index>>] ELSE 0
    BY <2>3 DEF Kern
  <2>5. Congruent(Pen, PenOf(l) + GlyphOf(l).width + Gap + k)
    <3>1. PenOf(l) + GlyphOf(l).width + Gap \in Int
      BY <2>2 DEF Gap
    <3> QED
      BY <1>3, <1>4, <1>5, <2>3, <3>1, PlusCongruent
  <2>6. shown[l].col + GlyphOf(l).width <= ScreenW
    BY <2>1 DEF DrawInv, DrawnInPlace
  <2>7. /\ -2 * IntMod <= PenOf(l) + GlyphOf(l).width + Gap + k + Current.left
        /\ PenOf(l) + GlyphOf(l).width + Gap + k + Current.left <= 4 * IntMod
    BY <1>2, <1>4, <2>2, <2>6, Moduli, BehindAGlyph DEF PenOf, Gap
  <2>8. PenOf(l) + GlyphOf(l).width + Gap + k \in Int
    BY <1>4, <2>2 DEF Gap
  <2> QED
    BY <1>7, <2>4, <2>5, <2>7, <2>8
<1> QED
  BY <1>6, <1>7

\* A glyph that is shown is shown in its place, and the pen moves on from there.
LEMMA ShowPlaced == ASSUME DrawInv, ShowGlyph PROVE PenCongruent' /\ DrawnInPlace'
<1>0. PICK l, col, row, new :
        /\ l = Len(shown) /\ col = Column(Pen, Current) /\ row = Row(Current)
        /\ new = [n |-> i, col |-> col, row |-> row]
  OBVIOUS
<1>1. Looping /\ DrawTypeOK /\ Current.index # 0
  BY DEF ShowGlyph, Visible, DrawInv
<1>2. /\ i \in 1 .. Len(text) /\ Len(text) \in Nat
      /\ Pen \in Int /\ col \in Nat /\ row \in Nat
  BY <1>0, <1>1, LookingAt, Moduli
<1>3. /\ Current.width \in Nat /\ Current.rows \in Nat /\ Current.left \in Int
      /\ Current.drop \in -IntMod .. IntMod
  <2>1. text \in Seq(Chars)
    BY <1>1, DrawAssumption DEF DrawAssumption, DrawTypeOK
  <2>2. text[i] \in Chars
    BY <1>2, <2>1
  <2> QED
    BY <2>2, GlyphType DEF Current
<1>4. col + Current.width <= ScreenW /\ row + Current.rows <= ScreenH
  BY <1>0 DEF ShowGlyph, BltSucceeds
<1>5. /\ shown' = Append(shown, new) /\ x' = Advance(Pen, Current)
      /\ prev' = Current.index /\ pc' = pc /\ text' = text
  BY <1>0 DEF ShowGlyph
<1>6. PICK t \in Int :
        /\ t = IF shown = <<>> THEN 0
               ELSE PenOf(l) + GlyphOf(l).width + Gap
                      + (IF HasKerning
                           THEN Kerning[<<GlyphOf(l).index, Current.index>>]
                           ELSE 0)
        /\ Congruent(Pen, t)
        /\ -2 * IntMod <= t + Current.left
        /\ t + Current.left <= 4 * IntMod
  BY <1>0, <1>1, PenIsFor
<1>7. col = t + Current.left
  <2>1. Congruent(col, t + Current.left)
    BY <1>0, <1>2, <1>3, <1>6, PlusCongruent DEF Column
  <2>2. t + Current.left \in Int /\ ScreenW \in 0 .. IntMod
    BY <1>3, Moduli
  <2> QED
    BY <1>2, <1>3, <1>4, <1>6, <2>1, <2>2, SameIfNear
<1>8. row = StartY + Current.drop
  <2>1. Congruent(row, StartY + Current.drop)
    <3>1. StartY \in Int /\ Current.drop \in Int
      BY <1>3, Moduli
    <3> QED
      BY <1>0, <3>1, SelfCongruent, PlusCongruent DEF Row
  <2>2. /\ StartY + Current.drop \in Int /\ ScreenH \in 0 .. IntMod
        /\ -2 * IntMod <= StartY + Current.drop /\ StartY + Current.drop <= 4 * IntMod
    BY <1>3, Moduli
  <2> QED
    BY <1>2, <1>3, <1>4, <2>1, <2>2, SameIfNear
<1>9. Congruent(x', t + Current.width + Gap)
  <2>1. Congruent(x', t + (Current.width + Gap))
    BY <1>2, <1>3, <1>5, <1>6, PlusCongruent DEF Advance, Gap
  <2> QED
    BY <1>3, <2>1 DEF Gap
<1>10. shown \in Seq(Shown) /\ new \in Shown /\ l \in Nat /\ DOMAIN shown = 1 .. l
  BY <1>0, <1>1, <1>2 DEF DrawTypeOK, Shown
<1>11. new.n = i /\ new.col = col /\ new.row = row
  BY <1>0
<1>12. /\ l \in Nat /\ Len(shown') = l + 1 /\ DOMAIN shown' = 1 .. l + 1 /\ shown' # <<>>
       /\ \A m \in 1 .. l : shown'[m] = shown[m]
       /\ shown'[l + 1] = new
  BY <1>0, <1>5, <1>10
<1>13. /\ GlyphOf(l + 1)' = Current /\ PenOf(l + 1)' = t
       /\ \A m \in 1 .. l : GlyphOf(m)' = GlyphOf(m) /\ PenOf(m)' = PenOf(m)
  <2>1. GlyphOf(l + 1)' = Current
    BY <1>5, <1>11, <1>12 DEF GlyphOf, Current
  <2>2. \A m \in 1 .. l : GlyphOf(m)' = GlyphOf(m)
    BY <1>5, <1>12 DEF GlyphOf
  <2>3. PenOf(l + 1)' = t
    BY <1>3, <1>6, <1>7, <1>11, <1>12, <2>1 DEF PenOf
  <2> QED
    BY <1>12, <2>1, <2>2, <2>3 DEF PenOf
<1>14. PenCongruent'
  BY <1>1, <1>5, <1>9, <1>12, <1>13 DEF PenCongruent, Congruent
<1>15. PenFor(l + 1)' = t
  <2>1. CASE shown = <<>>
    <3>1. l + 1 = 1
      BY <1>0, <2>1
    <3> QED
      BY <1>6, <2>1, <3>1 DEF PenFor
  <2>2. CASE shown # <<>>
    <3>1. l \in 1 .. l /\ l + 1 # 1 /\ (l + 1) - 1 = l
      BY <1>10, <2>2
    <3>2. PenFor(l + 1)' = PenOf(l)' + GlyphOf(l)'.width + Gap + KernBefore(l + 1)'
      BY <3>1 DEF PenFor
    <3>3. KernBefore(l + 1)' = IF HasKerning
                                 THEN Kerning[<<GlyphOf(l).index, Current.index>>]
                                 ELSE 0
      BY <1>13, <3>1 DEF KernBefore
    <3> QED
      BY <1>6, <1>13, <2>2, <3>1, <3>2, <3>3
  <2> QED
    BY <2>1, <2>2
<1>16. ASSUME NEW m \in 1 .. l PROVE PenFor(m)' = PenFor(m)
  <2>1. m # 1 => m - 1 \in 1 .. l
    BY <1>10
  <2> QED
    BY <1>13, <2>1 DEF PenFor, KernBefore
<1>17. DrawnInPlace'
  <2>1. ASSUME NEW m \in 1 .. l
        PROVE  /\ PenOf(m)' = PenFor(m)'
               /\ shown'[m].row = StartY + GlyphOf(m)'.drop
               /\ shown'[m].col + GlyphOf(m)'.width <= ScreenW
               /\ shown'[m].row + GlyphOf(m)'.rows <= ScreenH
    BY <1>10, <1>12, <1>13, <1>16 DEF DrawInv, DrawnInPlace
  <2>2. /\ PenOf(l + 1)' = PenFor(l + 1)'
        /\ shown'[l + 1].row = StartY + GlyphOf(l + 1)'.drop
        /\ shown'[l + 1].col + GlyphOf(l + 1)'.width <= ScreenW
        /\ shown'[l + 1].row + GlyphOf(l + 1)'.rows <= ScreenH
    BY <1>4, <1>8, <1>11, <1>12, <1>13, <1>15
  <2> QED
    BY <1>10, <1>12, <2>1, <2>2 DEF DrawnInPlace
<1> QED
  BY <1>14, <1>17

\* A step that draws a character.
LEMMA ShowStep == ASSUME DrawInv, ShowGlyph PROVE DrawInv'
<1> DEFINE new == [n |-> i, col |-> Column(Pen, Current), row |-> Row(Current)]
<1>1. Looping /\ DrawTypeOK
  BY DEF ShowGlyph, Visible, DrawInv
<1>2. /\ i \in 1 .. Len(text) /\ Len(text) \in Nat
      /\ Current.index \in Indices
      /\ Advance(Pen, Current) \in 0 .. UintnMod - 1
      /\ Column(Pen, Current) \in Nat /\ Row(Current) \in Nat
  BY <1>1, LookingAt
<1>3. /\ shown' = Append(shown, new) /\ i' = i + 1
      /\ UNCHANGED <<text, pc, reported, unloaded>>
      /\ x' = Advance(Pen, Current) /\ prev' = Current.index
  BY DEF ShowGlyph
<1>4. new \in Shown /\ new.n = i
  BY <1>2 DEF Shown
<1>5. shown \in Seq(Shown)
  BY <1>1 DEF DrawTypeOK, Shown
<1> HIDE DEF new
<1>6. /\ shown' \in Seq(Shown)
      /\ DOMAIN shown' = DOMAIN shown \cup {Len(shown) + 1}
      /\ \A m \in DOMAIN shown : shown'[m] = shown[m] /\ m <= Len(shown) /\ m \in Nat
      /\ shown'[Len(shown) + 1] = new
      /\ Len(shown) \in Nat
  BY <1>3, <1>4, <1>5
<1>7. DrawTypeOK'
  BY <1>1, <1>2, <1>3, <1>6 DEF DrawTypeOK, Shown
<1>8. \A m \in DOMAIN shown : shown[m].n < i /\ shown[m].n \in Nat
  BY <1>1, <1>2, ShownType DEF DrawInv, DrawnBefore
<1>9. DrawnBefore'
  BY <1>2, <1>3, <1>4, <1>6, <1>8 DEF DrawnBefore
<1>10. \A l, m \in DOMAIN shown' : l < m => shown'[l].n < shown'[m].n
  BY <1>4, <1>6, <1>8 DEF DrawInv, NoneLost
<1>11. ASSUME NEW n \in 1 .. i' - 1
       PROVE  \/ n \in reported' \cup unloaded'
              \/ IsBlank(Glyph[text[n]])
              \/ \E m \in DOMAIN shown' : shown'[m].n = n
  <2>1. CASE n = i
    BY <2>1, <1>4, <1>6
  <2>2. CASE n # i
    <3>1. n \in 1 .. i - 1
      BY <2>2, <1>2, <1>3
    <3> QED
      BY <3>1, <1>3, <1>6 DEF DrawInv, NoneLost
  <2> QED
    BY <2>1, <2>2
<1>12. NoneLost'
  BY <1>3, <1>10, <1>11 DEF NoneLost, IsBlank
<1> QED
  BY <1>7, <1>9, <1>12, ShowPlaced DEF DrawInv

\* A step that only leaves the loop.
LEMMA LeaveStep ==
  ASSUME DrawInv, pc' \in {"done", "error"},
         UNCHANGED <<text, i, shown, reported, unloaded>>,
         x' \in 0 .. UintnMod - 1, prev' \in Indices \cup {0}
  PROVE  DrawInv'
<1>1. DrawTypeOK'
  BY DEF DrawInv, DrawTypeOK
<1>2. PenCongruent' /\ DrawnInPlace'
  BY PlacedStutter
<1> QED
  BY <1>1, <1>2 DEF DrawInv, DrawnBefore, NoneLost, IsBlank

LEMMA DrawNextInv == ASSUME DrawInv, [DrawNext]_drawVars PROVE DrawInv'
<1>1. CASE ReportUndefined
  <2>1. Looping
    BY <1>1 DEF ReportUndefined
  <2> QED
    BY <1>1, <2>1, PassStep DEF ReportUndefined
<1>2. CASE ReportRenderFailure
  <2>1. Looping
    BY <1>2 DEF ReportRenderFailure
  <2> QED
    BY <1>2, <2>1, PassStep DEF ReportRenderFailure
<1>3. CASE LoadFails
  <2>1. Looping
    BY <1>3 DEF LoadFails
  <2> QED
    BY <1>3, <2>1, PassStep DEF LoadFails
<1>4. CASE SkipBlank
  <2>1. Looping
    BY <1>4 DEF SkipBlank
  <2> QED
    BY <1>4, <2>1, PassStep DEF SkipBlank
<1>5. CASE ShowGlyph
  BY <1>5, ShowStep
<1>6. CASE BltFails
  <2>1. Looping /\ DrawTypeOK
    BY <1>6 DEF BltFails, Visible, DrawInv
  <2> QED
    BY <1>6, <2>1, LookingAt, LeaveStep DEF BltFails
<1>7. CASE ConversionFails
  <2>1. Looping /\ DrawTypeOK
    BY <1>7 DEF ConversionFails, Visible, DrawInv
  <2> QED
    BY <1>7, <2>1, LookingAt, LeaveStep DEF ConversionFails
<1>8. CASE EndOfText
  <2>1. x \in 0 .. UintnMod - 1 /\ prev \in Indices \cup {0}
    BY DEF DrawInv, DrawTypeOK
  <2> QED
    BY <1>8, <2>1, LeaveStep DEF EndOfText
<1>9. CASE UNCHANGED drawVars
  BY <1>9, PlacedStutter DEF drawVars, DrawInv, DrawTypeOK, DrawnBefore, NoneLost, IsBlank
<1> QED
  BY <1>1, <1>2, <1>3, <1>4, <1>5, <1>6, <1>7, <1>8, <1>9 DEF DrawNext

----------------------------------------------------------------------------
(* Theorems                                                                *)

\* The invariant of draw_text's loop.
THEOREM DrawInvariant == DrawSpec => []DrawInv
<1>1. DrawInit => DrawInv
  BY DrawInitInv
<1>2. DrawInv /\ [DrawNext]_drawVars => DrawInv'
  BY DrawNextInv
<1> QED
  BY <1>1, <1>2, PTL DEF DrawSpec

\* The pen stays a UINTN and the loop inside the text.
THEOREM DrawTypeCorrect == DrawSpec => []DrawTypeOK
  BY DrawInvariant, PTL DEF DrawInv

\* Each character passed was drawn, reported, blank or not loaded, and what was
\* drawn has the order of the text.
THEOREM DrawNoneLost == DrawSpec => []NoneLost
  BY DrawInvariant, PTL DEF DrawInv

\* Each glyph that is shown is where the layout in integers has it, and inside
\* the screen, although the pen wraps around.
THEOREM DrawInPlace == DrawSpec => []DrawnInPlace
  BY DrawInvariant, PTL DEF DrawInv

\* How many steps of draw_text are left at most.
StepsLeft == IF pc = "loop" THEN Len(text) + 2 - i ELSE 0

\* The loop ends after at most one step for each character and one more: no
\* `continue' leaves it where it was.
THEOREM DrawEveryStepCounts ==
  DrawSpec => [][StepsLeft' \in Nat /\ StepsLeft' < StepsLeft]_drawVars
<1>1. ASSUME DrawTypeOK, [DrawNext]_drawVars
      PROVE  [StepsLeft' \in Nat /\ StepsLeft' < StepsLeft]_drawVars
  <2>1. Len(text) \in Nat /\ i \in 1 .. Len(text) + 1
    BY <1>1, DrawAssumption DEF DrawTypeOK, DrawAssumption
  <2>2. CASE pc = "loop" /\ i <= Len(text) /\ text' = text /\ pc' = pc /\ i' = i + 1
    BY <2>1, <2>2 DEF StepsLeft
  <2>3. CASE pc = "loop" /\ pc' \in {"done", "error"}
    BY <2>1, <2>3 DEF StepsLeft
  <2> QED
    BY <1>1, <2>2, <2>3
    DEF DrawNext, Looping, Visible, ReportUndefined, ReportRenderFailure, LoadFails,
        SkipBlank, ShowGlyph, BltFails, ConversionFails, EndOfText
<1> QED
  BY <1>1, DrawTypeCorrect, PTL DEF DrawSpec

=============================================================================
