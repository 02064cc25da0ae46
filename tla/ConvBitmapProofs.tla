-------------------------- MODULE ConvBitmapProofs --------------------------
(***************************************************************************)
(* conv_bitmap writes its target exactly once and inside, and converts the *)
(* whole bitmap, for bitmaps of every size.                                *)
(***************************************************************************)
EXTENDS ConvBitmap, TLAPS

\* The element to be written is that of row j and column i; those written are
\* the ones before it.
Progress ==
  /\ k = width * j + i
  /\ j = height => i = 0
  /\ DOMAIN p = 0 .. k - 1
  /\ pc = "done" => j = height

\* Every place already visited has its pixel.
Visited(r, c) == r < j \/ (r = j /\ c < i)

Converted ==
  \A r \in 0 .. height - 1, c \in 0 .. width - 1 :
    Visited(r, c) => p[width * r + c] = Pixel(r, c)

ConvInv == ConvTypeOK /\ Progress /\ Converted

\* Rows do not overlap: whatever lies before the start of row s in the bitmap is
\* in an element before the row.
LEMMA RowsApart ==
  ASSUME NEW w \in Nat, NEW r \in Nat, NEW s \in Nat, NEW c \in 0 .. w - 1, r < s
  PROVE  w * r \in Nat /\ w * s \in Nat /\ w * r + c < w * s
<1>1. PICK d \in Nat : s = r + 1 + d
  <2>1. s - r - 1 \in Nat /\ s = r + 1 + (s - r - 1)
    OBVIOUS
  <2> QED
    BY <2>1
<1>2. w * s = w * r + w + w * d
  BY <1>1
<1>3. w * d \in Nat /\ w * r \in Nat /\ w * s \in Nat
  BY <1>1
<1> QED
  BY <1>2, <1>3

LEMMA PitchIsNat == ASSUME NEW w \in Nat PROVE LcdPitch(w) \in Nat /\ LcdWidth(w) \in Nat
  BY DEF LcdPitch, LcdWidth

LEMMA PixelIsOffsets ==
  ASSUME pitch \in Nat, NEW r \in Nat, NEW c \in Nat PROVE Pixel(r, c) \in Offset
<1>1. pitch * r \in Nat
  OBVIOUS
<1>2. RowStart(r) + c \in Nat /\ RowStart(r) + c + 1 \in Nat /\ RowStart(r) + c + 2 \in Nat
  BY <1>1 DEF RowStart
<1> QED
  BY <1>2, Zenon DEF Pixel, Offset

LEMMA ConvInitInv == ASSUME ConvInit PROVE ConvInv
<1>1. PICK w \in Glyphs : width = LcdWidth(w)
  BY DEF ConvInit
<1>2. w \in Nat \ {0} /\ height \in Nat \ {0}
  BY ConvAssumption DEF ConvInit, ConvAssumption
<1>3. width \in Nat \ {0}
  BY <1>1, <1>2 DEF LcdWidth
<1>4. pitch \in Nat
  BY <1>3, PitchIsNat DEF ConvInit
<1>5. DOMAIN p = {}
  BY Zenon DEF ConvInit, NoPixel
<1>6. ConvTypeOK
  BY <1>2, <1>3, <1>4, <1>5 DEF ConvInit, ConvTypeOK
<1>7. Progress /\ Converted
  <2>1. width * 0 = 0
    BY <1>3
  <2>2. k = width * j + i /\ (j = height => i = 0) /\ pc # "done" /\ 0 .. k - 1 = {}
    BY <1>2, <2>1 DEF ConvInit
  <2>3. \A r \in 0 .. height - 1, c \in 0 .. width - 1 : ~Visited(r, c)
    BY <1>2, <1>3 DEF ConvInit, Visited
  <2> QED
    BY <1>5, <2>2, <2>3 DEF Progress, Converted
<1> QED
  BY <1>6, <1>7 DEF ConvInv

\* One pixel more.
LEMMA ConvertPixelInv == ASSUME ConvInv, ConvertPixel PROVE ConvInv'
<1> USE DEF ConvInv
<1>1. /\ width \in Nat \ {0} /\ height \in Nat \ {0} /\ pitch \in Nat
      /\ i \in Nat /\ j \in Nat /\ k \in Nat /\ i < width /\ j < height
      /\ k = width * j + i /\ DOMAIN p = 0 .. k - 1
  BY DEF ConvTypeOK, Progress, ConvertPixel, InRow
<1>2. /\ k' = k + 1 /\ i' = i + 1 /\ pc = "row"
      /\ UNCHANGED <<width, height, pitch, pc, j>>
  BY DEF ConvertPixel
<1>3. DOMAIN p' = 0 .. k
  <2>1. DOMAIN p' = DOMAIN p \cup {k}
    BY Zenon DEF ConvertPixel
  <2> QED
    BY <1>1, <2>1
<1>4. p'[k] = Pixel(j, i) /\ \A n \in 0 .. k - 1 : p'[n] = p[n]
  <2>1. p' = [n \in DOMAIN p \cup {k} |-> IF n = k THEN Pixel(j, i) ELSE p[n]]
    BY Zenon DEF ConvertPixel
  <2>2. \A n \in 0 .. k - 1 : n # k /\ n \in DOMAIN p
    BY <1>1
  <2> QED
    BY <2>1, <2>2, Zenon
<1>5. ConvTypeOK'
  <2>1. Pixel(j, i) \in Offset
    BY <1>1, PixelIsOffsets
  <2>2. \A n \in DOMAIN p' : n = k \/ n \in 0 .. k - 1
    BY <1>1, <1>3
  <2>3. \A n \in DOMAIN p' : p'[n] \in Offset
    BY <1>1, <1>4, <2>1, <2>2 DEF ConvTypeOK
  <2>4. DOMAIN p' \subseteq Nat
    BY <1>1, <1>3
  <2> QED
    BY <1>1, <1>2, <2>3, <2>4 DEF ConvTypeOK
<1>6. Progress'
  <2>1. k' = width' * j' + i'
    BY <1>1, <1>2
  <2>2. DOMAIN p' = 0 .. k' - 1
    BY <1>1, <1>2, <1>3
  <2> QED
    BY <1>1, <1>2, <2>1, <2>2 DEF Progress
<1>7. Converted'
  <2> SUFFICES ASSUME NEW r \in 0 .. height - 1, NEW c \in 0 .. width - 1,
                      r < j \/ (r = j /\ c < i + 1)
               PROVE  p'[width * r + c] = Pixel(r, c)
    BY <1>2 DEF Converted, Visited, Pixel, RowStart
  <2>1. CASE r = j /\ c = i
    BY <2>1, <1>1, <1>4
  <2>2. CASE ~(r = j /\ c = i)
    <3>1. Visited(r, c)
      BY <2>2, <1>1 DEF Visited
    <3>2. p[width * r + c] = Pixel(r, c)
      BY <3>1 DEF Converted
    <3>3. width * r + c \in 0 .. k - 1
      <4>1. CASE r < j
        <5>1. width * r + c < width * j /\ width * r \in Nat /\ width * j \in Nat
          BY <4>1, <1>1, RowsApart
        <5> QED
          BY <5>1, <1>1
      <4>2. CASE r = j
        <5>1. c < i /\ width * j \in Nat
          BY <4>2, <2>2, <1>1
        <5> QED
          BY <5>1, <4>2, <1>1
      <4> QED
        BY <4>1, <4>2, <1>1
    <3> QED
      BY <3>2, <3>3, <1>4
  <2> QED
    BY <2>1, <2>2
<1> QED
  BY <1>5, <1>6, <1>7

\* The next row.
LEMMA NextRowInv == ASSUME ConvInv, NextRow PROVE ConvInv'
<1> USE DEF ConvInv
<1>1. /\ width \in Nat \ {0} /\ height \in Nat \ {0} /\ pitch \in Nat
      /\ i = width /\ j \in Nat /\ k \in Nat /\ j < height
      /\ k = width * j + i
  BY DEF ConvTypeOK, Progress, NextRow, InRow
<1>2. /\ j' = j + 1 /\ i' = 0 /\ pc = "row"
      /\ UNCHANGED <<width, height, pitch, pc, k, p>>
  BY DEF NextRow
<1>3. ConvTypeOK'
  BY <1>1, <1>2 DEF ConvTypeOK
<1>4. width * (j + 1) = width * j + width
  BY <1>1
<1>5. Progress'
  BY <1>1, <1>2, <1>4 DEF Progress
<1>6. Converted'
  <2> SUFFICES ASSUME NEW r \in 0 .. height - 1, NEW c \in 0 .. width - 1,
                      r < j + 1 \/ (r = j + 1 /\ c < 0)
               PROVE  p[width * r + c] = Pixel(r, c)
    BY <1>2 DEF Converted, Visited, Pixel, RowStart
  <2>1. Visited(r, c)
    BY <1>1 DEF Visited
  <2> QED
    BY <2>1 DEF Converted
<1> QED
  BY <1>3, <1>5, <1>6

\* Allocation and return touch nothing.
LEMMA OtherStepsInv ==
  ASSUME ConvInv, Allocate \/ Return \/ UNCHANGED convVars PROVE ConvInv'
<1>1. /\ UNCHANGED <<width, height, pitch, i, j, k, p>>
      /\ pc' = pc \/ pc' \in {"row", "null"} \/ (pc' = "done" /\ ~(j < height))
  BY DEF Allocate, Return, convVars
<1>2. ConvTypeOK'
  BY <1>1 DEF ConvInv, ConvTypeOK
<1>3. Progress'
  BY <1>1 DEF ConvInv, ConvTypeOK, Progress
<1>4. Converted'
  BY <1>1 DEF ConvInv, Converted, Visited, Pixel, RowStart
<1> QED
  BY <1>2, <1>3, <1>4 DEF ConvInv

\* The inductive invariant holds in every reachable state.
THEOREM ConvInvariant == ConvSpec => []ConvInv
<1>1. ConvInit => ConvInv
  BY ConvInitInv
<1>2. ConvInv /\ [ConvNext]_convVars => ConvInv'
  BY ConvertPixelInv, NextRowInv, OtherStepsInv DEF ConvNext
<1> QED
  BY <1>1, <1>2, PTL DEF ConvSpec

\* The variables have their types.
THEOREM ConvTypeCorrect == ConvSpec => []ConvTypeOK
  BY ConvInvariant, PTL DEF ConvInv

\* conv_bitmap writes only elements of the block it allocated, for bitmaps of
\* every width and height.
THEOREM ConvWritesInTarget == ConvSpec => []WritesInTarget
<1>1. ConvInv => WritesInTarget
  <2> SUFFICES ASSUME ConvInv PROVE width * j + i <= width * height /\ width * j \in Nat
                                    /\ width * height \in Nat
    BY DEF ConvInv, ConvTypeOK, Progress, WritesInTarget
  <2>1. /\ width \in Nat \ {0} /\ height \in Nat /\ j \in 0 .. height /\ i \in 0 .. width
        /\ j = height => i = 0
    BY DEF ConvInv, ConvTypeOK, Progress
  <2>2. width * j \in Nat /\ width * height \in Nat
    BY <2>1
  <2>3. CASE j = height
    BY <2>1, <2>2, <2>3
  <2>4. CASE j < height
    <3>1. width * j + (width - 1) < width * height
      BY <2>1, <2>4, RowsApart
    <3> QED
      BY <2>1, <2>2, <3>1
  <2> QED
    BY <2>1, <2>2, <2>3, <2>4
<1> QED
  BY <1>1, ConvInvariant, PTL

\* When it returns, every byte of every row has become the pixel of its place.
THEOREM ConvWholePicture == ConvSpec => []WholePicture
<1>1. ConvInv => WholePicture
  <2> SUFFICES ASSUME ConvInv, pc = "done",
                      NEW r \in 0 .. height - 1, NEW c \in 0 .. width - 1
               PROVE  /\ width * r + c \in DOMAIN p
                      /\ p[width * r + c].Red = ByteAt(r, c)
                      /\ p[width * r + c].Green = ByteAt(r, c) + 1
                      /\ p[width * r + c].Blue = ByteAt(r, c) + 2
    BY DEF WholePicture
  <2>1. /\ width \in Nat \ {0} /\ height \in Nat \ {0} /\ j = height /\ i = 0
        /\ k = width * height + 0 /\ DOMAIN p = 0 .. k - 1
    BY DEF ConvInv, ConvTypeOK, Progress
  <2>2. width * r + c < width * height /\ width * r \in Nat /\ width * height \in Nat
    BY <2>1, RowsApart
  <2>3. width * r + c \in DOMAIN p
    BY <2>1, <2>2
  <2>4. p[width * r + c] = Pixel(r, c)
    BY <2>1 DEF ConvInv, Converted, Visited
  <2> QED
    BY <2>3, <2>4 DEF Pixel, RowStart, ByteAt
<1> QED
  BY <1>1, ConvInvariant, PTL

----------------------------------------------------------------------------
(* How far a pixel reads behind its row                                    *)

\* The padding of a row has two bytes or more, for the two bytes that its last
\* pixel reads behind the row's last column.
Padded == width % 4 \in {1, 2}

\* No pixel is made of bytes further behind its row than one.
ReadsNearRow ==
  \A r \in 0 .. height - 1, c \in 0 .. width - 1 :
    width * r + c \in DOMAIN p => p[width * r + c].Blue < pitch * (r + 1) + 2

LEMMA PitchFacts ==
  ASSUME NEW w \in Nat
  PROVE  /\ LcdPitch(w) \in Nat /\ w <= LcdPitch(w)
         /\ w % 4 \in {1, 2} => w + 2 <= LcdPitch(w)
         /\ w % 4 \notin {1, 2} => LcdPitch(w) <= w + 1
  BY DEF LcdPitch

\* What is written is what was visited, and was read from where it lies.
LEMMA WrittenFrom ==
  ASSUME ConvInv, NEW r \in 0 .. height - 1, NEW c \in 0 .. width - 1,
         width * r + c \in DOMAIN p
  PROVE  p[width * r + c].Blue = pitch * r + c + 2
<1>1. /\ width \in Nat /\ i \in 0 .. width /\ j \in Nat /\ width * r \in Nat
      /\ width * j \in Nat /\ width * r + c < width * j + i
  BY DEF ConvInv, ConvTypeOK, Progress
<1>2. ~(r > j)
  <2>1. ASSUME r > j PROVE width * j + (width - 1) < width * r
    BY <1>1, <2>1, RowsApart
  <2> QED
    BY <1>1, <2>1
<1>3. Visited(r, c)
  BY <1>1, <1>2 DEF Visited
<1>4. p[width * r + c] = Pixel(r, c)
  BY <1>3 DEF ConvInv, Converted
<1> QED
  BY <1>4 DEF Pixel, RowStart

\* A pixel reads at most two bytes behind its row.  It reads its own row if the
\* padding has room for them; if it does not, some pixel of the picture that is
\* returned has been read from behind its row: a width with the remainder 0 or 3
\* by 4 suffices.
THEOREM ConvReads ==
  ConvSpec => [](/\ ReadsNearRow
                 /\ Padded => ReadsOwnRow
                 /\ pc = "done" /\ ~Padded => ~ReadsOwnRow)
<1> DEFINE Inv == ConvInv /\ pitch = LcdPitch(width)
<1>1. ConvInit => pitch = LcdPitch(width)
  BY DEF ConvInit
<1>2. pitch = LcdPitch(width) /\ [ConvNext]_convVars => (pitch = LcdPitch(width))'
  BY DEF ConvNext, Allocate, ConvertPixel, NextRow, Return, convVars, LcdPitch
<1>3. ASSUME Inv, NEW r \in 0 .. height - 1, NEW c \in 0 .. width - 1,
             width * r + c \in DOMAIN p
      PROVE  /\ p[width * r + c].Blue < pitch * (r + 1) + 2
             /\ Padded => p[width * r + c].Blue < pitch * (r + 1)
  <2>1. width \in Nat /\ pitch \in Nat /\ height \in Nat
    BY <1>3 DEF ConvInv, ConvTypeOK
  <2>2. width <= pitch /\ (Padded => width + 2 <= pitch)
    BY <1>3, <2>1, PitchFacts DEF Padded
  <2>3. p[width * r + c].Blue = pitch * r + c + 2
    BY <1>3, WrittenFrom
  <2>4. pitch * (r + 1) = pitch * r + pitch /\ pitch * r \in Nat
    BY <2>1
  <2> QED
    BY <2>1, <2>2, <2>3, <2>4
<1>4. ASSUME Inv, WholePicture, pc = "done", ~Padded PROVE ~ReadsOwnRow
  <2>1. width \in Nat \ {0} /\ pitch \in Nat /\ height \in Nat \ {0}
    BY <1>4 DEF ConvInv, ConvTypeOK
  <2>2. pitch <= width + 1
    BY <1>4, <2>1, PitchFacts DEF Padded
  <2>3. /\ 0 \in 0 .. height - 1 /\ width - 1 \in 0 .. width - 1
        /\ width * 0 + (width - 1) = width - 1
        /\ pitch * 0 + (width - 1) = width - 1 /\ pitch * (0 + 1) = pitch
    BY <2>1
  <2>4. width - 1 \in DOMAIN p /\ p[width - 1].Blue = (width - 1) + 2
    <3>1. /\ width * 0 + (width - 1) \in DOMAIN p
          /\ p[width * 0 + (width - 1)].Blue = ByteAt(0, width - 1) + 2
      BY <1>4, <2>3 DEF WholePicture
    <3> QED
      BY <2>3, <3>1 DEF ByteAt
  <2>5. ~(p[width - 1].Blue < pitch)
    BY <2>1, <2>2, <2>4
  <2>6. ASSUME ReadsOwnRow PROVE p[width * 0 + (width - 1)].Blue < pitch * (0 + 1)
    BY <2>3, <2>4, <2>6 DEF ReadsOwnRow
  <2> QED
    BY <2>3, <2>5, <2>6
<1>5. Inv => ReadsNearRow /\ (Padded => ReadsOwnRow)
  BY <1>3 DEF ReadsNearRow, ReadsOwnRow
<1>6. Inv /\ WholePicture => (pc = "done" /\ ~Padded => ~ReadsOwnRow)
  BY <1>4
<1> QED
  BY <1>1, <1>2, <1>5, <1>6, ConvInvariant, ConvWholePicture, PTL DEF ConvSpec

=============================================================================
