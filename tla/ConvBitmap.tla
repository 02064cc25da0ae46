----------------------------- MODULE ConvBitmap -----------------------------
(***************************************************************************)
(* conv_bitmap() in efi_main.c: an LCD bitmap of FreeType becomes a block  *)
(* of BLT pixels.                                                          *)
(*                                                                         *)
(* A byte of the bitmap is represented by its offset in the buffer, so a   *)
(* pixel is the three offsets its colours were read from, and the target   *)
(* is the function from its elements written so far.                       *)
(***************************************************************************)
EXTENDS Integers

CONSTANTS
  Glyphs,     \* the widths of glyphs, in pixels of the original image
  Heights,    \* the numbers of rows
  MayFail     \* "Alloc" if calloc may return NULL

ASSUME ConvAssumption ==
  /\ Glyphs \subseteq Nat \ {0} /\ Heights \subseteq Nat \ {0}
  /\ MayFail \subseteq {"Alloc"}

VARIABLES
  width, height, pitch,   \* the arguments; the buffer has pitch * height bytes
  pc,                     \* "start", "row", "done" or "null"
  i, j, k,                \* column, row, and element of the target
  p                       \* the target

convVars == <<width, height, pitch, pc, i, j, k, p>>

\* ft_glyphslot_preset_bitmap: three columns per pixel, rows padded to a
\* multiple of 4 bytes.
LcdWidth(w) == 3 * w
LcdPitch(w) == 4 * ((w + 3) \div 4)

NoPixel == [n \in {} |-> 0]

\* The bitmaps that draw_text passes on, which have neither dimension 0.
ConvInit ==
  /\ width \in {LcdWidth(w) : w \in Glyphs}
  /\ pitch = LcdPitch(width)
  /\ height \in Heights
  /\ pc = "start"
  /\ i = 0 /\ j = 0 /\ k = 0
  /\ p = NoPixel

----------------------------------------------------------------------------

\* num, and calloc of as many elements.
Allocate ==
  /\ pc = "start"
  /\ \/ pc' = "row"
     \/ "Alloc" \in MayFail /\ pc' = "null"
  /\ UNCHANGED <<width, height, pitch, i, j, k, p>>

\* Where row r starts.  (Wrong: rows are taken to be as long as they are wide.)
RowStartMutPacked(r) == width * r
RowStart(r) == pitch * r

\* The conversion of the byte in row r and column c.
Pixel(r, c) ==
  [Red   |-> RowStart(r) + c,
   Green |-> RowStart(r) + c + 1,
   Blue  |-> RowStart(r) + c + 2]

\* (Wrong: one column too many.)
InRowMutOffByOne == i <= width
InRow == i < width

ConvertPixel ==
  /\ pc = "row" /\ j < height /\ InRow
  /\ p' = [n \in DOMAIN p \cup {k} |-> IF n = k THEN Pixel(j, i) ELSE p[n]]
  /\ k' = k + 1
  /\ i' = i + 1
  /\ UNCHANGED <<width, height, pitch, pc, j>>

\* The next row begins in its first column.  (Wrong: and in the first element.)
NextRowMutResetK ==
  /\ pc = "row" /\ j < height /\ ~InRow
  /\ j' = j + 1 /\ i' = 0 /\ k' = 0
  /\ UNCHANGED <<width, height, pitch, pc, p>>
NextRow ==
  /\ pc = "row" /\ j < height /\ ~InRow
  /\ j' = j + 1 /\ i' = 0
  /\ UNCHANGED <<width, height, pitch, pc, k, p>>

Return ==
  /\ pc = "row" /\ ~(j < height)
  /\ pc' = "done"
  /\ UNCHANGED <<width, height, pitch, i, j, k, p>>

ConvNext == Allocate \/ ConvertPixel \/ NextRow \/ Return

ConvSpec == ConvInit /\ [][ConvNext]_convVars

----------------------------------------------------------------------------
(***************************************************************************)
(* Properties                                                              *)
(***************************************************************************)

Offset == [Red : Nat, Green : Nat, Blue : Nat]

\* Every variable stays in its type.
ConvTypeOK ==
  /\ width \in Nat \ {0} /\ height \in Nat \ {0} /\ pitch \in Nat
  /\ pc \in {"start", "row", "done", "null"}
  /\ i \in 0 .. width /\ j \in 0 .. height /\ k \in Nat
  /\ DOMAIN p \subseteq Nat
  /\ \A n \in DOMAIN p : p[n] \in Offset

\* Nothing is written behind the num = width * height elements that calloc
\* was asked for.
WritesInTarget == \A n \in DOMAIN p : n < width * height

\* Byte c of row r (the reference the rows are compared with).
ByteAt(r, c) == pitch * r + c

\* The picture that is returned has no element that was left out, and the one
\* for row r and column c begins with that byte of the bitmap, however the rows
\* are padded.
WholePicture ==
  pc = "done" =>
    \A r \in 0 .. height - 1, c \in 0 .. width - 1 :
      /\ width * r + c \in DOMAIN p
      /\ p[width * r + c].Red = ByteAt(r, c)
      /\ p[width * r + c].Green = ByteAt(r, c) + 1
      /\ p[width * r + c].Blue = ByteAt(r, c) + 2

\* A pixel of row r is made of bytes of row r ("The pitch's absolute value is the
\* number of bytes taken by one bitmap row, including padding", ftimage.h).
ReadsOwnRow ==
  \A r \in 0 .. height - 1, c \in 0 .. width - 1 :
    width * r + c \in DOMAIN p => p[width * r + c].Blue < pitch * (r + 1)

=============================================================================
