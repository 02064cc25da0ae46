---------------------------- MODULE MCConvBitmap ----------------------------
(***************************************************************************)
(* ConvBitmap on glyphs of one to four pixels, which need 1, 2, 3 and 0    *)
(* bytes of padding, and one to three rows.                                *)
(***************************************************************************)
EXTENDS ConvBitmap

MCGlyphs == 1 .. 4
MCHeights == 1 .. 3

=============================================================================
