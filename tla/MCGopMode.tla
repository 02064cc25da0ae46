----------------------------- MODULE MCGopMode -----------------------------
(***************************************************************************)
(* GopMode on short mode lists: one width below SCREEN_WIDTH, SCREEN_WIDTH *)
(* itself and one above, two pixel formats, every order and repetition.    *)
(***************************************************************************)
EXTENDS GopMode

MCWidths == 1 .. 3

=============================================================================
