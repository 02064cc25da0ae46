---------------------------- MODULE MCFtStream ----------------------------
(***************************************************************************)
(* FtStream on files of at most three bytes, offsets and counts up to one  *)
(* beyond the longest file, every scalar width and two heap blocks.  An    *)
(* `unsigned long' has 16 values and a file position 64, so that nothing   *)
(* wraps.  For files of any size that an `unsigned long' can tell it has 8 *)
(* values, of which a `long' holds 0 to 3: the files of 4 to 7 bytes stand *)
(* for those of 2 to 4 GiB.                                                *)
(***************************************************************************)
EXTENDS FtStream

MCSizes == 0 .. 3
MCAnySizes == 0 .. 7
MCUpToFour == 0 .. 4
MCUpToSeven == 0 .. 7
MCScalars == 1 .. 4

=============================================================================
