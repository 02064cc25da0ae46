----------------------------- MODULE MCDebugHost ----------------------------
(***************************************************************************)
(* The Debug host with every text of up to three characters, a heap in     *)
(* which all of their bitmaps fit, and everything failing.                 *)
(***************************************************************************)
EXTENDS DebugHost

MCTexts == UNION {[1 .. n -> {"glyph", "blank", "undefined"}] : n \in 0 .. 3}

MCMayFail == {"Console", "InitFreeType", "Open", "Read", "Face", "Size",
              "Render", "Heap", "Window", "Display", "Bitmap", "DC"}
=============================================================================
