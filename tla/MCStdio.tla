------------------------------ MODULE MCStdio -------------------------------
(***************************************************************************)
(* Two FILEs at a time, or one with two blocks for clients; four handles,  *)
(* so that two roots that were lost keep a second FILE from being opened   *)
(* and four keep the first one.                                            *)
(***************************************************************************)
EXTENDS Stdio, TLC

MCNames == {"", "font", "absent"}
MCLength == [n \in MCNames |-> IF n = "" THEN 0 ELSE 1]
MCModes ==
  {[first |-> c, plus |-> p] : c \in {"r", "w"}, p \in BOOLEAN}
  \cup {[first |-> c, plus |-> FALSE] : c \in {"", "x"}}
MCMayFail == {"AllocatePool", "Signature", "LoadedImage", "OpenProtocol", "OpenVolume",
              "Open", "Close"}
MCSymmetry == Permutations(Handles)
=============================================================================
