----------------------------- MODULE MCLoadFile -----------------------------
(***************************************************************************)
(* Files of no byte up to one more than an FT_Long holds, and statuses     *)
(* from both ends of the tables, from their gap, and unknown ones.         *)
(***************************************************************************)
EXTENDS LoadFile

MCStatuses == {0, 2, 6, 7} \cup {EFIERR(c) : c \in {0, 1, 5, 7, 14, 28, 29, 30, 31, 35, 36}}
=============================================================================
