--------------------------- MODULE StreamOutcome ---------------------------
(***************************************************************************)
(* What the client of a stream saw of its last call: whether it succeeded, *)
(* and the `count' bytes it was told it has from offset `at' on.  The      *)
(* bytes themselves are described by where they come from: `moved' bytes   *)
(* that start at offset `from' of the file.                                *)
(***************************************************************************)

\* A call that succeeded without data, and one that reported an error.
Quiet  == [ok |-> TRUE,  at |-> 0, count |-> 0, from |-> 0, moved |-> 0]
Failed == [ok |-> FALSE, at |-> 0, count |-> 0, from |-> 0, moved |-> 0]

Delivered(at, count, from, moved) ==
  [ok |-> TRUE, at |-> at, count |-> count, from |-> from, moved |-> moved]

=============================================================================
