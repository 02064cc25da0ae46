------------------------------ MODULE EfiFile ------------------------------
(***************************************************************************)
(* EFI_FILE_PROTOCOL as the ported C library uses it.  The firmware is     *)
(* outside the repository: each operator is the SET of outcomes that a     *)
(* call may have on an open file of `size' bytes at position `pos'.        *)
(*                                                                         *)
(* A call fails only if MayFail says that such a failure can happen:       *)
(*   "SetPosition", "GetPosition"   that call returns an error             *)
(*   "ReadClean"     Read fails, nothing is transferred, the count says so *)
(*   "ReadPartial"   Read fails after some bytes, the count is honest      *)
(*   "ReadLying"     Read fails and the count is left at the length asked  *)
(*   "ReadTooSmall"  Read fails with EFI_BUFFER_TOO_SMALL                  *)
(***************************************************************************)
EXTENDS Integers

CONSTANTS
  MayFail,   \* the failures that can happen
  PosMod     \* 2^64, the number of file positions

Failures == {"OpenProtocol", "OpenVolume", "Open", "Close", "SetPosition", "GetPosition",
             "ReadClean", "ReadPartial", "ReadLying", "ReadTooSmall", "Alloc"}

ASSUME EfiAssumption ==
  /\ MayFail \subseteq Failures
  /\ PosMod \in Nat \ {0}

\* SetPosition with every bit set moves to the end of the file.
EndOfFile == PosMod - 1

EfiSetPosition(size, pos, target) ==
  {[err |-> FALSE, pos |-> IF target = EndOfFile THEN size ELSE target]}
  \cup {[err |-> TRUE, pos |-> pos] : f \in MayFail \cap {"SetPosition"}}

EfiGetPosition(pos) ==
  {[err |-> FALSE, value |-> pos]}
  \cup {[err |-> TRUE, value |-> 0] : f \in MayFail \cap {"GetPosition"}}

\* The bytes that a Read of `len' bytes finds.
Available(size, pos, len) ==
  IF pos >= size THEN 0 ELSE IF size - pos < len THEN size - pos ELSE len

\* A successful Read stops at the end of the file.
ReadDone(size, pos, len) ==
  LET n == Available(size, pos, len)
  IN  [err |-> "none", left |-> n, moved |-> n]

\* A failing Read: `left' is what *BufferSize holds afterwards, `moved' the
\* number of bytes that reached the buffer, by which the position advanced.
ReadFailed(size, pos, len) ==
  {[err |-> "device", left |-> 0, moved |-> 0] : f \in MayFail \cap {"ReadClean"}}
  \cup {[err |-> "device", left |-> f[2], moved |-> f[2]] :
          f \in (MayFail \cap {"ReadPartial"}) \X (1 .. Available(size, pos, len))}
  \cup {[err |-> "device", left |-> len, moved |-> f[2]] :
          f \in (MayFail \cap {"ReadLying"}) \X (0 .. Available(size, pos, len))}
  \cup {[err |-> "too small", left |-> len, moved |-> 0] :
          f \in MayFail \cap {"ReadTooSmall"}}

\* A position beyond the end makes Read fail.
EfiRead(size, pos, len) ==
  IF pos > size
    THEN {[err |-> "device", left |-> 0, moved |-> 0]}
         \cup ReadFailed(size, pos, len)
    ELSE {ReadDone(size, pos, len)} \cup ReadFailed(size, pos, len)

=============================================================================
