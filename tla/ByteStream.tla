---------------------------- MODULE ByteStream ----------------------------
(***************************************************************************)
(* What FreeType needs of a stream, whatever it is made of: a sequence of  *)
(* `size' bytes with a position.  A call that delivers data delivers the   *)
(* bytes asked for, from the place asked for, all of them; a call that     *)
(* fails says so and delivers nothing, but may move the position.         *)
(***************************************************************************)
EXTENDS Naturals, StreamOutcome

CONSTANT Sizes   \* the sizes a stream may have

VARIABLES phase, size, pos, out

vars == <<phase, size, pos, out>>

----------------------------------------------------------------------------

Init == phase = "new" /\ size \in Sizes /\ pos = 0 /\ out = Quiet

Open == phase = "new" /\ phase' = "open" /\ out' = Quiet /\ pos' = 0 /\ UNCHANGED size

OpenFails ==
  phase = "new" /\ phase' = "closed" /\ out' = Failed /\ UNCHANGED <<size, pos>>

\* Seek, skip, and every call that does not deliver data.
Move == phase = "open" /\ pos' \in 0 .. size /\ out' = Quiet /\ UNCHANGED <<phase, size>>

\* Exactly the bytes asked for, and the position behind them.
Deliver ==
  /\ phase = "open"
  /\ \E at \in 0 .. size : \E count \in 0 .. size - at :
       /\ out' = Delivered(at, count, at, count)
       /\ pos' = at + count
  /\ UNCHANGED <<phase, size>>

\* Bytes of a frame delivered before: the position does not move.
DeliverFromFrame ==
  /\ phase = "open"
  /\ \E at \in 0 .. size : \E count \in 0 .. size - at :
       out' = Delivered(at, count, at, count)
  /\ UNCHANGED <<phase, size, pos>>

Fail == phase = "open" /\ pos' \in 0 .. size /\ out' = Failed /\ UNCHANGED <<phase, size>>

Close == phase = "open" /\ phase' = "closed" /\ out' = Quiet /\ UNCHANGED <<size, pos>>

Next == Open \/ OpenFails \/ Move \/ Deliver \/ DeliverFromFrame \/ Fail \/ Close

Spec == Init /\ [][Next]_vars

=============================================================================
