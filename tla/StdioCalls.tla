---------------------------- MODULE StdioCalls ----------------------------
(***************************************************************************)
(* The stdio calls of the ported C library on an open FILE, Release build: *)
(* fseek, ftell and fread over one EFI_FILE.  There is no buffer: each     *)
(* call goes straight to the firmware, so a call is the set of results it  *)
(* may return together with the file position it leaves behind.           *)
(***************************************************************************)
EXTENDS EfiFile

CONSTANT LongMod   \* 2^32: the number of values of MSVC's `unsigned long'

\* A file position has more bits than a long.
ASSUME StdioAssumption == LongMod \in Nat /\ LongMod >= 8 /\ 2 * LongMod <= PosMod

\* The conversion (long)u of an unsigned long.
ToLong(u) == IF 2 * u < LongMod THEN u ELSE u - LongMod

\* The conversion of an off_t or a long to UINT64, and of either to unsigned
\* long.
ToUINT64(off) == off % PosMod
ToULong(n) == n % LongMod

\* __stdio_seek returns -1 for an error of its last call.
SeekReturn(r) == [ret |-> IF r.err THEN -1 ELSE 0, pos |-> r.pos]

SeekSet(size, pos, off) ==
  {SeekReturn(r) : r \in EfiSetPosition(size, pos, ToUINT64(off))}

\* Reads the position, then moves `off' from it.
SeekFrom(size, pos, off) ==
  UNION {IF g.err THEN {[ret |-> -1, pos |-> pos]}
                  ELSE SeekSet(size, pos, g.value + off) : g \in EfiGetPosition(pos)}

SeekCur(size, pos, off) == SeekFrom(size, pos, off)

\* The inner `status' hides the outer one: only the first SetPosition is
\* reported, and the move by `off' is attempted even if it failed.
SeekEnd(size, pos, off) ==
  UNION {IF off = 0 THEN {SeekReturn(e)}
                    ELSE {[ret |-> SeekReturn(e).ret, pos |-> s.pos] :
                            s \in SeekFrom(size, e.pos, off)}
           : e \in EfiSetPosition(size, pos, EndOfFile)}

fseek(size, pos, off, whence) ==
  CASE whence = "SEEK_SET" -> SeekSet(size, pos, off)
    [] whence = "SEEK_CUR" -> SeekCur(size, pos, off)
    [] whence = "SEEK_END" -> SeekEnd(size, pos, off)

\* ftell returns __stdio_tell's off_t as a long.
ftell(pos) ==
  {IF g.err THEN -1 ELSE ToLong(ToULong(g.value)) : g \in EfiGetPosition(pos)}

\* What a successful or failed Read makes fread return.  (Wrong: the length
\* asked for, as if every Read were complete.)
ReadReturnMutAll(len, r) == len
ReadReturn(len, r) == IF r.err = "too small" THEN len ELSE r.left

\* fread(buf, 1, len, f): an error sets F_ERR, a short read sets F_EOF.  The
\* count of a failed Read is what the firmware left in the length, and after
\* EFI_BUFFER_TOO_SMALL the whole length.
fread(size, pos, len) ==
  IF len = 0
    THEN {[ret |-> 0, moved |-> 0, pos |-> pos, flag |-> "none"]}
    ELSE {[ret   |-> ReadReturn(len, r),
           moved |-> r.moved,
           pos   |-> pos + r.moved,
           flag  |-> IF r.err # "none" THEN "F_ERR"
                     ELSE IF r.left # len THEN "F_EOF" ELSE "none"]
            : r \in EfiRead(size, pos, len)}

=============================================================================
