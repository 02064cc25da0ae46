----------------------------- MODULE FtStream -----------------------------
(***************************************************************************)
(* FreeType's FT_Stream over the ported stdio over one EFI file (the       *)
(* Release build's way to the font), and over a memory block (the Debug    *)
(* build's way).  One action per FT_Stream function, each with every       *)
(* stdio and firmware call it makes.                                       *)
(*                                                                         *)
(* Two positions exist: the one FreeType keeps (spos) and the one the      *)
(* firmware keeps (epos).  ft_ansi_stream_io seeks only if the offset      *)
(* asked for differs from spos, so the data is right only as long as the   *)
(* two agree.                                                              *)
(***************************************************************************)
EXTENDS StdioCalls, StreamOutcome

CONSTANTS
  Sizes,     \* the file sizes that occur
  Offsets,   \* the offsets and distances a client may ask for
  Counts,    \* the byte counts a client may ask for
  Scalars,   \* the widths of the scalars a client reads outside a frame
  Blocks,    \* the heap blocks frames are made of
  NoBlock,   \* a NULL base
  FontBlock  \* the caller's block under a memory stream

ASSUME FtAssumption ==
  /\ Sizes \subseteq Nat
  /\ Offsets \subseteq 0 .. LongMod - 1
  /\ Counts \subseteq 0 .. LongMod - 1
  /\ Scalars \subseteq 1 .. 4
  /\ NoBlock \notin Blocks /\ FontBlock \notin Blocks /\ FontBlock # NoBlock

VARIABLES
  phase,   \* "new", "open" or "closed"
  kind,    \* how the stream is opened: "file" or "memory"
  fsize,   \* the size of the file, or of the memory block
  epos,    \* the firmware's file position
  spos,    \* stream->pos
  ssize,   \* stream->size
  base,    \* stream->base
  frame,   \* the frame accessed: cursor and limit
  heap,    \* the blocks allocated for frames
  client,  \* the blocks handed to clients by FT_Stream_ExtractFrame
  out      \* what the client saw of its last call

ftVars == <<phase, kind, fsize, epos, spos, ssize, base, frame, heap, client, out>>

\* A frame was asked for at stream offset `at'; its `len' bytes start with
\* `moved' bytes of the file from offset `from'; `cursor' of them are consumed.
NoFrame == [open |-> FALSE, at |-> 0, len |-> 0, from |-> 0, moved |-> 0, cursor |-> 0]

\* The frame that a successful read fills.
FrameOf(o) ==
  [open |-> TRUE, at |-> o.at, len |-> o.count, from |-> o.from, moved |-> o.moved,
   cursor |-> 0]

FtInit ==
  /\ phase = "new"
  /\ kind \in {"file", "memory"}
  /\ fsize \in Sizes
  /\ epos = 0 /\ spos = 0 /\ ssize = 0
  /\ base = NoBlock
  /\ frame = NoFrame
  /\ heap = {} /\ client = {}
  /\ out = Quiet

----------------------------------------------------------------------------
(***************************************************************************)
(* stream->read                                                            *)
(***************************************************************************)

\* ft_ansi_stream_io: the positions from which fread starts.  The result of
\* fseek is not looked at.  (Wrong: the stream is taken to be read forward
\* only; or the check of a seek beyond the end is missing.)
SeekIfNeededMutBackward(offset) ==
  IF offset < spos
    THEN {s.pos : s \in fseek(fsize, epos, ToLong(offset), "SEEK_SET")}
    ELSE {epos}
SeekIfNeeded(offset) ==
  IF spos # offset
    THEN {s.pos : s \in fseek(fsize, epos, ToLong(offset), "SEEK_SET")}
    ELSE {epos}

ReadHere(p, count) ==
  {[got |-> ToULong(r.ret), from |-> p, moved |-> r.moved, pos |-> r.pos] :
     r \in fread(fsize, p, count)}

\* A count of 0 asks for a seek; beyond the end it is refused.
FileIo(offset, count) ==
  IF count = 0 /\ offset > ssize
    THEN {[got |-> 1, from |-> epos, moved |-> 0, pos |-> epos]}
    ELSE UNION {ReadHere(p, count) : p \in SeekIfNeeded(offset)}

\* The copy from memory that stands in for stream->read == NULL.
MemoryIo(offset, count) ==
  LET n == IF ssize - offset < count THEN ssize - offset ELSE count
  IN  {[got |-> n, from |-> offset, moved |-> n, pos |-> epos]}

Io(offset, count) ==
  IF kind = "file" THEN FileIo(offset, count) ELSE MemoryIo(offset, count)

Advance(from, n) == ToULong(from + n)

----------------------------------------------------------------------------
(***************************************************************************)
(* Opening and closing                                                     *)
(***************************************************************************)

\* fopen fails at any of its firmware calls, or for want of memory.
OpenFails ==
  /\ phase = "new" /\ kind = "file"
  /\ MayFail \cap {"OpenProtocol", "OpenVolume", "Open", "Alloc"} # {}
  /\ phase' = "closed"
  /\ out' = Failed
  /\ UNCHANGED <<kind, fsize, epos, spos, ssize, base, frame, heap, client>>

\* FT_Stream_Open after fopen: seek to the end, ask for the position, seek
\* back.  The results of both seeks are ignored, and a size of 0 is an error.
OpenFile ==
  /\ phase = "new" /\ kind = "file"
  /\ \E e \in fseek(fsize, 0, 0, "SEEK_END") :
     \E t \in ftell(e.pos) :
       LET n == ToULong(t) IN
       /\ ssize' = n
       /\ \/ /\ n = 0
             /\ phase' = "closed" /\ out' = Failed /\ epos' = e.pos
          \/ /\ n # 0
             /\ \E s \in fseek(fsize, e.pos, 0, "SEEK_SET") : epos' = s.pos
             /\ phase' = "open" /\ out' = Quiet
  /\ UNCHANGED <<kind, fsize, spos, base, frame, heap, client>>

OpenMemory ==
  /\ phase = "new" /\ kind = "memory"
  /\ phase' = "open"
  /\ base' = FontBlock
  /\ ssize' = ToULong(fsize)
  /\ out' = Quiet
  /\ UNCHANGED <<kind, fsize, epos, spos, frame, heap, client>>

\* FT_Stream_Close, when no frame is in use any more.  Only a file stream has
\* a close function; it clears size and base.
Close ==
  /\ phase = "open" /\ ~frame.open /\ client = {}
  /\ phase' = "closed"
  /\ out' = Quiet
  /\ IF kind = "file" THEN ssize' = 0 /\ base' = NoBlock ELSE UNCHANGED <<ssize, base>>
  /\ UNCHANGED <<kind, fsize, epos, spos, frame, heap, client>>

----------------------------------------------------------------------------
(***************************************************************************)
(* Moving and reading                                                      *)
(***************************************************************************)

\* FT_Stream_Seek.
SeekTo(offset) ==
  /\ phase = "open"
  /\ \/ /\ kind = "file"
        /\ \E r \in FileIo(offset, 0) :
             /\ epos' = r.pos
             /\ IF r.got = 0 THEN spos' = offset /\ out' = Quiet
                             ELSE UNCHANGED spos /\ out' = Failed
     \/ /\ kind = "memory"
        /\ UNCHANGED epos
        /\ IF offset <= ssize THEN spos' = offset /\ out' = Quiet
                              ELSE UNCHANGED spos /\ out' = Failed
  /\ UNCHANGED <<phase, kind, fsize, ssize, base, frame, heap, client>>

Seek == \E offset \in Offsets : SeekTo(offset)

\* FT_Stream_Skip by a distance that is not negative, the only kind it does
\* not refuse.
Skip == \E distance \in Offsets : SeekTo(Advance(spos, distance))

\* The outcome of a read of `count' bytes.  (Wrong: a short one is not an
\* error.)
ReadOutcomeMutShort(offset, count, r) == Delivered(offset, count, r.from, r.moved)
ReadOutcome(offset, count, r) ==
  IF r.got < count THEN Failed ELSE Delivered(offset, count, r.from, r.moved)

\* FT_Stream_ReadAt.
DoReadAt(offset, count) ==
  /\ phase = "open"
  /\ \/ /\ offset >= ssize
        /\ out' = Failed
        /\ UNCHANGED <<epos, spos>>
     \/ /\ offset < ssize
        /\ \E r \in Io(offset, count) :
             /\ epos' = r.pos
             /\ spos' = Advance(offset, r.got)
             /\ out' = ReadOutcome(offset, count, r)
  /\ UNCHANGED <<phase, kind, fsize, ssize, base, frame, heap, client>>

ReadAt == \E offset \in Offsets, count \in Counts : DoReadAt(offset, count)

\* FT_Stream_Read.
Read == \E count \in Counts : DoReadAt(spos, count)

\* FT_Stream_TryRead returns the number of bytes it got, however few.
TryRead ==
  /\ phase = "open"
  /\ \E count \in Counts :
       \/ /\ spos >= ssize
          /\ out' = Quiet
          /\ UNCHANGED <<epos, spos>>
       \/ /\ spos < ssize
          /\ \E r \in Io(spos, count) :
               /\ epos' = r.pos
               /\ spos' = Advance(spos, r.got)
               /\ out' = Delivered(spos, r.got, r.from, r.moved)
  /\ UNCHANGED <<phase, kind, fsize, ssize, base, frame, heap, client>>

\* FT_Stream_ReadChar, ReadUShort, ReadUOffset, ReadULong and the LE forms: n
\* bytes outside a frame.  A scalar of more than one byte is tried only if it
\* ends within the size.  A failing one leaves stream->pos behind.
ReadScalar ==
  /\ phase = "open"
  /\ \E n \in Scalars :
       IF Advance(spos, n - 1) < ssize \/ (n = 1 /\ kind = "file")
         THEN \E r \in Io(spos, n) :
                /\ epos' = r.pos
                /\ IF r.got = n
                     THEN /\ spos' = Advance(spos, n)
                          /\ out' = Delivered(spos, n, r.from, r.moved)
                     ELSE out' = Failed /\ UNCHANGED spos
         ELSE out' = Failed /\ UNCHANGED <<epos, spos>>
  /\ UNCHANGED <<phase, kind, fsize, ssize, base, frame, heap, client>>

----------------------------------------------------------------------------
(***************************************************************************)
(* Frames                                                                  *)
(***************************************************************************)

\* FT_QALLOC of a frame: NULL and no error for no bytes, an error for a count
\* that is negative as an FT_Long, or when the heap has no block to give.
Alloc(count) ==
  IF count = 0 THEN {[err |-> FALSE, block |-> NoBlock]}
  ELSE {[err |-> FALSE, block |-> b] :
          b \in IF ToLong(count) > 0 THEN Blocks \ heap ELSE {}}
       \cup {[err |-> TRUE, block |-> NoBlock] :
               f \in IF ToLong(count) < 0 \/ Blocks = heap \/ "Alloc" \in MayFail
                       THEN {"fails"} ELSE {}}

\* A set of blocks after FT_QALLOC and after FT_FREE, for which NULL is nothing.
\* (Wrong: the NULL of an empty frame is kept for a block.)
AfterAllocMutNull(blocks, b) == blocks \cup {b}
AfterAlloc(blocks, b) == blocks \cup ({b} \ {NoBlock})
AfterFree(blocks, b) == blocks \ {b}

\* The heap after a frame whose read fell short.  (Wrong: its block is kept.)
HeapAfterShortReadMutLeak(b) == AfterAlloc(heap, b)
HeapAfterShortRead(b) == AfterFree(AfterAlloc(heap, b), b)

\* The position after it.  (Wrong: as if nothing had been read.)
PosAfterShortReadMutStay(got) == spos
PosAfterShortRead(got) == Advance(spos, got)

\* FT_Stream_EnterFrame on a file: one read of the whole frame into a fresh
\* block.  On a short read the block is freed; the position moves all the
\* same, by what was read.
EnterFileFrame(count) ==
  \/ /\ count > ssize
     /\ out' = Failed
     /\ UNCHANGED <<epos, spos, base, heap>>
  \/ /\ count <= ssize
     /\ \E a \in Alloc(count) :
          \/ /\ a.err
             /\ base' = NoBlock
             /\ out' = Failed
             /\ UNCHANGED <<epos, spos, heap>>
          \/ /\ ~a.err
             /\ \E r \in FileIo(spos, count) :
                  /\ epos' = r.pos
                  /\ IF r.got < count
                       THEN /\ base' = NoBlock
                            /\ heap' = HeapAfterShortRead(a.block)
                            /\ spos' = PosAfterShortRead(r.got)
                            /\ out' = Failed
                       ELSE /\ base' = a.block
                            /\ spos' = Advance(spos, r.got)
                            /\ heap' = AfterAlloc(heap, a.block)
                            /\ out' = Delivered(spos, count, r.from, r.moved)

\* ... and in memory: a window on the caller's block.
EnterMemoryFrame(count) ==
  /\ IF spos < ssize /\ count <= ssize - spos
       THEN spos' = Advance(spos, count) /\ out' = Delivered(spos, count, spos, count)
       ELSE UNCHANGED spos /\ out' = Failed
  /\ UNCHANGED <<epos, base, heap>>

Enter(count) ==
  /\ phase = "open" /\ ~frame.open
  /\ \/ kind = "file" /\ EnterFileFrame(count)
     \/ kind = "memory" /\ EnterMemoryFrame(count)
  /\ UNCHANGED <<phase, kind, fsize, ssize>>

EnterFrame ==
  /\ \E count \in Counts : Enter(count)
  /\ frame' = IF out'.ok THEN FrameOf(out') ELSE frame
  /\ UNCHANGED client

\* FT_Stream_ExitFrame after a successful EnterFrame: a file's frame is freed.
ExitFrame ==
  /\ phase = "open" /\ frame.open
  /\ frame' = NoFrame
  /\ IF kind = "file" THEN heap' = AfterFree(heap, base) /\ base' = NoBlock
                      ELSE UNCHANGED <<heap, base>>
  /\ out' = Quiet
  /\ UNCHANGED <<phase, kind, fsize, epos, spos, ssize, client>>

\* FT_Stream_ExtractFrame: the frame is left at once, and its block becomes
\* the client's.  stream->base still points to it.
ExtractFrame ==
  /\ \E count \in Counts : Enter(count)
  /\ client' = IF out'.ok /\ kind = "file" THEN AfterAlloc(client, base') ELSE client
  /\ UNCHANGED frame

\* FT_Stream_ReleaseFrame.
ReleaseFrame ==
  /\ phase = "open"
  /\ \E b \in client : heap' = AfterFree(heap, b) /\ client' = client \ {b}
  /\ out' = Quiet
  /\ UNCHANGED <<phase, kind, fsize, epos, spos, ssize, base, frame>>

\* How many of the n bytes at the cursor came from the file.
FromFile(n) ==
  IF frame.cursor + n <= frame.moved THEN n
  ELSE IF frame.cursor < frame.moved THEN frame.moved - frame.cursor ELSE 0

\* n bytes are left in the frame.  (Wrong: off by one.)
FitsMutOffByOne(n) == frame.cursor + (n - 1) <= frame.len
Fits(n) == frame.cursor + (n - 1) < frame.len

\* FT_Stream_GetChar, GetUShort, GetUOffset, GetULong and the LE forms: n bytes
\* of the frame, or 0 when fewer are left.
GetScalar ==
  /\ phase = "open" /\ frame.open
  /\ \E n \in 1 .. 4 :
       IF Fits(n)
         THEN /\ frame' = [frame EXCEPT !.cursor = @ + n]
              /\ out' = Delivered(frame.at + frame.cursor, n,
                                  frame.from + frame.cursor, FromFile(n))
         ELSE out' = Quiet /\ UNCHANGED frame
  /\ UNCHANGED <<phase, kind, fsize, epos, spos, ssize, base, heap, client>>

----------------------------------------------------------------------------

FtNext ==
  \/ OpenFails \/ OpenFile \/ OpenMemory \/ Close
  \/ Seek \/ Skip \/ ReadAt \/ Read \/ TryRead \/ ReadScalar
  \/ EnterFrame \/ ExitFrame \/ ExtractFrame \/ ReleaseFrame \/ GetScalar

FtSpec == FtInit /\ [][FtNext]_ftVars

----------------------------------------------------------------------------
(***************************************************************************)
(* When the firmware can be trusted: seeks and position queries succeed, a *)
(* failing Read says truly how much it read (and reads nothing if clients  *)
(* read scalars outside frames), and an `unsigned long' can tell the size  *)
(* of every file, with room for a scalar behind its end.                   *)
(***************************************************************************)
Honest ==
  /\ MayFail \cap {"SetPosition", "GetPosition", "ReadLying", "ReadTooSmall"} = {}
  /\ "ReadPartial" \in MayFail => Scalars = {}
  /\ \A n \in Sizes : n < LongMod /\ (Scalars # {} => n + 4 <= LongMod)

\* A `long' can, too.
SmallFiles == \A n \in Sizes : 2 * n < LongMod

Reliable == Honest /\ SmallFiles

(***************************************************************************)
(* Properties                                                              *)
(***************************************************************************)

Outcomes == [ok : BOOLEAN, at : Nat, count : Nat, from : Nat, moved : Nat]

\* Every variable stays in its type.
FtTypeOK ==
  /\ phase \in {"new", "open", "closed"}
  /\ kind \in {"file", "memory"}
  /\ fsize \in Sizes
  /\ epos \in Nat
  /\ spos \in 0 .. LongMod - 1
  /\ ssize \in 0 .. LongMod - 1
  /\ base \in Blocks \cup {NoBlock, FontBlock}
  /\ frame \in [open : BOOLEAN, at : Nat, len : Nat, from : Nat, moved : Nat, cursor : Nat]
  /\ heap \subseteq Blocks
  /\ client \subseteq Blocks
  /\ out \in Outcomes

Open == phase = "open"

\* The position FreeType keeps is the position of the firmware's file: this is
\* what makes it right for ft_ansi_stream_io not to seek when the offset asked
\* for is stream->pos.
PosAgree == Open /\ kind = "file" => epos = spos

\* stream->size is the size of the file.
SizeIsFileSize == Open => ssize = fsize

\* No call tells the client that it has bytes that were never read: what
\* FreeType takes for font data came from the file, all of it.
OnlyRealBytes == out.ok => out.moved = out.count

\* ... and it came from the place the client asked for.
FromTheRightPlace == out.ok /\ out.moved > 0 => out.from = out.at

\* Reading through a frame delivers what reading the file would.
FrameIsAWindow ==
  frame.open =>
    /\ frame.cursor <= frame.len
    /\ frame.moved = frame.len
    /\ frame.len > 0 => frame.from = frame.at
    /\ frame.at + frame.len <= fsize

\* Every frame block has exactly one owner, the open frame or a client, so
\* that ExitFrame and ReleaseFrame free each block once and no failing
\* EnterFrame leaks one.
InFrame == IF frame.open /\ kind = "file" THEN {base} \ {NoBlock} ELSE {}

OneOwner ==
  /\ heap = InFrame \cup client
  /\ InFrame \cap client = {}

\* The promise of a byte stream, kept by this one.  No bytes come from nowhere,
\* wherever the file's position is.
Seen ==
  IF out.ok /\ out.count = 0 THEN Delivered(out.at, 0, out.at, out.moved) ELSE out
Abs == INSTANCE ByteStream WITH size <- fsize, pos <- spos, out <- Seen

ImplementsByteStream == Abs!Spec

\* The stream never leaves a file's bytes: nothing is sought or read beyond the
\* end, whatever offsets and counts a damaged font makes FreeType ask for.
StaysInFile == Open => spos <= ssize

=============================================================================
