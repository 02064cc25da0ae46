-------------------------- MODULE FtStreamProofs --------------------------
(***************************************************************************)
(* FtStream delivers the right bytes for every set of file sizes, offsets, *)
(* counts, scalar widths and frame blocks on an Honest firmware: it keeps  *)
(* the promise of ByteStream.                                              *)
(*                                                                         *)
(* The argument: on such a firmware a seek goes to the offset asked for    *)
(* or, if that is negative as a `long', behind the end of the file, where  *)
(* every read fails (first section).  So the two positions agree or the    *)
(* firmware's is of no use (Near); stream->read, started in such a state,  *)
(* reads at the offset asked for or nothing, and says truly how much it    *)
(* got (IoRight).  Hence every reading function is a ReadStep, and a       *)
(* ReadStep preserves the invariant and is a step of the abstract stream.  *)
(*                                                                         *)
(* On any other firmware less holds, but types, owners and, if counts are  *)
(* true, that no byte is made up: the section before the theorems.         *)
(***************************************************************************)
EXTENDS FtStream, TLAPS

----------------------------------------------------------------------------
(***************************************************************************)
(* The stdio calls on an honest firmware                                   *)
(***************************************************************************)

LEMMA Moduli ==
  /\ LongMod \in Nat /\ LongMod >= 8 /\ PosMod \in Nat \ {0}
  /\ 2 * LongMod <= PosMod
  BY StdioAssumption, EfiAssumption

\* What % does to a number of at most one modulus below or above.
LEMMA ModOnce ==
  ASSUME NEW m \in Nat \ {0}, NEW n \in Int
  PROVE  /\ n \in 0 .. m - 1 => n % m = n
         /\ n \in -m .. -1 => n % m = n + m
<1>1. n \in 0 .. m - 1 => n % m = n
  OBVIOUS
<1>2. n \in -m .. -1 => n % m = n + m
  OBVIOUS
<1> QED
  BY <1>1, <1>2

\* A number below half the modulus is left alone by the conversions.
LEMMA Conversions ==
  ASSUME NEW n \in Nat, 2 * n < LongMod
  PROVE  n < LongMod /\ ToULong(n) = n /\ ToLong(n) = n /\ ToUINT64(n) = n
<1>1. n % LongMod = n /\ n % PosMod = n
  BY Moduli, ModOnce
<1> QED
  BY <1>1, Moduli DEF ToULong, ToLong, ToUINT64

\* A number below the modulus survives the way through a long.
LEMMA ThroughLong ==
  ASSUME NEW n \in Nat, n < LongMod
  PROVE  ToULong(n) = n /\ ToULong(ToLong(ToULong(n))) = n
<1>1. ToULong(n) = n
  BY Moduli, ModOnce DEF ToULong
<1>2. CASE 2 * n < LongMod
  BY <1>1, <1>2, Conversions
<1>3. CASE ~(2 * n < LongMod)
  <2>1. ToLong(n) = n - LongMod /\ n - LongMod \in -LongMod .. -1
    BY <1>3, Moduli DEF ToLong
  <2>2. (n - LongMod) % LongMod = n - LongMod + LongMod
    BY <2>1, Moduli, ModOnce
  <2> QED
    BY <1>1, <2>1, <2>2, Moduli DEF ToULong
<1> QED
  BY <1>2, <1>3

\* What ftell returned, as an unsigned long, is below the modulus.
LEMMA ULongRange == ASSUME NEW n \in Int PROVE ToULong(n) \in 0 .. LongMod - 1
  BY StdioAssumption DEF ToULong

\* fseek to an offset within the file goes there, or behind the end if the
\* offset is not a `long'.
LEMMA SeekSetHonest ==
  ASSUME Honest, NEW size \in Nat, size < LongMod, NEW pos \in Nat,
         NEW off \in 0 .. size, NEW s \in fseek(size, pos, ToLong(off), "SEEK_SET")
  PROVE  /\ s.pos \in Nat
         /\ s.pos = off \/ (s.pos > size /\ ~(2 * off < LongMod))
<1> DEFINE target == ToUINT64(ToLong(off))
<1>1. off \in Nat /\ off < LongMod
  BY Moduli
<1>2. MayFail \cap {"SetPosition"} = {}
  BY DEF Honest
<1>3. EfiSetPosition(size, pos, target) =
        {[err |-> FALSE, pos |-> IF target = EndOfFile THEN size ELSE target]}
  BY <1>2 DEF EfiSetPosition
<1>4. s.pos = IF target = EndOfFile THEN size ELSE target
  BY <1>3 DEF fseek, SeekSet, SeekReturn
<1>5. CASE 2 * off < LongMod
  <2>1. target = off
    BY <1>1, <1>5, Conversions
  <2>2. off # EndOfFile
    BY <1>1, <1>5, Moduli DEF EndOfFile
  <2> QED
    BY <1>1, <1>4, <2>1, <2>2
<1>6. CASE ~(2 * off < LongMod)
  <2>1. ToLong(off) = off - LongMod /\ off - LongMod \in -PosMod .. -1
    BY <1>1, <1>6, Moduli DEF ToLong
  <2>2. target = off - LongMod + PosMod
    <3>1. off - LongMod \in Int /\ PosMod \in Nat \ {0}
      BY <1>1, Moduli
    <3>2. (off - LongMod) % PosMod = off - LongMod + PosMod
      BY <2>1, <3>1, ModOnce, Zenon
    <3> QED
      BY <2>1, <3>2 DEF ToUINT64
  <2>3. CASE target = EndOfFile
    <3>1. off = LongMod - 1
      BY <1>1, <2>2, <2>3, Moduli DEF EndOfFile
    <3>2. s.pos = size
      BY <1>4, <2>3
    <3> QED
      BY <1>1, <3>1, <3>2, Moduli
  <2>4. CASE target # EndOfFile
    BY <1>1, <1>4, <1>6, <2>2, <2>4, Moduli
  <2> QED
    BY <2>3, <2>4
<1> QED
  BY <1>5, <1>6

\* fseek to the end goes to the end.
LEMMA SeekEndHonest ==
  ASSUME Honest, NEW size \in Nat, NEW pos \in Nat
  PROVE  fseek(size, pos, 0, "SEEK_END") = {[ret |-> 0, pos |-> size]}
<1>1. MayFail \cap {"SetPosition"} = {}
  BY DEF Honest
<1>2. EfiSetPosition(size, pos, EndOfFile) = {[err |-> FALSE, pos |-> size]}
  BY <1>1 DEF EfiSetPosition
<1>3. SeekEnd(size, pos, 0) = {[ret |-> 0, pos |-> size]}
  BY <1>2 DEF SeekEnd, SeekReturn
<1> QED
  BY <1>3 DEF fseek

\* ftell returns the position, up to the conversion that its caller undoes.
LEMMA TellHonest ==
  ASSUME Honest, NEW pos \in Nat, pos < LongMod, NEW t \in ftell(pos)
  PROVE  ToULong(t) = pos
<1>1. MayFail \cap {"GetPosition"} = {}
  BY DEF Honest
<1>2. EfiGetPosition(pos) = {[err |-> FALSE, value |-> pos]}
  BY <1>1 DEF EfiGetPosition
<1>3. t = ToLong(ToULong(pos))
  BY <1>2 DEF ftell
<1> QED
  BY <1>3, ThroughLong

\* fread returns what it moved, and stays in the file.  It moves all there is
\* or nothing, unless partial failures can happen.
LEMMA ReadHonest ==
  ASSUME Honest, NEW size \in Nat, NEW pos \in 0 .. size, NEW len \in Nat,
         NEW r \in fread(size, pos, len)
  PROVE  /\ r.moved \in 0 .. len
         /\ r.ret = r.moved
         /\ r.pos = pos + r.moved
         /\ pos + r.moved <= size
         /\ "ReadPartial" \in MayFail \/ r.moved = 0 \/ r.moved = Available(size, pos, len)
<1> DEFINE A == Available(size, pos, len)
<1>1. A \in 0 .. len /\ pos + A <= size
  BY DEF Available
<1>2. CASE len = 0
  BY <1>2 DEF fread
<1>3. CASE len # 0
  <2>1. PICK e \in EfiRead(size, pos, len) :
          r = [ret   |-> ReadReturn(len, e),
               moved |-> e.moved,
               pos   |-> pos + e.moved,
               flag  |-> IF e.err # "none" THEN "F_ERR"
                         ELSE IF e.left # len THEN "F_EOF" ELSE "none"]
    BY <1>3 DEF fread
  <2>2. /\ e.err \in {"none", "device"}
        /\ e.left = e.moved
        /\ e.moved \in 0 .. A
        /\ "ReadPartial" \in MayFail \/ e.moved = 0 \/ e.moved = A
    <3>1. e \in {ReadDone(size, pos, len)} \cup ReadFailed(size, pos, len)
      BY DEF EfiRead
    <3>2. CASE e = ReadDone(size, pos, len)
      BY <3>2, <1>1 DEF ReadDone
    <3>3. CASE e \in ReadFailed(size, pos, len)
      <4>1. MayFail \cap {"ReadLying"} = {} /\ MayFail \cap {"ReadTooSmall"} = {}
        BY DEF Honest
      <4>2. \/ e = [err |-> "device", left |-> 0, moved |-> 0]
            \/ \E f \in (MayFail \cap {"ReadPartial"}) \X (1 .. A) :
                 e = [err |-> "device", left |-> f[2], moved |-> f[2]]
        BY <3>3, <4>1 DEF ReadFailed
      <4>3. CASE e = [err |-> "device", left |-> 0, moved |-> 0]
        BY <4>3, <1>1
      <4>4. CASE \E f \in (MayFail \cap {"ReadPartial"}) \X (1 .. A) :
                   e = [err |-> "device", left |-> f[2], moved |-> f[2]]
        <5>1. PICK f \in (MayFail \cap {"ReadPartial"}) \X (1 .. A) :
                e = [err |-> "device", left |-> f[2], moved |-> f[2]]
          BY <4>4
        <5>2. f[2] \in 1 .. A /\ "ReadPartial" \in MayFail
          OBVIOUS
        <5> QED
          BY <5>1, <5>2, <1>1
      <4> QED
        BY <4>2, <4>3, <4>4
    <3> QED
      BY <3>1, <3>2, <3>3
  <2>3. ReadReturn(len, e) = e.moved
    BY <2>2 DEF ReadReturn
  <2> QED
    BY <2>1, <2>2, <2>3, <1>1
<1> QED
  BY <1>2, <1>3

\* Behind the end there is nothing to read.
LEMMA ReadBehindEnd ==
  ASSUME Honest, NEW size \in Nat, NEW pos \in Nat, pos > size, NEW len \in Nat,
         NEW r \in fread(size, pos, len)
  PROVE  r.ret = 0 /\ r.moved = 0 /\ r.pos = pos
<1>1. CASE len = 0
  BY <1>1 DEF fread
<1>2. CASE len # 0
  <2>1. PICK e \in EfiRead(size, pos, len) :
          r = [ret   |-> ReadReturn(len, e),
               moved |-> e.moved,
               pos   |-> pos + e.moved,
               flag  |-> IF e.err # "none" THEN "F_ERR"
                         ELSE IF e.left # len THEN "F_EOF" ELSE "none"]
    BY <1>2 DEF fread
  <2>2. e = [err |-> "device", left |-> 0, moved |-> 0]
    <3>1. MayFail \cap {"ReadLying"} = {} /\ MayFail \cap {"ReadTooSmall"} = {}
      BY DEF Honest
    <3>2. Available(size, pos, len) = 0
      BY DEF Available
    <3>3. (MayFail \cap {"ReadPartial"}) \X (1 .. Available(size, pos, len)) = {}
      BY <3>2
    <3>4. e \in {[err |-> "device", left |-> 0, moved |-> 0]} \cup ReadFailed(size, pos, len)
      BY DEF EfiRead
    <3> QED
      BY <3>1, <3>3, <3>4 DEF ReadFailed
  <2> QED
    BY <2>1, <2>2 DEF ReadReturn
<1> QED
  BY <1>1, <1>2

----------------------------------------------------------------------------
(***************************************************************************)
(* The inductive invariant                                                 *)
(***************************************************************************)

\* Before it is opened a stream is at 0 and nothing is allocated; a frame is
\* in use only while the stream is open.
Fresh ==
  /\ phase = "new" => epos = 0 /\ spos = 0 /\ heap = {} /\ client = {}
  /\ ~Open => ~frame.open

\* Only files have frame blocks as their base.
BaseIsBlock == kind = "file" => base \in Blocks \cup {NoBlock}

\* The firmware's position e is FreeType's position p or, if files are large,
\* may be behind the end.
Near(e, p) == e = p \/ (~SmallFiles /\ e > fsize)

PosNear == Open /\ kind = "file" => Near(epos, spos)

FtInv ==
  /\ FtTypeOK /\ Fresh /\ BaseIsBlock
  /\ PosNear /\ SizeIsFileSize /\ StaysInFile
  /\ OnlyRealBytes /\ FromTheRightPlace /\ FrameIsAWindow /\ OneOwner

\* The bounds every step needs.
LEMMA SizeFacts ==
  ASSUME Honest, FtTypeOK
  PROVE  /\ LongMod \in Nat \ {0}
         /\ fsize \in Nat /\ fsize < LongMod
         /\ Scalars # {} => fsize + 4 <= LongMod
         /\ SmallFiles => 2 * fsize < LongMod
         /\ spos \in Nat /\ epos \in Nat /\ ssize \in Nat
  BY StdioAssumption, FtAssumption DEF Honest, SmallFiles, FtTypeOK

\* Moving on within the file does not wrap.
LEMMA AdvanceInFile ==
  ASSUME Honest, FtTypeOK, NEW at \in Nat, NEW n \in Nat, at + n <= fsize
  PROVE  Advance(at, n) = at + n
<1>1. at + n \in Nat /\ at + n < LongMod
  BY SizeFacts
<1> QED
  BY <1>1, SizeFacts DEF Advance, ToULong

\* What a read of stream->read returned: the bytes at the offset asked for,
\* at most as many as asked for, none beyond the end, and as many as it says.
IoRight(offset, count, r) ==
  /\ r.from \in Nat
  /\ r.got > 0 => r.from = offset
  /\ r.got \in 0 .. count
  /\ r.moved = r.got
  /\ offset + r.got <= fsize
  /\ kind = "file" => r.pos \in Nat /\ Near(r.pos, offset + r.got)
  /\ kind = "memory" => r.pos = epos

\* Where a read on a file starts.
LEMMA SeekIfNeededFacts ==
  ASSUME Honest, FtInv, Open, kind = "file",
         NEW offset \in 0 .. fsize, NEW p \in SeekIfNeeded(offset)
  PROVE  p \in Nat /\ Near(p, offset)
<1>1. /\ Near(epos, spos) /\ epos \in Nat /\ spos \in Nat
      /\ fsize \in Nat /\ fsize < LongMod
      /\ SmallFiles => 2 * offset < LongMod
  BY SizeFacts DEF FtInv, PosNear
<1>2. CASE spos = offset
  BY <1>1, <1>2 DEF SeekIfNeeded
<1>3. CASE spos # offset
  <2>1. PICK s \in fseek(fsize, epos, ToLong(offset), "SEEK_SET") : p = s.pos
    BY <1>3, Zenon DEF SeekIfNeeded
  <2> QED
    BY <1>1, <2>1, SeekSetHonest DEF Near
<1> QED
  BY <1>2, <1>3

\* stream->read on a file, from within the file.
LEMMA FileIoFacts ==
  ASSUME Honest, FtInv, Open, kind = "file",
         NEW offset \in 0 .. fsize, NEW count \in Nat, NEW r \in FileIo(offset, count)
  PROVE  /\ IoRight(offset, count, r)
         /\ \/ "ReadPartial" \in MayFail
            \/ r.got = 0
            \/ r.got = Available(fsize, offset, count)
<1>1. /\ fsize \in Nat /\ ssize = fsize /\ fsize < LongMod
      /\ LongMod \in Nat /\ offset \in Nat
  BY SizeFacts DEF FtInv, SizeIsFileSize
<1>2. ~(count = 0 /\ offset > ssize)
  BY <1>1
<1>3. PICK p \in SeekIfNeeded(offset) : r \in ReadHere(p, count)
  BY <1>2 DEF FileIo
<1>4. p \in Nat /\ Near(p, offset)
  BY <1>3, SeekIfNeededFacts
<1>5. PICK q \in fread(fsize, p, count) :
        r = [got |-> ToULong(q.ret), from |-> p, moved |-> q.moved, pos |-> q.pos]
  BY <1>3 DEF ReadHere
<1>6. CASE p = offset
  <2>1. /\ q.moved \in 0 .. count
        /\ q.ret = q.moved
        /\ q.pos = offset + q.moved
        /\ offset + q.moved <= fsize
        /\ \/ "ReadPartial" \in MayFail
           \/ q.moved = 0
           \/ q.moved = Available(fsize, offset, count)
    BY <1>1, <1>5, <1>6, ReadHonest
  <2>2. ToULong(q.ret) = q.moved
    BY <1>1, <2>1, ThroughLong
  <2> QED
    BY <1>1, <1>5, <1>6, <2>1, <2>2 DEF IoRight, Near
<1>7. CASE p # offset
  <2>1. p > fsize
    BY <1>4, <1>7 DEF Near
  <2>2. q.ret = 0 /\ q.moved = 0 /\ q.pos = p
    BY <1>1, <1>4, <1>5, <2>1, ReadBehindEnd
  <2>3. ToULong(0) = 0
    BY <1>1, ThroughLong
  <2>4. r.got = 0 /\ r.moved = 0 /\ r.pos = p /\ r.from = p
    BY <1>5, <2>2, <2>3
  <2> QED
    BY <1>1, <1>4, <2>1, <2>4 DEF IoRight, Near
<1> QED
  BY <1>6, <1>7

\* ... and on either kind of stream.
LEMMA IoFacts ==
  ASSUME Honest, FtInv, Open,
         NEW offset \in 0 .. fsize, NEW count \in Nat, NEW r \in Io(offset, count)
  PROVE  IoRight(offset, count, r)
<1>1. CASE kind = "file"
  BY <1>1, FileIoFacts DEF Io
<1>2. CASE kind # "file"
  <2>1. fsize \in Nat /\ ssize = fsize
    BY SizeFacts DEF FtInv, SizeIsFileSize
  <2>2. r \in MemoryIo(offset, count)
    BY <1>2 DEF Io
  <2>3. r = [got |-> IF ssize - offset < count THEN ssize - offset ELSE count,
             from |-> offset,
             moved |-> IF ssize - offset < count THEN ssize - offset ELSE count,
             pos |-> epos]
    BY <2>2 DEF MemoryIo
  <2>4. /\ r.from = offset /\ r.pos = epos
        /\ r.moved = r.got
        /\ r.got = IF ssize - offset < count THEN ssize - offset ELSE count
    BY <2>3
  <2> QED
    BY <1>2, <2>1, <2>4, SizeFacts DEF IoRight
<1> QED
  BY <1>1, <1>2

----------------------------------------------------------------------------
(***************************************************************************)
(* What every function that moves or reads does                            *)
(***************************************************************************)

\* An outcome that gives the client the bytes it asked for.
Right(o, at, count) ==
  \E from \in Nat :
    /\ o = Delivered(at, count, from, count)
    /\ count > 0 => from = at

\* The position stays in the file, the firmware's is near it, and the client
\* sees nothing, an error, or exactly the bytes it asked for.
ReadStep ==
  /\ Open
  /\ UNCHANGED <<phase, kind, fsize, ssize>>
  /\ spos' \in 0 .. fsize
  /\ epos' \in Nat
  /\ kind = "file" => Near(epos', spos')
  /\ \/ out' \in {Quiet, Failed}
     \/ \E at \in 0 .. fsize : \E count \in 0 .. fsize - at :
          Right(out', at, count) /\ spos' = at + count

\* The shape of a read that takes over stream->read's outcome.
LEMMA ReadStepFromIo ==
  ASSUME Honest, FtInv, Open,
         NEW offset \in 0 .. fsize, NEW count \in Nat, NEW r,
         IoRight(offset, count, r),
         UNCHANGED <<phase, kind, fsize, ssize>>,
         epos' = r.pos, spos' = Advance(offset, r.got),
         out' \in {Quiet, Failed, Delivered(offset, r.got, r.from, r.moved)}
  PROVE  ReadStep
<1>1. /\ r.from \in Nat /\ (r.got > 0 => r.from = offset)
      /\ r.got \in Nat /\ r.moved = r.got
      /\ offset + r.got <= fsize
  BY DEF IoRight
<1>2. fsize \in Nat /\ epos \in Nat /\ offset \in Nat
  BY SizeFacts DEF FtInv
<1>3. spos' = offset + r.got
  BY <1>1, <1>2, AdvanceInFile DEF FtInv
<1>4. spos' \in 0 .. fsize
  BY <1>1, <1>2, <1>3
<1>5. epos' \in Nat /\ (kind = "file" => Near(epos', spos'))
  <2>1. kind \in {"file", "memory"}
    BY DEF FtInv, FtTypeOK
  <2>2. CASE kind = "file"
    BY <2>2, <1>1, <1>2, <1>3 DEF IoRight
  <2>3. CASE kind = "memory"
    BY <2>3, <1>2 DEF IoRight
  <2> QED
    BY <2>1, <2>2, <2>3
<1>6. \/ out' \in {Quiet, Failed}
      \/ /\ Right(out', offset, r.got)
         /\ spos' = offset + r.got
         /\ r.got \in 0 .. fsize - offset
  <2>1. out' = Delivered(offset, r.got, r.from, r.moved) => Right(out', offset, r.got)
    BY <1>1 DEF Right
  <2> QED
    BY <1>1, <1>2, <1>3, <2>1
<1> QED
  BY <1>4, <1>5, <1>6 DEF ReadStep

\* A step that only reports.
LEMMA ReadStepStill ==
  ASSUME Honest, FtInv, Open,
         UNCHANGED <<phase, kind, fsize, ssize, epos, spos>>,
         out' \in {Quiet, Failed}
  PROVE  ReadStep
<1>1. fsize \in Nat /\ epos \in Nat /\ spos \in Nat /\ spos <= fsize
  BY SizeFacts DEF FtInv, StaysInFile, SizeIsFileSize
<1> QED
  BY <1>1 DEF ReadStep, FtInv, PosNear, Near

\* Seek and Skip.
LEMMA SeekIsReadStep ==
  ASSUME Honest, FtInv, NEW offset \in Nat, SeekTo(offset)
  PROVE  ReadStep
<1> USE DEF SeekTo
<1>1. ssize = fsize /\ fsize \in Nat /\ epos \in Nat /\ Open
  BY SizeFacts DEF FtInv, SizeIsFileSize, Open
<1>2. CASE kind = "file"
  <2>1. PICK r \in FileIo(offset, 0) :
          /\ epos' = r.pos
          /\ IF r.got = 0 THEN spos' = offset /\ out' = Quiet
                          ELSE UNCHANGED spos /\ out' = Failed
    BY <1>2
  <2>2. CASE offset > ssize
    <3>1. r = [got |-> 1, from |-> epos, moved |-> 0, pos |-> epos]
      BY <2>2 DEF FileIo
    <3> QED
      BY <2>1, <3>1, <1>1, ReadStepStill
  <2>3. CASE ~(offset > ssize)
    <3>1. offset \in 0 .. fsize
      BY <2>3, <1>1
    <3>2. IoRight(offset, 0, r)
      BY <3>1, <1>1, <1>2, FileIoFacts
    <3>3. r.got = 0 /\ r.pos \in Nat /\ Near(r.pos, offset)
      BY <3>1, <3>2, <1>2 DEF IoRight
    <3> QED
      BY <2>1, <3>1, <3>3, <1>1 DEF ReadStep
  <2> QED
    BY <2>2, <2>3
<1>3. CASE kind # "file"
  <2>1. CASE offset <= ssize
    BY <2>1, <1>1, <1>3 DEF ReadStep
  <2>2. CASE ~(offset <= ssize)
    BY <2>2, <1>1, <1>3, ReadStepStill
  <2> QED
    BY <2>1, <2>2
<1> QED
  BY <1>2, <1>3

\* ReadAt and Read.
LEMMA ReadAtIsReadStep ==
  ASSUME Honest, FtInv, NEW offset \in Nat, NEW count \in Nat,
         DoReadAt(offset, count)
  PROVE  ReadStep
<1> USE DEF DoReadAt
<1>1. ssize = fsize /\ fsize \in Nat /\ Open
  BY SizeFacts DEF FtInv, SizeIsFileSize, Open
<1>2. CASE offset >= ssize /\ out' = Failed /\ UNCHANGED <<epos, spos>>
  BY <1>1, <1>2, ReadStepStill
<1>3. CASE /\ offset < ssize
           /\ \E r \in Io(offset, count) :
                /\ epos' = r.pos
                /\ spos' = Advance(offset, r.got)
                /\ out' = ReadOutcome(offset, count, r)
  <2>1. PICK r \in Io(offset, count) :
          /\ epos' = r.pos
          /\ spos' = Advance(offset, r.got)
          /\ out' = ReadOutcome(offset, count, r)
    BY <1>3
  <2>2. offset \in 0 .. fsize
    BY <1>1, <1>3
  <2>3. IoRight(offset, count, r)
    BY <1>1, <2>2, IoFacts
  <2>4. ~(r.got < count) => r.got = count
    BY <2>3 DEF IoRight
  <2>5. out' \in {Failed, Delivered(offset, r.got, r.from, r.moved)}
    BY <2>1, <2>4 DEF ReadOutcome
  <2> QED
    BY <1>1, <2>1, <2>2, <2>3, <2>5, ReadStepFromIo
<1> QED
  BY <1>2, <1>3

\* TryRead.
LEMMA TryReadIsReadStep ==
  ASSUME Honest, FtInv, TryRead
  PROVE  ReadStep
<1> USE DEF TryRead
<1>1. ssize = fsize /\ fsize \in Nat /\ spos \in Nat /\ Open
  BY SizeFacts DEF FtInv, SizeIsFileSize, Open
<1>2. PICK count \in Counts :
        \/ /\ spos >= ssize
           /\ out' = Quiet
           /\ UNCHANGED <<epos, spos>>
        \/ /\ spos < ssize
           /\ \E r \in Io(spos, count) :
                /\ epos' = r.pos
                /\ spos' = Advance(spos, r.got)
                /\ out' = Delivered(spos, r.got, r.from, r.moved)
  OBVIOUS
<1>3. CASE spos >= ssize /\ out' = Quiet /\ UNCHANGED <<epos, spos>>
  BY <1>1, <1>3, ReadStepStill
<1>4. CASE /\ spos < ssize
           /\ \E r \in Io(spos, count) :
                /\ epos' = r.pos
                /\ spos' = Advance(spos, r.got)
                /\ out' = Delivered(spos, r.got, r.from, r.moved)
  <2>1. PICK r \in Io(spos, count) :
          /\ epos' = r.pos
          /\ spos' = Advance(spos, r.got)
          /\ out' = Delivered(spos, r.got, r.from, r.moved)
    BY <1>4
  <2>2. spos \in 0 .. fsize /\ count \in Nat
    BY <1>1, <1>4, FtAssumption, StdioAssumption
  <2>3. IoRight(spos, count, r)
    BY <1>1, <2>2, IoFacts
  <2> QED
    BY <1>1, <2>1, <2>2, <2>3, ReadStepFromIo
<1> QED
  BY <1>2, <1>3, <1>4

\* ReadChar and the other scalars: when one fails, nothing was read at all.
LEMMA ReadScalarIsReadStep ==
  ASSUME Honest, FtInv, ReadScalar
  PROVE  ReadStep
<1> USE DEF ReadScalar
<1>1. /\ ssize = fsize /\ fsize \in Nat /\ spos \in Nat /\ spos <= fsize /\ Open
      /\ LongMod \in Nat /\ (Scalars # {} => fsize + 4 <= LongMod) /\ epos \in Nat
      /\ UNCHANGED <<phase, kind, fsize, ssize>>
  BY SizeFacts, StdioAssumption DEF FtInv, SizeIsFileSize, StaysInFile, Open
<1>2. PICK n \in Scalars :
        IF Advance(spos, n - 1) < ssize \/ (n = 1 /\ kind = "file")
          THEN \E r \in Io(spos, n) :
                 /\ epos' = r.pos
                 /\ IF r.got = n
                      THEN /\ spos' = Advance(spos, n)
                           /\ out' = Delivered(spos, n, r.from, r.moved)
                      ELSE out' = Failed /\ UNCHANGED spos
          ELSE out' = Failed /\ UNCHANGED <<epos, spos>>
  OBVIOUS
<1>3. n \in 1 .. 4
  BY FtAssumption
<1>4. CASE ~(Advance(spos, n - 1) < ssize \/ (n = 1 /\ kind = "file"))
  BY <1>1, <1>2, <1>4, ReadStepStill
<1>5. CASE Advance(spos, n - 1) < ssize \/ (n = 1 /\ kind = "file")
  <2>1. PICK r \in Io(spos, n) :
          /\ epos' = r.pos
          /\ IF r.got = n
               THEN /\ spos' = Advance(spos, n)
                    /\ out' = Delivered(spos, n, r.from, r.moved)
               ELSE out' = Failed /\ UNCHANGED spos
    BY <1>2, <1>5
  <2>2. spos \in 0 .. fsize /\ n \in Nat
    BY <1>1, <1>3
  <2>3. IoRight(spos, n, r)
    BY <1>1, <2>2, IoFacts
  <2>4. CASE r.got = n
    BY <1>1, <2>1, <2>2, <2>3, <2>4, ReadStepFromIo
  <2>5. CASE r.got # n
    <3>1. CASE kind = "memory"
      <4>1. r.pos = epos
        BY <2>3, <3>1 DEF IoRight
      <4> QED
        BY <1>1, <2>1, <2>5, <4>1, ReadStepStill
    <3>2. CASE kind = "file"
      <4>1. "ReadPartial" \notin MayFail
        BY DEF Honest
      <4>2. r \in FileIo(spos, n)
        BY <3>2 DEF Io
      <4>3. r.got = 0 \/ r.got = Available(fsize, spos, n)
        BY <1>1, <2>2, <3>2, <4>1, <4>2, FileIoFacts
      <4>4. spos + n <= fsize \/ (n = 1 /\ spos = fsize)
        <5>1. CASE Advance(spos, n - 1) < ssize
          <6>1. spos + (n - 1) \in Nat /\ spos + (n - 1) < LongMod
            BY <1>1, <1>3
          <6>2. Advance(spos, n - 1) = spos + (n - 1)
            BY <6>1, ThroughLong DEF Advance
          <6> QED
            BY <5>1, <6>2, <1>1, <1>3
        <5>2. CASE n = 1
          BY <5>2, <1>1
        <5> QED
          BY <1>5, <5>1, <5>2
      <4>5. r.got = 0
        BY <4>3, <4>4, <2>5, <1>1, <1>3 DEF Available
      <4>6. r.pos \in Nat /\ Near(r.pos, spos)
        BY <2>3, <3>2, <4>5, <1>1 DEF IoRight
      <4> QED
        BY <1>1, <2>1, <2>2, <2>5, <4>6 DEF ReadStep
    <3> QED
      BY <3>1, <3>2 DEF FtInv, FtTypeOK
  <2> QED
    BY <2>4, <2>5
<1> QED
  BY <1>4, <1>5

\* EnterFrame: on success a file's frame has a fresh block, and on failure the
\* heap is what it was.
EnterStep ==
  /\ ReadStep
  /\ \/ /\ out' = Failed
        /\ heap' = heap
        /\ base' \in {base, NoBlock}
     \/ /\ out'.ok
        /\ \E at \in 0 .. fsize : \E count \in 0 .. fsize - at : Right(out', at, count)
        /\ IF kind = "file"
             THEN \E b \in (Blocks \ heap) \cup {NoBlock} :
                    base' = b /\ heap' = AfterAlloc(heap, b)
             ELSE UNCHANGED <<heap, base>>

LEMMA EnterIsEnterStep ==
  ASSUME Honest, FtInv, NEW count \in Counts, Enter(count)
  PROVE  EnterStep
<1>1. /\ ssize = fsize /\ fsize \in Nat /\ spos \in Nat /\ spos <= fsize /\ Open
      /\ UNCHANGED <<phase, kind, fsize, ssize>>
      /\ count \in Nat /\ heap \subseteq Blocks
      /\ kind \in {"file", "memory"}
  BY SizeFacts, StdioAssumption, FtAssumption
  DEF Enter, FtInv, SizeIsFileSize, StaysInFile, Open, FtTypeOK
<1>2. CASE kind = "file"
  <2> USE DEF EnterFileFrame
  <2>1. EnterFileFrame(count)
    BY <1>2 DEF Enter
  <2>2. CASE /\ count > ssize
             /\ out' = Failed
             /\ UNCHANGED <<epos, spos, base, heap>>
    BY <2>2, <1>1, ReadStepStill DEF EnterStep
  <2>3. ASSUME NEW a \in Alloc(count), a.err, base' = NoBlock, out' = Failed,
               UNCHANGED <<epos, spos, heap>>
        PROVE  EnterStep
    BY <2>3, <1>1, ReadStepStill DEF EnterStep
  <2>4. ASSUME NEW a \in Alloc(count), ~a.err, NEW r \in FileIo(spos, count),
               epos' = r.pos,
               IF r.got < count
                 THEN /\ base' = NoBlock
                      /\ heap' = HeapAfterShortRead(a.block)
                      /\ spos' = PosAfterShortRead(r.got)
                      /\ out' = Failed
                 ELSE /\ base' = a.block
                      /\ spos' = Advance(spos, r.got)
                      /\ heap' = AfterAlloc(heap, a.block)
                      /\ out' = Delivered(spos, count, r.from, r.moved)
        PROVE  EnterStep
    <3>1. a.block \in (Blocks \ heap) \cup {NoBlock}
      BY <2>4 DEF Alloc
    <3>2. spos \in 0 .. fsize
      BY <1>1
    <3>3. IoRight(spos, count, r)
      BY <1>1, <1>2, <2>4, <3>2, FileIoFacts
    <3>4. CASE r.got < count
      <4>1. spos' = Advance(spos, r.got) /\ out' = Failed /\ base' = NoBlock
        BY <2>4, <3>4 DEF PosAfterShortRead
      <4>2. ReadStep
        BY <1>1, <2>4, <3>2, <3>3, <4>1, ReadStepFromIo
      <4>3. heap' = heap
        <5>1. NoBlock \notin heap
          BY <1>1, FtAssumption
        <5>2. a.block \notin heap
          BY <3>1, <5>1
        <5> QED
          BY <2>4, <3>4, <5>2 DEF HeapAfterShortRead, AfterFree, AfterAlloc
      <4> QED
        BY <4>1, <4>2, <4>3 DEF EnterStep
    <3>5. CASE ~(r.got < count)
      <4>1. /\ r.got = count /\ r.from \in Nat /\ r.moved = count /\ spos + count <= fsize
            /\ count > 0 => r.from = spos
        BY <3>3, <3>5, <1>1 DEF IoRight
      <4>2. /\ spos' = Advance(spos, r.got)
            /\ Right(out', spos, count)
            /\ out' = Delivered(spos, r.got, r.from, r.moved)
            /\ base' = a.block /\ heap' = AfterAlloc(heap, a.block)
        BY <2>4, <3>5, <4>1 DEF Right
      <4>3. ReadStep
        BY <1>1, <2>4, <3>2, <3>3, <4>2, ReadStepFromIo
      <4>4. out'.ok
        BY <4>2 DEF Right, Delivered
      <4>5. count \in 0 .. fsize - spos
        BY <4>1, <1>1
      <4> QED
        BY <1>2, <3>1, <3>2, <4>2, <4>3, <4>4, <4>5 DEF EnterStep
    <3> QED
      BY <3>4, <3>5
  <2> QED
    BY <2>1, <2>2, <2>3, <2>4
<1>3. CASE kind = "memory"
  <2> USE DEF EnterMemoryFrame
  <2>1. EnterMemoryFrame(count)
    BY <1>3 DEF Enter
  <2>2. CASE spos < ssize /\ count <= ssize - spos
    <3>1. spos + count <= fsize
      BY <2>2, <1>1
    <3>2. Advance(spos, count) = spos + count
      BY <3>1, <1>1, AdvanceInFile DEF FtInv
    <3>3. /\ out' = Delivered(spos, count, spos, count)
          /\ spos' = spos + count
          /\ UNCHANGED <<epos, base, heap>>
      BY <2>1, <2>2, <3>2
    <3>4. ReadStep
      BY <1>1, <1>3, <3>1, <3>3, SizeFacts DEF ReadStep, Right, FtInv
    <3>5. Right(out', spos, count)
      BY <3>3, <1>1 DEF Right
    <3>6. out'.ok /\ spos \in 0 .. fsize /\ count \in 0 .. fsize - spos
      BY <3>1, <3>3, <1>1 DEF Delivered
    <3> QED
      BY <1>3, <3>3, <3>4, <3>5, <3>6 DEF EnterStep
  <2>3. CASE ~(spos < ssize /\ count <= ssize - spos)
    <3>1. out' = Failed /\ UNCHANGED <<epos, spos, base, heap>>
      BY <2>1, <2>3
    <3> QED
      BY <3>1, <1>1, ReadStepStill DEF EnterStep
  <2> QED
    BY <2>2, <2>3
<1> QED
  BY <1>1, <1>2, <1>3

----------------------------------------------------------------------------
(***************************************************************************)
(* The invariant                                                           *)
(***************************************************************************)

LEMMA FtInitInv == FtInit => FtInv
<1> SUFFICES ASSUME FtInit PROVE FtInv
  OBVIOUS
<1> USE DEF FtInit, Open
<1>1. 0 \in 0 .. LongMod - 1
  BY StdioAssumption
<1>2. FtTypeOK
  BY <1>1 DEF FtTypeOK, NoFrame, Quiet, Outcomes
<1>3. Fresh /\ BaseIsBlock /\ PosNear /\ SizeIsFileSize /\ StaysInFile
  BY DEF Fresh, BaseIsBlock, PosNear, SizeIsFileSize, StaysInFile, NoFrame
<1>4. OnlyRealBytes /\ FromTheRightPlace /\ FrameIsAWindow
  BY DEF OnlyRealBytes, FromTheRightPlace, FrameIsAWindow, NoFrame, Quiet
<1>5. OneOwner
  BY DEF OneOwner, InFrame, NoFrame
<1> QED
  BY <1>2, <1>3, <1>4, <1>5 DEF FtInv

\* The part of the invariant that is about positions and outcomes.
PosInv ==
  /\ phase \in {"new", "open", "closed"} /\ kind \in {"file", "memory"}
  /\ fsize \in Sizes
  /\ epos \in Nat
  /\ spos \in 0 .. LongMod - 1 /\ ssize \in 0 .. LongMod - 1
  /\ out \in Outcomes
  /\ PosNear /\ SizeIsFileSize /\ StaysInFile
  /\ OnlyRealBytes /\ FromTheRightPlace

\* What is left of it: the frame and the blocks.
FrameInv ==
  /\ base \in Blocks \cup {NoBlock, FontBlock}
  /\ frame \in [open : BOOLEAN, at : Nat, len : Nat, from : Nat, moved : Nat, cursor : Nat]
  /\ heap \subseteq Blocks /\ client \subseteq Blocks
  /\ Fresh /\ BaseIsBlock /\ FrameIsAWindow /\ OneOwner

LEMMA InvParts == FtInv <=> PosInv /\ FrameInv
  BY DEF FtInv, FtTypeOK, PosInv, FrameInv

\* What a client may see.
LEMMA OutcomeFacts ==
  /\ Quiet \in Outcomes /\ Failed \in Outcomes
  /\ Quiet.moved = Quiet.count /\ ~(Quiet.moved > 0) /\ ~Failed.ok
  BY DEF Quiet, Failed, Outcomes

LEMMA RightFacts ==
  ASSUME NEW at \in Nat, NEW count \in Nat, NEW o, Right(o, at, count)
  PROVE  /\ o \in Outcomes /\ o.ok /\ o.moved = o.count
         /\ o.moved > 0 => o.from = o.at
<1>1. PICK from \in Nat :
        /\ o = [ok |-> TRUE, at |-> at, count |-> count, from |-> from, moved |-> count]
        /\ count > 0 => from = at
  BY DEF Right, Delivered
<1> QED
  BY <1>1 DEF Outcomes

\* A ReadStep keeps positions and outcomes right.
LEMMA ReadStepPosInv == ASSUME Honest, FtInv, ReadStep PROVE PosInv'
<1> USE DEF ReadStep
<1>1. /\ fsize \in Nat /\ fsize < LongMod /\ LongMod \in Nat /\ ssize = fsize
      /\ spos' \in Nat /\ spos' <= fsize
  BY SizeFacts DEF FtInv, SizeIsFileSize
<1>2. spos' \in 0 .. LongMod - 1
  BY <1>1
<1>3. PosNear' /\ SizeIsFileSize' /\ StaysInFile'
  BY <1>1 DEF PosNear, Near, SizeIsFileSize, StaysInFile, Open
<1>4. out' \in Outcomes /\ OnlyRealBytes' /\ FromTheRightPlace'
  <2>1. CASE out' \in {Quiet, Failed}
    BY <2>1, OutcomeFacts DEF OnlyRealBytes, FromTheRightPlace
  <2>2. CASE \E at \in 0 .. fsize : \E count \in 0 .. fsize - at :
               Right(out', at, count) /\ spos' = at + count
    <3>1. PICK at \in 0 .. fsize : \E count \in 0 .. fsize - at :
            Right(out', at, count)
      BY <2>2
    <3>2. PICK count \in 0 .. fsize - at : Right(out', at, count)
      BY <3>1
    <3>3. at \in Nat /\ count \in Nat
      BY <1>1
    <3> QED
      BY <3>2, <3>3, RightFacts DEF OnlyRealBytes, FromTheRightPlace
  <2> QED
    BY <2>1, <2>2
<1> QED
  BY <1>2, <1>3, <1>4 DEF FtInv, FtTypeOK, PosInv

\* The frame part does not depend on positions and outcomes.
LEMMA FrameInvStutter ==
  ASSUME FtInv, Open, UNCHANGED <<phase, kind, fsize, base, frame, heap, client>>
  PROVE  FrameInv'
<1> QED
  BY DEF FtInv, FtTypeOK, FrameInv, Fresh, BaseIsBlock, FrameIsAWindow, OneOwner, InFrame, Open

----------------------------------------------------------------------------

\* The functions that move or read outside frames.
LEMMA ReadActionsInv ==
  ASSUME Honest, FtInv, Seek \/ Skip \/ ReadAt \/ Read \/ TryRead \/ ReadScalar
  PROVE  FtInv' /\ ReadStep
<1>1. /\ ReadStep
      /\ UNCHANGED <<phase, kind, fsize, base, frame, heap, client>>
      /\ Open
  <2>1. /\ spos \in Nat
        /\ \A n \in Nat : Advance(spos, n) \in Nat
        /\ Offsets \subseteq Nat /\ Counts \subseteq Nat
    BY SizeFacts, FtAssumption, StdioAssumption DEF FtInv, Advance, ToULong
  <2>2. CASE Seek \/ Skip
    <3>1. PICK offset \in Nat : SeekTo(offset)
      BY <2>1, <2>2 DEF Seek, Skip
    <3> QED
      BY <3>1, SeekIsReadStep DEF SeekTo, Open
  <2>3. CASE ReadAt \/ Read
    <3>1. PICK offset \in Nat : \E count \in Nat : DoReadAt(offset, count)
      BY <2>1, <2>3 DEF ReadAt, Read
    <3>2. PICK count \in Nat : DoReadAt(offset, count)
      BY <3>1
    <3> QED
      BY <3>2, ReadAtIsReadStep DEF DoReadAt, Open
  <2>4. CASE TryRead
    BY <2>4, TryReadIsReadStep DEF TryRead, Open
  <2>5. CASE ReadScalar
    BY <2>5, ReadScalarIsReadStep DEF ReadScalar, Open
  <2> QED
    BY <2>2, <2>3, <2>4, <2>5
<1>2. PosInv'
  BY <1>1, ReadStepPosInv
<1>3. FrameInv'
  BY <1>1, FrameInvStutter
<1>4. (PosInv /\ FrameInv)' => FtInv'
  BY InvParts DEF FtInv, FtTypeOK, PosInv, FrameInv
<1> QED
  BY <1>1, <1>2, <1>3, <1>4

\* EnterFrame and ExtractFrame.
LEMMA EnterActionsInv ==
  ASSUME Honest, FtInv, EnterFrame \/ ExtractFrame
  PROVE  FtInv' /\ ReadStep
<1>1. EnterStep /\ Open /\ ~frame.open /\ UNCHANGED <<phase, kind, fsize, ssize>>
  <2>1. PICK count \in Counts : Enter(count)
    BY DEF EnterFrame, ExtractFrame
  <2> QED
    BY <2>1, EnterIsEnterStep DEF Enter, Open
<1>2. ReadStep /\ PosInv'
  BY <1>1, ReadStepPosInv DEF EnterStep
<1>3. /\ heap = client /\ heap \subseteq Blocks /\ NoBlock \notin Blocks
      /\ base \in Blocks \cup {NoBlock, FontBlock}
      /\ kind \in {"file", "memory"} /\ fsize \in Nat
      /\ kind = "file" => base \in Blocks \cup {NoBlock}
      /\ frame \in [open : BOOLEAN, at : Nat, len : Nat, from : Nat, moved : Nat, cursor : Nat]
  BY <1>1, FtAssumption, SizeFacts
  DEF FtInv, FtTypeOK, OneOwner, InFrame, BaseIsBlock
<1>4. FrameInv'
  <2>1. CASE out' = Failed /\ heap' = heap /\ base' \in {base, NoBlock}
    <3>1. frame' = frame /\ client' = client
      BY <2>1, OutcomeFacts DEF EnterFrame, ExtractFrame
    <3> QED
      BY <1>1, <1>3, <2>1, <3>1
      DEF FrameInv, Fresh, BaseIsBlock, FrameIsAWindow, OneOwner, InFrame, Open
  <2>2. CASE /\ out'.ok
             /\ \E at \in 0 .. fsize : \E count \in 0 .. fsize - at : Right(out', at, count)
             /\ IF kind = "file"
                  THEN \E b \in (Blocks \ heap) \cup {NoBlock} :
                         base' = b /\ heap' = AfterAlloc(heap, b)
                  ELSE UNCHANGED <<heap, base>>
    <3>1. /\ heap' \subseteq Blocks
          /\ base' \in Blocks \cup {NoBlock, FontBlock}
          /\ kind = "file" => base' \in Blocks \cup {NoBlock}
          /\ kind = "file" => base' \notin heap
          /\ heap' = IF kind = "file" THEN client \cup ({base'} \ {NoBlock}) ELSE client
      BY <1>3, <2>2 DEF AfterAlloc
    <3>2. CASE EnterFrame
      <4>1. frame' = FrameOf(out') /\ client' = client
        BY <2>2, <3>2 DEF EnterFrame
      <4>2. /\ frame' \in [open : BOOLEAN, at : Nat, len : Nat, from : Nat,
                           moved : Nat, cursor : Nat]
            /\ frame'.open /\ frame'.cursor = 0
            /\ frame'.len \in Nat /\ frame'.moved = frame'.len
            /\ frame'.len > 0 => frame'.from = frame'.at
            /\ frame'.at + frame'.len <= fsize
        <5>1. PICK at \in 0 .. fsize :
                \E count \in 0 .. fsize - at : Right(out', at, count)
          BY <2>2
        <5>2. PICK count \in 0 .. fsize - at : Right(out', at, count)
          BY <5>1
        <5>3. at \in Nat /\ count \in Nat /\ at + count <= fsize
          BY <1>3
        <5>4. PICK from \in Nat :
                /\ out' = [ok |-> TRUE, at |-> at, count |-> count, from |-> from,
                           moved |-> count]
                /\ count > 0 => from = at
          BY <5>2 DEF Right, Delivered
        <5>5. frame' = [open |-> TRUE, at |-> at, len |-> count, from |-> from,
                        moved |-> count, cursor |-> 0]
          BY <4>1, <5>4 DEF FrameOf
        <5> QED
          BY <5>3, <5>4, <5>5
      <4>3. OneOwner'
        BY <1>1, <1>3, <3>1, <4>1, <4>2 DEF OneOwner, InFrame
      <4>4. FrameIsAWindow'
        BY <1>1, <4>2 DEF FrameIsAWindow
      <4>5. Fresh' /\ BaseIsBlock'
        BY <1>1, <3>1 DEF Fresh, BaseIsBlock, Open
      <4> QED
        BY <1>3, <3>1, <4>1, <4>2, <4>3, <4>4, <4>5 DEF FrameInv
    <3>3. CASE ExtractFrame
      <4>1. /\ frame' = frame
            /\ client' = IF kind = "file" THEN AfterAlloc(client, base') ELSE client
        BY <2>2, <3>3 DEF ExtractFrame
      <4>2. heap' = client'
        BY <3>1, <4>1 DEF AfterAlloc
      <4>3. ~frame'.open
        BY <1>1, <4>1
      <4> QED
        BY <1>1, <1>3, <3>1, <4>1, <4>2, <4>3
        DEF FrameInv, Fresh, BaseIsBlock, FrameIsAWindow, OneOwner, InFrame, Open
    <3> QED
      BY <3>2, <3>3
  <2> QED
    BY <1>1, <2>1, <2>2 DEF EnterStep
<1>5. (PosInv /\ FrameInv)' => FtInv'
  BY InvParts DEF FtInv, FtTypeOK, PosInv, FrameInv
<1> QED
  BY <1>2, <1>4, <1>5

\* Opening: the size and both positions are right from the start.
LEMMA OpenFileFacts ==
  ASSUME Honest, FtInv, OpenFile
  PROVE  /\ ssize' = fsize /\ UNCHANGED fsize /\ spos' = 0 /\ phase = "new"
         /\ epos' \in Nat
         /\ \/ phase' = "closed" /\ out' = Failed
            \/ phase' = "open" /\ out' = Quiet /\ epos' = 0
<1> USE DEF OpenFile
<1>1. /\ fsize \in Nat /\ fsize < LongMod /\ epos = 0 /\ spos = 0
      /\ phase = "new" /\ LongMod \in Nat \ {0}
  BY SizeFacts DEF FtInv, Fresh
<1>2. fseek(fsize, 0, 0, "SEEK_END") = {[ret |-> 0, pos |-> fsize]}
  BY <1>1, SeekEndHonest
<1>3. PICK e \in fseek(fsize, 0, 0, "SEEK_END") :
      \E t \in ftell(e.pos) :
        /\ ssize' = ToULong(t)
        /\ \/ /\ ToULong(t) = 0
              /\ phase' = "closed" /\ out' = Failed /\ epos' = e.pos
           \/ /\ ToULong(t) # 0
              /\ \E s \in fseek(fsize, e.pos, 0, "SEEK_SET") : epos' = s.pos
              /\ phase' = "open" /\ out' = Quiet
  BY Zenon
<1>4. e.pos = fsize
  BY <1>2
<1>5. \A t \in ftell(fsize) : ToULong(t) = fsize
  BY <1>1, TellHonest
<1>6. /\ ssize' = fsize
      /\ \/ /\ phase' = "closed" /\ out' = Failed /\ epos' = fsize
         \/ /\ \E s \in fseek(fsize, fsize, 0, "SEEK_SET") : epos' = s.pos
            /\ phase' = "open" /\ out' = Quiet
  BY <1>3, <1>4, <1>5
<1>7. ASSUME NEW s \in fseek(fsize, fsize, 0, "SEEK_SET") PROVE s.pos = 0
  <2>1. 0 \in 0 .. fsize /\ ToLong(0) = 0 /\ 2 * 0 < LongMod
    BY <1>1 DEF ToLong
  <2> QED
    BY <1>1, <2>1, SeekSetHonest
<1> QED
  BY <1>1, <1>6, <1>7

LEMMA OpenCloseInv ==
  ASSUME Honest, FtInv, OpenFails \/ OpenFile \/ OpenMemory \/ Close
  PROVE  FtInv'
<1>1. /\ fsize \in Nat /\ fsize < LongMod /\ LongMod \in Nat \ {0}
      /\ FontBlock \notin Blocks /\ FontBlock # NoBlock
  BY SizeFacts, FtAssumption DEF FtInv
<1>2. (PosInv /\ FrameInv)' => FtInv'
  BY InvParts DEF FtInv, FtTypeOK, PosInv, FrameInv
<1>3. CASE OpenFails
  <2> USE <1>3 DEF OpenFails
  <2>1. PosInv'
    BY OutcomeFacts
    DEF FtInv, FtTypeOK, PosInv, PosNear, Near, SizeIsFileSize, StaysInFile, Open,
        OnlyRealBytes, FromTheRightPlace
  <2>2. FrameInv'
    BY DEF FtInv, FtTypeOK, FrameInv, Fresh, BaseIsBlock, FrameIsAWindow, OneOwner,
           InFrame, Open
  <2> QED
    BY <1>2, <2>1, <2>2
<1>4. CASE OpenFile
  <2>1. /\ ssize' = fsize /\ fsize' = fsize /\ spos' = 0 /\ epos' \in Nat
        /\ phase = "new"
        /\ \/ phase' = "closed" /\ out' = Failed
           \/ phase' = "open" /\ out' = Quiet /\ epos' = 0
    BY <1>4, OpenFileFacts
  <2>2. UNCHANGED <<kind, base, frame, heap, client>>
    BY <1>4 DEF OpenFile
  <2>3. ssize' \in 0 .. LongMod - 1 /\ spos' \in 0 .. LongMod - 1
    BY <1>1, <2>1
  <2>4. PosNear' /\ SizeIsFileSize' /\ StaysInFile'
    BY <1>1, <2>1 DEF PosNear, Near, SizeIsFileSize, StaysInFile, Open
  <2>5. out' \in Outcomes /\ OnlyRealBytes' /\ FromTheRightPlace'
    BY <2>1, OutcomeFacts DEF OnlyRealBytes, FromTheRightPlace
  <2>6. PosInv'
    BY <2>1, <2>2, <2>3, <2>4, <2>5 DEF FtInv, FtTypeOK, PosInv
  <2>7. FrameInv'
    BY <2>1, <2>2
    DEF FtInv, FtTypeOK, FrameInv, Fresh, BaseIsBlock, FrameIsAWindow, OneOwner,
        InFrame, Open
  <2> QED
    BY <1>2, <2>6, <2>7
<1>5. CASE OpenMemory
  <2> USE <1>5 DEF OpenMemory
  <2>1. ToULong(fsize) = fsize
    BY <1>1, ThroughLong
  <2>2. /\ ssize' = fsize /\ spos' = 0 /\ fsize' = fsize /\ kind' = "memory"
        /\ ssize' \in 0 .. LongMod - 1
    BY <1>1, <2>1 DEF FtInv, Fresh
  <2>3. PosInv'
    BY <1>1, <2>2, OutcomeFacts
    DEF FtInv, FtTypeOK, PosInv, PosNear, Near, SizeIsFileSize, StaysInFile, Open,
        OnlyRealBytes, FromTheRightPlace
  <2>4. FrameInv'
    BY <2>2
    DEF FtInv, FtTypeOK, FrameInv, Fresh, BaseIsBlock, FrameIsAWindow, OneOwner,
        InFrame, Open
  <2> QED
    BY <1>2, <2>3, <2>4
<1>6. CASE Close
  <2> USE <1>6 DEF Close
  <2>1. ssize' \in 0 .. LongMod - 1
    BY <1>1 DEF FtInv, FtTypeOK
  <2>2. PosInv'
    BY <2>1, OutcomeFacts
    DEF FtInv, FtTypeOK, PosInv, PosNear, Near, SizeIsFileSize, StaysInFile, Open,
        OnlyRealBytes, FromTheRightPlace
  <2>3. FrameInv'
    BY DEF FtInv, FtTypeOK, FrameInv, Fresh, BaseIsBlock, FrameIsAWindow, OneOwner,
           InFrame, Open
  <2> QED
    BY <1>2, <2>2, <2>3
<1> QED
  BY <1>3, <1>4, <1>5, <1>6

\* ExitFrame and ReleaseFrame free a block that was theirs to free; GetScalar
\* reads inside the frame.
LEMMA FrameActionsInv ==
  ASSUME Honest, FtInv, ExitFrame \/ ReleaseFrame \/ GetScalar
  PROVE  FtInv'
<1>1. /\ fsize \in Nat /\ NoBlock \notin Blocks /\ FontBlock \notin Blocks
      /\ heap \subseteq Blocks /\ client \subseteq Blocks
      /\ Open /\ UNCHANGED <<phase, kind, fsize, epos, spos, ssize>>
  BY SizeFacts, FtAssumption
  DEF FtInv, FtTypeOK, ExitFrame, ReleaseFrame, GetScalar, Open
<1>2. (PosInv /\ FrameInv)' => FtInv'
  BY InvParts DEF FtInv, FtTypeOK, PosInv, FrameInv
<1> DEFINE Exact == /\ out' \in Outcomes /\ out'.moved = out'.count
                    /\ out'.moved > 0 => out'.from = out'.at
<1>3. ASSUME out' = Quiet \/ Exact
      PROVE  PosInv'
  <2>1. out' \in Outcomes /\ OnlyRealBytes' /\ FromTheRightPlace'
    <3>1. CASE out' = Quiet
      BY <3>1, OutcomeFacts DEF OnlyRealBytes, FromTheRightPlace
    <3>2. CASE Exact
      BY <3>2 DEF OnlyRealBytes, FromTheRightPlace
    <3> QED
      BY <1>3, <3>1, <3>2
  <2>2. PosNear' /\ SizeIsFileSize' /\ StaysInFile'
    BY <1>1 DEF FtInv, PosNear, Near, SizeIsFileSize, StaysInFile, Open
  <2> QED
    BY <1>1, <2>1, <2>2 DEF FtInv, FtTypeOK, PosInv
<1>4. CASE ExitFrame
  <2> USE <1>4 DEF ExitFrame
  <2>1. PosInv'
    BY <1>3
  <2>2. ~frame'.open /\ frame' = NoFrame
    BY DEF NoFrame
  <2>3. heap' = client /\ client' = client
    BY <1>1 DEF FtInv, OneOwner, InFrame, AfterFree
  <2>4. OneOwner'
    BY <2>2, <2>3 DEF OneOwner, InFrame
  <2>5. base' \in Blocks \cup {NoBlock, FontBlock} /\ BaseIsBlock'
    BY DEF FtInv, FtTypeOK, BaseIsBlock
  <2>6. FrameInv'
    BY <1>1, <2>2, <2>3, <2>4, <2>5
    DEF FrameInv, Fresh, FrameIsAWindow, NoFrame, Open
  <2> QED
    BY <1>2, <2>1, <2>6
<1>5. CASE ReleaseFrame
  <2>1. PICK b \in client : heap' = AfterFree(heap, b) /\ client' = client \ {b}
    BY <1>5 DEF ReleaseFrame
  <2>2. PosInv' /\ UNCHANGED <<base, frame>>
    BY <1>3, <1>5 DEF ReleaseFrame
  <2>3. OneOwner'
    BY <1>1, <2>1, <2>2 DEF FtInv, OneOwner, InFrame, AfterFree
  <2>4. FrameInv'
    BY <1>1, <2>1, <2>2, <2>3
    DEF FtInv, FtTypeOK, FrameInv, Fresh, BaseIsBlock, FrameIsAWindow, AfterFree, Open
  <2> QED
    BY <1>2, <2>2, <2>4
<1>6. CASE GetScalar
  <2>1. PICK n \in 1 .. 4 :
          IF Fits(n)
            THEN /\ frame' = [frame EXCEPT !.cursor = @ + n]
                 /\ out' = Delivered(frame.at + frame.cursor, n,
                                     frame.from + frame.cursor, FromFile(n))
            ELSE out' = Quiet /\ UNCHANGED frame
    BY <1>6 DEF GetScalar
  <2>2. UNCHANGED <<base, heap, client>> /\ frame.open
    BY <1>6 DEF GetScalar
  <2>3. /\ frame \in [open : BOOLEAN, at : Nat, len : Nat, from : Nat, moved : Nat,
                      cursor : Nat]
        /\ frame.cursor <= frame.len /\ frame.moved = frame.len
        /\ frame.len > 0 => frame.from = frame.at
        /\ frame.at + frame.len <= fsize
    BY <2>2 DEF FtInv, FtTypeOK, FrameIsAWindow
  <2>4. CASE ~Fits(n)
    <3>1. out' = Quiet /\ frame' = frame
      BY <2>1, <2>4
    <3>2. FrameInv'
      BY <1>1, <2>2, <3>1, FrameInvStutter
    <3> QED
      BY <1>2, <1>3, <3>1, <3>2
  <2>5. CASE Fits(n)
    <3>1. frame.cursor + n <= frame.len /\ frame.from = frame.at /\ FromFile(n) = n
      BY <2>3, <2>5 DEF Fits, FromFile
    <3>2. out' = Delivered(frame.at + frame.cursor, n, frame.at + frame.cursor, n)
      BY <2>1, <2>5, <3>1
    <3>3. PosInv'
      <4>1. frame.at + frame.cursor \in Nat /\ n \in Nat
        BY <2>3
      <4> QED
        BY <1>3, <3>2, <4>1, RightFacts DEF Right
    <3>4. /\ frame' \in [open : BOOLEAN, at : Nat, len : Nat, from : Nat, moved : Nat,
                         cursor : Nat]
          /\ frame'.cursor = frame.cursor + n
          /\ frame'.open = frame.open /\ frame'.len = frame.len /\ frame'.at = frame.at
          /\ frame'.from = frame.from /\ frame'.moved = frame.moved
      BY <2>1, <2>3, <2>5
    <3>5. FrameIsAWindow'
      BY <1>1, <2>3, <3>1, <3>4 DEF FrameIsAWindow
    <3>6. OneOwner'
      BY <1>1, <2>2, <3>4 DEF FtInv, OneOwner, InFrame
    <3>7. FrameInv'
      BY <1>1, <2>2, <3>4, <3>5, <3>6
      DEF FtInv, FtTypeOK, FrameInv, Fresh, BaseIsBlock, Open
    <3> QED
      BY <1>2, <3>3, <3>7
  <2> QED
    BY <2>4, <2>5
<1> QED
  BY <1>4, <1>5, <1>6

----------------------------------------------------------------------------
(***************************************************************************)
(* What holds on every firmware                                            *)
(*                                                                         *)
(* Seeks and position queries may fail, a `long' may be too short for the  *)
(* file and a scalar may be read half way: the stream then delivers bytes  *)
(* from the wrong place.  It frees each block once all the same; and if    *)
(* failing reads say truly how much they read, every byte it delivers was  *)
(* read.                                                                   *)
(***************************************************************************)

\* A failing Read may stop anywhere, but says where.
TrueCounts == MayFail \cap {"ReadLying", "ReadTooSmall"} = {}

\* An outcome of the right type, with bytes that were read.
Sound(o) == o \in Outcomes /\ (TrueCounts => (o.ok => o.moved = o.count))

FrameIsFull ==
  frame.open => frame.cursor <= frame.len /\ (TrueCounts => frame.moved = frame.len)

AnyInv ==
  /\ FtTypeOK /\ Fresh /\ BaseIsBlock
  /\ Sound(out) /\ FrameIsFull /\ OneOwner

LEMMA AnyFacts ==
  ASSUME FtTypeOK
  PROVE  /\ LongMod \in Nat \ {0} /\ LongMod >= 8 /\ PosMod \in Nat \ {0}
         /\ fsize \in Nat /\ spos \in Nat /\ epos \in Nat /\ ssize \in Nat
         /\ Offsets \subseteq 0 .. LongMod - 1 /\ Counts \subseteq 0 .. LongMod - 1
         /\ Scalars \subseteq 1 .. 4
         /\ \A n \in Int : ToULong(n) \in 0 .. LongMod - 1
         /\ NoBlock \notin Blocks /\ FontBlock \notin Blocks /\ FontBlock # NoBlock
  BY StdioAssumption, EfiAssumption, FtAssumption DEF FtTypeOK, ToULong

LEMMA SoundFacts ==
  /\ Sound(Quiet) /\ Sound(Failed)
  /\ \A at, count, from, moved \in Nat :
       (TrueCounts => moved = count) => Sound(Delivered(at, count, from, moved))
  BY DEF Sound, Outcomes, Quiet, Failed, Delivered

\* fseek to an offset leaves the file at some position.
LEMMA SeekAny ==
  ASSUME FtTypeOK, NEW offset \in Nat, NEW p \in SeekIfNeeded(offset)
  PROVE  p \in Nat
<1>1. CASE spos = offset
  BY <1>1, AnyFacts DEF SeekIfNeeded
<1>2. CASE spos # offset
  <2> DEFINE target == ToUINT64(ToLong(offset))
  <2>1. target \in Nat
    BY AnyFacts DEF ToUINT64, ToLong
  <2>2. PICK s \in fseek(fsize, epos, ToLong(offset), "SEEK_SET") : p = s.pos
    BY <1>2, Zenon DEF SeekIfNeeded
  <2>3. s \in {SeekReturn(r) : r \in EfiSetPosition(fsize, epos, target)}
    BY <2>2 DEF fseek, SeekSet
  <2>4. PICK r \in EfiSetPosition(fsize, epos, target) : s = SeekReturn(r)
    BY <2>3
  <2>5. r.pos \in {fsize, target, epos}
    BY <2>4 DEF EfiSetPosition
  <2> QED
    BY <2>1, <2>2, <2>4, <2>5, AnyFacts DEF SeekReturn
<1> QED
  BY <1>1, <1>2

\* fread moves at most what was asked for, whatever it returns.
LEMMA ReadAny ==
  ASSUME NEW size \in Nat, NEW pos \in Nat, NEW len \in Nat, NEW r \in fread(size, pos, len)
  PROVE  /\ r.moved \in 0 .. len /\ r.ret \in Nat /\ r.pos = pos + r.moved
         /\ TrueCounts => r.ret = r.moved
<1> DEFINE A == Available(size, pos, len)
<1>1. A \in 0 .. len
  BY DEF Available
<1>2. CASE len = 0
  BY <1>2 DEF fread
<1>3. CASE len # 0
  <2>1. PICK e \in EfiRead(size, pos, len) :
          r = [ret   |-> ReadReturn(len, e),
               moved |-> e.moved,
               pos   |-> pos + e.moved,
               flag  |-> IF e.err # "none" THEN "F_ERR"
                         ELSE IF e.left # len THEN "F_EOF" ELSE "none"]
    BY <1>3 DEF fread
  <2>2. /\ e.left \in Nat /\ e.moved \in 0 .. len
        /\ TrueCounts => e.err # "too small" /\ e.left = e.moved
    <3>1. \/ e = [err |-> "none", left |-> A, moved |-> A]
          \/ e = [err |-> "device", left |-> 0, moved |-> 0]
          \/ e \in ReadFailed(size, pos, len)
      BY DEF EfiRead, ReadDone
    <3>2. CASE e \in ReadFailed(size, pos, len)
      <4>1. \/ e = [err |-> "device", left |-> 0, moved |-> 0]
            \/ \E n \in 1 .. A : e = [err |-> "device", left |-> n, moved |-> n]
            \/ ~TrueCounts /\ \E n \in 0 .. A : e = [err |-> "device", left |-> len, moved |-> n]
            \/ ~TrueCounts /\ e = [err |-> "too small", left |-> len, moved |-> 0]
        <5>1. \A g \in (MayFail \cap {"ReadPartial"}) \X (1 .. A) : g[2] \in 1 .. A
          OBVIOUS
        <5>2. \A g \in (MayFail \cap {"ReadLying"}) \X (0 .. A) :
                g[2] \in 0 .. A /\ ~TrueCounts
          BY DEF TrueCounts
        <5>3. \A g \in MayFail \cap {"ReadTooSmall"} : ~TrueCounts
          BY DEF TrueCounts
        <5> QED
          BY <3>2, <5>1, <5>2, <5>3 DEF ReadFailed
      <4>2. \A n \in 0 .. A : n \in 0 .. len
        BY <1>1
      <4>3. \A n \in 1 .. A : n \in 0 .. len
        BY <1>1
      <4> HIDE DEF A
      <4>4. CASE \E n \in 1 .. A : e = [err |-> "device", left |-> n, moved |-> n]
        <5>1. PICK n \in 1 .. A : e = [err |-> "device", left |-> n, moved |-> n]
          BY <4>4
        <5> QED
          BY <4>3, <5>1
      <4>5. CASE ~TrueCounts /\ \E n \in 0 .. A : e = [err |-> "device", left |-> len, moved |-> n]
        <5>1. PICK n \in 0 .. A : e = [err |-> "device", left |-> len, moved |-> n]
          BY <4>5
        <5> QED
          BY <4>2, <4>5, <5>1
      <4>6. 0 \in Nat /\ 0 \in 0 .. len /\ len \in Nat
        OBVIOUS
      <4>7. CASE e = [err |-> "device", left |-> 0, moved |-> 0]
        BY <4>6, <4>7
      <4>8. CASE ~TrueCounts /\ e = [err |-> "too small", left |-> len, moved |-> 0]
        BY <4>6, <4>8
      <4> QED
        BY <4>1, <4>4, <4>5, <4>7, <4>8
    <3>3. CASE e = [err |-> "none", left |-> A, moved |-> A]
      <4> HIDE DEF A
      <4> QED
        BY <3>3, <1>1
    <3>4. CASE e = [err |-> "device", left |-> 0, moved |-> 0]
      BY <3>4
    <3> QED
      BY <3>1, <3>2, <3>3, <3>4
  <2> QED
    BY <2>1, <2>2 DEF ReadReturn
<1> QED
  BY <1>2, <1>3

\* stream->read on a file: the count that is too long to be refused is 1.
LEMMA FileIoAny ==
  ASSUME FtTypeOK, NEW offset \in Nat, NEW count \in 0 .. LongMod - 1,
         NEW r \in FileIo(offset, count)
  PROVE  /\ r.got \in 0 .. LongMod - 1 /\ r.from \in Nat /\ r.moved \in 0 .. count /\ r.pos \in Nat
         /\ TrueCounts /\ (count # 0 \/ offset <= ssize) => r.moved = r.got
<1>1. CASE count = 0 /\ offset > ssize
  BY <1>1, AnyFacts DEF FileIo
<1>2. CASE ~(count = 0 /\ offset > ssize)
  <2>1. PICK p \in SeekIfNeeded(offset) : r \in ReadHere(p, count)
    BY <1>2 DEF FileIo
  <2>2. p \in Nat
    BY <2>1, SeekAny
  <2>3. PICK q \in fread(fsize, p, count) :
          r = [got |-> ToULong(q.ret), from |-> p, moved |-> q.moved, pos |-> q.pos]
    BY <2>1 DEF ReadHere
  <2>4. /\ count \in Nat /\ fsize \in Nat /\ LongMod \in Nat
    BY AnyFacts
  <2>5. /\ q.moved \in 0 .. count /\ q.ret \in Nat /\ q.pos = p + q.moved
        /\ TrueCounts => q.ret = q.moved
    BY <2>2, <2>3, <2>4, ReadAny
  <2>6. ToULong(q.ret) \in 0 .. LongMod - 1 /\ (q.ret <= count => ToULong(q.ret) = q.ret)
    BY <2>4, <2>5, AnyFacts, ThroughLong
  <2> QED
    BY <2>2, <2>3, <2>4, <2>5, <2>6
<1> QED
  BY <1>1, <1>2

\* ... and on either kind of stream; a copy from memory from behind the size
\* has a negative count.
LEMMA IoAny ==
  ASSUME FtTypeOK, NEW offset \in Nat, NEW count \in 0 .. LongMod - 1,
         NEW r \in Io(offset, count)
  PROVE  /\ r.got \in Int /\ r.from \in Nat /\ r.pos \in Nat
         /\ r.got \in Nat => r.moved \in Nat
         /\ offset <= ssize => r.got \in Nat
         /\ TrueCounts /\ (count # 0 \/ offset <= ssize) => r.moved = r.got /\ r.got <= count
<1>1. count \in Nat /\ ssize \in Nat /\ epos \in Nat /\ LongMod \in Nat
  BY AnyFacts
<1>2. CASE kind = "file"
  <2>1. r \in FileIo(offset, count)
    BY <1>2 DEF Io
  <2>2. /\ r.got \in 0 .. LongMod - 1 /\ r.from \in Nat /\ r.moved \in 0 .. count /\ r.pos \in Nat
        /\ TrueCounts /\ (count # 0 \/ offset <= ssize) => r.moved = r.got
    BY <2>1, FileIoAny
  <2> QED
    BY <1>1, <2>2
<1>3. CASE kind # "file"
  <2>1. r \in MemoryIo(offset, count)
    BY <1>3 DEF Io
  <2> DEFINE n == IF ssize - offset < count THEN ssize - offset ELSE count
  <2>2. r = [got |-> n, from |-> offset, moved |-> n, pos |-> epos]
    BY <2>1 DEF MemoryIo
  <2>3. n \in Int /\ n <= count /\ (offset <= ssize => n \in Nat)
    BY <1>1
  <2> QED
    BY <1>1, <2>2, <2>3
<1> QED
  BY <1>2, <1>3

\* What a step keeps that leaves the frame and the blocks alone.
Still ==
  /\ Open
  /\ UNCHANGED <<phase, kind, fsize, ssize, base, frame, heap, client>>
  /\ epos' \in Nat /\ spos' \in 0 .. LongMod - 1
  /\ Sound(out')

LEMMA StillKeeps == ASSUME AnyInv, Still PROVE AnyInv'
  BY DEF AnyInv, Still, FtTypeOK, Fresh, BaseIsBlock, Sound, FrameIsFull, OneOwner, InFrame, Open

LEMMA ReadsAreStill ==
  ASSUME AnyInv, Seek \/ Skip \/ ReadAt \/ Read \/ TryRead \/ ReadScalar
  PROVE  Still
<1>1. /\ FtTypeOK /\ spos \in 0 .. LongMod - 1 /\ epos \in Nat /\ ssize \in Nat /\ LongMod \in Nat
      /\ \A from, n \in Int : Advance(from, n) \in 0 .. LongMod - 1
  BY AnyFacts DEF AnyInv, FtTypeOK, Advance
<1>2. ASSUME NEW offset \in 0 .. LongMod - 1, SeekTo(offset) PROVE Still
  <2>1. Open /\ UNCHANGED <<phase, kind, fsize, ssize, base, frame, heap, client>>
    BY <1>2 DEF SeekTo, Open
  <2>2. epos' \in Nat /\ spos' \in {spos, offset} /\ out' \in {Quiet, Failed}
    <3>1. CASE kind = "file"
      <4>1. PICK r \in FileIo(offset, 0) :
              /\ epos' = r.pos
              /\ IF r.got = 0 THEN spos' = offset /\ out' = Quiet
                              ELSE UNCHANGED spos /\ out' = Failed
        BY <1>2, <3>1 DEF SeekTo
      <4>2. r.pos \in Nat
        <5>1. 0 \in 0 .. LongMod - 1 /\ offset \in Nat
          BY <1>1, AnyFacts
        <5> QED
          BY <1>1, <4>1, <5>1, FileIoAny
      <4> QED
        BY <4>1, <4>2
    <3>2. CASE kind # "file"
      BY <1>1, <1>2, <3>2 DEF SeekTo
    <3> QED
      BY <3>1, <3>2
  <2> QED
    BY <1>1, <1>2, <2>1, <2>2, SoundFacts DEF Still
<1>3. ASSUME NEW offset \in 0 .. LongMod - 1, NEW count \in 0 .. LongMod - 1,
             DoReadAt(offset, count)
      PROVE  Still
  <2>1. Open /\ UNCHANGED <<phase, kind, fsize, ssize, base, frame, heap, client>>
    BY <1>3 DEF DoReadAt, Open
  <2>2. CASE out' = Failed /\ UNCHANGED <<epos, spos>>
    BY <1>1, <2>1, <2>2, SoundFacts DEF Still
  <2>3. CASE /\ offset < ssize
             /\ \E r \in Io(offset, count) :
                  /\ epos' = r.pos
                  /\ spos' = Advance(offset, r.got)
                  /\ out' = ReadOutcome(offset, count, r)
    <3>1. PICK r \in Io(offset, count) :
            /\ epos' = r.pos
            /\ spos' = Advance(offset, r.got)
            /\ out' = ReadOutcome(offset, count, r)
      BY <2>3
    <3>2. offset \in Nat /\ count \in Nat /\ offset <= ssize
      BY <1>1, <2>3
    <3>3. /\ r.got \in Nat /\ r.from \in Nat /\ r.pos \in Nat /\ r.moved \in Nat
          /\ TrueCounts => r.moved = r.got /\ r.got <= count
      BY <1>1, <3>2, IoAny
    <3>4. Sound(out')
      <4>1. CASE r.got < count
        BY <3>1, <4>1, SoundFacts DEF ReadOutcome
      <4>2. CASE ~(r.got < count)
        <5>1. out' = Delivered(offset, count, r.from, r.moved)
          BY <3>1, <4>2 DEF ReadOutcome
        <5>2. TrueCounts => r.moved = count
          BY <3>2, <3>3, <4>2
        <5> QED
          BY <3>2, <3>3, <5>1, <5>2, SoundFacts
      <4> QED
        BY <4>1, <4>2
    <3>5. spos' \in 0 .. LongMod - 1
      <4>1. offset \in Int /\ r.got \in Int
        BY <3>2, <3>3
      <4> QED
        BY <1>1, <3>1, <4>1
    <3> QED
      BY <2>1, <3>1, <3>3, <3>4, <3>5 DEF Still
  <2> QED
    BY <1>3, <2>2, <2>3 DEF DoReadAt
<1>4. CASE Seek \/ Skip
  <2>1. /\ Offsets \subseteq 0 .. LongMod - 1
        /\ \A distance \in Offsets : Advance(spos, distance) \in 0 .. LongMod - 1
    <3>1. Offsets \subseteq 0 .. LongMod - 1
      BY <1>1, AnyFacts
    <3>2. spos \in Int /\ \A distance \in Offsets : distance \in Int
      BY <1>1, <3>1
    <3> QED
      BY <1>1, <3>1, <3>2, Zenon
  <2>2. PICK offset \in 0 .. LongMod - 1 : SeekTo(offset)
    BY <1>4, <2>1 DEF Seek, Skip
  <2> QED
    BY <1>2, <2>2
<1>5. CASE ReadAt \/ Read
  <2>1. PICK offset \in 0 .. LongMod - 1 : \E count \in 0 .. LongMod - 1 : DoReadAt(offset, count)
    BY <1>1, <1>5, AnyFacts DEF ReadAt, Read
  <2> QED
    BY <1>3, <2>1
<1>6. CASE TryRead
  <2>1. Open /\ UNCHANGED <<phase, kind, fsize, ssize, base, frame, heap, client>>
    BY <1>6 DEF TryRead, Open
  <2>2. CASE out' = Quiet /\ UNCHANGED <<epos, spos>>
    BY <1>1, <2>1, <2>2, SoundFacts DEF Still
  <2>3. CASE spos < ssize /\ \E count \in Counts : \E r \in Io(spos, count) :
                               /\ epos' = r.pos
                               /\ spos' = Advance(spos, r.got)
                               /\ out' = Delivered(spos, r.got, r.from, r.moved)
    <3>1. PICK count \in Counts : \E r \in Io(spos, count) :
            /\ epos' = r.pos
            /\ spos' = Advance(spos, r.got)
            /\ out' = Delivered(spos, r.got, r.from, r.moved)
      BY <2>3
    <3>2. PICK r \in Io(spos, count) :
            /\ epos' = r.pos
            /\ spos' = Advance(spos, r.got)
            /\ out' = Delivered(spos, r.got, r.from, r.moved)
      BY <3>1
    <3>3. spos \in Nat /\ count \in 0 .. LongMod - 1 /\ spos <= ssize
      BY <1>1, <2>3, AnyFacts
    <3>4. /\ r.got \in Nat /\ r.from \in Nat /\ r.pos \in Nat /\ r.moved \in Nat
          /\ TrueCounts => r.moved = r.got
      BY <1>1, <3>3, IoAny
    <3>5. Sound(out')
      BY <3>2, <3>3, <3>4, SoundFacts
    <3>6. spos' \in 0 .. LongMod - 1
      <4>1. spos \in Int /\ r.got \in Int
        BY <3>3, <3>4
      <4> QED
        BY <1>1, <3>2, <4>1
    <3> QED
      BY <2>1, <3>2, <3>4, <3>5, <3>6 DEF Still
  <2> QED
    BY <1>6, <2>2, <2>3 DEF TryRead
<1>7. CASE ReadScalar
  <2>1. Open /\ UNCHANGED <<phase, kind, fsize, ssize, base, frame, heap, client>>
    BY <1>7 DEF ReadScalar, Open
  <2>2. CASE out' = Failed /\ UNCHANGED <<epos, spos>>
    BY <1>1, <2>1, <2>2, SoundFacts DEF Still
  <2>3. CASE \E n \in Scalars : \E r \in Io(spos, n) :
               /\ epos' = r.pos
               /\ IF r.got = n
                    THEN /\ spos' = Advance(spos, n)
                         /\ out' = Delivered(spos, n, r.from, r.moved)
                    ELSE out' = Failed /\ UNCHANGED spos
    <3>1. PICK n \in Scalars : \E r \in Io(spos, n) :
            /\ epos' = r.pos
            /\ IF r.got = n
                 THEN /\ spos' = Advance(spos, n)
                      /\ out' = Delivered(spos, n, r.from, r.moved)
                 ELSE out' = Failed /\ UNCHANGED spos
      BY <2>3
    <3>2. PICK r \in Io(spos, n) :
            /\ epos' = r.pos
            /\ IF r.got = n
                 THEN /\ spos' = Advance(spos, n)
                      /\ out' = Delivered(spos, n, r.from, r.moved)
                 ELSE out' = Failed /\ UNCHANGED spos
      BY <3>1
    <3>3. spos \in Nat /\ n \in 0 .. LongMod - 1 /\ n \in Nat \ {0}
      <4>1. n \in 1 .. 4 /\ LongMod \in Nat /\ LongMod >= 8 /\ spos \in Nat
        BY <1>1, AnyFacts
      <4> QED
        BY <4>1
    <3>4. /\ r.from \in Nat /\ r.pos \in Nat /\ (r.got \in Nat => r.moved \in Nat)
          /\ TrueCounts => r.moved = r.got
      BY <1>1, <3>3, IoAny
    <3>5. CASE r.got = n
      <4>1. Sound(out')
        BY <3>2, <3>3, <3>4, <3>5, SoundFacts
      <4>2. spos' \in 0 .. LongMod - 1
        <5>1. spos \in Int /\ n \in Int
          BY <3>3
        <5> QED
          BY <1>1, <3>2, <3>5, <5>1
      <4> QED
        BY <2>1, <3>2, <3>4, <4>1, <4>2 DEF Still
    <3>6. CASE r.got # n
      BY <1>1, <2>1, <3>2, <3>4, <3>6, SoundFacts DEF Still
    <3> QED
      BY <3>5, <3>6
  <2> QED
    BY <1>7, <2>2, <2>3 DEF ReadScalar
<1> QED
  BY <1>4, <1>5, <1>6, <1>7

\* EnterFrame and ExtractFrame: the frame that is entered has a fresh block, and
\* one that fails leaves the heap as it was.
EntersAny ==
  /\ Open /\ ~frame.open
  /\ UNCHANGED <<phase, kind, fsize, ssize>>
  /\ epos' \in Nat /\ spos' \in 0 .. LongMod - 1
  /\ \/ /\ out' = Failed
        /\ heap' = heap
        /\ base' \in {base, NoBlock}
     \/ /\ out'.ok /\ Sound(out')
        /\ IF kind = "file"
             THEN \E b \in (Blocks \ heap) \cup {NoBlock} :
                    base' = b /\ heap' = AfterAlloc(heap, b)
             ELSE UNCHANGED <<heap, base>>

LEMMA EnterAny ==
  ASSUME AnyInv, NEW count \in Counts, Enter(count)
  PROVE  EntersAny
<1>1. /\ FtTypeOK /\ spos \in 0 .. LongMod - 1 /\ spos \in Nat /\ epos \in Nat /\ ssize \in Nat
      /\ count \in 0 .. LongMod - 1 /\ count \in Nat
      /\ heap \subseteq Blocks /\ NoBlock \notin Blocks
      /\ kind \in {"file", "memory"}
      /\ Open /\ ~frame.open /\ UNCHANGED <<phase, kind, fsize, ssize>>
  BY AnyFacts DEF AnyInv, FtTypeOK, Enter, Open
<1>2. \A n \in Int : Advance(spos, n) \in 0 .. LongMod - 1
  BY <1>1, AnyFacts DEF Advance
<1>3. CASE out' = Failed /\ UNCHANGED <<epos, spos, heap>> /\ base' \in {base, NoBlock}
  BY <1>1, <1>3 DEF EntersAny
<1>4. ASSUME kind = "file", NEW a \in Alloc(count), NEW r \in FileIo(spos, count),
             ~a.err, epos' = r.pos,
             IF r.got < count
               THEN /\ base' = NoBlock
                    /\ heap' = HeapAfterShortRead(a.block)
                    /\ spos' = PosAfterShortRead(r.got)
                    /\ out' = Failed
               ELSE /\ base' = a.block
                    /\ spos' = Advance(spos, r.got)
                    /\ heap' = AfterAlloc(heap, a.block)
                    /\ out' = Delivered(spos, count, r.from, r.moved)
      PROVE  EntersAny
  <2>1. a.block \in (Blocks \ heap) \cup {NoBlock}
    BY <1>4 DEF Alloc
  <2>2. /\ r.got \in Int /\ r.from \in Nat /\ r.moved \in Nat /\ r.moved <= count /\ r.pos \in Nat
        /\ count = 0 => r.moved = 0
        /\ TrueCounts /\ count # 0 => r.moved = r.got
    <3>1. /\ r.got \in 0 .. LongMod - 1 /\ r.from \in Nat /\ r.moved \in 0 .. count
          /\ r.pos \in Nat
          /\ TrueCounts /\ (count # 0 \/ spos <= ssize) => r.moved = r.got
      BY <1>1, <1>4, FileIoAny
    <3> QED
      BY <1>1, <3>1, AnyFacts
  <2>3. CASE r.got < count
    <3>1. heap' = heap
      BY <1>1, <1>4, <2>1, <2>3 DEF HeapAfterShortRead, AfterFree, AfterAlloc
    <3>2. spos' \in 0 .. LongMod - 1
      BY <1>2, <1>4, <2>2, <2>3 DEF PosAfterShortRead
    <3> QED
      BY <1>1, <1>4, <2>2, <2>3, <3>1, <3>2 DEF EntersAny
  <2>4. CASE ~(r.got < count)
    <3>1. out' = Delivered(spos, count, r.from, r.moved) /\ spos' \in 0 .. LongMod - 1
      BY <1>2, <1>4, <2>2, <2>4
    <3>2. TrueCounts => r.moved = count
      BY <1>1, <2>2, <2>4
    <3>3. Sound(out') /\ out'.ok
      <4>1. Sound(out')
        BY <1>1, <2>2, <3>1, <3>2, SoundFacts
      <4> QED
        BY <3>1, <4>1 DEF Delivered
    <3> QED
      BY <1>1, <1>4, <2>1, <2>2, <2>4, <3>1, <3>3 DEF EntersAny
  <2> QED
    BY <2>3, <2>4
<1>5. CASE kind = "file"
  <2>1. EnterFileFrame(count)
    BY <1>5 DEF Enter
  <2> QED
    BY <1>3, <1>4, <1>5, <2>1 DEF EnterFileFrame
<1>6. CASE kind = "memory"
  <2>1. EnterMemoryFrame(count)
    BY <1>6 DEF Enter
  <2>2. CASE UNCHANGED spos /\ out' = Failed
    BY <1>3, <2>1, <2>2 DEF EnterMemoryFrame
  <2>3. CASE spos' = Advance(spos, count) /\ out' = Delivered(spos, count, spos, count)
    <3>1. Sound(out') /\ spos' \in 0 .. LongMod - 1
      BY <1>1, <1>2, <2>3, SoundFacts
    <3>2. out'.ok /\ UNCHANGED <<epos, base, heap>>
      BY <2>1, <2>3 DEF EnterMemoryFrame, Delivered
    <3> QED
      BY <1>1, <1>6, <3>1, <3>2 DEF EntersAny
  <2> QED
    BY <2>1, <2>2, <2>3 DEF EnterMemoryFrame
<1> QED
  BY <1>1, <1>5, <1>6

LEMMA EnterKeeps == ASSUME AnyInv, EnterFrame \/ ExtractFrame PROVE AnyInv'
<1>1. EntersAny
  BY EnterAny DEF EnterFrame, ExtractFrame
<1>2. /\ heap = client /\ heap \subseteq Blocks /\ NoBlock \notin Blocks
      /\ base \in Blocks \cup {NoBlock, FontBlock}
      /\ kind = "file" => base \in Blocks \cup {NoBlock}
      /\ frame \in [open : BOOLEAN, at : Nat, len : Nat, from : Nat, moved : Nat, cursor : Nat]
      /\ Open /\ ~frame.open
  BY <1>1, FtAssumption DEF AnyInv, FtTypeOK, OneOwner, InFrame, BaseIsBlock, EntersAny
<1>3. /\ Open' /\ UNCHANGED <<phase, kind, fsize, ssize>> /\ phase # "new"
      /\ epos' \in Nat /\ spos' \in 0 .. LongMod - 1 /\ Sound(out') /\ out' \in Outcomes
  BY <1>1, SoundFacts DEF EntersAny, Open, Sound
<1>4. ASSUME heap' \subseteq Blocks, client' \subseteq Blocks,
             base' \in Blocks \cup {NoBlock, FontBlock}, BaseIsBlock',
             frame' \in [open : BOOLEAN, at : Nat, len : Nat, from : Nat, moved : Nat, cursor : Nat],
             FrameIsFull', OneOwner'
      PROVE  AnyInv'
  BY <1>3, <1>4 DEF AnyInv, FtTypeOK, Fresh, Open
<1>5. CASE out' = Failed /\ heap' = heap /\ base' \in {base, NoBlock}
  <2>1. frame' = frame /\ client' = client
    BY <1>5, OutcomeFacts DEF EnterFrame, ExtractFrame
  <2>2. FrameIsFull' /\ OneOwner' /\ BaseIsBlock'
    BY <1>2, <1>3, <1>5, <2>1 DEF FrameIsFull, OneOwner, InFrame, BaseIsBlock
  <2> QED
    BY <1>2, <1>4, <1>5, <2>1, <2>2
<1>6. CASE /\ out'.ok /\ Sound(out')
           /\ IF kind = "file"
                THEN \E b \in (Blocks \ heap) \cup {NoBlock} :
                       base' = b /\ heap' = AfterAlloc(heap, b)
                ELSE UNCHANGED <<heap, base>>
  <2>1. /\ heap' \subseteq Blocks
        /\ base' \in Blocks \cup {NoBlock, FontBlock}
        /\ kind = "file" => base' \in Blocks \cup {NoBlock} /\ base' \notin heap
        /\ heap' = IF kind = "file" THEN client \cup ({base'} \ {NoBlock}) ELSE client
    BY <1>2, <1>6 DEF AfterAlloc
  <2>2. BaseIsBlock'
    BY <1>3, <2>1 DEF BaseIsBlock
  <2>3. CASE EnterFrame
    <3>1. frame' = FrameOf(out') /\ client' = client
      BY <1>6, <2>3 DEF EnterFrame
    <3>2. /\ frame' \in [open : BOOLEAN, at : Nat, len : Nat, from : Nat, moved : Nat,
                         cursor : Nat]
          /\ frame'.open /\ FrameIsFull'
      BY <1>3, <1>6, <3>1 DEF FrameOf, FrameIsFull, Sound, Outcomes
    <3>3. OneOwner'
      BY <1>2, <1>3, <2>1, <3>1, <3>2 DEF OneOwner, InFrame
    <3> QED
      BY <1>2, <1>4, <2>1, <2>2, <3>1, <3>2, <3>3
  <2>4. CASE ExtractFrame
    <3>1. /\ frame' = frame
          /\ client' = IF kind = "file" THEN AfterAlloc(client, base') ELSE client
      BY <1>6, <2>4 DEF ExtractFrame
    <3>2. heap' = client'
      BY <2>1, <3>1 DEF AfterAlloc
    <3>3. FrameIsFull' /\ OneOwner'
      BY <1>2, <3>1, <3>2 DEF FrameIsFull, OneOwner, InFrame
    <3> QED
      BY <1>2, <1>4, <2>1, <2>2, <3>1, <3>2, <3>3
  <2> QED
    BY <2>3, <2>4
<1> QED
  BY <1>1, <1>5, <1>6 DEF EntersAny

\* Opening fails or finds some size and position.
LEMMA OpenKeeps == ASSUME AnyInv, OpenFails \/ OpenFile \/ OpenMemory \/ Close PROVE AnyInv'
<1>1. /\ FtTypeOK /\ fsize \in Nat /\ epos \in Nat /\ spos \in 0 .. LongMod - 1
      /\ 0 \in 0 .. LongMod - 1 /\ \A n \in Int : ToULong(n) \in 0 .. LongMod - 1
      /\ FontBlock \notin Blocks /\ FontBlock # NoBlock
  BY AnyFacts DEF AnyInv, FtTypeOK
<1>2. CASE OpenFails
  BY <1>1, <1>2, SoundFacts
  DEF OpenFails, AnyInv, FtTypeOK, Fresh, BaseIsBlock, FrameIsFull, OneOwner, InFrame, Open, Sound
<1>3. CASE Close
  BY <1>1, <1>3, SoundFacts
  DEF Close, AnyInv, FtTypeOK, Fresh, BaseIsBlock, FrameIsFull, OneOwner, InFrame, Open, Sound
<1>4. CASE OpenMemory
  <2>1. ssize' \in 0 .. LongMod - 1
    BY <1>1, <1>4 DEF OpenMemory
  <2> QED
    BY <1>1, <1>4, <2>1, SoundFacts
    DEF OpenMemory, AnyInv, FtTypeOK, Fresh, BaseIsBlock, FrameIsFull, OneOwner, InFrame, Open,
        Sound
<1>5. CASE OpenFile
  <2>1. /\ ssize' \in 0 .. LongMod - 1 /\ epos' \in Nat
        /\ phase' \in {"open", "closed"} /\ out' \in {Quiet, Failed}
    <3>1. PICK e \in fseek(fsize, 0, 0, "SEEK_END") :
          \E t \in ftell(e.pos) :
            /\ ssize' = ToULong(t)
            /\ \/ /\ ToULong(t) = 0
                  /\ phase' = "closed" /\ out' = Failed /\ epos' = e.pos
               \/ /\ ToULong(t) # 0
                  /\ \E s \in fseek(fsize, e.pos, 0, "SEEK_SET") : epos' = s.pos
                  /\ phase' = "open" /\ out' = Quiet
      BY <1>5, Zenon DEF OpenFile
    <3>2. e.pos \in Nat
      <4>1. PICK r \in EfiSetPosition(fsize, 0, EndOfFile) : e = SeekReturn(r)
        BY <3>1 DEF fseek, SeekEnd
      <4>2. r.pos \in {fsize, 0}
        BY <4>1 DEF EfiSetPosition
      <4> QED
        BY <1>1, <4>1, <4>2 DEF SeekReturn
    <3>3. \A t \in ftell(e.pos) : t \in Int
      <4>1. ASSUME NEW g \in EfiGetPosition(e.pos) PROVE g.value \in Nat
        <5>1. g \in {[err |-> FALSE, value |-> e.pos], [err |-> TRUE, value |-> 0]}
          BY <4>1 DEF EfiGetPosition
        <5> QED
          BY <3>2, <5>1
      <4>2. \A n \in Nat : ToULong(n) \in Nat /\ ToLong(ToULong(n)) \in Int /\ -1 \in Int
        BY <1>1, AnyFacts DEF ToLong, ToULong
      <4> QED
        BY <4>1, <4>2 DEF ftell
    <3>4. \A s \in fseek(fsize, e.pos, 0, "SEEK_SET") : s.pos \in Nat
      <4>1. ToUINT64(0) \in Nat
        BY <1>1, AnyFacts DEF ToUINT64
      <4>2. \A r \in EfiSetPosition(fsize, e.pos, ToUINT64(0)) : r.pos \in Nat
        BY <1>1, <3>2, <4>1 DEF EfiSetPosition
      <4> QED
        BY <4>2 DEF fseek, SeekSet, SeekReturn
    <3> QED
      BY <1>1, <3>1, <3>2, <3>3, <3>4
  <2>2. UNCHANGED <<kind, fsize, spos, base, frame, heap, client>> /\ phase = "new"
    BY <1>5 DEF OpenFile
  <2>3. Sound(out')
    BY <2>1, SoundFacts
  <2> QED
    BY <1>1, <2>1, <2>2, <2>3
    DEF AnyInv, FtTypeOK, Fresh, BaseIsBlock, FrameIsFull, OneOwner, InFrame, Open, Sound
<1> QED
  BY <1>2, <1>3, <1>4, <1>5

\* Leaving frames, and reading inside one.
LEMMA FramesKeep == ASSUME AnyInv, ExitFrame \/ ReleaseFrame \/ GetScalar PROVE AnyInv'
<1>1. /\ FtTypeOK /\ NoBlock \notin Blocks /\ Open
      /\ UNCHANGED <<phase, kind, fsize, epos, spos, ssize>>
      /\ frame \in [open : BOOLEAN, at : Nat, len : Nat, from : Nat, moved : Nat, cursor : Nat]
  BY AnyFacts DEF AnyInv, FtTypeOK, ExitFrame, ReleaseFrame, GetScalar, Open
<1>2. CASE ExitFrame
  <2>1. out' = Quiet /\ client' = client /\ frame' = NoFrame /\ ~frame'.open
    BY <1>2 DEF ExitFrame, NoFrame
  <2>2. heap' = client'
    BY <1>1, <1>2, <2>1 DEF ExitFrame, AnyInv, FtTypeOK, OneOwner, InFrame, AfterFree
  <2>3. base' \in Blocks \cup {NoBlock, FontBlock} /\ BaseIsBlock'
    BY <1>2 DEF ExitFrame, AnyInv, FtTypeOK, BaseIsBlock
  <2>4. frame' \in [open : BOOLEAN, at : Nat, len : Nat, from : Nat, moved : Nat, cursor : Nat]
    BY <2>1 DEF NoFrame
  <2> QED
    BY <1>1, <2>1, <2>2, <2>3, <2>4, SoundFacts
    DEF AnyInv, FtTypeOK, Fresh, FrameIsFull, OneOwner, InFrame, Open, Sound
<1>3. CASE ReleaseFrame
  <2>1. PICK b \in client : heap' = AfterFree(heap, b) /\ client' = client \ {b}
    BY <1>3 DEF ReleaseFrame
  <2>2. out' = Quiet /\ UNCHANGED <<base, frame>>
    BY <1>3 DEF ReleaseFrame
  <2>3. OneOwner'
    BY <1>1, <2>1, <2>2 DEF AnyInv, OneOwner, InFrame, AfterFree
  <2> QED
    BY <1>1, <2>1, <2>2, <2>3, SoundFacts
    DEF AnyInv, FtTypeOK, Fresh, BaseIsBlock, FrameIsFull, AfterFree, Open, Sound
<1>4. CASE GetScalar
  <2>1. PICK n \in 1 .. 4 :
          IF Fits(n)
            THEN /\ frame' = [frame EXCEPT !.cursor = @ + n]
                 /\ out' = Delivered(frame.at + frame.cursor, n,
                                     frame.from + frame.cursor, FromFile(n))
            ELSE out' = Quiet /\ UNCHANGED frame
    BY <1>4 DEF GetScalar
  <2>2. UNCHANGED <<base, heap, client>> /\ frame.open
    BY <1>4 DEF GetScalar
  <2>3. CASE ~Fits(n)
    <3>1. Still
      BY <1>1, <2>1, <2>2, <2>3, SoundFacts DEF Still, AnyInv, FtTypeOK
    <3> QED
      BY <3>1, StillKeeps
  <2>4. CASE Fits(n)
    <3>1. /\ frame' = [frame EXCEPT !.cursor = @ + n]
          /\ out' = Delivered(frame.at + frame.cursor, n, frame.from + frame.cursor, FromFile(n))
      BY <2>1, <2>4
    <3>2. /\ frame' \in [open : BOOLEAN, at : Nat, len : Nat, from : Nat, moved : Nat,
                         cursor : Nat]
          /\ frame'.cursor = frame.cursor + n /\ frame'.open = frame.open
          /\ frame'.len = frame.len /\ frame'.moved = frame.moved
      BY <1>1, <3>1
    <3>3. frame.cursor + n <= frame.len
      BY <1>1, <2>4 DEF Fits
    <3>4. FrameIsFull' /\ OneOwner'
      BY <1>1, <2>2, <3>2, <3>3 DEF AnyInv, FrameIsFull, OneOwner, InFrame
    <3>5. FromFile(n) \in Nat /\ (TrueCounts => FromFile(n) = n)
      BY <1>1, <2>2, <3>3 DEF AnyInv, FrameIsFull, FromFile
    <3>6. Sound(out')
      <4>1. /\ frame.at + frame.cursor \in Nat /\ frame.from + frame.cursor \in Nat
            /\ n \in Nat
        BY <1>1
      <4> QED
        BY <3>1, <3>5, <4>1, SoundFacts
    <3> QED
      BY <1>1, <2>2, <3>2, <3>4, <3>6
      DEF AnyInv, FtTypeOK, Fresh, BaseIsBlock, Open, Sound
  <2> QED
    BY <2>3, <2>4
<1> QED
  BY <1>2, <1>3, <1>4

\* The invariant of a stream on any firmware.
THEOREM FtAnyFirmware == FtSpec => []AnyInv
<1>1. FtInit => AnyInv
  BY FtInitInv, SoundFacts
  DEF FtInit, FtInv, AnyInv, FrameIsFull, NoFrame
<1>2. AnyInv /\ [FtNext]_ftVars => AnyInv'
  <2> SUFFICES ASSUME AnyInv, [FtNext]_ftVars PROVE AnyInv'
    OBVIOUS
  <2>1. CASE UNCHANGED ftVars
    BY <2>1
    DEF ftVars, AnyInv, FtTypeOK, Fresh, BaseIsBlock, Sound, FrameIsFull, OneOwner, InFrame, Open
  <2>2. CASE FtNext
    BY <2>2, OpenKeeps, ReadsAreStill, StillKeeps, EnterKeeps, FramesKeep DEF FtNext
  <2> QED
    BY <2>1, <2>2
<1> QED
  BY <1>1, <1>2, PTL DEF FtSpec

----------------------------------------------------------------------------
(***************************************************************************)
(* The theorems                                                            *)
(***************************************************************************)

\* The inductive invariant of a stream on an honest firmware.
THEOREM FtInvariant == ASSUME Honest PROVE FtSpec => []FtInv
<1>1. FtInv /\ [FtNext]_ftVars => FtInv'
  <2> SUFFICES ASSUME FtInv, [FtNext]_ftVars PROVE FtInv'
    OBVIOUS
  <2>1. CASE UNCHANGED ftVars
    BY <2>1
    DEF ftVars, FtInv, FtTypeOK, Fresh, BaseIsBlock, PosNear, Near, SizeIsFileSize,
        StaysInFile, OnlyRealBytes, FromTheRightPlace, FrameIsAWindow, OneOwner,
        InFrame, Open
  <2>2. CASE FtNext
    BY <2>2, OpenCloseInv, ReadActionsInv, EnterActionsInv, FrameActionsInv DEF FtNext
  <2> QED
    BY <2>1, <2>2
<1> QED
  BY FtInitInv, <1>1, PTL DEF FtSpec

\* FreeType's position and the firmware's never part among small files.
THEOREM FtPosAgree == ASSUME Reliable PROVE FtSpec => []PosAgree
<1>1. FtInv => PosAgree
  BY DEF Reliable, FtInv, PosNear, Near, PosAgree
<1>2. FtSpec => []FtInv
  BY FtInvariant DEF Reliable
<1> QED
  BY <1>1, <1>2, PTL

\* The variables have their types, on every firmware.
THEOREM FtTypeCorrect == FtSpec => []FtTypeOK
  BY FtAnyFirmware, PTL DEF AnyInv

\* No call delivers bytes that were not read, although seeks and position queries
\* may fail, reads may stop half way in a scalar, and files may be of any size.
THEOREM FtOnlyRealBytes == ASSUME TrueCounts PROVE FtSpec => []OnlyRealBytes
<1>1. AnyInv => OnlyRealBytes
  BY DEF AnyInv, Sound, OnlyRealBytes
<1> QED
  BY <1>1, FtAnyFirmware, PTL

\* No call delivers bytes from elsewhere, although the positions may part.
THEOREM FtDeliversRightBytes == ASSUME Honest PROVE FtSpec => []FromTheRightPlace
  BY FtInvariant, PTL DEF FtInv

\* Reading through a frame is reading the file, and never beyond its end.
THEOREM FtFrames == ASSUME Honest PROVE FtSpec => [](FrameIsAWindow /\ StaysInFile)
  BY FtInvariant, PTL DEF FtInv

\* Each frame block is freed once and none is lost, on every firmware.
THEOREM FtOneOwner == FtSpec => []OneOwner
  BY FtAnyFirmware, PTL DEF AnyInv

\* What the abstract stream sees of an outcome.
SeenOutcomes ==
  /\ out = Quiet => Seen = Quiet
  /\ out = Failed => Seen = Failed
  /\ \A at, count, from \in Nat :
       out = Delivered(at, count, from, count) /\ (count > 0 => from = at)
         => Seen = Delivered(at, count, at, count)

LEMMA SeenRight == SeenOutcomes
<1>1. out = Quiet => Seen = Quiet
  BY DEF Seen, Quiet, Delivered
<1>2. out = Failed => Seen = Failed
  BY DEF Seen, Failed
<1>3. ASSUME NEW at \in Nat, NEW count \in Nat, NEW from \in Nat,
             out = Delivered(at, count, from, count), count > 0 => from = at
      PROVE  Seen = Delivered(at, count, at, count)
  <2>1. out.ok /\ out.count = count /\ out.at = at /\ out.moved = count
    BY <1>3 DEF Delivered
  <2>2. CASE count = 0
    BY <2>1, <2>2 DEF Seen
  <2>3. CASE count # 0
    BY <1>3, <2>1, <2>3 DEF Seen
  <2> QED
    BY <2>2, <2>3
<1> QED
  BY <1>1, <1>2, <1>3 DEF SeenOutcomes

\* Every step of the stream is a step of the abstract byte stream or leaves it
\* alone.
LEMMA StepRefines ==
  ASSUME Honest, FtInv, FtNext
  PROVE  Abs!Next \/ UNCHANGED Abs!vars
<1>1. /\ fsize \in Nat /\ spos \in Nat
      /\ Open => spos \in 0 .. fsize
      /\ phase = "new" => spos = 0
  BY SizeFacts DEF FtInv, StaysInFile, SizeIsFileSize, Fresh
<1>0. SeenOutcomes'
  BY SeenRight, PTL
<1>11. /\ out' = Quiet => Seen' = Quiet
       /\ out' = Failed => Seen' = Failed
  BY <1>0 DEF SeenOutcomes
<1>12. ASSUME NEW at \in Nat, NEW count \in Nat, Right(out', at, count)
       PROVE  Seen' = Delivered(at, count, at, count)
  BY <1>0, <1>12 DEF SeenOutcomes, Right
<1>2. ASSUME ReadStep PROVE Abs!Next
  <2>1. phase = "open" /\ UNCHANGED <<phase, fsize>> /\ spos' \in 0 .. fsize
    BY <1>2 DEF ReadStep, Open
  <2>2. CASE out' = Quiet
    BY <1>11, <2>1, <2>2 DEF Abs!Next, Abs!Move, Abs!Quiet, Quiet
  <2>3. CASE out' = Failed
    BY <1>11, <2>1, <2>3 DEF Abs!Next, Abs!Fail, Abs!Failed, Failed
  <2>4. CASE \E at \in 0 .. fsize : \E count \in 0 .. fsize - at :
               Right(out', at, count) /\ spos' = at + count
    <3>1. PICK at \in 0 .. fsize : \E count \in 0 .. fsize - at :
                 Right(out', at, count) /\ spos' = at + count
      BY <2>4
    <3>2. PICK count \in 0 .. fsize - at : Right(out', at, count) /\ spos' = at + count
      BY <3>1
    <3>3. Seen' = Delivered(at, count, at, count)
      BY <1>1, <1>12, <3>2
    <3> QED
      BY <2>1, <3>2, <3>3 DEF Abs!Next, Abs!Deliver, Abs!Delivered, Delivered
  <2> QED
    BY <1>2, <2>2, <2>3, <2>4 DEF ReadStep
<1>3. CASE Seek \/ Skip \/ ReadAt \/ Read \/ TryRead \/ ReadScalar
  BY <1>2, <1>3, ReadActionsInv
<1>4. CASE EnterFrame \/ ExtractFrame
  BY <1>2, <1>4, EnterActionsInv
<1>5. CASE OpenFails
  BY <1>5, <1>11 DEF OpenFails, Abs!Next, Abs!OpenFails, Abs!Failed, Failed
<1>6. CASE OpenFile
  <2>1. /\ fsize' = fsize /\ spos' = spos /\ spos' = 0 /\ phase = "new"
        /\ \/ phase' = "closed" /\ out' = Failed
           \/ phase' = "open" /\ out' = Quiet
    BY <1>6, OpenFileFacts DEF OpenFile
  <2> QED
    BY <1>11, <2>1 DEF Abs!Next, Abs!Open, Abs!OpenFails, Abs!Failed, Abs!Quiet, Failed, Quiet
<1>7. CASE OpenMemory
  BY <1>1, <1>7, <1>11 DEF OpenMemory, Abs!Next, Abs!Open, Abs!Quiet, Quiet
<1>8. CASE Close
  BY <1>8, <1>11 DEF Close, Abs!Next, Abs!Close, Abs!Quiet, Quiet
<1>9. CASE ExitFrame \/ ReleaseFrame
  BY <1>1, <1>9, <1>11 DEF ExitFrame, ReleaseFrame, Open, Abs!Next, Abs!Move, Abs!Quiet, Quiet
<1>10. CASE GetScalar
  <2>1. PICK n \in 1 .. 4 :
          IF Fits(n)
            THEN /\ frame' = [frame EXCEPT !.cursor = @ + n]
                 /\ out' = Delivered(frame.at + frame.cursor, n,
                                     frame.from + frame.cursor, FromFile(n))
            ELSE out' = Quiet /\ UNCHANGED frame
    BY <1>10 DEF GetScalar
  <2>2. phase = "open" /\ UNCHANGED <<phase, fsize, spos>> /\ frame.open
    BY <1>10 DEF GetScalar
  <2>3. CASE ~Fits(n)
    <3>1. out' = Quiet /\ spos' \in 0 .. fsize
      BY <1>1, <2>1, <2>2, <2>3 DEF Open
    <3> QED
      BY <1>11, <2>2, <3>1 DEF Abs!Next, Abs!Move, Abs!Quiet, Quiet
  <2>4. CASE Fits(n)
    <3>1. /\ frame.cursor \in Nat /\ frame.len \in Nat /\ frame.at \in Nat
          /\ frame.moved = frame.len
          /\ frame.len > 0 => frame.from = frame.at
          /\ frame.at + frame.len <= fsize
      BY <2>2 DEF FtInv, FtTypeOK, FrameIsAWindow
    <3>2. frame.cursor + n <= frame.len /\ frame.from = frame.at /\ FromFile(n) = n
      BY <2>4, <3>1 DEF Fits, FromFile
    <3>3. out' = Delivered(frame.at + frame.cursor, n, frame.at + frame.cursor, n)
      BY <2>1, <2>4, <3>2
    <3>4. /\ frame.at + frame.cursor \in 0 .. fsize
          /\ n \in 0 .. fsize - (frame.at + frame.cursor)
      BY <1>1, <3>1, <3>2
    <3>5. Seen' = Delivered(frame.at + frame.cursor, n, frame.at + frame.cursor, n)
      BY <3>1, <3>3 DEF Seen, Delivered
    <3> QED
      BY <2>2, <3>4, <3>5 DEF Abs!Next, Abs!DeliverFromFrame, Abs!Delivered, Delivered
  <2> QED
    BY <2>3, <2>4
<1> QED
  BY <1>3, <1>4, <1>5, <1>6, <1>7, <1>8, <1>9, <1>10 DEF FtNext

\* The stream over stdio over the firmware's file, and the stream over memory,
\* both keep the promise of a byte stream.
THEOREM FtImplements == ASSUME Honest PROVE FtSpec => ImplementsByteStream
<1>1. FtInit => Abs!Init
  BY SeenRight DEF SeenOutcomes, FtInit, Abs!Init, Abs!Quiet, Quiet
<1>2. FtInv /\ [FtNext]_ftVars => [Abs!Next]_Abs!vars
  <2>1. ASSUME UNCHANGED ftVars PROVE UNCHANGED Abs!vars
    BY <2>1 DEF ftVars, Abs!vars, Seen
  <2> QED
    BY <2>1, StepRefines
<1>3. FtSpec => []FtInv
  BY FtInvariant
<1> QED
  BY <1>1, <1>2, <1>3, PTL DEF FtSpec, ImplementsByteStream, Abs!Spec

=============================================================================
