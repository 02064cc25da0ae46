----------------------------- MODULE StdioProofs ----------------------------
(***************************************************************************)
(* The properties of Stdio for every pool, set of handles, names and modes.*)
(*                                                                         *)
(* FB, FF and FR are what the FILEs have.  Owners says the same as         *)
(* OneOwnerEach in terms of them; a step that leaves the FILEs alone       *)
(* leaves these sets alone.  Written bounds what realloc() has to copy.    *)
(* That a failing call says why is a matter of each step (StepReports).    *)
(***************************************************************************)
EXTENDS Stdio, TLAPS

FB == UNION {BlocksOf(f) : f \in DOMAIN files}
FF == {files[f].file : f \in DOMAIN files}
FR == {files[f].root : f \in DOMAIN files}

FilesApart ==
  /\ \A f \in DOMAIN files : f # files[f].name
  /\ \A f, g \in DOMAIN files :
       f # g => BlocksOf(f) \cap BlocksOf(g) = {} /\ HandlesOf(f) \cap HandlesOf(g) = {}
BlockOwners ==
  /\ DOMAIN pool = clients \cup CallBlocks \cup FB
  /\ clients \cap CallBlocks = {} /\ (clients \cup CallBlocks) \cap FB = {}
  /\ (call # Idle => call.file # call.chars)
HandleOwners ==
  /\ opened = FF
  /\ roots = lost \cup CallRoots \cup FR
  /\ CallRoots \cap (lost \cup opened) = {}
  /\ FR \cap (opened \cup lost \cup CallRoots) = {}
Owners == FilesApart /\ BlockOwners /\ HandleOwners

Written == \A b \in DOMAIN pool : pool[b].written <= pool[b].size

StdioInv == StdioTypeOK /\ Owners /\ Written /\ AsLargeAsAsked

----------------------------------------------------------------------------
(* The operators                                                           *)

\* Plus and Minus are functions on the blocks one expects.
LEMMA PlusMinus ==
  ASSUME NEW p, NEW S, p \in [DOMAIN p -> S], NEW b, NEW x \in S, NEW bs
  PROVE /\ DOMAIN Plus(p, b, x) = DOMAIN p \cup {b}
        /\ Plus(p, b, x) \in [DOMAIN Plus(p, b, x) -> S]
        /\ Plus(p, b, x)[b] = x
        /\ \A c \in DOMAIN p \ {b} : Plus(p, b, x)[c] = p[c]
        /\ DOMAIN Minus(p, bs) = DOMAIN p \ bs
        /\ Minus(p, bs) \in [DOMAIN Minus(p, bs) -> S]
        /\ \A c \in DOMAIN p \ bs : Minus(p, bs)[c] = p[c]
  BY DEF Plus, Minus

\* The two ways to say who owns what agree.
LEMMA OwnersAgree == OneOwnerEach <=> Owners
<1> DEFINE Kept == \A f \in DOMAIN files : BlocksOf(f) \cap (clients \cup CallBlocks) = {}
           Roots == \A f \in DOMAIN files : files[f].root \notin opened \cup lost \cup CallRoots
<1>1. Kept <=> (clients \cup CallBlocks) \cap FB = {}
  BY DEF FB
<1>2. Roots <=> FR \cap (opened \cup lost \cup CallRoots) = {}
  BY DEF FR
<1>3. QED
  BY <1>1, <1>2 DEF OneOwnerEach, Owners, FilesApart, BlockOwners, HandleOwners, FB, FF, FR

----------------------------------------------------------------------------
(* What the clients of malloc() do                                         *)

\* A call reports as it should.
Reports ==
  /\ errno' \in {"none", "EINVAL", "ENOMEM", "EACCES", "EBADF"}
  /\ last' \in {"ok", "failed", "running"}
  /\ last' = "failed" => errno' # "none" \/ (EmptyName /\ UNCHANGED errno)

\* The pool stays one of blocks that are written in part.
PoolOK(p) ==
  /\ DOMAIN p \subseteq Blocks
  /\ p \in [DOMAIN p -> [asked : Nat, size : Nat, written : Nat]]
  /\ \A b \in DOMAIN p : p[b].written <= p[b].size /\ p[b].asked <= p[b].size

\* All but the clients' blocks stay, and the clients have none of these.
OthersStay ==
  /\ DOMAIN pool' = clients' \cup (DOMAIN pool \ clients)
  /\ clients' \cap (DOMAIN pool \ clients) = {}

LEMMA ReportsAre ==
  ASSUME StdioTypeOK
  PROVE /\ Ok => Reports
        /\ \A why \in {"EINVAL", "ENOMEM", "EACCES", "EBADF"} : Fail(why) => Reports
        /\ \A c : GoesOn(c) => Reports
        /\ ClearErrno => Reports
        /\ NoName => Reports
  BY DEF Ok, Fail, Reports, StdioTypeOK, ClearErrno, GoesOn, NoName, EmptyName

LEMMA WhyIs == \A n : Why(n) \in {"EINVAL", "ENOMEM", "EACCES", "EBADF"}
  BY DEF Why

\* A product that is not too large is the one of the numbers.
LEMMA ProductIs ==
  ASSUME NEW m \in Nat, NEW n \in Nat, ~TooLarge(m, n)
  PROVE Product(m, n) = m * n /\ Product(m, n) \in Nat
<1>1. \A k \in Nat : k < SizeMod => k % SizeMod = k
  BY HeapAssumption
<1>2. m * n \in Nat
  OBVIOUS
<1>3. QED
  BY <1>1, <1>2, HeapAssumption DEF TooLarge, Product

\* realloc() copies no more than fits, and reads behind the old block, by at most
\* what the header counts besides it, exactly when the block grows.
LEMMA ReallocReads ==
  ASSUME NEW block \in [asked : Nat, size : Nat, written : Nat], NEW n \in Nat
  PROVE  /\ CopySize(block, n) <= n
         /\ CopySize(block, n) <= block.size + Overhead
         /\ CopySize(block, n) > block.size <=> n > block.size /\ Overhead > 0
  BY HeapAssumption DEF CopySize, Smaller

\* A block of n bytes, w of them written, in or out of the pool.
LEMMA PoolChanges ==
  ASSUME NEW p, PoolOK(p), NEW a \in Nat, NEW n \in Nat, NEW w \in Nat, a <= n, w <= n,
         NEW b \in Blocks, NEW bs
  PROVE PoolOK(Plus(p, b, Block(a, n, w))) /\ PoolOK(Minus(p, bs))
<1> DEFINE S == [asked : Nat, size : Nat, written : Nat]
           x == Block(a, n, w)
<1>1. x \in S /\ x.written <= x.size /\ x.asked <= x.size
  BY DEF Block
<1>2. p \in [DOMAIN p -> S] /\ DOMAIN p \subseteq Blocks
      /\ \A c \in DOMAIN p : p[c].written <= p[c].size /\ p[c].asked <= p[c].size
  BY DEF PoolOK
<1> HIDE DEF x, S
<1>3. PICK q : q = Plus(p, b, x)
  OBVIOUS
<1>4. /\ DOMAIN q = DOMAIN p \cup {b} /\ q \in [DOMAIN q -> S]
      /\ q[b] = x /\ \A c \in DOMAIN p \ {b} : q[c] = p[c]
  BY <1>1, <1>2, <1>3 DEF Plus
<1>5. PoolOK(q)
  <2>1. \A c \in DOMAIN q : q[c].written <= q[c].size /\ q[c].asked <= q[c].size
    BY <1>1, <1>2, <1>4
  <2>2. QED
    BY <2>1, <1>2, <1>4 DEF PoolOK, S
<1>6. PICK r : r = Minus(p, bs)
  OBVIOUS
<1>7. /\ DOMAIN r = DOMAIN p \ bs /\ r \in [DOMAIN r -> S]
      /\ \A c \in DOMAIN p \ bs : r[c] = p[c]
  BY <1>2, <1>6 DEF Minus
<1>8. PoolOK(r)
  <2>1. \A c \in DOMAIN r : r[c].written <= r[c].size /\ r[c].asked <= r[c].size
    BY <1>2, <1>7
  <2>2. QED
    BY <2>1, <1>2, <1>7 DEF PoolOK, S
<1>9. QED
  BY <1>3, <1>5, <1>6, <1>8 DEF x

\* Blocks are freed.
LEMMA PoolFrees ==
  ASSUME NEW p, PoolOK(p), NEW bs, NEW b \in Blocks
  PROVE PoolOK(Minus(p, bs)) /\ DOMAIN Minus(p, bs) = DOMAIN p \ bs
<1>1. 0 \in Nat /\ 0 <= 0
  OBVIOUS
<1>2. PoolOK(Minus(p, bs))
  BY <1>1, PoolChanges
<1>3. QED
  BY <1>2 DEF Minus

\* Moving a block copies no more than the new one holds.
LEMMA CopiedIs ==
  ASSUME NEW block \in [asked : Nat, size : Nat, written : Nat], block.written <= block.size, NEW n \in Nat
  PROVE /\ Copied(block, n) \in Nat /\ Copied(block, n) <= n
        /\ Copied(block, n) = Smaller(block.written, n)
  BY HeapAssumption DEF Copied, CopySize, Smaller

\* Whatever a client calls, the pool stays well-formed and the others keep theirs.
LEMMA ClientDoes ==
  ASSUME StdioTypeOK, PoolOK(pool), Client
  PROVE PoolOK(pool') /\ OthersStay /\ Reports
<1> DEFINE Goal == PoolOK(pool') /\ OthersStay /\ Reports
<1>0. clients \subseteq DOMAIN pool /\ DOMAIN pool \subseteq Blocks
  BY DEF StdioTypeOK
<1>a. ASSUME NEW n \in Nat, NEW w \in Nat, w <= n, NEW b \in Blocks \ DOMAIN pool,
             pool' = Plus(pool, b, Block(n, n, w)), clients' = clients \cup {b}, Ok
      PROVE Goal
  <2>1. PoolOK(pool') /\ DOMAIN pool' = DOMAIN pool \cup {b}
    BY <1>a, PoolChanges DEF Plus
  <2>2. QED
    BY <2>1, <1>a, <1>0, ReportsAre DEF OthersStay
<1>b. ASSUME UNCHANGED <<pool, clients>>, Reports
      PROVE Goal
  BY <1>b, <1>0 DEF OthersStay
<1>c. ASSUME NEW n \in Nat, malloc(n) PROVE Goal
  BY <1>c, <1>a, <1>b, ReportsAre, WhyIs DEF malloc, Gives
<1>d. ASSUME NEW b \in clients, free(b) PROVE Goal
  <2>1. PoolOK(pool') /\ DOMAIN pool' = DOMAIN pool \ {b}
    BY <1>d, <1>0, PoolFrees DEF free
  <2>2. QED
    BY <2>1, <1>d, <1>0, ReportsAre DEF OthersStay, free
<1>1. CASE Malloc
  BY <1>1, <1>c, StdioAssumption DEF Malloc
<1>2. CASE Calloc
  <2>1. PICK m \in Sizes, n \in Sizes : calloc(m, n)
    BY <1>2 DEF Calloc
  <2>2. m * n \in Nat
    BY StdioAssumption
  <2> DEFINE k == m * n
  <2>3. k \in Nat
    BY <2>2
  <2>4. \/ Fail("ENOMEM") /\ UNCHANGED <<pool, clients>>
        \/ \E b \in Blocks : /\ Gives(pool, k, b)
                             /\ pool' = Plus(pool, b, Block(k, k, k))
                             /\ clients' = clients \cup {b}
                             /\ Ok
        \/ Fail(Why(k)) /\ UNCHANGED <<pool, clients>>
    <3>1. ~TooLarge(m, n) => Product(m, n) = k
      BY <2>2, StdioAssumption, ProductIs
    <3> HIDE DEF k
    <3>2. TooLarge(m, n) => Fail("ENOMEM") /\ UNCHANGED <<pool, clients>>
      BY <2>1 DEF calloc
    <3>3. ASSUME ~TooLarge(m, n)
          PROVE \/ \E b \in Blocks : /\ Gives(pool, k, b)
                                     /\ pool' = Plus(pool, b, Block(k, k, k))
                                     /\ clients' = clients \cup {b}
                                     /\ Ok
                \/ Fail(Why(k)) /\ UNCHANGED <<pool, clients>>
      BY <2>1, <3>1, <3>3 DEF calloc, k
    <3>4. QED
      BY <3>2, <3>3
  <2> HIDE DEF k
  <2>5. QED
    BY <2>3, <2>4, <1>a, <1>b, ReportsAre, WhyIs DEF Gives
<1>3. CASE Realloc
  <2>1. PICK b \in clients \cup {NULL}, n \in Sizes : realloc(b, n)
    BY <1>3 DEF Realloc
  <2>2. n \in Nat
    BY StdioAssumption
  <2>3. CASE Fail("ENOMEM") /\ UNCHANGED <<pool, clients>>
    BY <2>3, <1>b, ReportsAre
  <2>4. CASE b = NULL /\ malloc(n)
    BY <2>4, <2>2, <1>c
  <2>5. CASE b # NULL /\ free(b)
    BY <2>5, <1>d
  <2>6. CASE b # NULL /\ Move(b, n)
    <3>1. CASE Fail(Why(n)) /\ UNCHANGED <<pool, clients>>
      BY <3>1, <1>b, ReportsAre, WhyIs
    <3>2. ASSUME NEW c \in Blocks \ DOMAIN pool,
                 pool' = Minus(Plus(pool, c, Block(n, n, Copied(pool[b], n))), {b}),
                 clients' = (clients \ {b}) \cup {c}, Ok
          PROVE Goal
      <4> DEFINE w == Copied(pool[b], n)
                 q == Plus(pool, c, Block(n, n, w))
      <4>1. pool[b] \in [asked : Nat, size : Nat, written : Nat] /\ pool[b].written <= pool[b].size
        BY <2>6, <1>0 DEF PoolOK
      <4>2. w \in Nat /\ w <= n
        BY <4>1, <2>2, CopiedIs
      <4>3. DOMAIN q = DOMAIN pool \cup {c}
        BY DEF Plus
      <4>3a. DOMAIN Minus(q, {b}) = DOMAIN q \ {b}
        BY DEF Minus
      <4> HIDE DEF w
      <4>4. PoolOK(q)
        BY <4>2, <2>2, PoolChanges
      <4> HIDE DEF q
      <4>5. PoolOK(Minus(q, {b}))
        BY <4>4, <2>2, PoolChanges
      <4>6. pool' = Minus(q, {b})
        BY <3>2 DEF q, w
      <4>7. QED
        BY <4>3, <4>3a, <4>5, <4>6, <3>2, <2>6, <1>0, ReportsAre DEF OthersStay
    <3>3. QED
      BY <2>6, <3>1, <3>2 DEF Move, Gives
  <2>7. QED
    BY <2>1, <2>3, <2>4, <2>5, <2>6 DEF realloc
<1>4. CASE Free
  BY <1>4, <1>d DEF Free
<1>5. CASE WriteBlock
  <2>1. PICK b \in clients : Write(b)
    BY <1>5 DEF WriteBlock
  <2>2. DOMAIN pool' = DOMAIN pool
    BY <2>1, <1>0 DEF Write, PoolOK
  <2>3. PoolOK(pool')
    <3>1. \A c \in DOMAIN pool :
            pool'[c] = IF c = b THEN [pool[b] EXCEPT !.written = pool[b].size] ELSE pool[c]
      BY <2>1, <1>0 DEF Write, PoolOK
    <3>2. [pool[b] EXCEPT !.written = pool[b].size] \in [asked : Nat, size : Nat, written : Nat]
      BY <2>1, <1>0 DEF PoolOK
    <3>3. pool' = [c \in DOMAIN pool |->
                     IF c = b THEN [pool[b] EXCEPT !.written = pool[b].size] ELSE pool[c]]
      BY <2>1, <1>0 DEF Write, PoolOK
    <3>4. pool' \in [DOMAIN pool' -> [asked : Nat, size : Nat, written : Nat]]
      BY <3>2, <3>3, <2>2 DEF PoolOK
    <3>5. \A c \in DOMAIN pool' :
            pool'[c].written <= pool'[c].size /\ pool'[c].asked <= pool'[c].size
      BY <3>1, <2>1, <2>2, <1>0 DEF PoolOK
    <3>6. QED
      BY <3>4, <3>5, <2>2 DEF PoolOK
  <2>4. QED
    BY <2>1, <2>2, <2>3, <1>0, ReportsAre DEF OthersStay, Write
<1>6. CASE ClearErrno
  BY <1>6, <1>b, ReportsAre DEF ClearErrno
<1>7. QED
  BY <1>1, <1>2, <1>3, <1>4, <1>5, <1>6 DEF Client

----------------------------------------------------------------------------
(* What fopen() and fclose() do                                            *)

\* The pool of the invariant.
PoolInv == PoolOK(pool) /\ clients \subseteq DOMAIN pool
CallOK ==
  /\ call \in [at : {"idle", "volume", "name", "open"}, name : Names \cup {NULL},
               flags : SUBSET {"READ", "WRITE"}, file : Blocks \cup {NULL},
               root : Handles \cup {NULL}, chars : Blocks \cup {NULL}]
  /\ (call.at = "idle" => call = Idle)
  /\ (call.at # "idle" => call.name \in Names /\ call.file \in Blocks)
  /\ (call.root # NULL <=> call.at \in {"name", "open"})
  /\ (call.chars # NULL <=> call.at = "open")
FilesOK ==
  /\ DOMAIN files \subseteq Blocks
  /\ files \in [DOMAIN files -> [name : Blocks, root : Handles, file : Handles]]
HandlesOK == roots \subseteq Handles /\ opened \subseteq Handles /\ lost \subseteq Handles
ReportOK ==
  /\ errno \in {"none", "EINVAL", "ENOMEM", "EACCES", "EBADF"}
  /\ last \in {"ok", "failed", "running"}

Parts == PoolInv /\ CallOK /\ FilesOK /\ HandlesOK /\ ReportOK /\ Owners

\* The parts are the invariant.
LEMMA PartsAre == Parts <=> StdioInv
<1>1. PoolOK(pool) <=> /\ DOMAIN pool \subseteq Blocks
                       /\ pool \in [DOMAIN pool -> [asked : Nat, size : Nat, written : Nat]]
                       /\ Written /\ AsLargeAsAsked
  <2>1. ASSUME pool \in [DOMAIN pool -> [asked : Nat, size : Nat, written : Nat]]
        PROVE \A b \in DOMAIN pool : pool[b].size >= pool[b].asked <=> pool[b].asked <= pool[b].size
    <3>1. \A b \in DOMAIN pool : pool[b].size \in Nat /\ pool[b].asked \in Nat
      BY <2>1
    <3>2. QED
      BY <3>1
  <2>2. QED
    BY <2>1 DEF PoolOK, Written, AsLargeAsAsked
<1>2. QED
  BY <1>1 DEF Parts, PoolInv, CallOK, FilesOK, HandlesOK, ReportOK, StdioInv, StdioTypeOK

LEMMA ReportsKeep == Reports => ReportOK'
  BY DEF Reports, ReportOK

\* The blocks and handles of the FILEs change with the FILEs only.
LEMMA FilesStay ==
  ASSUME UNCHANGED files, FilesOK
  PROVE FilesOK' /\ FB' = FB /\ FF' = FF /\ FR' = FR /\ (FilesApart => FilesApart')
  BY DEF FilesOK, FB, FF, FR, FilesApart, BlocksOf, HandlesOf

\* The start.
LEMMA StdioStart == StdioInit => Parts
<1> SUFFICES ASSUME StdioInit PROVE Parts
  OBVIOUS
<1> USE DEF StdioInit
<1>1. PoolInv /\ FilesOK /\ HandlesOK /\ ReportOK
  BY DEF PoolInv, PoolOK, FilesOK, HandlesOK, ReportOK
<1>2. CallOK
  BY HeapAssumption, StdioAssumption, Zenon DEF CallOK, Idle
<1>3. CallBlocks = {} /\ CallRoots = {}
  BY DEF CallBlocks, CallRoots, Idle
<1>4. FB = {} /\ FF = {} /\ FR = {}
  BY DEF FB, FF, FR
<1>5. Owners
  BY <1>3, <1>4 DEF Owners, FilesApart, BlockOwners, HandleOwners
<1>6. QED
  BY <1>1, <1>2, <1>5 DEF Parts

LEMMA ClientStep == Parts /\ Client => Parts'
<1> SUFFICES ASSUME Parts, Client PROVE Parts'
  OBVIOUS
<1>1. PoolOK(pool') /\ OthersStay /\ Reports
  BY PartsAre, ClientDoes DEF Parts, PoolInv, StdioInv
<1>2. call = Idle /\ UNCHANGED <<call, files, roots, opened, lost>>
  BY DEF Client, handleVars
<1>3. FilesOK' /\ FB' = FB /\ FF' = FF /\ FR' = FR /\ (FilesApart => FilesApart')
  BY <1>2, FilesStay DEF Parts
<1>4. PoolInv' /\ ReportOK'
  BY <1>1, ReportsKeep DEF PoolInv, OthersStay
<1>5. CallBlocks = {} /\ CallBlocks' = {} /\ CallRoots' = CallRoots
  BY <1>2 DEF CallBlocks, CallRoots, Idle
<1>6. CallOK' /\ HandlesOK'
  BY <1>2 DEF Parts, CallOK, HandlesOK
<1>7. BlockOwners'
  BY <1>1, <1>2, <1>3, <1>5 DEF Parts, Owners, BlockOwners, OthersStay
<1>8. HandleOwners'
  BY <1>2, <1>3, <1>5 DEF Parts, Owners, HandleOwners
<1>9. QED
  BY <1>3, <1>4, <1>6, <1>7, <1>8 DEF Parts, Owners

\* fopen() begins, or fails at once.
LEMMA FopenStep == Parts /\ Fopen => Parts'
<1> SUFFICES ASSUME Parts, NEW name \in Names, NEW mode \in Modes, fopen(name, mode)
             PROVE Parts'
  BY DEF Fopen
<1>1. call = Idle /\ UNCHANGED <<clients, files, roots, opened, lost>>
  BY DEF fopen, handleVars
<1>2. FilesOK' /\ FB' = FB /\ FF' = FF /\ FR' = FR /\ (FilesApart => FilesApart') /\ HandlesOK'
  BY <1>1, FilesStay DEF Parts, HandlesOK
<1>3. CallBlocks = {} /\ CallRoots = {}
  BY <1>1 DEF CallBlocks, CallRoots, Idle
<1>4. CASE UNCHANGED pool /\ \E why \in {"EINVAL", "ENOMEM"} : GivesUp(why)
  <2>1. Reports /\ UNCHANGED call
    BY <1>1, <1>4, ReportsAre, PartsAre DEF GivesUp, Parts, StdioInv
  <2>2. CallBlocks' = CallBlocks /\ CallRoots' = CallRoots
    BY <2>1 DEF CallBlocks, CallRoots
  <2>3. PoolInv' /\ CallOK' /\ ReportOK'
    BY <2>1, <1>1, <1>4, ReportsKeep DEF Parts, PoolInv, CallOK
  <2>4. BlockOwners' /\ HandleOwners'
    BY <2>1, <2>2, <1>1, <1>2, <1>4 DEF Parts, Owners, BlockOwners, HandleOwners
  <2>5. QED
    BY <2>3, <2>4, <1>2 DEF Parts, Owners
<1>5. CASE \E f \in Blocks :
             /\ Gives(pool, FileSize, f)
             /\ pool' = Plus(pool, f, Block(FileSize, FileSize, FileSize))
             /\ GoesOn([Idle EXCEPT !.at = "volume", !.name = name,
                                   !.flags = __fmodeflags(mode), !.file = f])
  <2>1. PICK f \in Blocks :
             /\ Gives(pool, FileSize, f)
             /\ pool' = Plus(pool, f, Block(FileSize, FileSize, FileSize))
             /\ GoesOn([Idle EXCEPT !.at = "volume", !.name = name,
                                   !.flags = __fmodeflags(mode), !.file = f])
    BY <1>5
  <2>2. call' = [at |-> "volume", name |-> name, flags |-> __fmodeflags(mode), file |-> f,
                 root |-> NULL, chars |-> NULL]
    BY <2>1 DEF GoesOn, Idle
  <2>3. __fmodeflags(mode) \in SUBSET {"READ", "WRITE"}
    BY DEF __fmodeflags
  <2>4. CallOK'
    BY <2>2, <2>3 DEF CallOK, Idle
  <2>5. CallBlocks' = {f} /\ CallRoots' = {} /\ call'.file # call'.chars
    BY <2>2, HeapAssumption DEF CallBlocks, CallRoots
  <2>6. FileSize \in Nat /\ FileSize <= FileSize
    BY StdioAssumption
  <2>7. PoolOK(pool') /\ DOMAIN pool' = DOMAIN pool \cup {f} /\ f \notin DOMAIN pool
    BY <2>1, <2>6, PoolChanges DEF Parts, PoolInv, Plus, Gives
  <2>8. Reports
    BY <2>1, ReportsAre, PartsAre DEF GoesOn, Parts, StdioInv
  <2>9. PoolInv' /\ ReportOK'
    BY <2>7, <2>8, <1>1, ReportsKeep DEF Parts, PoolInv
  <2>10. BlockOwners'
    BY <2>5, <2>7, <1>1, <1>2, <1>3 DEF Parts, Owners, BlockOwners
  <2>11. HandleOwners'
    BY <2>5, <1>1, <1>2, <1>3 DEF Parts, Owners, HandleOwners
  <2>12. QED
    BY <2>4, <2>9, <2>10, <2>11, <1>2 DEF Parts, Owners
<1>6. QED
  BY <1>4, <1>5 DEF fopen

\* A step of fopen() that fails gives back every block and loses the root it has.
GivesBack ==
  /\ pool' = Minus(pool, CallBlocks) /\ call' = Idle
  /\ lost' = lost \cup CallRoots
  /\ UNCHANGED <<clients, files, roots, opened>>
  /\ Reports

LEMMA FailuresGiveBack ==
  Parts /\ (VolumeFails \/ NoName \/ OpenFails) => GivesBack
<1> SUFFICES ASSUME Parts, VolumeFails \/ NoName \/ OpenFails PROVE GivesBack
  OBVIOUS
<1>0. StdioTypeOK /\ CallOK
  BY PartsAre DEF Parts, StdioInv
<1>1. CASE VolumeFails
  <2>1. CallBlocks = {call.file} /\ CallRoots = {}
    BY <1>0, <1>1, HeapAssumption DEF VolumeFails, CallOK, CallBlocks, CallRoots
  <2>2. QED
    BY <2>1, <1>0, <1>1, ReportsAre DEF VolumeFails, GivesBack, GivesUp, handleVars
<1>2. CASE NoName
  <2>1. CallBlocks = {call.file} /\ CallRoots = {call.root}
    BY <1>0, <1>2, HeapAssumption DEF NoName, CallOK, CallBlocks, CallRoots
  <2>2. Reports
    BY <1>0, <1>2, ReportsAre
  <2>3. QED
    BY <2>1, <2>2, <1>2 DEF NoName, GivesBack, LosesRoot
<1>3. CASE OpenFails
  <2>1. CallBlocks = {call.chars, call.file} /\ CallRoots = {call.root}
    BY <1>0, <1>3, HeapAssumption DEF OpenFails, CallOK, CallBlocks, CallRoots
  <2>2. QED
    BY <2>1, <1>0, <1>3, ReportsAre DEF OpenFails, GivesBack, LosesRoot, GivesUp
<1>4. QED
  BY <1>1, <1>2, <1>3

LEMMA FailureStep == Parts /\ (VolumeFails \/ NoName \/ OpenFails) => Parts'
<1> SUFFICES ASSUME Parts, GivesBack PROVE Parts'
  BY FailuresGiveBack
<1>1. UNCHANGED <<clients, files, roots, opened>> /\ lost' = lost \cup CallRoots /\ call' = Idle
  BY DEF GivesBack
<1>2. FilesOK' /\ FB' = FB /\ FF' = FF /\ FR' = FR /\ (FilesApart => FilesApart')
  BY <1>1, FilesStay DEF Parts
<1>3. CallBlocks' = {} /\ CallRoots' = {}
  BY <1>1 DEF CallBlocks, CallRoots, Idle
<1>4. CallOK'
  BY <1>1, HeapAssumption, StdioAssumption, Zenon DEF CallOK, Idle
<1>5. CallRoots \subseteq Handles
  BY DEF Parts, CallOK, CallRoots
<1>6. HandlesOK'
  BY <1>1, <1>5 DEF Parts, HandlesOK
<1>7. PoolOK(pool') /\ DOMAIN pool' = DOMAIN pool \ CallBlocks
  <2>1. CASE Blocks = {}
    BY <2>1 DEF GivesBack, Parts, PoolInv, PoolOK, Minus
  <2>2. CASE Blocks # {}
    BY <2>2, PoolFrees DEF GivesBack, Parts, PoolInv
  <2>3. QED
    BY <2>1, <2>2
<1>8. PoolInv' /\ ReportOK'
  BY <1>1, <1>7, ReportsKeep DEF Parts, PoolInv, GivesBack, Owners, BlockOwners
<1>9. BlockOwners'
  BY <1>1, <1>2, <1>3, <1>7 DEF Parts, Owners, BlockOwners
<1>10. HandleOwners'
  BY <1>1, <1>2, <1>3 DEF Parts, Owners, HandleOwners
<1>11. QED
  BY <1>2, <1>4, <1>6, <1>8, <1>9, <1>10 DEF Parts, Owners

\* The volume and the name.
LEMMA OpenVolumeStep == Parts /\ OpenVolume => Parts'
<1> SUFFICES ASSUME Parts, OpenVolume PROVE Parts'
  OBVIOUS
<1>1. PICK r \in FreeHandles : /\ roots' = roots \cup {r}
                              /\ GoesOn([call EXCEPT !.at = "name", !.root = r])
  BY DEF OpenVolume
<1>2. call.at = "volume" /\ UNCHANGED <<pool, clients, files, opened, lost>>
  BY DEF OpenVolume
<1>3. FilesOK' /\ FB' = FB /\ FF' = FF /\ FR' = FR /\ (FilesApart => FilesApart')
  BY <1>2, FilesStay DEF Parts
<1>4. call' = [call EXCEPT !.at = "name", !.root = r] /\ r \in Handles /\ r # NULL
  BY <1>1, StdioAssumption DEF GoesOn, FreeHandles
<1>5. CallOK' /\ call'.file = call.file /\ call'.chars = call.chars /\ call'.root = r
      /\ call # Idle /\ call.root = NULL
  <2>1. CallOK
    BY DEF Parts
  <2>2. /\ call'.at = "name" /\ call'.root = r /\ call'.file = call.file
        /\ call'.chars = call.chars /\ call'.name = call.name /\ call'.flags = call.flags
    BY <2>1, <1>4 DEF CallOK
  <2>3. call # Idle /\ call.root = NULL /\ call.chars = NULL
        /\ call.name \in Names /\ call.file \in Blocks
    BY <2>1, <1>2 DEF CallOK, Idle
  <2>4. call' \in [at : {"idle", "volume", "name", "open"}, name : Names \cup {NULL},
                   flags : SUBSET {"READ", "WRITE"}, file : Blocks \cup {NULL},
                   root : Handles \cup {NULL}, chars : Blocks \cup {NULL}]
    BY <2>1, <1>4 DEF CallOK
  <2>5. QED
    BY <2>2, <2>3, <2>4, <1>4 DEF CallOK
<1>6. CallBlocks' = CallBlocks /\ CallRoots = {} /\ CallRoots' = {r}
  BY <1>4, <1>5 DEF CallBlocks, CallRoots
<1>7. HandlesOK'
  BY <1>1, <1>2, <1>4 DEF Parts, HandlesOK
<1>8. Reports
  BY <1>1, ReportsAre, PartsAre DEF GoesOn, Parts, StdioInv
<1>9. PoolInv' /\ ReportOK'
  BY <1>2, <1>8, ReportsKeep DEF Parts, PoolInv
<1>10. BlockOwners'
  BY <1>2, <1>3, <1>5, <1>6 DEF Parts, Owners, BlockOwners
<1>11. HandleOwners'
  <2>1. r \notin roots /\ r \notin opened
    BY <1>1 DEF FreeHandles
  <2>2. /\ opened = FF /\ roots = lost \cup FR /\ FR \cap (opened \cup lost) = {}
    BY <1>6 DEF Parts, Owners, HandleOwners
  <2>3. roots' = lost \cup {r} \cup FR
    BY <2>2, <1>1
  <2>4. {r} \cap (lost \cup opened) = {} /\ FR \cap (opened \cup lost \cup {r}) = {}
    BY <2>1, <2>2
  <2>5. QED
    BY <2>2, <2>3, <2>4, <1>2, <1>3, <1>6 DEF HandleOwners
<1>12. QED
  BY <1>3, <1>5, <1>7, <1>9, <1>10, <1>11 DEF Parts, Owners

LEMMA NameStep == Parts /\ to_char16 => Parts'
<1> SUFFICES ASSUME Parts, to_char16 PROVE Parts'
  OBVIOUS
<1> DEFINE size == NameSize(call.name)
<1>1. PICK n \in Blocks : /\ Gives(pool, size, n)
                         /\ pool' = Plus(pool, n, Block(size, size, size))
                         /\ GoesOn([call EXCEPT !.at = "open", !.chars = n])
  BY DEF to_char16
<1>2. call.at = "name" /\ UNCHANGED <<clients, files, roots, opened, lost>>
  BY DEF to_char16, handleVars
<1>3. FilesOK' /\ FB' = FB /\ FF' = FF /\ FR' = FR /\ (FilesApart => FilesApart') /\ HandlesOK'
  BY <1>2, FilesStay DEF Parts, HandlesOK
<1>4. call' = [call EXCEPT !.at = "open", !.chars = n] /\ n # NULL
  BY <1>1, HeapAssumption DEF GoesOn
<1>5. CallOK' /\ call'.file = call.file /\ call'.chars = n /\ call'.root = call.root
      /\ call.chars = NULL /\ call.file \in Blocks
  BY <1>2, <1>4 DEF Parts, CallOK, Idle
<1>6. CallBlocks = {call.file} /\ CallBlocks' = {call.file, n} /\ CallRoots' = CallRoots
  BY <1>4, <1>5, HeapAssumption DEF CallBlocks, CallRoots
<1>7. size \in Nat /\ size <= size
  BY <1>2, StdioAssumption DEF Parts, CallOK, NameSize
<1> HIDE DEF size
<1>8. PoolOK(pool') /\ DOMAIN pool' = DOMAIN pool \cup {n} /\ n \notin DOMAIN pool
  BY <1>1, <1>7, PoolChanges DEF Parts, PoolInv, Plus, Gives
<1>9. Reports
  BY <1>1, ReportsAre, PartsAre DEF GoesOn, Parts, StdioInv
<1>10. PoolInv' /\ ReportOK'
  BY <1>2, <1>8, <1>9, ReportsKeep DEF Parts, PoolInv
<1>11. BlockOwners'
  BY <1>2, <1>3, <1>5, <1>6, <1>8 DEF Parts, Owners, BlockOwners
<1>12. HandleOwners'
  BY <1>2, <1>3, <1>6 DEF Parts, Owners, HandleOwners
<1>13. QED
  BY <1>3, <1>5, <1>10, <1>11, <1>12 DEF Parts, Owners

\* The FILE that fopen() returns owns what the call did.
LEMMA OpenStep == Parts /\ Open => Parts'
<1> SUFFICES ASSUME Parts, Open PROVE Parts'
  OBVIOUS
<1> DEFINE x(h) == FILE(call.chars, call.root, h)
<1>0. PICK g, n, r : g = call.file /\ n = call.chars /\ r = call.root
  OBVIOUS
<1>1. PICK h \in FreeHandles : files' = Plus(files, g, x(h)) /\ opened' = opened \cup {h}
  BY <1>0 DEF Open
<1>2. call.at = "open" /\ call' = Idle /\ Ok /\ UNCHANGED <<pool, clients, roots, lost>>
  BY DEF Open
<1>3. g \in Blocks /\ n \in Blocks /\ r \in Handles /\ g # n
      /\ CallBlocks = {g, n} /\ CallRoots = {r}
  BY <1>0, <1>2, HeapAssumption, StdioAssumption
     DEF Parts, CallOK, CallBlocks, CallRoots, Owners, BlockOwners, Idle
<1>4. h \in Handles /\ h \notin roots /\ h \notin opened
  BY <1>1 DEF FreeHandles
<1>5. x(h) \in [name : Blocks, root : Handles, file : Handles]
      /\ x(h).name = n /\ x(h).root = r /\ x(h).file = h
  BY <1>0, <1>3, <1>4 DEF FILE
<1> HIDE DEF x
<1>6. g \notin FB /\ \A f \in DOMAIN files : f \in FB
  BY <1>3 DEF Parts, Owners, BlockOwners, FB, BlocksOf
<1>7. /\ DOMAIN files' = DOMAIN files \cup {g} /\ files'[g] = x(h)
      /\ \A f \in DOMAIN files : f # g /\ files'[f] = files[f]
      /\ files' \in [DOMAIN files' -> [name : Blocks, root : Handles, file : Handles]]
  BY <1>1, <1>5, <1>6 DEF Plus, Parts, FilesOK
<1>8. FB' = FB \cup {g, n} /\ FF' = FF \cup {h} /\ FR' = FR \cup {r}
  BY <1>5, <1>7 DEF FB, FF, FR, BlocksOf
<1>9. FilesOK' /\ HandlesOK'
  BY <1>2, <1>1, <1>3, <1>4, <1>7 DEF Parts, FilesOK, HandlesOK
<1>10. CallOK' /\ CallBlocks' = {} /\ CallRoots' = {}
  <2>1. CallOK'
    BY <1>2, HeapAssumption, StdioAssumption, Zenon DEF CallOK, Idle
  <2>2. QED
    BY <2>1, <1>2 DEF CallBlocks, CallRoots, Idle
<1>11. PoolInv' /\ ReportOK'
  BY <1>2, ReportsAre, ReportsKeep, PartsAre DEF Parts, PoolInv, StdioInv
<1>12. BlockOwners'
  BY <1>2, <1>3, <1>8, <1>10 DEF Parts, Owners, BlockOwners
<1>13. HandleOwners'
  <2>1. /\ opened = FF /\ roots = lost \cup {r} \cup FR
        /\ r \notin lost \cup opened
        /\ FR \cap (opened \cup lost \cup {r}) = {}
    BY <1>3 DEF Parts, Owners, HandleOwners
  <2>2. (FR \cup {r}) \cap (opened \cup {h} \cup lost) = {}
    BY <2>1, <1>4
  <2>3. QED
    BY <2>1, <2>2, <1>1, <1>2, <1>8, <1>10 DEF HandleOwners
<1>14. FilesApart'
  <2>1. ASSUME NEW f \in DOMAIN files
        PROVE /\ BlocksOf(f)' = BlocksOf(f) /\ HandlesOf(f)' = HandlesOf(f)
              /\ BlocksOf(f) \cap {g, n} = {}
              /\ HandlesOf(f) \cap {r, h} = {}
    <3>1. BlocksOf(f) \subseteq FB /\ files[f].root \in FR /\ files[f].file \in FF
      BY DEF FB, FR, FF
    <3>2. FB \cap {g, n} = {}
      BY <1>3 DEF Parts, Owners, BlockOwners
    <3>3. FF = opened /\ FR \subseteq roots /\ r \notin opened /\ r \notin FR
      BY <1>3 DEF Parts, Owners, HandleOwners
    <3>4. HandlesOf(f) \cap {r, h} = {}
      BY <3>1, <3>3, <1>4 DEF HandlesOf
    <3>5. QED
      BY <3>1, <3>2, <3>4, <1>7 DEF BlocksOf, HandlesOf
  <2>2. BlocksOf(g)' = {g, n} /\ HandlesOf(g)' = {r, h}
    BY <1>5, <1>7 DEF BlocksOf, HandlesOf
  <2>3. \A f \in DOMAIN files' : f # files'[f].name
    BY <1>3, <1>5, <1>7 DEF Parts, Owners, FilesApart
  <2>4. ASSUME NEW e \in DOMAIN files', NEW f \in DOMAIN files', e # f
        PROVE BlocksOf(e)' \cap BlocksOf(f)' = {} /\ HandlesOf(e)' \cap HandlesOf(f)' = {}
    <3>1. CASE e \in DOMAIN files /\ f \in DOMAIN files
      BY <3>1, <2>1, <2>4 DEF Parts, Owners, FilesApart
    <3>2. CASE e = g /\ f \in DOMAIN files
      BY <3>2, <2>1, <2>2
    <3>3. CASE e \in DOMAIN files /\ f = g
      BY <3>3, <2>1, <2>2
    <3>4. QED
      BY <3>1, <3>2, <3>3, <2>4, <1>7
  <2>5. QED
    BY <2>3, <2>4 DEF FilesApart
<1>15. QED
  BY <1>9, <1>10, <1>11, <1>12, <1>13, <1>14 DEF Parts, Owners

\* fclose() gives back what the FILE has.
LEMMA FcloseStep == Parts /\ Fclose => Parts'
<1> SUFFICES ASSUME Parts, call = Idle, UNCHANGED call, NEW g \in DOMAIN files, fclose(g)
             PROVE Parts'
  BY DEF Fclose
<1>1. /\ opened' = opened \ {files[g].file} /\ roots' = roots \ {files[g].root}
      /\ pool' = Minus(pool, BlocksOf(g)) /\ files' = Minus(files, {g})
      /\ UNCHANGED <<clients, lost>>
  BY DEF fclose, __stdio_close, BlocksOf
<1>2. /\ DOMAIN files' = DOMAIN files \ {g} /\ \A f \in DOMAIN files' : files'[f] = files[f]
      /\ files' \in [DOMAIN files' -> [name : Blocks, root : Handles, file : Handles]]
  BY <1>1 DEF Minus, Parts, FilesOK
<1>3. \A f \in DOMAIN files' : BlocksOf(f)' = BlocksOf(f) /\ HandlesOf(f)' = HandlesOf(f)
  BY <1>2 DEF BlocksOf, HandlesOf
<1>4. FilesApart'
  BY <1>2, <1>3 DEF Parts, Owners, FilesApart
<1>5. /\ FB = FB' \cup BlocksOf(g) /\ FF = FF' \cup {files[g].file}
      /\ FR = FR' \cup {files[g].root}
  <2>1. FB = FB' \cup BlocksOf(g)
    BY <1>2, <1>3 DEF FB
  <2>2. QED
    BY <2>1, <1>2 DEF FF, FR
<1>6. /\ FB' \cap BlocksOf(g) = {} /\ files[g].file \notin FF' /\ files[g].root \notin FR'
  <2>1. FB' \cap BlocksOf(g) = {}
    BY <1>2, <1>3 DEF Parts, Owners, FilesApart, FB
  <2>2. ASSUME NEW f \in DOMAIN files'
        PROVE files'[f].file # files[g].file /\ files'[f].root # files[g].root
    <3>1. HandlesOf(f) \cap HandlesOf(g) = {} /\ files'[f] = files[f]
      BY <1>2 DEF Parts, Owners, FilesApart
    <3>2. QED
      BY <3>1 DEF HandlesOf
  <2>3. files[g].file \notin FF' /\ files[g].root \notin FR'
    BY <2>2 DEF FF, FR
  <2>4. QED
    BY <2>1, <2>3
<1>7. CallBlocks = {} /\ CallRoots = {} /\ CallBlocks' = {} /\ CallRoots' = {}
  BY DEF CallBlocks, CallRoots, Idle
<1>8. CallOK' /\ FilesOK' /\ HandlesOK'
  BY <1>1, <1>2 DEF Parts, CallOK, FilesOK, HandlesOK
<1>9. PoolOK(pool') /\ DOMAIN pool' = DOMAIN pool \ BlocksOf(g)
  BY <1>1, PoolFrees DEF Parts, PoolInv, FilesOK
<1>10. BlockOwners'
  BY <1>1, <1>5, <1>6, <1>7, <1>9 DEF Parts, Owners, BlockOwners
<1>11. HandleOwners'
  <2>1. opened = FF /\ roots = lost \cup FR /\ FR \cap (opened \cup lost) = {}
    BY <1>7 DEF Parts, Owners, HandleOwners
  <2>2. files[g].root \notin lost
    BY <2>1, <1>5
  <2>3. opened' = FF' /\ roots' = lost \cup FR' /\ FR' \cap (opened' \cup lost) = {}
    BY <2>1, <2>2, <1>1, <1>5, <1>6
  <2>4. QED
    BY <2>3, <1>1, <1>7 DEF HandleOwners
<1>12. Reports
  BY ReportsAre, PartsAre DEF fclose, __stdio_close, Parts, StdioInv
<1>13. PoolInv' /\ ReportOK'
  <2>1. clients' \subseteq DOMAIN pool'
    BY <1>10 DEF BlockOwners
  <2>2. QED
    BY <2>1, <1>9, <1>12, ReportsKeep DEF PoolInv
<1>14. QED
  BY <1>4, <1>8, <1>10, <1>11, <1>13 DEF Parts, Owners

----------------------------------------------------------------------------
(* What a client wrote                                                     *)

Stays(b) == b \in clients' /\ pool'[b] = pool[b]
Moves(b) ==
  \E c \in clients' \ clients :
    /\ clients' = (clients \ {b}) \cup {c}
    /\ pool'[c].written = Smaller(pool[b].written, pool'[c].size)
Keeps(b) ==
  \/ b \in clients' /\ pool'[b].size = pool[b].size /\ pool'[b].written >= pool[b].written
  \/ Moves(b)
  \/ last' = "ok" /\ clients' = clients \ {b}

LEMMA StaysKeeps ==
  ASSUME StdioInv, NEW b \in clients, Stays(b)
  PROVE Keeps(b)
<1>1. pool[b] \in [asked : Nat, size : Nat, written : Nat]
  BY DEF StdioInv, StdioTypeOK
<1>2. QED
  BY <1>1 DEF Stays, Keeps

\* The clients' calls.
LEMMA ClientKeeps ==
  ASSUME StdioInv, Client, NEW b \in clients
  PROVE Keeps(b)
<1>0. /\ clients \subseteq DOMAIN pool /\ DOMAIN pool \subseteq Blocks
      /\ PoolOK(pool)
  BY DEF StdioInv, StdioTypeOK, PoolOK, Written, AsLargeAsAsked
<1>a. ASSUME NEW x, NEW c \in Blocks \ DOMAIN pool, pool' = Plus(pool, c, x),
             clients' = clients \cup {c}
      PROVE Keeps(b)
  BY <1>a, <1>0, StaysKeeps DEF Plus, Stays
<1>b. ASSUME UNCHANGED <<pool, clients>> PROVE Keeps(b)
  BY <1>b, StaysKeeps DEF Stays
<1>c. ASSUME NEW n, malloc(n) PROVE Keeps(b)
  BY <1>c, <1>a, <1>b DEF malloc, Gives
<1>d. ASSUME NEW c \in clients, free(c) PROVE Keeps(b)
  <2>1. CASE b = c
    BY <2>1, <1>d DEF free, Ok, Keeps
  <2>2. CASE b # c
    BY <2>2, <1>d, <1>0, StaysKeeps DEF free, Minus, Stays
  <2>3. QED
    BY <2>1, <2>2
<1>1. CASE Malloc
  BY <1>1, <1>c DEF Malloc
<1>2. CASE Calloc
  <2>1. PICK m \in Sizes, n \in Sizes : calloc(m, n)
    BY <1>2 DEF Calloc
  <2> DEFINE k == Product(m, n)
             x == Block(m * n, k, k)
  <2>2. \/ UNCHANGED <<pool, clients>>
        \/ \E c \in Blocks : /\ Gives(pool, k, c)
                             /\ pool' = Plus(pool, c, x) /\ clients' = clients \cup {c}
    BY <2>1 DEF calloc
  <2> HIDE DEF k, x
  <2>3. QED
    BY <2>2, <1>a, <1>b DEF Gives
<1>3. CASE Realloc
  <2>1. PICK o \in clients \cup {NULL}, n \in Sizes : realloc(o, n)
    BY <1>3 DEF Realloc
  <2>2. CASE UNCHANGED <<pool, clients>>
    BY <2>2, <1>b
  <2>3. CASE malloc(n)
    BY <2>3, <1>c
  <2>4. CASE o # NULL /\ free(o)
    BY <2>4, <1>d
  <2>5. CASE o # NULL /\ Move(o, n)
    <3>1. CASE UNCHANGED <<pool, clients>>
      BY <3>1, <1>b
    <3>2. ASSUME NEW c \in Blocks \ DOMAIN pool,
                 pool' = Minus(Plus(pool, c, Block(n, n, Copied(pool[o], n))), {o}),
                 clients' = (clients \ {o}) \cup {c}
          PROVE Keeps(b)
      <4>1. c \notin clients /\ c # o /\ c \in clients' \ clients
        BY <3>2, <2>5, <1>0
      <4>2. CASE b # o
        <5>1. pool'[b] = pool[b]
          BY <3>2, <4>1, <4>2, <1>0 DEF Plus, Minus
        <5>2. QED
          BY <5>1, <4>2, <3>2, StaysKeeps DEF Stays
      <4>3. CASE b = o
        <5>1. pool'[c] = Block(n, n, Copied(pool[b], n))
          BY <3>2, <4>1, <4>3 DEF Plus, Minus
        <5>2. pool[b] \in [asked : Nat, size : Nat, written : Nat] /\ pool[b].written <= pool[b].size
          BY <1>0 DEF PoolOK
        <5>3. n \in Nat
          BY StdioAssumption
        <5>4. pool'[c].written = Smaller(pool[b].written, pool'[c].size)
          BY <5>1, <5>2, <5>3, CopiedIs DEF Block
        <5>5. QED
          BY <5>4, <4>1, <4>3, <3>2 DEF Keeps, Moves
      <4>4. QED
        BY <4>2, <4>3
    <3>3. QED
      BY <2>5, <3>1, <3>2 DEF Move, Gives
  <2>6. QED
    BY <2>1, <2>2, <2>3, <2>4, <2>5 DEF realloc
<1>4. CASE Free
  BY <1>4, <1>d DEF Free
<1>5. CASE WriteBlock
  <2>1. PICK c \in clients : Write(c)
    BY <1>5 DEF WriteBlock
  <2>2. CASE b # c
    BY <2>1, <2>2, <1>0, StaysKeeps DEF Write, PoolOK, Stays
  <2>3. CASE b = c
    <3>1. pool[b] \in [asked : Nat, size : Nat, written : Nat] /\ pool[b].written <= pool[b].size
      BY <1>0 DEF PoolOK
    <3>2. pool'[b] = [pool[b] EXCEPT !.written = pool[b].size] /\ clients' = clients
      BY <2>1, <2>3, <1>0 DEF Write, PoolOK
    <3>3. pool'[b].size = pool[b].size /\ pool'[b].written = pool[b].size
      BY <3>1, <3>2
    <3>4. QED
      BY <3>1, <3>2, <3>3 DEF Keeps
  <2>4. QED
    BY <2>2, <2>3
<1>6. CASE ClearErrno
  BY <1>6, <1>b DEF ClearErrno
<1>7. QED
  BY <1>1, <1>2, <1>3, <1>4, <1>5, <1>6 DEF Client

\* The calls of fopen and fclose.
LEMMA FilesKeep ==
  ASSUME StdioInv, NEW b \in clients,
         Fopen \/ OpenVolume \/ VolumeFails \/ to_char16 \/ NoName \/ Open \/ OpenFails \/ Fclose
  PROVE Keeps(b)
<1>0. Parts /\ b \in DOMAIN pool /\ b \notin CallBlocks /\ b \notin FB
  BY PartsAre DEF Parts, PoolInv, Owners, BlockOwners
<1>a. ASSUME NEW x, NEW c \in Blocks \ DOMAIN pool, pool' = Plus(pool, c, x), UNCHANGED clients
      PROVE Keeps(b)
  BY <1>a, <1>0, StaysKeeps DEF Plus, Stays
<1>b. ASSUME UNCHANGED <<pool, clients>> PROVE Keeps(b)
  BY <1>b, StaysKeeps DEF Stays
<1>1. CASE Fopen
  BY <1>1, <1>a, <1>b DEF Fopen, fopen, Gives
<1>2. CASE OpenVolume \/ Open
  BY <1>2, <1>b DEF OpenVolume, Open
<1>3. CASE to_char16
  BY <1>3, <1>a DEF to_char16, Gives
<1>4. CASE VolumeFails \/ NoName \/ OpenFails
  <2>1. pool' = Minus(pool, CallBlocks) /\ UNCHANGED clients
    BY <1>0, <1>4, FailuresGiveBack DEF GivesBack
  <2>2. QED
    BY <2>1, <1>0, StaysKeeps DEF Minus, Stays
<1>5. CASE Fclose
  <2>1. PICK g \in DOMAIN files : fclose(g)
    BY <1>5 DEF Fclose
  <2>2. b \notin BlocksOf(g)
    BY <1>0 DEF FB
  <2>3. pool' = Minus(pool, BlocksOf(g)) /\ UNCHANGED clients
    BY <2>1 DEF fclose, __stdio_close, BlocksOf
  <2>4. QED
    BY <2>2, <2>3, <1>0, StaysKeeps DEF Minus, Stays
<1>6. QED
  BY <1>1, <1>2, <1>3, <1>4, <1>5

\* Every call reports as it should, at every step.
LEMMA StepReports ==
  ASSUME StdioInv, StdioNext
  PROVE Reports
<1>0. StdioTypeOK /\ PoolOK(pool) /\ Parts
  BY PartsAre DEF StdioInv, Parts, PoolInv
<1>1. CASE Client
  BY <1>0, <1>1, ClientDoes
<1>2. CASE Fopen
  BY <1>0, <1>2, ReportsAre DEF Fopen, fopen, GivesUp
<1>3. CASE OpenVolume \/ to_char16
  BY <1>0, <1>3, ReportsAre DEF OpenVolume, to_char16
<1>4. CASE VolumeFails \/ NoName \/ OpenFails
  BY <1>0, <1>4, FailuresGiveBack DEF GivesBack
<1>5. CASE Open \/ Fclose
  BY <1>0, <1>5, ReportsAre DEF Open, Fclose, fclose, __stdio_close
<1>6. QED
  BY <1>1, <1>2, <1>3, <1>4, <1>5 DEF StdioNext

----------------------------------------------------------------------------
(* The properties                                                          *)

\* The invariant is inductive.
THEOREM StdioInvariant == StdioSpec => []StdioInv
<1>1. StdioInit => Parts
  BY StdioStart
<1>2. Parts /\ [StdioNext]_stdioVars => Parts'
  <2>1. Parts /\ UNCHANGED stdioVars => Parts'
    <3> SUFFICES ASSUME Parts, UNCHANGED stdioVars PROVE Parts'
      OBVIOUS
    <3>1. UNCHANGED <<pool, clients, errno, last, call, files, roots, opened, lost>>
      BY DEF stdioVars, heapVars
    <3>2. FilesOK' /\ FB' = FB /\ FF' = FF /\ FR' = FR /\ (FilesApart => FilesApart')
      BY <3>1, FilesStay DEF Parts
    <3>3. CallBlocks' = CallBlocks /\ CallRoots' = CallRoots
      BY <3>1 DEF CallBlocks, CallRoots
    <3>4. Owners'
      BY <3>1, <3>2, <3>3 DEF Parts, Owners, BlockOwners, HandleOwners
    <3>5. PoolInv' /\ CallOK' /\ HandlesOK' /\ ReportOK'
      BY <3>1 DEF Parts, PoolInv, CallOK, HandlesOK, ReportOK
    <3>6. QED
      BY <3>2, <3>4, <3>5 DEF Parts
  <2>2. QED
    BY <2>1, ClientStep, FopenStep, OpenVolumeStep, NameStep, FailureStep, OpenStep, FcloseStep
       DEF StdioNext
<1>3. Parts <=> StdioInv
  BY PartsAre
<1>4. QED
  BY <1>1, <1>2, <1>3, PTL DEF StdioSpec

\* The variables have their types.
THEOREM StdioTypeCorrect == StdioSpec => []StdioTypeOK
<1>1. StdioInv => StdioTypeOK
  BY DEF StdioInv
<1>2. QED
  BY <1>1, StdioInvariant, PTL

\* Every block and every handle has one owner whatever fails, but for the roots
\* that failing calls of fopen lose.
THEOREM StdioOneOwnerEach == StdioSpec => []OneOwnerEach
<1>1. StdioInv => OneOwnerEach
  BY OwnersAgree DEF StdioInv
<1>2. QED
  BY <1>1, StdioInvariant, PTL

\* Every block is as large as was asked for, products of calloc() included.
THEOREM StdioAsLargeAsAsked == StdioSpec => []AsLargeAsAsked
<1>1. StdioInv => AsLargeAsAsked
  BY DEF StdioInv
<1>2. QED
  BY <1>1, StdioInvariant, PTL

\* A call that fails leaves a reason in errno, at whatever step it fails; only
\* fopen() of an empty name fails without one and leaves errno as it was.
THEOREM StdioFailureSaysWhy == StdioSpec => FailureSaysWhy
<1>1. ASSUME StdioInv, StdioNext PROVE Reports
  BY <1>1, StepReports
<1>2. StdioInv /\ [StdioNext]_stdioVars =>
        [last' = "failed" => errno' # "none" \/ (EmptyName /\ UNCHANGED errno)]_stdioVars
  BY <1>1 DEF Reports
<1>3. QED
  BY <1>2, StdioInvariant, PTL DEF StdioSpec, FailureSaysWhy

\* No call takes a client's block or what it wrote, but free() and realloc(), and
\* realloc() only when it has copied it.
THEOREM StdioReallocKeeps == StdioSpec => ReallocKeeps
<1>1. StdioInv /\ [StdioNext]_stdioVars => [\A b \in clients : Keeps(b)]_stdioVars
  BY ClientKeeps, FilesKeep DEF StdioNext
<1>2. (\A b \in clients : Keeps(b)) <=>
      \A b \in clients :
        \/ /\ b \in clients' /\ pool'[b].size = pool[b].size
           /\ pool'[b].written >= pool[b].written
        \/ \E c \in clients' \ clients :
             /\ clients' = (clients \ {b}) \cup {c}
             /\ pool'[c].written = Smaller(pool[b].written, pool'[c].size)
        \/ last' = "ok" /\ clients' = clients \ {b}
  BY DEF Keeps, Moves
<1>3. QED
  BY <1>1, <1>2, StdioInvariant, PTL DEF StdioSpec, ReallocKeeps
=============================================================================
