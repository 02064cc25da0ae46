----------------------------- MODULE PoolHeap -------------------------------
(***************************************************************************)
(* malloc(), calloc(), realloc() and free() over the firmware's pool.      *)
(*                                                                         *)
(* Of a block its size is kept, what its owner asked for, and how many of  *)
(* its first bytes the owner has written.  realloc() does not know the     *)
(* size it once asked for: it reads it in the header the firmware keeps in *)
(* front of the block, which counts the header, too, and which only one    *)
(* kind of firmware has.                                                   *)
(***************************************************************************)
EXTENDS Naturals

CONSTANTS
  Blocks,    \* the blocks of the pool
  NULL,      \* no block
  Overhead,  \* what the size in a header is larger by
  SizeMod,   \* 2^64, the number of values of size_t
  MayFail    \* what may fail

ASSUME HeapAssumption ==
  /\ NULL \notin Blocks
  /\ Overhead \in Nat /\ SizeMod \in Nat \ {0}
  /\ MayFail \subseteq {"AllocatePool", "Signature", "LoadedImage", "OpenProtocol",
                        "OpenVolume", "Open", "Close"}

VARIABLES
  pool,      \* the blocks that are allocated
  clients,   \* history: those that the clients of malloc() have
  errno,
  last       \* how the last call ended, "ok" or "failed", or "running"

heapVars == <<pool, clients, errno, last>>

FreeBlocks == Blocks \ DOMAIN pool
Smaller(m, n) == IF m < n THEN m ELSE n

\* The pool with blocks in it that were not, or without some.
Block(asked, n, w) == [asked |-> asked, size |-> n, written |-> w]
Plus(p, b, block) == [c \in DOMAIN p \cup {b} |-> IF c = b THEN block ELSE p[c]]
Minus(p, bs) == [c \in DOMAIN p \ bs |-> p[c]]

Ok == last' = "ok" /\ UNCHANGED errno
Fail(why) == last' = "failed" /\ errno' = why

\* malloc(n) with a pool p: it can return b, or fail for some reason.
Gives(p, n, b) == n # 0 /\ b \in Blocks \ DOMAIN p
Refuses(p, n) == n = 0 \/ "AllocatePool" \in MayFail \/ DOMAIN p = Blocks
Why(n) == IF n = 0 THEN "EINVAL" ELSE "ENOMEM"

----------------------------------------------------------------------------
(* What the clients call                                                   *)

malloc(n) ==
  \/ \E b \in Blocks :
       /\ Gives(pool, n, b)
       /\ pool' = Plus(pool, b, Block(n, n, 0)) /\ clients' = clients \cup {b}
       /\ Ok
  \/ Refuses(pool, n) /\ Fail(Why(n)) /\ UNCHANGED <<pool, clients>>

\* The product of two size_t.
Product(m, n) == (m * n) % SizeMod

\* It is compared with the largest size_t before it is taken.  (Wrong: with a
\* factor afterwards, when it may have wrapped to a larger number.)
TooLargeMutWrapped(m, n) == Product(m, n) < m
TooLarge(m, n) == m * n >= SizeMod

\* The block is written with zeros.
calloc(m, n) ==
  \/ TooLarge(m, n) /\ Fail("ENOMEM") /\ UNCHANGED <<pool, clients>>
  \/ /\ ~TooLarge(m, n)
     /\ \/ \E b \in Blocks :
             /\ Gives(pool, Product(m, n), b)
             /\ pool' = Plus(pool, b, Block(m * n, Product(m, n), Product(m, n)))
             /\ clients' = clients \cup {b}
             /\ Ok
        \/ /\ Refuses(pool, Product(m, n)) /\ Fail(Why(Product(m, n)))
           /\ UNCHANGED <<pool, clients>>

free(b) ==
  /\ pool' = Minus(pool, {b}) /\ clients' = clients \ {b}
  /\ Ok

\* How many bytes realloc() copies of a block into one of n: by the size in the
\* header, so it reads up to Overhead bytes behind a block that grows.  What of
\* them the owner wrote is all that counts.
CopySize(block, n) == Smaller(block.size + Overhead, n)
Copied(block, n) == Smaller(block.written, CopySize(block, n))

\* A new block takes the place of b; if there is none, b stays.  (Wrong: b is
\* freed without asking.)
MoveMutFreesFirst(b, n) ==
  \/ \E c \in Blocks :
       /\ Gives(pool, n, c)
       /\ pool' = Minus(Plus(pool, c, Block(n, n, Copied(pool[b], n))), {b})
       /\ clients' = (clients \ {b}) \cup {c}
       /\ Ok
  \/ /\ Refuses(pool, n) /\ Fail(Why(n))
     /\ pool' = Minus(pool, {b}) /\ clients' = clients \ {b}
Move(b, n) ==
  \/ \E c \in Blocks :
       /\ Gives(pool, n, c)
       /\ pool' = Minus(Plus(pool, c, Block(n, n, Copied(pool[b], n))), {b})
       /\ clients' = (clients \ {b}) \cup {c}
       /\ Ok
  \/ Refuses(pool, n) /\ Fail(Why(n)) /\ UNCHANGED <<pool, clients>>

realloc(b, n) ==
  \/ b = NULL /\ malloc(n)
  \/ b # NULL /\ n = 0 /\ free(b)
  \/ b # NULL /\ n # 0 /\ Move(b, n)
  \/ /\ b # NULL /\ n # 0 /\ "Signature" \in MayFail
     /\ Fail("ENOMEM") /\ UNCHANGED <<pool, clients>>

\* A client fills a block it has, or clears errno before a call.
Write(b) ==
  /\ pool' = [pool EXCEPT ![b].written = pool[b].size]
  /\ Ok /\ UNCHANGED clients
ClearErrno ==
  /\ errno' = "none" /\ last' = "ok"
  /\ UNCHANGED <<pool, clients>>
=============================================================================
