------------------------------- MODULE Stdio --------------------------------
(***************************************************************************)
(* fopen() and fclose() of the Release build, between clients of malloc()  *)
(* that share the pool with them.                                          *)
(*                                                                         *)
(* A FILE is a block, and has another for its name.  It keeps two handles  *)
(* of the firmware open: the volume's root and the file.  fopen() takes    *)
(* them one after the other, and each step may find the firmware out of    *)
(* blocks or handles, or failing; the calls come in any order.             *)
(***************************************************************************)
EXTENDS PoolHeap

CONSTANTS
  Handles,   \* what the firmware can hand out
  Names,     \* the names of files
  Length,    \* their lengths
  Present,   \* those that are there
  Modes,     \* the modes: [first |-> character, plus |-> is there a '+' in it]
  FileSize,  \* the size of a FILE with its buffer
  Sizes      \* what the clients of malloc() ask for: a bound on the model only

\* to_char16: two bytes for each character and the end.
NameSize(name) == 2 * (Length[name] + 1)

ASSUME StdioAssumption ==
  /\ Length \in [Names -> Nat] /\ Present \subseteq Names
  /\ \A name \in Names : NameSize(name) < SizeMod
  /\ FileSize \in Nat \ {0} /\ Sizes \subseteq 0 .. SizeMod - 1
  /\ NULL \notin Handles

VARIABLES
  call,      \* the call of fopen: its step, and what it has
  files,     \* the FILEs: their names and handles, by their blocks
  roots,     \* the handles that are open on the root of the volume
  opened,    \* and on files
  lost       \* history: the roots that failing calls of fopen left open

stdioVars == <<heapVars, call, files, roots, opened, lost>>
handleVars == <<files, roots, opened, lost>>

Idle == [at |-> "idle", name |-> NULL, flags |-> {}, file |-> NULL, root |-> NULL,
         chars |-> NULL]

StdioInit ==
  /\ pool = <<>> /\ clients = {} /\ errno = "none" /\ last = "ok"
  /\ call = Idle /\ files = <<>> /\ roots = {} /\ opened = {} /\ lost = {}

FreeHandles == Handles \ (roots \cup opened)

----------------------------------------------------------------------------
(* fopen()                                                                 *)

\* strchr finds the end of "rwa", too: an empty mode is one.
ModeIsValid(mode) == mode.first \in {"r", "w", "a", ""}

__fmodeflags(mode) ==
  (IF mode.plus THEN {"READ", "WRITE"} ELSE IF mode.first = "r" THEN {"READ"} ELSE {"WRITE"})
  \cup (IF mode.first # "r" THEN {"WRITE"} ELSE {})

\* EFI_FILE_PROTOCOL.Open accepts READ, READ and WRITE, or all three with CREATE.
Opens(name, flags) == name \in Present /\ "READ" \in flags

\* The call goes on, or is over.
GoesOn(c) == call' = c /\ last' = "running" /\ UNCHANGED errno
GivesUp(why) == call' = Idle /\ Fail(why)

fopen(name, mode) ==
  /\ call = Idle
  /\ \/ ~ModeIsValid(mode) /\ GivesUp("EINVAL") /\ UNCHANGED pool
     \/ ModeIsValid(mode) /\ Refuses(pool, FileSize) /\ GivesUp("ENOMEM") /\ UNCHANGED pool
     \/ /\ ModeIsValid(mode)
        /\ \E f \in Blocks :
             /\ Gives(pool, FileSize, f)
             /\ pool' = Plus(pool, f, Block(FileSize, FileSize, FileSize))
             /\ GoesOn([Idle EXCEPT !.at = "volume", !.name = name,
                                   !.flags = __fmodeflags(mode), !.file = f])
  /\ UNCHANGED <<clients, handleVars>>

\* HandleProtocol, OpenProtocol and OpenVolume.
OpenVolume ==
  /\ call.at = "volume"
  /\ \E r \in FreeHandles :
       /\ roots' = roots \cup {r}
       /\ GoesOn([call EXCEPT !.at = "name", !.root = r])
  /\ UNCHANGED <<pool, clients, files, opened, lost>>

VolumeFails ==
  /\ call.at = "volume"
  /\ MayFail \cap {"LoadedImage", "OpenProtocol", "OpenVolume"} # {} \/ FreeHandles = {}
  /\ pool' = Minus(pool, {call.file})
  /\ GivesUp("EACCES")
  /\ UNCHANGED <<clients, handleVars>>

to_char16 ==
  /\ call.at = "name" /\ Length[call.name] # 0
  /\ \E n \in Blocks :
       /\ Gives(pool, NameSize(call.name), n)
       /\ pool' = Plus(pool, n, Block(NameSize(call.name), NameSize(call.name),
                                    NameSize(call.name)))
       /\ GoesOn([call EXCEPT !.at = "open", !.chars = n])
  /\ UNCHANGED <<clients, handleVars>>

\* A failure from here on leaves the root open.
LosesRoot == lost' = lost \cup {call.root} /\ UNCHANGED <<clients, files, roots, opened>>

\* calloc has set errno, but an empty name has not.  (Wrong: neither has.)
NoNameMutSilent ==
  /\ call.at = "name"
  /\ pool' = Minus(pool, {call.file}) /\ call' = Idle
  /\ \/ Length[call.name] = 0 /\ last' = "failed" /\ UNCHANGED errno
     \/ /\ Length[call.name] # 0 /\ Refuses(pool, NameSize(call.name))
        /\ last' = "failed" /\ UNCHANGED errno
  /\ LosesRoot
NoName ==
  /\ call.at = "name"
  /\ pool' = Minus(pool, {call.file}) /\ call' = Idle
  /\ \/ Length[call.name] = 0 /\ last' = "failed" /\ UNCHANGED errno
     \/ /\ Length[call.name] # 0 /\ Refuses(pool, NameSize(call.name))
        /\ Fail("ENOMEM")
  /\ LosesRoot

FILE(n, r, h) == [name |-> n, root |-> r, file |-> h]
Open ==
  /\ call.at = "open" /\ Opens(call.name, call.flags)
  /\ \E h \in FreeHandles :
       /\ files' = Plus(files, call.file, FILE(call.chars, call.root, h))
       /\ opened' = opened \cup {h}
  /\ call' = Idle /\ Ok
  /\ UNCHANGED <<pool, clients, roots, lost>>

\* The FILE and its name are freed.  (Wrong: only the FILE is.)
OpenFailsMutKeepsName ==
  /\ call.at = "open"
  /\ ~Opens(call.name, call.flags) \/ "Open" \in MayFail \/ FreeHandles = {}
  /\ pool' = Minus(pool, {call.file})
  /\ LosesRoot /\ GivesUp("EACCES")
OpenFails ==
  /\ call.at = "open"
  /\ ~Opens(call.name, call.flags) \/ "Open" \in MayFail \/ FreeHandles = {}
  /\ pool' = Minus(pool, {call.chars, call.file})
  /\ LosesRoot /\ GivesUp("EACCES")

----------------------------------------------------------------------------
(* fclose()                                                                *)

\* The name and both handles are given back whether Close fails or not.
__stdio_close(f) ==
  /\ opened' = opened \ {files[f].file} /\ roots' = roots \ {files[f].root}
  /\ pool' = Minus(pool, {f, files[f].name})
  /\ Ok \/ ("Close" \in MayFail /\ Fail("EBADF"))

fclose(f) ==
  /\ __stdio_close(f)
  /\ files' = Minus(files, {f})
  /\ UNCHANGED <<clients, lost>>

----------------------------------------------------------------------------

\* One thread makes all calls: the others wait for fopen to return.
Malloc == \E n \in Sizes : malloc(n)
Calloc == \E m, n \in Sizes : calloc(m, n)
Realloc == \E b \in clients \cup {NULL}, n \in Sizes : realloc(b, n)
Free == \E b \in clients : free(b)
WriteBlock == \E b \in clients : Write(b)
Client ==
  /\ call = Idle
  /\ Malloc \/ Calloc \/ Realloc \/ Free \/ WriteBlock \/ ClearErrno
  /\ UNCHANGED <<call, handleVars>>

Fopen == \E name \in Names, mode \in Modes : fopen(name, mode)
Fclose == call = Idle /\ (\E f \in DOMAIN files : fclose(f)) /\ UNCHANGED call

StdioNext ==
  \/ Client \/ Fopen \/ OpenVolume \/ VolumeFails \/ to_char16 \/ NoName
  \/ Open \/ OpenFails \/ Fclose

StdioSpec == StdioInit /\ [][StdioNext]_stdioVars

----------------------------------------------------------------------------
(* Properties                                                              *)

\* What a FILE has, and the call of fopen.
BlocksOf(f) == {f, files[f].name}
HandlesOf(f) == {files[f].root, files[f].file}
CallBlocks == {call.file, call.chars} \ {NULL}
CallRoots == {call.root} \ {NULL}

\* The variables have their types, and the call of fopen has what its step needs.
StdioTypeOK ==
  /\ DOMAIN pool \subseteq Blocks /\ clients \subseteq DOMAIN pool
  /\ pool \in [DOMAIN pool -> [asked : Nat, size : Nat, written : Nat]]
  /\ call \in [at : {"idle", "volume", "name", "open"}, name : Names \cup {NULL},
               flags : SUBSET {"READ", "WRITE"}, file : Blocks \cup {NULL},
               root : Handles \cup {NULL}, chars : Blocks \cup {NULL}]
  /\ call.at = "idle" => call = Idle
  /\ call.at # "idle" => call.name \in Names /\ call.file \in Blocks
  /\ call.root # NULL <=> call.at \in {"name", "open"}
  /\ call.chars # NULL <=> call.at = "open"
  /\ DOMAIN files \subseteq Blocks
  /\ files \in [DOMAIN files -> [name : Blocks, root : Handles, file : Handles]]
  /\ roots \subseteq Handles /\ opened \subseteq Handles /\ lost \subseteq Handles
  /\ errno \in {"none", "EINVAL", "ENOMEM", "EACCES", "EBADF"}
  /\ last \in {"ok", "failed", "running"}

\* Whatever fails between the allocations and the calls of the firmware, every
\* block has one owner, a client, a FILE or the call of fopen under way, and every
\* open handle belongs to one of the latter two: only a call of fopen that fails
\* behind OpenVolume leaves a root open.
OneOwnerEach ==
  /\ DOMAIN pool = clients \cup CallBlocks \cup UNION {BlocksOf(f) : f \in DOMAIN files}
  /\ clients \cap CallBlocks = {}
  /\ call # Idle => call.file # call.chars
  /\ opened = {files[f].file : f \in DOMAIN files}
  /\ roots = lost \cup CallRoots \cup {files[f].root : f \in DOMAIN files}
  /\ CallRoots \cap (lost \cup opened) = {}
  /\ \A f \in DOMAIN files :
       /\ BlocksOf(f) \cap (clients \cup CallBlocks) = {} /\ f # files[f].name
       /\ files[f].root \notin opened \cup lost \cup CallRoots
  /\ \A f, g \in DOMAIN files :
       f # g => BlocksOf(f) \cap BlocksOf(g) = {} /\ HandlesOf(f) \cap HandlesOf(g) = {}

\* Every block has room for what was asked of malloc(), calloc() or realloc():
\* no product of calloc() wraps to a smaller one.
AsLargeAsAsked == \A b \in DOMAIN pool : pool[b].size >= pool[b].asked

\* A call that fails, at whatever step, leaves a reason in errno, so that a caller
\* who cleared it can tell; but fopen of an empty name fails and leaves errno as
\* it was.  No other failure is silent.
EmptyName == call.at = "name" /\ Length[call.name] = 0
FailureSaysWhy ==
  [][last' = "failed" => errno' # "none" \/ (EmptyName /\ UNCHANGED errno)]_stdioVars

\* realloc() of a block either leaves it, with what was written to it, or moves
\* as much of that to a new block as fits; no other call, nor a failing one,
\* takes a client's block or what it wrote.
ReallocKeeps ==
  [][\A b \in clients :
       \/ /\ b \in clients' /\ pool'[b].size = pool[b].size
          /\ pool'[b].written >= pool[b].written
       \/ \E c \in clients' \ clients :
            /\ clients' = (clients \ {b}) \cup {c}
            /\ pool'[c].written = Smaller(pool[b].written, pool'[c].size)
       \/ last' = "ok" /\ clients' = clients \ {b}]_stdioVars
=============================================================================
