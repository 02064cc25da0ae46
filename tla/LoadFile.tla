------------------------------ MODULE LoadFile ------------------------------
(***************************************************************************)
(* load_file() and load_file2(): how init() brings the font into memory    *)
(* when NEW_MEMORY_FACE is defined, with BOOT_PARTITION_FILE_ACCESS.       *)
(*                                                                         *)
(* Each call of the firmware or of malloc is a step.  A call may return    *)
(* any status; what is not an error, a warning too, counts as success.     *)
(***************************************************************************)
EXTENDS EfiStatus

CONSTANTS
  Statuses,   \* what the firmware may return
  FileSizes,  \* how large the file may be
  LongMod     \* 2^32: an FT_Long has 32 bits

ASSUME LoadAssumption ==
  /\ Statuses \subseteq Nat
  /\ FileSizes \subseteq Nat
  /\ LongMod \in Nat \ {0}

VARIABLES
  pc,           \* the call that comes next, "done", or "failed": error_print
  fsize,        \* the size of the file
  open,         \* the handles that are open: "root", "file"
  pool,         \* the blocks that are not freed: "info", "buffer"
  info_size,    \* what the first GetInfo asked for
  buffer_size,  \* *buffer_size
  allocated,    \* the size of the block in *buffer, 0 if *buffer is NULL
  shown,        \* what the message says about the status
  failing       \* history: the status that the failing call returned

loadVars == <<pc, fsize, open, pool, info_size, buffer_size, allocated, shown, failing>>

NoStatus == -2

LoadInit ==
  /\ pc = "OpenProtocol"
  /\ fsize \in FileSizes
  /\ open = {} /\ pool = {}
  /\ info_size = 0 /\ buffer_size = 0 /\ allocated = 0
  /\ shown = NoStatus /\ failing = NoStatus

Errors == {s \in Statuses : EFI_ERROR(s)}

\* error_print(msg, &status) and error_print(msg, NULL).
ErrorPrint(status) ==
  /\ pc' = "failed"
  /\ shown' = print_status_msg(status)
ErrorPrintNull ==
  /\ pc' = "failed" /\ failing' = NoStatus
  /\ UNCHANGED shown

\* The call returned an error.  It goes through load_file2() to load_file(),
\* which prints it.  (Wrong: load_file() prints the status that its own
\* call returned.)
FailsMutOwnStatus == \E s \in Errors : failing' = s /\ ErrorPrint(EFI_SUCCESS)
Fails == \E s \in Errors : failing' = s /\ ErrorPrint(s)
Succeeds(next) == pc' = next /\ UNCHANGED <<shown, failing>>

noData == <<pool, info_size, buffer_size, allocated>>

OpenProtocol ==
  /\ pc = "OpenProtocol"
  /\ Succeeds("OpenVolume") \/ Fails
  /\ UNCHANGED <<fsize, open, noData>>

OpenVolume ==
  /\ pc = "OpenVolume"
  /\ \/ Succeeds("Open") /\ open' = {"root"}
     \/ Fails /\ UNCHANGED open
  /\ UNCHANGED <<fsize, noData>>

\* Nothing closes the root again.
Open ==
  /\ pc = "Open"
  /\ \/ Succeeds("GetSize") /\ open' = open \cup {"file"}
     \/ Fails /\ UNCHANGED open
  /\ UNCHANGED <<fsize, noData>>

\* The first GetInfo has no buffer.  EFI_BUFFER_TOO_SMALL comes with the size it
\* needs; a success would leave that at 0.
GetSize ==
  /\ pc = "GetSize"
  /\ \/ Succeeds("AllocInfo") /\ info_size' \in {0, 1}
     \/ /\ \E s \in Errors \ {EFI_BUFFER_TOO_SMALL} : failing' = s /\ ErrorPrint(s)
        /\ UNCHANGED info_size
  /\ UNCHANGED <<fsize, open, pool, buffer_size, allocated>>

AllocInfo ==
  /\ pc = "AllocInfo"
  /\ \/ Succeeds("GetInfo") /\ pool' = pool \cup {"info"}
     \/ ErrorPrintNull /\ UNCHANGED pool
  /\ UNCHANGED <<fsize, open, info_size, buffer_size, allocated>>

\* The second fills the buffer if it is large enough.  Both ways free it.
\* (Wrong: not if it fails.)
GetInfoMutKeepsInfo ==
  /\ pc = "GetInfo"
  /\ \/ info_size = 1 /\ Succeeds("Alloc") /\ buffer_size' = fsize /\ pool' = pool \ {"info"}
     \/ Fails /\ UNCHANGED <<buffer_size, pool>>
  /\ UNCHANGED <<fsize, open, info_size, allocated>>
GetInfo ==
  /\ pc = "GetInfo"
  /\ \/ info_size = 1 /\ Succeeds("Alloc") /\ buffer_size' = fsize
     \/ Fails /\ UNCHANGED buffer_size
  /\ pool' = pool \ {"info"}
  /\ UNCHANGED <<fsize, open, info_size, allocated>>

\* malloc() refuses 0 bytes.
Alloc ==
  /\ pc = "Alloc"
  /\ \/ /\ buffer_size # 0
        /\ Succeeds("Read")
        /\ pool' = pool \cup {"buffer"} /\ allocated' = buffer_size
     \/ ErrorPrintNull /\ UNCHANGED <<pool, allocated>>
  /\ UNCHANGED <<fsize, open, info_size, buffer_size>>

FreeBuffer == pool' = pool \ {"buffer"} /\ allocated' = 0

\* Read stores in *buffer_size how much there was.  When it fails it may have
\* stored less than was asked for.
Read ==
  /\ pc = "Read"
  /\ \/ Succeeds("Close") /\ buffer_size' = fsize /\ UNCHANGED <<pool, allocated>>
     \/ Fails /\ buffer_size' \in 0 .. buffer_size /\ FreeBuffer
  /\ UNCHANGED <<fsize, open, info_size>>

\* Close closes the file whatever it returns.
Close ==
  /\ pc = "Close"
  /\ open' = open \ {"file"}
  /\ \/ Succeeds("done") /\ UNCHANGED <<pool, allocated>>
     \/ Fails /\ FreeBuffer
  /\ UNCHANGED <<fsize, info_size, buffer_size>>

LoadNext ==
  OpenProtocol \/ OpenVolume \/ Open \/ GetSize \/ AllocInfo \/ GetInfo \/ Alloc \/ Read \/ Close

LoadSpec == LoadInit /\ [][LoadNext]_loadVars

\* init() passes an FT_Long in the place of a UINTN, and to FreeType what the
\* low 32 bits of it are, which FT_Open_Args takes without a sign.
MemorySize == buffer_size % LongMod

----------------------------------------------------------------------------
(* Properties                                                              *)

LoadPlaces == {"OpenProtocol", "OpenVolume", "Open", "GetSize", "AllocInfo", "GetInfo",
               "Alloc", "Read", "Close", "done", "failed"}

\* The variables have their types.  No handle is closed that is not open.
LoadTypeOK ==
  /\ pc \in LoadPlaces /\ fsize \in FileSizes
  /\ open \subseteq {"root", "file"} /\ pool \subseteq {"info", "buffer"}
  /\ info_size \in {0, 1} /\ buffer_size \in Nat /\ allocated \in Nat
  /\ shown \in KnownStatuses \cup {Unknown, NoStatus}
  /\ failing \in Errors \cup {NoStatus}

\* When load_file() returns, the buffer is on the heap and holds the file, and
\* FreeType is told of no byte more.  When it does not, *buffer is NULL.  There
\* is no other block in either case.
BufferIsFile ==
  /\ pc = "done" => /\ pool = {"buffer"}
                    /\ allocated = fsize /\ buffer_size = fsize /\ MemorySize <= allocated
  /\ pc = "failed" => pool = {} /\ allocated = 0

\* The message names the status of the call that failed, whichever it was and
\* however many calls were made after it; it names none when memory is short.
MessageTellsStatus ==
  pc = "failed" =>
    shown = IF failing = NoStatus THEN NoStatus
            ELSE IF failing \in KnownStatuses THEN failing ELSE Unknown
=============================================================================
