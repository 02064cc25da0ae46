--------------------------- MODULE LoadFileProofs ---------------------------
(***************************************************************************)
(* load_file() for files of every size and all statuses.  Progress says    *)
(* what is on the heap and what is known of the file before each call.     *)
(***************************************************************************)
EXTENDS LoadFile, TLAPS

----------------------------------------------------------------------------
(* print_status_msg()                                                      *)

\* The description of a status that UEFI defines is its own; every other status
\* is unknown.
LEMMA MessageOf ==
  ASSUME NEW s \in Nat
  PROVE print_status_msg(s) = IF s \in KnownStatuses THEN s ELSE Unknown
<1> DEFINE tbl == IF EFI_ERROR(s) THEN err_tbl ELSE warn_tbl
           hits == {n \in DOMAIN tbl : tbl[n] = s}
           first == CHOOSE n \in hits : \A m \in hits : n <= m
<1>1. print_status_msg(s) = IF hits = {} THEN Unknown ELSE tbl[first]
  BY DEF print_status_msg
<1>2. DOMAIN err_tbl = 1 .. 34 /\ DOMAIN warn_tbl = 1 .. 7
  BY DEF err_tbl, warn_tbl
<1>3. /\ err_tbl[1] = 0
      /\ \A n \in 2 .. 29 : err_tbl[n] = ErrorBit + n - 1
      /\ \A n \in 30 .. 34 : err_tbl[n] = ErrorBit + n + 1
      /\ \A n \in 1 .. 7 : warn_tbl[n] = n - 1
  BY StatusAssumption DEF err_tbl, warn_tbl, EFIERR, EFI_SUCCESS
<1>4. \A m, n \in DOMAIN tbl : tbl[m] = s /\ tbl[n] = s => m = n
  <2>1. CASE EFI_ERROR(s)
    BY <2>1, <1>2, <1>3, StatusAssumption DEF EFI_ERROR
  <2>2. CASE ~EFI_ERROR(s)
    BY <2>2, <1>2, <1>3
  <2>3. QED
    BY <2>1, <2>2
<1>5. hits # {} <=> s \in KnownStatuses
  <2>1. CASE EFI_ERROR(s)
    <3>1. ASSUME s \in KnownStatuses PROVE \E n \in 1 .. 34 : err_tbl[n] = s
      <4>1. PICK c \in ErrorCodes : s = ErrorBit + c
        BY <3>1, <2>1, StatusAssumption DEF KnownStatuses, EFIERR, EFI_ERROR
      <4>2. CASE c \in 1 .. 28
        <5>1. c + 1 \in 2 .. 29 /\ c + 1 \in 1 .. 34 /\ ErrorBit + (c + 1) - 1 = s
          BY <4>1, <4>2, StatusAssumption
        <5>2. QED
          BY <5>1, <1>3
      <4>3. CASE c \in 31 .. 35
        <5>1. c - 1 \in 30 .. 34 /\ c - 1 \in 1 .. 34 /\ ErrorBit + (c - 1) + 1 = s
          BY <4>1, <4>3, StatusAssumption
        <5>2. QED
          BY <5>1, <1>3
      <4>4. QED
        BY <4>2, <4>3 DEF ErrorCodes
    <3>2. ASSUME NEW n \in 1 .. 34, err_tbl[n] = s PROVE s \in KnownStatuses
      <4>1. CASE n = 1
        BY <4>1, <3>2, <2>1, <1>3, StatusAssumption DEF EFI_ERROR
      <4>2. CASE n \in 2 .. 29
        <5>1. s = EFIERR(n - 1) /\ n - 1 \in ErrorCodes
          BY <4>2, <3>2, <1>3, StatusAssumption DEF EFIERR, ErrorCodes
        <5>2. QED
          BY <5>1 DEF KnownStatuses
      <4>3. CASE n \in 30 .. 34
        <5>1. s = EFIERR(n + 1) /\ n + 1 \in ErrorCodes
          BY <4>3, <3>2, <1>3, StatusAssumption DEF EFIERR, ErrorCodes
        <5>2. QED
          BY <5>1 DEF KnownStatuses
      <4>4. QED
        BY <4>1, <4>2, <4>3
    <3>3. QED
      BY <3>1, <3>2, <2>1, <1>2
  <2>2. CASE ~EFI_ERROR(s)
    <3>1. s \in KnownStatuses <=> s \in 0 .. 6
      BY <2>2, StatusAssumption DEF KnownStatuses, EFIERR, EFI_ERROR, ErrorCodes
    <3>2. s \in 0 .. 6 => s + 1 \in 1 .. 7 /\ warn_tbl[s + 1] = s
      BY <1>3
    <3>3. \A n \in 1 .. 7 : warn_tbl[n] = s => s \in 0 .. 6
      BY <1>3
    <3>4. QED
      BY <3>1, <3>2, <3>3, <2>2, <1>2
  <2>3. QED
    BY <2>1, <2>2
<1>6. hits # {} => tbl[first] = s
  <2>1. ASSUME hits # {} PROVE first \in hits
    <3>1. PICK n \in hits : TRUE
      BY <2>1
    <3>2. hits \subseteq 1 .. 34
      BY <1>2
    <3>3. \A m \in hits : n <= m
      BY <3>1, <3>2, <1>4
    <3>4. QED
      BY <3>1, <3>3
  <2>2. QED
    BY <2>1
<1>7. QED
  BY <1>1, <1>5, <1>6

----------------------------------------------------------------------------
(* The invariant                                                           *)

Early == {"OpenProtocol", "OpenVolume", "Open", "GetSize", "AllocInfo"}
Progress ==
  /\ pc \in Early \cup {"Alloc", "failed"} => pool = {} /\ allocated = 0
  /\ pc = "GetInfo" => pool = {"info"} /\ allocated = 0
  /\ pc \in {"Alloc", "Read"} => buffer_size = fsize
  /\ pc \in {"Read", "Close", "done"} => pool = {"buffer"} /\ allocated = fsize
  /\ pc \in {"Close", "done"} => buffer_size = fsize
Told ==
  /\ pc # "failed" => failing = NoStatus /\ shown = NoStatus
  /\ MessageTellsStatus

LoadInv == LoadTypeOK /\ Progress /\ Told

\* What is printed for an error is its name, or that it is unknown.
LEMMA FailsFacts ==
  ASSUME NEW s \in Errors, failing' = s, ErrorPrint(s)
  PROVE /\ pc' = "failed" /\ failing' \in Errors /\ failing' # NoStatus
        /\ shown' = IF s \in KnownStatuses THEN s ELSE Unknown
<1>1. s \in Nat
  BY LoadAssumption DEF Errors
<1>2. QED
  BY <1>1, MessageOf DEF ErrorPrint, NoStatus

\* The first state is in order.
LEMMA LoadInitInv == LoadInit => LoadInv
BY LoadAssumption DEF LoadInit, LoadInv, LoadTypeOK, LoadPlaces, Progress, Early, Told,
                      MessageTellsStatus

\* Every step keeps the types and what is told of a failure.
LEMMA LoadTypeStep ==
  ASSUME LoadInv, [LoadNext]_loadVars
  PROVE LoadTypeOK' /\ Told'
<1> DEFINE told == /\ shown' \in KnownStatuses \cup {Unknown, NoStatus}
                   /\ failing' \in Errors \cup {NoStatus} /\ Told'
<1>0. LoadTypeOK /\ Told
  BY DEF LoadInv
<1>1. ASSUME Fails PROVE told /\ pc' = "failed"
  <2>1. PICK s \in Errors : failing' = s /\ ErrorPrint(s)
    BY <1>1 DEF Fails
  <2>2. QED
    BY <2>1, FailsFacts DEF Told, MessageTellsStatus
<1>2. ASSUME NEW p \in LoadPlaces \ {"failed"}, Succeeds(p), pc # "failed" PROVE told /\ pc' = p
  BY <1>0, <1>2 DEF Succeeds, Told, MessageTellsStatus, LoadTypeOK
<1>3. ASSUME ErrorPrintNull, pc # "failed" PROVE told /\ pc' = "failed"
  BY <1>0, <1>3 DEF ErrorPrintNull, Told, MessageTellsStatus, LoadTypeOK
<1>4. CASE UNCHANGED loadVars
  BY <1>0, <1>4 DEF loadVars, LoadTypeOK, Told, MessageTellsStatus
<1>5. CASE OpenProtocol \/ OpenVolume \/ Open
  <2>1. told /\ pc' \in LoadPlaces
    BY <1>5, <1>1, <1>2 DEF OpenProtocol, OpenVolume, Open, LoadPlaces
  <2>2. QED
    BY <1>0, <1>5, <2>1 DEF OpenProtocol, OpenVolume, Open, noData, LoadTypeOK
<1>6. CASE GetSize
  <2>1. told /\ pc' \in LoadPlaces
    <3>1. (\E s \in Errors \ {EFI_BUFFER_TOO_SMALL} : failing' = s /\ ErrorPrint(s)) => Fails
      BY DEF Fails
    <3>2. QED
      BY <3>1, <1>6, <1>1, <1>2 DEF GetSize, LoadPlaces
  <2>2. QED
    BY <1>0, <1>6, <2>1 DEF GetSize, LoadTypeOK
<1>7. CASE AllocInfo \/ GetInfo \/ Alloc
  <2>1. told /\ pc' \in LoadPlaces
    BY <1>7, <1>1, <1>2, <1>3 DEF AllocInfo, GetInfo, Alloc, LoadPlaces
  <2>2. buffer_size' \in Nat /\ allocated' \in Nat
    BY <1>0, <1>7, LoadAssumption DEF AllocInfo, GetInfo, Alloc, LoadTypeOK
  <2>3. QED
    BY <1>0, <1>7, <2>1, <2>2 DEF AllocInfo, GetInfo, Alloc, LoadTypeOK
<1>8. CASE Read \/ Close
  <2>1. told /\ pc' \in LoadPlaces
    BY <1>8, <1>1, <1>2 DEF Read, Close, LoadPlaces
  <2>2. buffer_size' \in Nat /\ allocated' \in Nat
    BY <1>0, <1>8, LoadAssumption DEF Read, Close, FreeBuffer, LoadTypeOK
  <2>3. QED
    BY <1>0, <1>8, <2>1, <2>2 DEF Read, Close, FreeBuffer, LoadTypeOK
<1>9. QED
  BY <1>4, <1>5, <1>6, <1>7, <1>8 DEF LoadNext

\* Every step keeps the heap to the place in the program.
LEMMA ProgressStep ==
  ASSUME LoadInv, [LoadNext]_loadVars
  PROVE Progress'
<1> USE DEF Progress, Early
<1>0. Progress
  BY DEF LoadInv
<1>1. Fails => pc' = "failed"
  BY DEF Fails, ErrorPrint
<1>2. CASE UNCHANGED loadVars
  BY <1>0, <1>2 DEF loadVars
<1>3. CASE OpenProtocol \/ OpenVolume \/ Open
  BY <1>0, <1>1, <1>3 DEF OpenProtocol, OpenVolume, Open, Succeeds, noData
<1>4. CASE GetSize
  BY <1>0, <1>4 DEF GetSize, Succeeds, ErrorPrint
<1>5. CASE AllocInfo
  BY <1>0, <1>5 DEF AllocInfo, Succeeds, ErrorPrintNull
<1>6. CASE GetInfo
  BY <1>0, <1>1, <1>6 DEF GetInfo, Succeeds
<1>7. CASE Alloc
  BY <1>0, <1>7 DEF Alloc, Succeeds, ErrorPrintNull
<1>8. CASE Read \/ Close
  BY <1>0, <1>1, <1>8 DEF Read, Close, Succeeds, FreeBuffer
<1>9. QED
  BY <1>2, <1>3, <1>4, <1>5, <1>6, <1>7, <1>8 DEF LoadNext

\* In order always.
THEOREM LoadInvariant == LoadSpec => []LoadInv
<1>1. LoadInv /\ [LoadNext]_loadVars => LoadInv'
  BY LoadTypeStep, ProgressStep DEF LoadInv
<1>2. QED
  BY <1>1, LoadInitInv, PTL DEF LoadSpec

\* The variables keep their types.
THEOREM LoadTypeCorrect == LoadSpec => []LoadTypeOK
<1>1. LoadInv => LoadTypeOK
  BY DEF LoadInv
<1>2. QED
  BY <1>1, LoadInvariant, PTL

\* When load_file() returns the buffer is the file, of any size; when it does
\* not, nothing is left on the heap.
THEOREM LoadBufferIsFile == LoadSpec => []BufferIsFile
<1>1. LoadInv => BufferIsFile
  <2> SUFFICES ASSUME LoadInv PROVE BufferIsFile
    OBVIOUS
  <2>1. buffer_size \in Nat /\ MemorySize <= buffer_size
    BY LoadAssumption DEF LoadInv, LoadTypeOK, MemorySize
  <2>2. QED
    BY <2>1 DEF LoadInv, Progress, BufferIsFile
<1>2. QED
  BY <1>1, LoadInvariant, PTL

\* The status that is printed is that of the call that failed.
THEOREM LoadMessageTellsStatus == LoadSpec => []MessageTellsStatus
<1>1. LoadInv => MessageTellsStatus
  BY DEF LoadInv, Told
<1>2. QED
  BY <1>1, LoadInvariant, PTL
=============================================================================
