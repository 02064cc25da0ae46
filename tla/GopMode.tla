------------------------------ MODULE GopMode ------------------------------
(***************************************************************************)
(* Selection of the graphics mode: the QueryMode loop of init() in         *)
(* efi_main.c and the checks and the SetMode call that follow it.          *)
(*                                                                         *)
(* The firmware offers a list of modes.  The loop asks for them in order   *)
(* until QueryMode stops succeeding (the list is exhausted, or a query     *)
(* fails) or a mode of exactly ScreenWidth columns becomes the best one    *)
(* so far.                                                                 *)
(***************************************************************************)
EXTENDS Naturals

CONSTANTS
  MaxModes,     \* the longest mode list the firmware may offer
  Widths,       \* the horizontal resolutions that occur
  ScreenWidth,  \* SCREEN_WIDTH
  Formats,      \* the pixel formats that occur
  BGR           \* PixelBlueGreenRedReserved8BitPerColor

ASSUME GopAssumption ==
  /\ MaxModes \in Nat
  /\ Widths \subseteq Nat \ {0}
  /\ ScreenWidth \in Nat \ {0}
  /\ BGR \in Formats

VARIABLES
  numModes,              \* how many modes the firmware has
  modeTable,             \* what QueryMode reports of each
  pc,                    \* where init() is
  mode_num,              \* the loop's index
  set_mode_num,          \* the mode to set
  valid_query_mode,      \* some mode has been accepted
  HorizontalResolution   \* the width of the mode to set

gopVars == <<numModes, modeTable, pc, mode_num, set_mode_num,
             valid_query_mode, HorizontalResolution>>

ModeInfo == [fmt : Formats, width : Widths]

\* A terminated selection: SetMode succeeded, or error_print() was called.
Done == {"set", "error"}

----------------------------------------------------------------------------

GopInit ==
  /\ numModes \in 0 .. MaxModes
  /\ modeTable \in [0 .. numModes - 1 -> ModeInfo]
  /\ pc = "query"
  /\ mode_num = 0
  /\ set_mode_num = 0
  /\ valid_query_mode = FALSE
  /\ HorizontalResolution = 0

\* The comparison the loop body makes, and two ways to get it wrong.
AcceptsMutEqual(info) == info.fmt = BGR /\ HorizontalResolution <= info.width
AcceptsMutAnyFormat(info) == HorizontalResolution < info.width
Accepts(info) == info.fmt = BGR /\ HorizontalResolution < info.width

\* The loop asks for a mode the firmware has.
Querying == pc = "query" /\ mode_num < numModes

\* The queried mode is passed over.  (Wrong: `++mode_num` is not reached by
\* the `continue`.)
SkipModeMutNoIncrement ==
  Querying /\ ~Accepts(modeTable[mode_num]) /\ UNCHANGED gopVars
SkipMode ==
  /\ Querying
  /\ ~Accepts(modeTable[mode_num])
  /\ mode_num' = mode_num + 1
  /\ UNCHANGED <<numModes, modeTable, pc, set_mode_num, valid_query_mode,
                 HorizontalResolution>>

\* A mode of this width ends the loop.  (Wrong: it never does.)
LastWidthMutNever(width) == FALSE
LastWidth(width) == width = ScreenWidth

\* The queried mode is the best so far.
TakeMode ==
  /\ Querying
  /\ Accepts(modeTable[mode_num])
  /\ HorizontalResolution' = modeTable[mode_num].width
  /\ set_mode_num' = mode_num
  /\ valid_query_mode' = TRUE
  /\ IF LastWidth(HorizontalResolution')
       THEN pc' = "check" /\ UNCHANGED mode_num
       ELSE mode_num' = mode_num + 1 /\ UNCHANGED pc
  /\ UNCHANGED <<numModes, modeTable>>

\* QueryMode does not succeed.  (Wrong: the index moves on all the same.)
LoopEndsMutIncrement ==
  /\ pc' = "check"
  /\ mode_num' = mode_num + 1
  /\ UNCHANGED <<numModes, modeTable, set_mode_num, valid_query_mode,
                 HorizontalResolution>>
LoopEnds ==
  /\ pc' = "check"
  /\ UNCHANGED <<numModes, modeTable, mode_num, set_mode_num,
                 valid_query_mode, HorizontalResolution>>

\* ... because the list is exhausted, or because the device fails.
ListExhausted == pc = "query" /\ mode_num = numModes /\ LoopEnds
QueryModeFails == Querying /\ LoopEnds

\* The test of valid_query_mode, then SetMode with either outcome.  (Wrong:
\* without the test, mode 0 is set unseen.)
SetModeMutUnchecked ==
  /\ pc = "check"
  /\ pc' \in Done
  /\ UNCHANGED <<numModes, modeTable, mode_num, set_mode_num,
                 valid_query_mode, HorizontalResolution>>
SetMode ==
  /\ pc = "check"
  /\ pc' \in IF valid_query_mode THEN Done ELSE {"error"}
  /\ UNCHANGED <<numModes, modeTable, mode_num, set_mode_num,
                 valid_query_mode, HorizontalResolution>>

InitGop == SkipMode \/ TakeMode \/ ListExhausted \/ SetMode

GopNext == InitGop \/ QueryModeFails

\* init() runs on its own and never waits here; a device failure is never due.
GopSpec == GopInit /\ [][GopNext]_gopVars /\ WF_gopVars(InitGop)

----------------------------------------------------------------------------
(***************************************************************************)
(* Properties                                                              *)
(***************************************************************************)

\* Every variable stays in its type, and the loop never leaves the table.
GopTypeOK ==
  /\ numModes \in 0 .. MaxModes
  /\ modeTable \in [0 .. numModes - 1 -> ModeInfo]
  /\ pc \in {"query", "check", "set", "error"}
  /\ mode_num \in 0 .. numModes
  /\ set_mode_num \in 0 .. MaxModes
  /\ valid_query_mode \in BOOLEAN
  /\ HorizontalResolution \in Widths \cup {0}

\* The modes whose information the loop body has examined.
Examined ==
  {m \in 0 .. numModes - 1 :
     \/ m < mode_num
     \/ m = mode_num /\ valid_query_mode /\ set_mode_num = m}

Usable(m) == modeTable[m].fmt = BGR

\* The accumulator is exact at every iteration: a mode is selected iff a
\* usable one was examined, and then it is the first of the widest usable
\* modes examined (HorizontalResolution, set_mode_num and valid_query_mode
\* of init() always agree with the table).
BestSoFar ==
  /\ valid_query_mode <=> \E m \in Examined : Usable(m)
  /\ ~valid_query_mode => HorizontalResolution = 0
  /\ valid_query_mode =>
       /\ set_mode_num \in Examined
       /\ Usable(set_mode_num)
       /\ HorizontalResolution = modeTable[set_mode_num].width
       /\ \A m \in Examined :
            Usable(m) =>
              /\ modeTable[m].width <= HorizontalResolution
              /\ m < set_mode_num => modeTable[m].width < HorizontalResolution

\* The early exit cannot be missed: the loop never steps past a mode while
\* the best width is SCREEN_WIDTH, so once a usable SCREEN_WIDTH mode is the
\* best, no later, wider mode replaces it.  (A wider mode met EARLIER does
\* hide every SCREEN_WIDTH mode: the comparison is strict.)
NeverPassesScreenWidth ==
  [][mode_num' > mode_num => HorizontalResolution' # ScreenWidth]_gopVars

\* SetMode is reached only with a usable mode; an adapter without one ends in
\* the error message.
SetOnlyUsable == pc = "set" => Usable(set_mode_num)

\* The selection terminates.
SelectionEnds == <>(pc \in Done)

=============================================================================
