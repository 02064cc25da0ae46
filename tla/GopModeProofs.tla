--------------------------- MODULE GopModeProofs ---------------------------
(***************************************************************************)
(* What the mode selection guarantees for every list of modes, every       *)
(* SCREEN_WIDTH and every set of pixel formats.                            *)
(*                                                                         *)
(* GopInv is inductive: the accumulator BestSoFar needs the range of the   *)
(* index (GopTypeOK) and, because Examined counts the mode at the index    *)
(* once it ended the loop, the fact that while the loop is running every   *)
(* selected mode lies strictly below the index.  WidthLeft is the same for *)
(* the early end of the loop; StepsLeft counts the iterations to come.     *)
(***************************************************************************)
EXTENDS GopMode, TLAPS

\* While the loop runs, the selected mode is behind the index.
SelectedBehind == pc = "query" /\ valid_query_mode => set_mode_num < mode_num

\* The loop does not run on with a best width of SCREEN_WIDTH.
WidthLeft == pc = "query" => HorizontalResolution # ScreenWidth

GopInv == GopTypeOK /\ BestSoFar /\ SelectedBehind /\ SetOnlyUsable

\* The widths the loop compares are numbers.
LEMMA WidthsAreNat ==
  ASSUME GopTypeOK
  PROVE  /\ HorizontalResolution \in Nat
         /\ \A m \in 0 .. numModes - 1 : modeTable[m].width \in Nat \ {0}
<1>1. HorizontalResolution \in Nat
  BY GopAssumption DEF GopTypeOK
<1>2. \A m \in 0 .. numModes - 1 : modeTable[m].width \in Widths
  BY DEF GopTypeOK, ModeInfo
<1> QED
  BY <1>1, <1>2, GopAssumption

\* The state before the first QueryMode satisfies the invariant.
LEMMA GopInitInv == GopInit => GopInv
<1> SUFFICES ASSUME GopInit PROVE GopInv
  OBVIOUS
<1>1. GopTypeOK
  <2>1. /\ mode_num \in 0 .. numModes
        /\ set_mode_num \in 0 .. MaxModes
    BY GopAssumption DEF GopInit
  <2> QED
    BY <2>1 DEF GopInit, GopTypeOK
<1>2. Examined = {}
  BY GopAssumption DEF GopInit, Examined
<1>3. BestSoFar /\ SelectedBehind /\ SetOnlyUsable
  BY <1>2 DEF GopInit, BestSoFar, SelectedBehind, SetOnlyUsable
<1> QED
  BY <1>1, <1>3 DEF GopInv

\* Passing over a mode keeps the accumulator exact: the mode is not usable or
\* no wider than the best so far.
LEMMA SkipModeInv == GopInv /\ SkipMode => GopInv'
<1> SUFFICES ASSUME GopInv, SkipMode PROVE GopInv'
  OBVIOUS
<1> USE GopAssumption DEF GopInv, SkipMode, Querying
<1>1. modeTable[mode_num] \in ModeInfo /\ mode_num \in 0 .. numModes - 1
  BY DEF GopTypeOK
<1>2. GopTypeOK'
  BY <1>1 DEF GopTypeOK
<1>3. SelectedBehind'
  BY <1>1 DEF GopTypeOK, SelectedBehind
<1>4. Examined = 0 .. mode_num - 1 /\ Examined' = 0 .. mode_num
  BY <1>1 DEF GopTypeOK, SelectedBehind, Examined
<1>5. BestSoFar'
  <2>1. \A m \in Examined' : m \in Examined \/ m = mode_num
    BY <1>1, <1>4 DEF GopTypeOK
  <2>2. ASSUME Usable(mode_num)
        PROVE  valid_query_mode /\ modeTable[mode_num].width <= HorizontalResolution
    <3>1. modeTable[mode_num].width <= HorizontalResolution
      BY <1>1, <2>2, WidthsAreNat DEF Accepts, Usable
    <3>2. HorizontalResolution # 0
      BY <1>1, <3>1, WidthsAreNat
    <3> QED
      BY <3>1, <3>2 DEF BestSoFar
  <2>3. mode_num \in Examined' /\ Examined \subseteq Examined'
    BY <1>1, <1>4 DEF GopTypeOK
  <2> QED
    BY <1>1, <1>3, <1>4, <2>1, <2>2, <2>3
    DEF GopTypeOK, BestSoFar, Usable, SelectedBehind
<1>6. SetOnlyUsable'
  BY DEF SetOnlyUsable
<1> QED
  BY <1>2, <1>3, <1>5, <1>6

\* Accepting a mode keeps the accumulator exact: it is wider than every usable
\* mode before it.
LEMMA TakeModeInv == GopInv /\ TakeMode => GopInv'
<1> SUFFICES ASSUME GopInv, TakeMode PROVE GopInv'
  OBVIOUS
<1> USE GopAssumption DEF GopInv, TakeMode, Querying
<1>1. modeTable[mode_num] \in ModeInfo /\ mode_num \in 0 .. numModes - 1
  BY DEF GopTypeOK
<1>2. GopTypeOK'
  <2>1. HorizontalResolution' \in Widths
    BY <1>1 DEF ModeInfo
  <2> QED
    BY <1>1, <2>1 DEF GopTypeOK
<1>3. SelectedBehind'
  BY <1>1 DEF GopTypeOK, SelectedBehind, LastWidth
<1>4. Examined = 0 .. mode_num - 1 /\ Examined' = 0 .. mode_num
  BY <1>1 DEF GopTypeOK, SelectedBehind, Examined, LastWidth
<1>5. BestSoFar'
  <2>1. \A m \in Examined' : m \in Examined \/ m = mode_num
    BY <1>1, <1>4 DEF GopTypeOK
  <2>2. modeTable'[mode_num].fmt = BGR /\ mode_num \in Examined'
    BY <1>1, <1>4 DEF GopTypeOK, Usable, Accepts
  <2>3. \A m \in Examined : Usable(m) => modeTable[m].width < HorizontalResolution'
    <3> SUFFICES ASSUME NEW m \in Examined, Usable(m)
                 PROVE  modeTable[m].width < modeTable[mode_num].width
      OBVIOUS
    <3>1. modeTable[m].width <= HorizontalResolution
      BY DEF BestSoFar
    <3>2. /\ modeTable[m].width \in Nat
          /\ modeTable[mode_num].width \in Nat
          /\ HorizontalResolution \in Nat
      BY <1>1, WidthsAreNat DEF Examined
    <3> QED
      BY <3>1, <3>2 DEF Accepts
  <2>4. modeTable[mode_num].width \in Nat
    BY <1>1, WidthsAreNat
  <2>5. \A m \in Examined' : Usable(m)' =>
          /\ modeTable'[m].width <= HorizontalResolution'
          /\ m < mode_num => modeTable'[m].width < HorizontalResolution'
    <3> SUFFICES ASSUME NEW m \in Examined', Usable(m)'
                 PROVE  /\ modeTable'[m].width <= HorizontalResolution'
                        /\ m < mode_num => modeTable'[m].width < HorizontalResolution'
      OBVIOUS
    <3>1. CASE m = mode_num
      <4>1. modeTable'[m].width = HorizontalResolution' /\ ~(m < mode_num)
        BY <3>1, <1>1
      <4> QED
        BY <4>1, <2>4
    <3>2. CASE m # mode_num
      <4>1. m \in Examined /\ Usable(m)
        BY <3>2, <2>1 DEF Usable
      <4>2. modeTable[m].width < HorizontalResolution'
        BY <4>1, <2>3
      <4>3. modeTable[m].width \in Nat
        BY <4>1, WidthsAreNat DEF Examined
      <4> QED
        BY <4>2, <4>3, <2>4
    <3> QED
      BY <3>1, <3>2
  <2> QED
    BY <1>1, <2>2, <2>5 DEF BestSoFar, Usable
<1>6. SetOnlyUsable'
  BY DEF SetOnlyUsable
<1> QED
  BY <1>2, <1>3, <1>5, <1>6

\* The remaining steps leave the accumulator alone; SetMode adds that a mode
\* is set only when one was accepted.
LEMMA OtherStepsInv ==
  GopInv /\ ((LoopEnds /\ pc = "query") \/ SetMode \/ UNCHANGED gopVars) => GopInv'
<1> USE DEF GopInv, GopTypeOK, BestSoFar, Examined, Usable, SelectedBehind,
            SetOnlyUsable, Done
<1>1. ASSUME GopInv, LoopEnds, pc = "query" PROVE GopInv'
  BY <1>1 DEF LoopEnds
<1>2. ASSUME GopInv, SetMode PROVE GopInv'
  BY <1>2 DEF SetMode
<1>3. ASSUME GopInv, UNCHANGED gopVars PROVE GopInv'
  BY <1>3 DEF gopVars
<1> QED
  BY <1>1, <1>2, <1>3

\* Once the best width is SCREEN_WIDTH the loop has ended.
LEMMA WidthLeftInv ==
  ASSUME GopTypeOK, WidthLeft, [GopNext]_gopVars
  PROVE  WidthLeft'
<1>1. CASE TakeMode
  BY <1>1 DEF TakeMode, LastWidth, WidthLeft
<1>2. CASE SkipMode
  BY <1>2 DEF SkipMode, WidthLeft
<1>3. CASE ListExhausted \/ QueryModeFails
  BY <1>3 DEF ListExhausted, QueryModeFails, LoopEnds, WidthLeft
<1>4. CASE SetMode
  <2>1. pc' # "query"
    BY <1>4 DEF SetMode, Done
  <2> QED
    BY <2>1 DEF WidthLeft
<1>5. CASE UNCHANGED gopVars
  BY <1>5 DEF gopVars, WidthLeft
<1> QED
  BY <1>1, <1>2, <1>3, <1>4, <1>5 DEF GopNext, InitGop

\* The inductive invariant of the selection loop of init().
THEOREM GopInvariant == GopSpec => []GopInv
<1>1. GopInv /\ [GopNext]_gopVars => GopInv'
  BY SkipModeInv, TakeModeInv, OtherStepsInv
  DEF GopNext, InitGop, ListExhausted, QueryModeFails, Querying
<1> QED
  BY GopInitInv, <1>1, PTL DEF GopSpec

\* The loop index never leaves the firmware's list.
THEOREM GopTypeCorrect == GopSpec => []GopTypeOK
  BY GopInvariant, PTL DEF GopInv

\* At every iteration the mode to set is the first of the widest usable modes
\* examined so far.
THEOREM GopBestSoFar == GopSpec => []BestSoFar
  BY GopInvariant, PTL DEF GopInv

\* Whatever the list, SetMode succeeds only on a mode draw_text can draw to.
THEOREM GopSetOnlyUsable == GopSpec => []SetOnlyUsable
  BY GopInvariant, PTL DEF GopInv

----------------------------------------------------------------------------
(* What a step does                                                        *)

\* The early end of the loop is never missed, whatever list the firmware has.
THEOREM GopNeverPassesScreenWidth == GopSpec => NeverPassesScreenWidth
<1>1. GopInit => WidthLeft
  BY GopAssumption DEF GopInit, WidthLeft
<1>2. GopSpec => [](GopTypeOK /\ WidthLeft)
  BY <1>1, WidthLeftInv, GopTypeCorrect, PTL DEF GopSpec
<1>3. ASSUME GopTypeOK, WidthLeft, [GopNext]_gopVars
      PROVE  [mode_num' > mode_num => HorizontalResolution' # ScreenWidth]_gopVars
  <2>1. mode_num \in Nat
    BY <1>3, GopAssumption DEF GopTypeOK
  <2>2. CASE SkipMode
    BY <1>3, <2>2 DEF SkipMode, Querying, WidthLeft
  <2>3. CASE TakeMode
    BY <2>1, <2>3 DEF TakeMode, LastWidth
  <2>4. CASE ListExhausted \/ QueryModeFails \/ SetMode
    BY <2>1, <2>4 DEF ListExhausted, QueryModeFails, LoopEnds, SetMode
  <2> QED
    BY <1>3, <2>2, <2>3, <2>4 DEF GopNext, InitGop
<1> QED
  BY <1>2, <1>3, PTL DEF GopSpec, NeverPassesScreenWidth

\* How many steps of init() are left at most.
StepsLeft ==
  CASE pc = "query" -> numModes - mode_num + 2
    [] pc = "check" -> 1
    [] OTHER        -> 0

\* The selection ends after at most one step for each mode and two more: no
\* iteration of the loop leaves it where it was.
THEOREM GopEveryStepCounts ==
  GopSpec =>
    [][/\ StepsLeft <= MaxModes + 2
       /\ StepsLeft' \in Nat /\ StepsLeft' < StepsLeft]_gopVars
<1>1. ASSUME GopTypeOK, [GopNext]_gopVars
      PROVE  [/\ StepsLeft <= MaxModes + 2
              /\ StepsLeft' \in Nat /\ StepsLeft' < StepsLeft]_gopVars
  <2>1. /\ numModes \in Nat /\ numModes <= MaxModes /\ MaxModes \in Nat
        /\ mode_num \in Nat /\ mode_num <= numModes
    BY <1>1, GopAssumption DEF GopTypeOK
  <2>2. CASE SkipMode
    BY <2>1, <2>2 DEF SkipMode, Querying, StepsLeft
  <2>3. CASE TakeMode
    BY <2>1, <2>3 DEF TakeMode, Querying, StepsLeft
  <2>4. CASE ListExhausted \/ QueryModeFails
    BY <2>1, <2>4 DEF ListExhausted, QueryModeFails, Querying, LoopEnds, StepsLeft
  <2>5. CASE SetMode
    <3>1. pc = "check" /\ pc' \in {"set", "error"}
      BY <2>5 DEF SetMode, Done
    <3> QED
      BY <2>1, <3>1 DEF StepsLeft
  <2> QED
    BY <1>1, <2>2, <2>3, <2>4, <2>5 DEF GopNext, InitGop
<1> QED
  BY <1>1, GopTypeCorrect, PTL DEF GopSpec

=============================================================================
