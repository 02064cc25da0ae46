----------------------------- MODULE BootProofs -----------------------------
(***************************************************************************)
(* The safety properties of Boot for every number of lines, every size of  *)
(* the keyboard buffer and every set of failures.                          *)
(*                                                                         *)
(* What is held must be known at every place of the program, and where a   *)
(* message invites a key: that is HeldInv.                                 *)
(***************************************************************************)
EXTENDS Boot, TLAPS

HeldInv ==
  /\ pc \in {"console", "setup", "banner"} => asked = "none"
  /\ pc \in {"draw", "done_face"} => asked = "banner"
  /\ pc = "console" => step = 1 /\ held = {}
  /\ pc = "setup" =>
       /\ step <= 8
       /\ "library" \in held <=> step > 6
       /\ "face" \in held <=> step > 7
       /\ "gop_handles" \in held => step = 3
  /\ pc \in {"banner", "draw"} =>
       {"library", "face"} \subseteq held /\ "gop_handles" \notin held
  /\ pc = "done_face" => held \subseteq {"mode_info", "library"}
  /\ FaceNeedsLibrary
  /\ CleanExit

KeyInv ==
  /\ pending > 0 => typed
  /\ NeverByItself

BootInv == BootTypeOK /\ HeldInv /\ KeyInv

\* The setup steps by number.
LEMMA SetupByNumber ==
  /\ Len(Setup) = 8
  /\ Setup[1] = "OpenLoadedImage" /\ Setup[2] = "LocateGop" /\ Setup[3] = "OpenGop"
  /\ Setup[4] = "SelectMode" /\ Setup[5] = "SetMode" /\ Setup[6] = "InitFreeType"
  /\ Setup[7] = "NewFace" /\ Setup[8] = "SetPixelSizes"
  BY DEF Setup

\* What each of them acquires and frees.
LEMMA AcquiredByNumber ==
  ASSUME NEW n \in 1 .. 8
  PROVE  /\ Acquired(Setup[n]) \subseteq {"gop_handles", "mode_info", "library", "face"}
         /\ "gop_handles" \in Acquired(Setup[n]) <=> n = 2
         /\ "library" \in Acquired(Setup[n]) <=> n = 6
         /\ "face" \in Acquired(Setup[n]) <=> n = 7
         /\ Freed(Setup[n]) = IF n = 3 THEN {"gop_handles"} ELSE {}
<1>1. n = 1 \/ n = 2 \/ n = 3 \/ n = 4 \/ n = 5 \/ n = 6 \/ n = 7 \/ n = 8
  OBVIOUS
<1> QED
  BY <1>1, SetupByNumber DEF Acquired, Freed

LEMMA BootInitInv == ASSUME BootInit PROVE BootInv
<1>1. BootTypeOK
  <2>1. step \in 1 .. Len(Setup) + 1 /\ line \in 0 .. Lines /\ pending \in 0 .. MaxPending
    BY BootAssumption, SetupByNumber DEF BootInit, BootAssumption
  <2>2. typed \in BOOLEAN /\ answered \in BOOLEAN
    <3>1. typed \in BOOLEAN
      BY SMT DEF BootInit
    <3>2. answered \in BOOLEAN
      BY Zenon DEF BootInit
    <3> QED
      BY <3>1, <3>2
  <2> QED
    BY <2>1, <2>2 DEF BootInit, BootTypeOK
<1>2. HeldInv
  BY DEF BootInit, HeldInv, FaceNeedsLibrary, CleanExit
<1>3. KeyInv
  BY DEF BootInit, KeyInv, NeverByItself
<1> QED
  BY <1>1, <1>2, <1>3 DEF BootInv

\* Every step of the program and of its environment keeps the types ...
LEMMA TypeStep == ASSUME BootInv, BootNext PROVE BootTypeOK'
<1> USE BootAssumption DEF BootInv, BootTypeOK, BootAssumption
<1>1. CASE ResetConsole
  <2>1. pending' \in 0 .. MaxPending
    BY <1>1 DEF ResetConsole
  <2>2. pc' = "setup" /\ typed' \in BOOLEAN
    BY <1>1, Zenon DEF ResetConsole
  <2> QED
    BY <1>1, <2>1, <2>2 DEF ResetConsole
<1>2. CASE NoConsole
  BY <1>2 DEF NoConsole, ErrorPrint
<1>3. CASE SetupStep
  <2>1. step \in 1 .. 8
    BY <1>3, SetupByNumber DEF SetupStep, HeldInv
  <2>2. held' \subseteq {"gop_handles", "mode_info", "library", "face"}
    BY <1>3, <2>1, AcquiredByNumber DEF SetupStep
  <2>3. pc' \in {"setup", "banner"}
    BY <1>3 DEF SetupStep, AfterSetup
  <2>4. step' \in 1 .. Len(Setup) + 1
    BY <1>3, <2>1, SetupByNumber DEF SetupStep
  <2> QED
    BY <1>3, <2>2, <2>3, <2>4 DEF SetupStep
<1>4. CASE SetupFails
  BY <1>4 DEF SetupFails, ErrorPrint
<1>5. CASE ShowBanner
  BY <1>5 DEF ShowBanner
<1>6. CASE DrawLine
  BY <1>6 DEF DrawLine
<1>7. CASE DrawFails
  BY <1>7 DEF DrawFails, ErrorPrint
<1>8. CASE DoneFace
  BY <1>8 DEF DoneFace
<1>9. CASE DoneFreeType
  BY <1>9 DEF DoneFreeType
<1>10. CASE ResetSystem
  BY <1>10 DEF ResetSystem, KeyRead
<1>11. CASE TypeKey
  BY <1>11 DEF TypeKey
<1>12. CASE KeyboardDies
  BY <1>12 DEF KeyboardDies
<1> QED
  BY <1>1, <1>2, <1>3, <1>4, <1>5, <1>6, <1>7, <1>8, <1>9, <1>10, <1>11, <1>12
  DEF BootNext, Program

\* ... what is known of the resources ...
LEMMA HeldStep == ASSUME BootInv, BootNext PROVE HeldInv'
<1> USE DEF BootInv, BootTypeOK, HeldInv, FaceNeedsLibrary, CleanExit
<1>1. CASE ResetConsole
  BY <1>1 DEF ResetConsole
<1>2. CASE NoConsole
  BY <1>2 DEF NoConsole, ErrorPrint
<1>3. CASE SetupStep
  <2>1. step \in 1 .. 8
    BY <1>3, SetupByNumber DEF SetupStep
  <2>2. pc' = IF step = 8 THEN "banner" ELSE "setup"
    BY <1>3, SetupByNumber DEF SetupStep, AfterSetup
  <2>3. /\ "library" \in held' <=> step >= 6
        /\ "face" \in held' <=> step >= 7
        /\ "gop_handles" \in held' => step = 2
    BY <1>3, <2>1, AcquiredByNumber DEF SetupStep
  <2>4. step' = step + 1 /\ asked' = asked /\ asked = "none"
    BY <1>3 DEF SetupStep
  <2> QED
    BY <2>1, <2>2, <2>3, <2>4
<1>4. CASE SetupFails
  BY <1>4 DEF SetupFails, ErrorPrint
<1>5. CASE ShowBanner
  BY <1>5 DEF ShowBanner
<1>6. CASE DrawLine
  BY <1>6 DEF DrawLine
<1>7. CASE DrawFails
  BY <1>7 DEF DrawFails, ErrorPrint
<1>8. CASE DoneFace
  BY <1>8 DEF DoneFace
<1>9. CASE DoneFreeType
  BY <1>9 DEF DoneFreeType
<1>10. CASE ResetSystem
  BY <1>10 DEF ResetSystem
<1>11. CASE TypeKey
  BY <1>11 DEF TypeKey
<1>12. CASE KeyboardDies
  BY <1>12 DEF KeyboardDies
<1> QED
  BY <1>1, <1>2, <1>3, <1>4, <1>5, <1>6, <1>7, <1>8, <1>9, <1>10, <1>11, <1>12
  DEF BootNext, Program

\* ... and what is known of the keyboard.
LEMMA KeyStep == ASSUME BootInv, BootNext PROVE KeyInv'
<1> USE DEF BootInv, BootTypeOK, KeyInv, NeverByItself
<1>1. CASE ResetConsole
  BY <1>1 DEF ResetConsole
<1>2. CASE NoConsole \/ SetupFails \/ DrawFails
  BY <1>2 DEF NoConsole, SetupFails, DrawFails, ErrorPrint
<1>3. CASE SetupStep
  BY <1>3 DEF SetupStep, AfterSetup
<1>4. CASE ShowBanner \/ DrawLine \/ DoneFace \/ DoneFreeType
  BY <1>4 DEF ShowBanner, DrawLine, DoneFace, DoneFreeType
<1>5. CASE ResetSystem
  BY <1>5 DEF ResetSystem, KeyRead
<1>6. CASE TypeKey
  BY <1>6 DEF TypeKey
<1>7. CASE KeyboardDies
  BY <1>7 DEF KeyboardDies
<1> QED
  BY <1>1, <1>2, <1>3, <1>4, <1>5, <1>6, <1>7 DEF BootNext, Program

\* The inductive invariant holds in every reachable state.
THEOREM BootInvariant == BootSpec => []BootInv
<1>1. BootInv /\ [BootNext]_bootVars => BootInv'
  <2> SUFFICES ASSUME BootInv, [BootNext]_bootVars PROVE BootInv'
    OBVIOUS
  <2>1. CASE BootNext
    BY <2>1, TypeStep, HeldStep, KeyStep DEF BootInv
  <2>2. CASE UNCHANGED bootVars
    BY <2>2 DEF bootVars, BootInv, BootTypeOK, HeldInv, KeyInv, FaceNeedsLibrary,
                CleanExit, NeverByItself
  <2> QED
    BY <2>1, <2>2
<1> QED
  BY <1>1, BootInitInv, PTL DEF BootSpec

\* Text is drawn only when every step of the setup has succeeded, so that the
\* library and the face are there.
THEOREM BootDrawsOnlyWhenReady == BootSpec => []DrawsOnlyWhenReady
<1>1. BootInv => DrawsOnlyWhenReady
  BY DEF BootInv, HeldInv, DrawsOnlyWhenReady
<1> QED
  BY <1>1, BootInvariant, PTL

\* The variables have their types.
THEOREM BootTypeCorrect == BootSpec => []BootTypeOK
<1>1. BootInv => BootTypeOK
  BY DEF BootInv
<1> QED
  BY <1>1, BootInvariant, PTL

\* No face outlives its library.
THEOREM BootFaceNeedsLibrary == BootSpec => []FaceNeedsLibrary
<1>1. BootInv => FaceNeedsLibrary
  BY DEF BootInv, HeldInv
<1> QED
  BY <1>1, BootInvariant, PTL

\* The way that does not fail gives everything back but the buffers of QueryMode.
THEOREM BootCleanExit == BootSpec => []CleanExit
<1>1. BootInv => CleanExit
  BY DEF BootInv, HeldInv
<1> QED
  BY <1>1, BootInvariant, PTL

\* With a console, the machine is never reset without a key.
THEOREM BootNeverByItself == BootSpec => []NeverByItself
<1>1. BootInv => NeverByItself
  BY DEF BootInv, KeyInv
<1> QED
  BY <1>1, BootInvariant, PTL

----------------------------------------------------------------------------
(* Steps                                                                   *)

\* A key that is in the buffer while the program asks for one.
KeyWaits == asked # "none" /\ pending > 0

\* How many steps the program has left at most.
Rank ==
  CASE pc = "console"   -> Lines + 13
    [] pc = "setup"     -> Lines + 13 - step
    [] pc = "banner"    -> Lines + 4
    [] pc = "draw"      -> Lines + 3 - line
    [] pc = "done_face" -> 2
    [] pc = "read_key"  -> 1
    [] pc = "off"       -> 0

\* Once the program has asked for a key, what takes the key away is the reset or
\* the death of the keyboard: nothing empties the buffer, and read_key takes
\* one keystroke, with which it resets.
THEOREM BootKeyStays ==
  BootSpec => [][KeyWaits => KeyWaits' \/ pc' = "off" \/ console' = "dead"]_bootVars
<1>1. ASSUME BootInv, BootNext, KeyWaits
      PROVE  KeyWaits' \/ pc' = "off" \/ console' = "dead"
  <2> USE <1>1 DEF KeyWaits, BootInv, BootTypeOK, HeldInv
  <2>1. CASE ResetConsole
    BY <2>1 DEF ResetConsole
  <2>2. CASE NoConsole \/ SetupFails \/ DrawFails
    BY <2>2 DEF NoConsole, SetupFails, DrawFails, ErrorPrint
  <2>3. CASE SetupStep \/ ShowBanner \/ DrawLine \/ DoneFace \/ DoneFreeType
    BY <2>3 DEF SetupStep, ShowBanner, DrawLine, DoneFace, DoneFreeType
  <2>4. CASE ResetSystem
    BY <2>4 DEF ResetSystem
  <2>5. CASE TypeKey
    BY <2>5, BootAssumption DEF TypeKey, BootAssumption
  <2>6. CASE KeyboardDies
    BY <2>6 DEF KeyboardDies
  <2> QED
    BY <2>1, <2>2, <2>3, <2>4, <2>5, <2>6 DEF BootNext, Program
<1>2. BootInv /\ [BootNext]_bootVars
      => [KeyWaits => KeyWaits' \/ pc' = "off" \/ console' = "dead"]_bootVars
  BY <1>1
<1> QED
  BY <1>2, BootInvariant, PTL DEF BootSpec

\* Every step of the program brings it nearer to the reset: it goes through
\* nothing twice, whatever fails and whatever is typed, and the reset is one of
\* its first Lines + 13 steps.
THEOREM BootEveryStepCounts ==
  BootSpec => [][Rank' \in Nat /\ (Program => Rank' < Rank)
                 /\ (~Program => Rank' = Rank)]_bootVars
<1>1. ASSUME BootInv
      PROVE  /\ pc = "console" => Rank = Lines + 13
             /\ pc = "setup" => Rank = Lines + 13 - step /\ step \in 1 .. 8
             /\ pc = "banner" => Rank = Lines + 4
             /\ pc = "draw" => Rank = Lines + 3 - line
             /\ pc = "done_face" => Rank = 2
             /\ pc = "read_key" => Rank = 1
             /\ pc = "off" => Rank = 0
             /\ line \in 0 .. Lines /\ Lines \in Nat
             /\ pc \in {"console", "setup", "banner", "draw", "done_face", "read_key", "off"}
  BY <1>1, SetupByNumber, BootAssumption
  DEF Rank, BootInv, BootTypeOK, HeldInv, BootAssumption
<1>2. ASSUME BootInv, BootInv' PROVE Rank' \in Nat
  BY <1>1, <1>2, SetupByNumber, BootAssumption
  DEF Rank, BootInv, BootTypeOK, HeldInv, BootAssumption
<1>3. ASSUME BootInv, Program PROVE Rank' < Rank
  <2>1. CASE ResetConsole
    BY <1>1, <1>3, <2>1 DEF ResetConsole, Rank, BootInv, HeldInv
  <2>2. CASE NoConsole \/ SetupFails \/ DrawFails
    BY <1>1, <1>3, <2>2 DEF NoConsole, SetupFails, DrawFails, ErrorPrint, Rank
  <2>3. CASE SetupStep
    <3>1. pc' = (IF step = 8 THEN "banner" ELSE "setup") /\ step' = step + 1
      BY <2>3, SetupByNumber DEF SetupStep, AfterSetup
    <3> QED
      BY <1>1, <1>3, <2>3, <3>1 DEF SetupStep, Rank
  <2>4. CASE ShowBanner
    BY <1>1, <1>3, <2>4 DEF ShowBanner, Rank
  <2>5. CASE DrawLine
    BY <1>1, <1>3, <2>5 DEF DrawLine, Rank
  <2>6. CASE DoneFace
    BY <1>1, <1>3, <2>6 DEF DoneFace, Rank
  <2>7. CASE DoneFreeType
    BY <1>1, <1>3, <2>7 DEF DoneFreeType, Rank
  <2>8. CASE ResetSystem
    BY <1>1, <1>3, <2>8 DEF ResetSystem, Rank
  <2> QED
    BY <1>3, <2>1, <2>2, <2>3, <2>4, <2>5, <2>6, <2>7, <2>8 DEF Program
<1>4. ASSUME TypeKey \/ KeyboardDies PROVE Rank' = Rank
  BY <1>4 DEF TypeKey, KeyboardDies, Rank
<1>5. BootInv /\ BootInv' /\ [BootNext]_bootVars
      => [Rank' \in Nat /\ (Program => Rank' < Rank) /\ (~Program => Rank' = Rank)]_bootVars
  BY <1>2, <1>3, <1>4 DEF BootNext
<1> QED
  BY <1>5, BootInvariant, PTL DEF BootSpec

=============================================================================
