-------------------------------- MODULE Boot --------------------------------
(***************************************************************************)
(* efi_main() of the Release build: set everything up, announce the        *)
(* reboot, draw the lines of text, give everything back, wait for a key    *)
(* and reset the machine.  Every failure goes through error_print(), which *)
(* waits for a key and resets too.                                         *)
(*                                                                         *)
(* The user types at any time, and the firmware buffers what is typed;     *)
(* the program looks at the keyboard only in read_key().                   *)
(***************************************************************************)
EXTENDS Naturals, Sequences

CONSTANTS
  Lines,       \* the number of lines of text
  MaxPending,  \* how many keystrokes the firmware buffers
  MayFail      \* what can fail: a setup step, "Reset", "Draw", "Keyboard"

\* The steps between the reset of the console and the announcement.
Setup == <<"OpenLoadedImage", "LocateGop", "OpenGop", "SelectMode", "SetMode",
           "InitFreeType", "NewFace", "SetPixelSizes">>

SetupSteps == {"OpenLoadedImage", "LocateGop", "OpenGop", "SelectMode", "SetMode",
               "InitFreeType", "NewFace", "SetPixelSizes"}

ASSUME BootAssumption ==
  /\ Lines \in Nat
  /\ MaxPending \in Nat \ {0}
  /\ MayFail \subseteq SetupSteps \cup {"Reset", "Draw", "Keyboard"}

VARIABLES
  pc,        \* where the program is
  step,      \* the setup step to be done next
  line,      \* the line to be drawn next
  held,      \* what the program has acquired and not given back
  console,   \* the input device: "live", "dead", or "absent" (ConIn is NULL)
  pending,   \* the keystrokes in the firmware's buffer
  asked,     \* the message that invites a key: "none", "banner" or "error"
  typed,     \* a key has been typed since the console was last emptied
  answered   \* a key has been typed since that message was printed

bootVars == <<pc, step, line, held, console, pending, asked, typed, answered>>

BootInit ==
  /\ pc = "console" /\ step = 1 /\ line = 0
  /\ held = {}
  /\ console \in {"live", "dead", "absent"}
  /\ pending \in IF console = "live" THEN 0 .. MaxPending ELSE {0}
  /\ asked = "none"
  /\ typed = (pending > 0)
  /\ answered = FALSE

----------------------------------------------------------------------------
(***************************************************************************)
(* The program                                                             *)
(***************************************************************************)

\* error_print: the message, and on to read_key.  It never returns, because
\* ResetSystem does not.
ErrorPrint ==
  /\ pc' = "read_key"
  /\ asked' = "error" /\ answered' = FALSE
  /\ UNCHANGED <<step, line, held>>

\* ConIn->Reset empties the buffer.
ResetConsole ==
  /\ pc = "console" /\ console = "live"
  /\ pc' = "setup"
  /\ pending' = 0 /\ typed' = FALSE
  /\ UNCHANGED <<step, line, held, console, asked, answered>>

NoConsole ==
  /\ pc = "console" /\ (console # "live" \/ "Reset" \in MayFail)
  /\ ErrorPrint
  /\ UNCHANGED <<console, pending, typed>>

\* What a setup step acquires, and what it frees.  QueryMode's buffers are
\* never freed.
Acquired(s) ==
  CASE s = "LocateGop"    -> {"gop_handles"}
    [] s = "SelectMode"   -> {"mode_info"}
    [] s = "InitFreeType" -> {"library"}
    [] s = "NewFace"      -> {"face"}
    [] OTHER              -> {}
Freed(s) == IF s = "OpenGop" THEN {"gop_handles"} ELSE {}

\* The step that follows; the announcement comes after the last one.
AfterSetup(s) == IF s = Len(Setup) THEN "banner" ELSE "setup"

SetupStep ==
  /\ pc = "setup"
  /\ held' = (held \ Freed(Setup[step])) \cup Acquired(Setup[step])
  /\ step' = step + 1
  /\ pc' = AfterSetup(step)
  /\ UNCHANGED <<line, console, pending, asked, typed, answered>>

\* (Wrong: the program goes on with the next step.)
SetupFailsMutReturns ==
  /\ pc = "setup" /\ Setup[step] \in MayFail
  /\ step' = step + 1
  /\ pc' = AfterSetup(step)
  /\ UNCHANGED <<line, held, console, pending, asked, typed, answered>>
SetupFails ==
  /\ pc = "setup" /\ Setup[step] \in MayFail
  /\ ErrorPrint
  /\ UNCHANGED <<console, pending, typed>>

\* "When you press any key, the system will reboot."
ShowBanner ==
  /\ pc = "banner"
  /\ pc' = "draw"
  /\ asked' = "banner" /\ answered' = FALSE
  /\ UNCHANGED <<step, line, held, console, pending, typed>>

\* The loop ends at the NULL behind the last line.  (Wrong: one too far.)
DrawLineMutOffByOne ==
  /\ pc = "draw" /\ line <= Lines
  /\ line' = line + 1
  /\ UNCHANGED <<pc, step, held, console, pending, asked, typed, answered>>
DrawLine ==
  /\ pc = "draw" /\ line < Lines
  /\ line' = line + 1
  /\ UNCHANGED <<pc, step, held, console, pending, asked, typed, answered>>

\* conv_bitmap or Blt fails in draw_text.
DrawFails ==
  /\ pc = "draw" /\ line < Lines /\ "Draw" \in MayFail
  /\ ErrorPrint
  /\ UNCHANGED <<console, pending, typed>>

\* FT_Done_Face, then FT_Done_FreeType.  (Wrong: the library goes first.)
DoneFaceMutLibraryFirst ==
  /\ pc = "draw" /\ line = Lines
  /\ pc' = "done_face"
  /\ held' = held \ {"library"}
  /\ UNCHANGED <<step, line, console, pending, asked, typed, answered>>
DoneFace ==
  /\ pc = "draw" /\ line = Lines
  /\ pc' = "done_face"
  /\ held' = held \ {"face"}
  /\ UNCHANGED <<step, line, console, pending, asked, typed, answered>>

\* (Wrong: the library is not freed.)
DoneFreeTypeMutForgotten ==
  /\ pc = "done_face"
  /\ pc' = "read_key"
  /\ UNCHANGED <<step, line, held, console, pending, asked, typed, answered>>
DoneFreeType ==
  /\ pc = "done_face"
  /\ pc' = "read_key"
  /\ held' = held \ {"library"}
  /\ UNCHANGED <<step, line, console, pending, asked, typed, answered>>

\* read_key ends: at once without a console, else with a keystroke; while the
\* buffer is empty or the device is dead it polls, which changes nothing.
\* (Wrong: a console that is not there is waited for; a call that returns no
\* key is taken for a key; the keys typed ahead are thrown away.)
KeyReadMutWaits == console = "live" /\ pending > 0 /\ pending' = pending - 1
KeyReadMutNotReady == pending' = 0
KeyReadMutFlush ==
  \/ console = "absent" /\ UNCHANGED pending
  \/ console = "live" /\ pending > 1 /\ pending' = 0
KeyRead ==
  \/ console = "absent" /\ UNCHANGED pending
  \/ console = "live" /\ pending > 0 /\ pending' = pending - 1

\* reset_system.
ResetSystem ==
  /\ pc = "read_key"
  /\ KeyRead
  /\ pc' = "off"
  /\ UNCHANGED <<step, line, held, console, asked, typed, answered>>

Program ==
  \/ ResetConsole \/ NoConsole \/ SetupStep \/ SetupFails \/ ShowBanner
  \/ DrawLine \/ DrawFails \/ DoneFace \/ DoneFreeType \/ ResetSystem

----------------------------------------------------------------------------
(***************************************************************************)
(* The user and the keyboard                                               *)
(***************************************************************************)

\* A key is typed; what does not fit in the buffer is lost.
TypeKey ==
  /\ pc # "off" /\ console = "live"
  /\ pending' = IF pending < MaxPending THEN pending + 1 ELSE pending
  /\ typed' = TRUE /\ answered' = TRUE
  /\ UNCHANGED <<pc, step, line, held, console, asked>>

\* The device stops working: the keys in it are gone.
KeyboardDies ==
  /\ pc # "off" /\ console = "live" /\ "Keyboard" \in MayFail
  /\ console' = "dead" /\ pending' = 0
  /\ UNCHANGED <<pc, step, line, held, asked, typed, answered>>

BootNext == Program \/ TypeKey \/ KeyboardDies

(***************************************************************************)
(* The program runs, its firmware calls return, and the user types a key   *)
(* if none is pending and the machine is still waiting.                    *)
(***************************************************************************)
UserAnswers == pc = "read_key" /\ pending = 0 /\ TypeKey

BootSpec ==
  /\ BootInit /\ [][BootNext]_bootVars
  /\ WF_bootVars(Program) /\ WF_bootVars(UserAnswers)

----------------------------------------------------------------------------
(***************************************************************************)
(* Properties                                                              *)
(***************************************************************************)

\* Every variable stays in its type.
BootTypeOK ==
  /\ pc \in {"console", "setup", "banner", "draw", "done_face", "read_key", "off"}
  /\ step \in 1 .. Len(Setup) + 1
  /\ line \in 0 .. Lines
  /\ held \subseteq {"gop_handles", "mode_info", "library", "face"}
  /\ console \in {"live", "dead", "absent"}
  /\ pending \in 0 .. MaxPending
  /\ asked \in {"none", "banner", "error"}
  /\ typed \in BOOLEAN /\ answered \in BOOLEAN

\* A failure of any step keeps the program from announcing and drawing
\* anything: it draws with a face of a library that is there.  No caller of
\* error_print checks anything after it, so all depends on its not returning.
DrawsOnlyWhenReady ==
  pc \in {"banner", "draw"} => {"library", "face"} \subseteq held

\* At no time does a face outlive its library, whichever way the program goes.
FaceNeedsLibrary == "face" \in held => "library" \in held

\* The way that does not fail ends with everything given back, except for
\* the buffers of QueryMode.
CleanExit ==
  pc \in {"read_key", "off"} /\ asked = "banner" => held \subseteq {"mode_info"}

\* The machine never resets by itself: someone typed a key, and not before
\* init() reset the console unless that failed; or there is no console.
NeverByItself == pc = "off" /\ console # "absent" => typed

\* A key typed when the program asks for one is never lost: the machine
\* resets, unless the keyboard dies first.
KeyReboots ==
  (asked # "none" /\ pending > 0) ~> (pc = "off" \/ console = "dead")

\* As long as the keyboard works (or there is none), the machine resets in
\* the end, whatever fails on the way.
ResetsInTheEnd == <>(pc = "off" \/ console = "dead")

\* "[...] when you pull the USB memory out of the PC and press any key, the PC is
\* reset" (README.md): the reset answers a key that is typed after the
\* invitation.
ResetsOnAnswer == pc = "off" /\ asked = "banner" => answered

=============================================================================
