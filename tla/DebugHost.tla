----------------------------- MODULE DebugHost ------------------------------
(***************************************************************************)
(* WinMain() of the Debug build with the window of win64env.c: load the    *)
(* font, collect a bitmap per character, create a window, and process its  *)
(* messages until the user closes it.                                      *)
(*                                                                         *)
(* Windows sends WM_CREATE inside CreateWindow and WM_PAINT inside         *)
(* UpdateWindow; everything else goes through the message loop.  The user  *)
(* covers, uncovers and closes the window and types into the console at    *)
(* any time.  Where a bitmap lies is not modelled, only which there are    *)
(* and in which order.                                                     *)
(***************************************************************************)
EXTENDS BitmapList

CONSTANTS
  Texts,     \* the texts: sequences of "glyph", "blank" and "undefined"
  MayFail    \* what may fail

ASSUME HostAssumption ==
  /\ Texts \subseteq Seq({"glyph", "blank", "undefined"})
  /\ MayFail \subseteq {"Console", "InitFreeType", "Open", "Read", "Face", "Size",
                        "Render", "Heap", "Window", "Display", "Bitmap", "DC"}

VARIABLES
  pc,        \* where the program is
  text,      \* the text
  i,         \* the next character
  held,      \* what WinMain has acquired
  console,   \* there is a console to read from
  entered,   \* the user has typed a line into it
  window,    \* "none", "hidden", "shown" or "destroyed"
  closing,   \* WM_CLOSE is in the queue
  invalid,   \* some of the window has to be painted
  quit,      \* PostQuitMessage was called
  display,   \* the display can do what WndProc needs
  gdi,       \* the GDI objects that exist: "dc", "bitmap"
  screen,    \* the bitmaps to be seen in the window
  lost       \* history: the glyphs that failed

winVars == <<window, closing, invalid, quit, display, gdi, screen>>
hostVars == <<listVars, pc, text, i, held, console, entered, winVars, lost>>

HostInit ==
  /\ ListInit
  /\ pc = "start"
  /\ text \in Texts /\ i = 1
  /\ held = {} /\ lost = {}
  /\ console = FALSE /\ entered = FALSE
  /\ window = "none" /\ closing = FALSE /\ invalid = FALSE /\ quit = FALSE
  /\ display = FALSE /\ gdi = {} /\ screen = <<>>

----------------------------------------------------------------------------
(* The setup                                                               *)

\* The program goes on at p holding h; or error_print, which does not return.
\* (Wrong: it does.)
GoOn(p, h) == pc' = p /\ held' = held \cup h
ErrorPrintMutReturns(p) == GoOn(p, {})
ErrorPrint(p) == pc' = "error" /\ UNCHANGED held

setupRest == <<listVars, text, i, entered, winVars, lost>>

AllocConsole ==
  /\ pc = "start"
  /\ GoOn("library", {})
  /\ console' \in BOOLEAN /\ (console' \/ "Console" \in MayFail)
  /\ UNCHANGED setupRest

InitFreeType ==
  /\ pc = "library"
  /\ GoOn("font", {"library"}) \/ ("InitFreeType" \in MayFail /\ ErrorPrint("font"))
  /\ UNCHANGED <<setupRest, console>>

\* fopen, fseek, ftell, malloc, fread: none of the results of the last four is
\* checked except the block.  The file stays open if there is none, and the
\* font may be there only in part.
LoadFont ==
  /\ pc = "font"
  /\ \/ GoOn("face", {"font"})
     \/ "Open" \in MayFail /\ GoOn("face", {})
     \/ "Heap" \in MayFail /\ GoOn("face", {"file"})
     \/ "Read" \in MayFail /\ (GoOn("face", {"file"}) \/ GoOn("face", {"font", "part"}))
  /\ UNCHANGED <<setupRest, console>>

\* FT_New_Memory_Face refuses NULL; it may not notice that some of the font is
\* missing.
NewMemoryFace ==
  /\ pc = "face"
  /\ \/ "font" \in held /\ GoOn("size", {"face"})
     \/ ({"font", "part"} \cap held # {"font"} \/ "Face" \in MayFail) /\ ErrorPrint("size")
  /\ UNCHANGED <<setupRest, console>>

SetPixelSizes ==
  /\ pc = "size"
  /\ GoOn("text", {}) \/ ("Size" \in MayFail /\ ErrorPrint("text"))
  /\ UNCHANGED <<setupRest, console>>

----------------------------------------------------------------------------
(* draw_text() of efi_main.c                                               *)

InText == pc = "text" /\ i <= Len(text)
textRest == <<pc, text, held, console, entered, winVars>>

\* The code has no glyph, or an empty one.  (Wrong: text is advanced here, too.)
SkipCharacterMutTwice ==
  /\ InText /\ text[i] # "glyph"
  /\ i' = i + 2
  /\ UNCHANGED <<listVars, textRest, lost>>
SkipCharacter ==
  /\ InText /\ text[i] # "glyph"
  /\ i' = i + 1
  /\ UNCHANGED <<listVars, textRest, lost>>

\* FT_Load_Glyph or FT_Render_Glyph failed.
RenderFails ==
  /\ InText /\ text[i] = "glyph" /\ "Render" \in MayFail
  /\ i' = i + 1 /\ lost' = lost \cup {i}
  /\ UNCHANGED <<listVars, textRest>>

KeepGlyph ==
  /\ InText /\ text[i] = "glyph"
  /\ AppendData(i)
  /\ i' = i + 1
  /\ UNCHANGED <<textRest, lost>>

\* append_data has no way to say that it failed.
LoseGlyph ==
  /\ InText /\ text[i] = "glyph" /\ "Heap" \in MayFail
  /\ AppendFails
  /\ i' = i + 1 /\ lost' = lost \cup {i}
  /\ UNCHANGED textRest

----------------------------------------------------------------------------
(* init_instance()                                                         *)

windowRest == <<text, i, console, entered, lost>>

CreateWindow ==
  /\ pc = "text" /\ i > Len(text)
  /\ \/ GoOn("create", {}) /\ window' = "hidden"
     \/ "Window" \in MayFail /\ ErrorPrint("create") /\ UNCHANGED window
  /\ UNCHANGED <<listVars, windowRest, closing, invalid, quit, display, gdi, screen>>

\* WM_CREATE makes the memory DC and its bitmap, and draws if it has both.
Drawable == gdi = {"dc", "bitmap"}
WmCreate ==
  /\ pc = "create"
  /\ display' \in BOOLEAN /\ (display' \/ "Display" \in MayFail)
  /\ gdi' \in IF display'
              THEN {g \in SUBSET {"dc", "bitmap"} :
                      /\ "dc" \in g \/ "DC" \in MayFail
                      /\ "bitmap" \in g \/ "Bitmap" \in MayFail}
              ELSE {{}}
  /\ IF gdi' = {"dc", "bitmap"}
     THEN StartDrawing /\ GoOn("draw_list", {})
     ELSE UNCHANGED listVars /\ GoOn("show", {})
  /\ UNCHANGED <<windowRest, window, closing, invalid, quit, screen>>

createRest == <<windowRest, winVars>>

DrawList ==
  /\ pc = "draw_list"
  /\ \/ DrawNode /\ GoOn("draw_list", {})
     \/ ptr = NoBlock /\ StartFreeing /\ GoOn("free_list", {})
  /\ UNCHANGED createRest

FreeList ==
  /\ pc = "free_list"
  /\ \/ FreeNode /\ GoOn("free_list", {})
     \/ ptr = NoBlock /\ UNCHANGED listVars /\ GoOn("show", {})
  /\ UNCHANGED createRest

----------------------------------------------------------------------------
(* WndProc() and message_loop()                                            *)

\* WM_PAINT: BitBlt copies what the DC has; without a display or a bitmap the
\* window stays white.  (Wrong: painting draws the list again.)
WmPaintMutList ==
  /\ screen' = IF data = NoBlock THEN <<>> ELSE <<node[data].item>>
  /\ invalid' = FALSE
WmPaint ==
  /\ screen' = IF display /\ Drawable THEN drawn ELSE <<>>
  /\ invalid' = FALSE

ShowWindow ==
  /\ pc = "show"
  /\ window' = "shown"
  /\ WmPaint
  /\ GoOn("loop", {})
  /\ UNCHANGED <<listVars, windowRest, closing, quit, display, gdi>>

\* Windows refuses to delete a bitmap as long as a DC has it.
Deleted(g, object) == IF object = "bitmap" /\ "dc" \in g THEN g ELSE g \ {object}

\* WM_DESTROY.  (Wrong: the bitmap goes first; nobody asks the loop to end.)
WmDestroyMutBitmapFirst ==
  /\ gdi' = Deleted(Deleted(gdi, "bitmap"), "dc")
  /\ window' = "destroyed" /\ invalid' = FALSE
  /\ quit' = TRUE
WmDestroyMutNoQuit ==
  /\ gdi' = Deleted(Deleted(gdi, "dc"), "bitmap")
  /\ window' = "destroyed" /\ invalid' = FALSE
  /\ UNCHANGED quit
WmDestroy ==
  /\ gdi' = Deleted(Deleted(gdi, "dc"), "bitmap")
  /\ window' = "destroyed" /\ invalid' = FALSE
  /\ quit' = TRUE

loopRest == <<listVars, text, i, held, console, entered, lost, display>>

\* DefWindowProc destroys a window that is closed.
DispatchClose ==
  /\ pc = "loop" /\ closing
  /\ closing' = FALSE
  /\ WmDestroy
  /\ UNCHANGED <<loopRest, pc, screen>>

\* WM_PAINT comes when there is nothing else.
DispatchPaint ==
  /\ pc = "loop" /\ ~closing /\ ~quit /\ invalid
  /\ WmPaint
  /\ UNCHANGED <<loopRest, pc, window, closing, quit, gdi>>

GetQuit ==
  /\ pc = "loop" /\ ~closing /\ quit
  /\ pc' = "face_done"
  /\ UNCHANGED <<loopRest, winVars>>

----------------------------------------------------------------------------
(* The end                                                                 *)

endRest == <<listVars, text, i, console, entered, winVars, lost>>

DoneFace ==
  /\ pc = "face_done"
  /\ held' = held \ {"face"} /\ pc' = "library_done"
  /\ UNCHANGED endRest

DoneFreeType ==
  /\ pc = "library_done"
  /\ held' = held \ {"library"} /\ pc' = "get_char"
  /\ UNCHANGED endRest

\* get_char: ReadConsole waits for a line, and fails at once without a console.
Exit ==
  /\ pc \in {"get_char", "error"}
  /\ console => entered
  /\ pc' = "exited"
  /\ UNCHANGED <<endRest, held>>

----------------------------------------------------------------------------
(* The user                                                                *)

userRest == <<listVars, pc, text, i, held, console, display, gdi, lost, quit, window>>

EnterLine ==
  /\ console /\ ~entered /\ pc # "exited"
  /\ entered' = TRUE
  /\ UNCHANGED <<userRest, closing, invalid, screen>>

CloseWindow ==
  /\ window = "shown" /\ ~closing
  /\ closing' = TRUE
  /\ UNCHANGED <<userRest, entered, invalid, screen>>

\* What was covered is gone until it is painted again.
UncoverWindow ==
  /\ window = "shown" /\ ~invalid
  /\ invalid' = TRUE /\ screen' = <<>>
  /\ UNCHANGED <<userRest, entered, closing>>

WinMain ==
  \/ AllocConsole \/ InitFreeType \/ LoadFont \/ NewMemoryFace \/ SetPixelSizes
  \/ SkipCharacter \/ RenderFails \/ KeepGlyph \/ LoseGlyph
  \/ CreateWindow \/ WmCreate \/ DrawList \/ FreeList \/ ShowWindow
  \/ DispatchClose \/ DispatchPaint \/ GetQuit
  \/ DoneFace \/ DoneFreeType \/ Exit

HostNext == WinMain \/ EnterLine \/ CloseWindow \/ UncoverWindow

\* The program runs; the user closes the window and answers the console in the
\* end.
HostSpec ==
  /\ HostInit /\ [][HostNext]_hostVars
  /\ WF_hostVars(WinMain) /\ WF_hostVars(EnterLine) /\ WF_hostVars(CloseWindow)

----------------------------------------------------------------------------
(* Properties                                                              *)

Places == {"start", "library", "font", "face", "size", "text", "create", "draw_list",
           "free_list", "show", "loop", "face_done", "library_done", "get_char",
           "error", "exited"}
Resources == {"library", "file", "font", "part", "face"}
Ended == pc \in {"library_done", "get_char", "exited"}
BlocksOf(k) == {kept[k].node, kept[k].buffer}
KeptBlocks == UNION {BlocksOf(k) : k \in DOMAIN kept}

\* The variables have their types; the loop over the text stops at its end.
HostTypeOK ==
  /\ pc \in Places /\ text \in Texts /\ i \in 1 .. Len(text) + 1
  /\ held \subseteq Resources /\ lost \subseteq 1 .. Len(text)
  /\ console \in BOOLEAN /\ entered \in BOOLEAN /\ display \in BOOLEAN
  /\ closing \in BOOLEAN /\ invalid \in BOOLEAN /\ quit \in BOOLEAN
  /\ window \in {"none", "hidden", "shown", "destroyed"}
  /\ gdi \subseteq {"dc", "bitmap"} /\ (gdi # {} => display)
  /\ heap \subseteq Blocks /\ {data, current, ptr} \subseteq Blocks \cup {NoBlock}
  /\ node \in [Blocks -> Entries]

\* Where the code follows a pointer of the list it leads to a node that has not
\* been freed, with bytes that have not: current in append_data(), ptr in the
\* loops of draw_text() and free_data().
NoStrayPointer ==
  /\ pc = "text" /\ data # NoBlock => current \in heap
  /\ pc \in {"draw_list", "free_list"} /\ ptr # NoBlock => {ptr, node[ptr].buffer} \subseteq heap

\* The heap holds the blocks of the list, no two of them the same, and nothing
\* of what could not be appended; once the list was drawn it is given back whole.
NothingLeaks ==
  /\ pc # "free_list" =>
       heap = IF drawn # <<>> /\ pc # "draw_list" THEN {} ELSE KeptBlocks
  /\ \A k, l \in DOMAIN kept : k # l => BlocksOf(k) \cap BlocksOf(l) = {}

\* A window that is open and painted shows each glyph of the text that did not
\* fail, once and in the order of the text.
ShowsText ==
  pc = "loop" /\ window = "shown" /\ ~invalid /\ Drawable =>
    /\ \A m, n \in DOMAIN screen : m < n => screen[m] < screen[n]
    /\ {screen[n] : n \in DOMAIN screen} = {n \in DOMAIN text : text[n] = "glyph"} \ lost

\* error_print() ends the program: nothing is collected or shown without
\* library, font and face, and they are there until the window is gone.
ShowsOnlyWhenReady ==
  (i > 1 \/ window # "none") /\ ~Ended =>
    {"library", "face", "font"} \subseteq held

\* The order of WM_DESTROY lets both GDI objects go.
GdiReleased == window = "destroyed" => gdi = {}

\* Whatever fails, the program ends, once the user has closed the window and
\* answered the console.
HostEnds == <>(pc = "exited")
=============================================================================
