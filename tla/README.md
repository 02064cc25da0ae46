# Verification of UEFI_FreeType_MSVC

UEFI_FreeType_MSVC is a UEFI application that draws a few lines of English,
Japanese, Chinese and Korean text with FreeType. It has no tests. This directory
models the parts of it that have logic of their own in TLA+, model-checks them
with TLC and proves the main safety properties with TLAPS.

Paths below are relative to `src/` of the repository; `musl/` stands for
`src/lib/external/MIT/musl/src/`, `freetype/` for
`src/lib/external/FreeType/freetype/`.

## 1. The system

The repository builds two programs from `src/efi_main.c`.

* **Release** (`_DEBUG` undefined) is the UEFI application. `NEW_MEMORY_FACE` is
  defined nowhere, so it opens the font with `FT_New_Face(path)`: FreeType drives
  its `FT_Stream`, the stream calls stdio, and stdio is musl with the bodies
  replaced (`_MSC_VER` blocks) by calls to `EFI_FILE_PROTOCOL`. `load_file` and
  `load_file2`, the other way to the font, are compiled and called only if it is defined.
* **Debug** is a Windows program for stepping through the drawing code. It
  reads the font into memory, gives FreeType a memory stream, collects bitmaps in
  a list and shows them from a window procedure (`src/lib/win64env`).

| Component | State it keeps | Operations | Talks to |
|---|---|---|---|
| Boot sequence (`efi_main.c` 50–278) | place in the program, what has been acquired, the message on the screen | `efi_main`, `init`, `error_print`, `read_key`, `reset_system` | firmware console (keystrokes arrive at any time), GOP, FreeType |
| Graphics mode selection (`efi_main.c` 166–206) | loop index, best mode so far | the `QueryMode` loop, `SetMode` | GOP |
| Text drawing (`efi_main.c` 464–597) | pen, previous glyph, one pool buffer per glyph | `draw_text`, `conv_bitmap` | FreeType, `Blt`, heap |
| FreeType stream (`ftstream.c`, `ftsystem.c`) | position, size, base, frame, frame blocks | open, close, seek, skip, four kinds of read, frames | stdio, heap; clients are the font drivers |
| stdio port (`musl/stdio`) | FILE: flags, `EFI_FILE*`; `errno` | `fopen` … `fclose`, `fread`, `fwrite`, `fseek`, `ftell` | `EFI_FILE_PROTOCOL` |
| Font loading into memory (`efi_main.c` 280–461) | two handles, two blocks, the size | `load_file`, `load_file2` | `EFI_FILE_PROTOCOL`, pool |
| Pool heap (`musl/malloc`) | firmware pool | `malloc`, `calloc`, `realloc`, `free` | `AllocatePool` / Windows heap |
| Debug host (`efi_main.c` 599–, `win64env.c`) | console, file handles, bitmap list, window | file functions, `append_data`, `WndProc` | Windows |
| Status messages (`efi_status.c`) | two constant tables | `print_status_msg` | – |
| FreeType, musl, gnu-efi proper | vendored | – | – |

There are no threads. What makes the program hard are two other things: the
environment acts between any two of its steps (keys are typed, devices fail), and
several layers keep their own copy of one fact (FreeType's position and the
firmware's; the size of a file as `UINT64`, `off_t`, `long` and `unsigned long`;
the owner of a block) that a failing call can drive apart.

### What makes each component correct

* **Boot.** Nothing is drawn unless the whole setup succeeded; `error_print` has
  no cleanup and its callers check nothing after it, so this rests on
  `ResetSystem` not returning. Resources go back in order. The machine is never
  reset without a key if there is a keyboard; a key that is asked for is never
  lost; the machine can always be reset.
* **Mode selection.** The mode set is usable and the widest of those looked at,
  the early end at `SCREEN_WIDTH` is not missed, the loop terminates.
* **Stream.** A client gets the bytes it asked for or an error, whatever it did
  before: both positions agree, frames are windows on the file, blocks are freed
  once.
* **Text drawing.** Each glyph is shown at the pen or left out; the pen and the
  kerning follow the text; the conversion stays inside the bitmap.
* **stdio and heap.** Every block and every handle has one owner, whatever step of
  a call fails; a block is as large as was asked; a failing call says why in `errno`,
  with one exception; `realloc` loses nothing that was written.
* **Font loading.** The caller gets the whole file or nothing, and the message
  names the status of the call that failed.
* **Debug host.** The list is one chain of blocks on the heap until it has been
  drawn, and is not followed after that; the window shows the text, gives
  back its GDI objects and lets the program end.

The hazards this code has are in `PROJECT.json`, each at its line, with the
properties that would catch it.

## 2. Modules

    Boot            efi_main: the program, the user and the keyboard
    GopMode         the mode selection inside init()
    EfiFile         EFI_FILE_PROTOCOL, external: sets of outcomes of a call
    StdioCalls      fseek, ftell, fread on one open file   (EXTENDS EfiFile)
    StreamOutcome   what a client saw of its last call
    ByteStream      what FreeType needs of a stream: the abstract specification
    FtStream        FT_Stream over StdioCalls and over memory, implements ByteStream
    DrawText        draw_text: one line of text, a Blt per glyph
    ConvBitmap      conv_bitmap: FreeType's LCD bitmap to BLT pixels
    BitmapList      the list of bitmaps in win64env.c, on the process heap
    DebugHost       WinMain, the window and its messages    (EXTENDS BitmapList)
    EfiStatus       EFI_STATUS and print_status_msg
    LoadFile        load_file and load_file2                (EXTENDS EfiStatus)
    PoolHeap        malloc, calloc, realloc, free over AllocatePool
    Stdio           fopen and fclose among the heap's clients (EXTENDS PoolHeap)
    MC*             instances for TLC
    *Proofs         theorems for TLAPS

**Boot.** `pc` is the place in the program; `step` runs through the calls of
`init` and the first one of `efi_main` (`Setup`). Each setup step succeeds
(`SetupStep`) or goes to `error_print` (`SetupFails`); the console comes first and
has actions of its own. `held` is what has been acquired: the GOP handle buffer,
`QueryMode`'s buffers (one element for all of them: they are never freed), library
and face. The selection of the mode is one step here and a module of its own.
`pending` is the firmware's keyboard buffer. The polling loop of `read_key` is an
action that is not enabled while there is no key: an unsuccessful
`ReadKeyStroke` changes nothing. `ErrorPrint` jumps to `read_key` because
`ResetSystem` does not return. `typed` and `answered` are history: a key since the
console was emptied, a key since the last message.

**GopMode.** One iteration of the loop is one action, `SkipMode` or `TakeMode`
by the outcome of the comparisons of the body; the loop ends with the list or with
a failing call. `QueryModeFails` and the end of the list are the same to the
program.

**EfiFile and StdioCalls.** The Release build's FILE has no buffer: each call of
stdio is one or two firmware calls. So a call is an operator that returns the set
of its possible results, each with the file position it leaves. `MayFail`
selects which firmware failures exist; a failing `Read` may have transferred
nothing, or some bytes with an honest count, or leave the count at the length
asked for. `long` and `unsigned long` are 32 bits wide in this build
(`LongMod` values), file positions 64 (`PosMod` values), and the conversions
between them wrap as in C.

**FtStream.** One action per function of `ftstream.c`, each with all the stdio and
firmware calls it makes; `kind` selects the Release build's file stream or the
Debug build's memory stream. Data is not modelled; where data comes from is:
`out` and `frame` say which bytes the client believes it has (`at`, `count`) and which
bytes of the file it really got (`from`, `moved`). The only misuse excluded by
guards is what the functions' own assertions exclude (a nested frame, a read from no
frame) and closing a stream with a frame in use.

**ByteStream** is the promise: a call delivers exactly what was asked for, or
fails. FtStream's `fsize` and `spos` are its size and position, `Seen` its outcome: a
read of no bytes reads them from nowhere, wherever the file's position is.

`Honest` is what most theorems assume of the environment: seeks and position queries
succeed; a failing Read says truly how much it read, and reads nothing if clients read
scalars outside frames; an `unsigned long` can tell the size of every file (4 GiB).
`SmallFiles` says that a `long` can (2 GiB), `Reliable` is both.

**DrawText.** A character is its glyph: index, size of the bitmap, and where the
bitmap lies from the pen (`left` is `bitmap_left`, `drop` is `baseline - bitmap_top`). One
iteration of the loop is one action: `ReportUndefined`, `ReportRenderFailure`,
`LoadFails`, `SkipBlank` (each a `continue`), `ShowGlyph`, and the two calls of
`error_print`, which end the line. UINTN sums wrap (`Plus`); bearings and kerning
have the width of an `int` (`IsInt`), which `DrawnInPlace` depends on. `shown`, `reported` and
`unloaded` are history. `FT_Load_Glyph`'s result is ignored in the code: a slot that was
cleared and not loaded either cannot be rendered (message) or, when the CFF driver
has already made it an outline, renders to nothing (no message). A Blt that leaves
the screen fails; the firmware's own comparison is taken not to wrap.

**ConvBitmap.** A byte of the source is its offset in the buffer, so a pixel is three
offsets; the target is the function written so far. `k` is the packed target index,
`pitch * j` the padded source row. The bitmaps are those FreeType makes for
`FT_RENDER_MODE_LCD`, whose pitch is never negative; the branch of `conv_bitmap` for
`pitch <= 0` is not reached (it would start a row above or below the buffer).

**BitmapList and DebugHost.** BitmapList is what `append_data`, the drawing loop and
`free_data` do to the nodes and the variables `data`, `current` and `ptr`; DebugHost
calls it from the places of `WinMain` and `WndProc`. A node has the blocks for itself and
its bytes; `kept` is the list as it should be, `drawn` what has been drawn from it.
`AppendFails` has the three ways to fail: no bytes, no first node, no next node, the
last writing NULL into `current->next`. `WM_CREATE` runs inside `CreateWindow`, the
first `WM_PAINT` inside `UpdateWindow`; closing and painting go through the queue, of
which `closing`, `invalid` and `quit` are what the program can tell apart. The
user covers, uncovers and closes the window and types a line into the console at
any time. Unlike in the Release build, the bitmaps' places are left out: they are
data that no decision depends on.

**EfiStatus and LoadFile.** A status is a number, a description in the tables the
status whose name it begins with, so that printing the wrong description is
printing another status. In LoadFile every call of the firmware and every
allocation is a step with all statuses; warnings count as success, as in the code.
`failing` is history: what the failing call returned.

**PoolHeap and Stdio.** A block has a size, what its owner asked for (for `calloc` the
product in integers, not in `size_t`), and a number of bytes its owner wrote. One
call of `malloc`, `calloc`, `realloc` or `free` is one action, since nothing can fail
between its steps that is not an outcome of it. `realloc` takes the
old size from the header in front of the block, `Overhead` larger than the block, or
finds another firmware's header there and fails; `CopySize` is the length it then copies, of
which only the written bytes of the block are kept track of. `fopen` is a sequence of steps,
`fopen` (mode and FILE), `OpenVolume`, `to_char16`, `Open`, with what it has so far in `call`,
between which `last` is "running";
`VolumeFails`, `NoName` and `OpenFails` are its failing ends. The handles it is given come
from a bounded set, so a root that was lost is missing later. `fclose` is one action.

## 3. What the runs check

Bounds are in the MC modules and the cfg files.

| Run | Question and answer |
|---|---|
| `boot` | Every setup step, the console, drawing and the keyboard may fail; keys come at any time. Drawing happens only when ready, resources go back in order, no reset without a key, no asked-for key lost, a reset in the end. Two lines and two buffered keys: the third of either repeats the second, since the program takes one key and treats all lines alike. |
| `boot_stale_key` | **Violated.** A key typed while the font is loading answers the banner printed afterwards: the screen is gone before the user could pull out the USB memory as README.md says. |
| `gop_mode` | All lists of up to 4 modes over widths below, at and above `SCREEN_WIDTH` and two formats. Two modes are needed to see a comparison, three for hiding and the early end; four leaves one spare. |
| `ft_stream_reliable` | Files of 0–3 bytes, offsets and counts of 0–4, all scalar widths, two blocks: both sides of every comparison with the size occur, a frame and an extracted frame at once, empty frames, reads at and beyond the end. Allocation, open and reads fail. All invariants and the refinement of ByteStream hold. |
| `ft_stream_any_size` | Reads also fail half way, and files are small or of 2–4 GiB (sizes for which `unsigned long` suffices and `long` does not). `PosAgree` is lost, since the seek gets a negative offset; yet the stream is a byte stream all the same: a position behind the end makes the read fail. Scalars are read from frames only. Beyond 4 GiB the size itself wraps, and nothing is claimed. |
| `ft_stream_lying` | **Violated.** What a failed read leaves in the count is taken for data: the file is opened, and a read of one byte succeeds although Read failed and moved none. |
| `draw_text` | Every text of up to 4 of 6 characters: with and without bearings, wide, too high, blank, undefined; a screen on which two or three glyphs fit. Kerning takes the pen of "wide" behind "A" from 10 to -2 (254 as a UINTN); its bearing brings the column back to 0 and its width the pen to 15, from where the next glyph is drawn. "j" at the start of a text has its column left of the edge, which Blt refuses. What is drawn is where a layout in unbounded integers puts it, inside the screen; no character is lost; the loop ends. Kerning needs two glyphs and something skipped between them, four characters leave one spare. `DrawnInPlace` has a mutant for either hazard, the pen that wraps and the glyph that kerning is against. An `int` has 5 bits, a UINTN 8, as far apart as the theorems need. |
| `conv_bitmap` | Bitmaps with and without padding, up to three rows: all elements written, none beyond the target, each starting with its byte. |
| `conv_row` | **Violated.** The last two pixels of a row are made of bytes behind it. |
| `debug_host` | Every text of up to three characters, a heap that holds all their bitmaps, and everything failing. The list needs three nodes for a first, a middle and a last one; characters that are skipped or lost come before, between and behind them. No pointer leads to a freed node; the heap holds the list and nothing else until it has been drawn, and nothing after that; a painted window shows the text; and the program ends. When WM_CREATE cannot draw, the list is kept until the process ends. |
| `load_file` | Files of no byte, of a few, and of more than an `FT_Long` holds; statuses from both ends of both tables, from the gap at 29 and 30, and unknown ones. The buffer is the file or there is none, no other block is left, and the message names the failing call's status. (The root's handle is left open, see below.) |
| `stdio` | Four blocks and four handles: two FILEs, or one FILE and two blocks of clients; roots are lost until no FILE can be opened. Every mode character that matters, `+`, an empty name, an absent file, sizes that grow and shrink a block, a product that overflows `size_t`. Every block and handle has one owner, every block is as large as was asked, every failure but that of an empty name is in `errno`, and what a client wrote stays. Handles are interchangeable, hence the symmetry; blocks are, too, but a symmetry over both costs more than it saves. |

The properties are stated in the modules with the behaviour they are about. Each
one is also checked against a mutant of the code it depends on (the
definitions `...Mut...`, each the plausible mistake its comment names).

`CHECK_DEADLOCK FALSE` is set where the program really stops: a machine that has
been reset, a selection that is done, a stream that is closed, a function that has
returned.

### Fairness

* `WF(Program)` in Boot: the program has the processor to itself, and firmware
  calls return.
* `WF(UserAnswers)`: when the program waits with no key pending, the user types
  one in the end. Nothing is assumed of keys typed at other times. The liveness
  properties except a keyboard that dies: read_key then polls forever, also after
  the very message "Input device unavailable." (a hazard of the code).
* `WF(InitGop)` in GopMode: the loop runs; failures are never due.
* `WF(DrawNext)` in DrawText: the loop runs.
* `WF(WinMain)`, `WF(EnterLine)`, `WF(CloseWindow)` in DebugHost: Windows runs the
  program and delivers its messages; the user closes the window and answers the
  console in the end. Nothing is assumed of covering and uncovering: a user
  who does it for ever cannot keep `WM_CLOSE` from being taken, since paint
  messages come last.
* FtStream, ConvBitmap, LoadFile and Stdio state no liveness: their functions do
  not wait.

### What else the code does

Disagreements and oddities met while modelling that no run is spent on:

* `FT_Stream_Open` takes the -1 of a failing `ftell` for a size (`ftsystem.c:263`): it
  becomes `ULONG_MAX`. `Honest` excludes it.
* A scalar read that fails half way leaves `stream->pos` behind the file's position
  (`ftstream.c:512`), and the next read at that offset is not preceded by a seek: it
  delivers bytes from further on. `Honest` and the bounds of `ft_stream_any_size` exclude
  it. `FtOnlyRealBytes` says that even then, and after a failing `ftell`, no byte is made up.
* `conv_bitmap` makes a pixel of each subpixel; the text is three times as wide as
  the font says. The Debug window does the same and has the same reads behind the row
  (`win64env.c:245`).
* A failing `fopen` leaves the volume's root open (`lost` in Stdio); `load_file2` never
  closes it (`open` in LoadFile).
* `fopen(name, "w")` and `"a"` ask for WRITE alone, which `EFI_FILE_PROTOCOL.Open`
  refuses; an empty mode is accepted, and refused by `Open` likewise.
* `fopen` of an empty name fails without touching `errno`: the exception that
  `FailureSaysWhy` states.
* `realloc` copies more than the old block when the new one is larger, since the
  size in the header counts the header (`ReallocReads`).
* `load_file` is given `(UINTN*)&buffer_size` for a 32-bit `FT_Long`: it writes 8 bytes over 4.
* WinMain checks no result of `fseek`, `ftell` and `fread`, and leaves the file open
  when `malloc` fails.
* In the Debug build `free` frees nothing (`malloc.c:230` is a declaration),
  `__stdio_close` keeps the name, and `set_file_pointer_ex_seek` ignores the offset of
  SEEK_SET and SEEK_END.

## 4. What is proved

TLAPS checks, for every value of the constants that satisfies the modules'
assumptions:

* **BootProofs** — `BootInvariant` and from it `DrawsOnlyWhenReady`,
  `FaceNeedsLibrary`, `CleanExit`, `NeverByItself`. `CleanExit` is not inductive: it says
  nothing of the places before the end. `HeldInv` adds what is held, and which
  message is shown, at every place, and `KeyInv` that a pending key was typed.
  From the same invariant two action properties, which are what the liveness
  properties rest on besides fairness: `BootKeyStays` (once a key was asked for nothing empties the buffer but
  the reset and the death of the keyboard) and `BootEveryStepCounts` (every
  step of the program lessens `Rank`, and the user cannot change it).
* **GopModeProofs** — `GopInvariant` and from it the type invariant, `BestSoFar`,
  `SetOnlyUsable` and the action property `NeverPassesScreenWidth`, for mode lists of
  every length. The strengthening relates the
  index to the table and to the place in the program; `WidthLeft` adds that the
  program leaves the loop where it meets SCREEN_WIDTH. `GopEveryStepCounts`: each step lessens
  what is left of the list.
* **FtStreamProofs** — on every firmware the type invariant and `OneOwner`; if failing reads
  say truly how much they read (`TrueCounts`) also `OnlyRealBytes`, though seeks and
  position queries fail, scalars are read half way and files have any size. The
  invariant behind them is `AnyInv`: outcomes are `Sound`, and a frame holds as many bytes
  as it says (`FrameIsFull`). Under `Honest`: `FromTheRightPlace`, `FrameIsAWindow`,
  `StaysInFile`, and that FtSpec implements ByteStream (`FtImplements`);
  under `Reliable` also `PosAgree`, which is false for larger files. The argument: a
  seek moves the file to the offset asked for or, if that is negative as a `long`,
  behind the end of the file (`SeekSetHonest`), because it becomes a 64-bit position
  that no file of 4 GiB reaches; from there every read fails
  (`ReadBehindEnd`). So what holds of the two positions is `Near`: they agree, or files are not
  small and the firmware's is behind the end. A read that starts in such a state
  gives the bytes asked for or none (`IoRight`); every reading function is then the same kind
  of step (`ReadStep`: an outcome, and a position inside the file) and every entering
  one an `EnterStep`; these preserve the invariant `FtInv`, the conjunction of the
  positions' part and the frames' part, and are steps of ByteStream.
* **DrawTextProofs** — `DrawInvariant` and from it the type invariant, `NoneLost` and
  `DrawnInPlace`, for every text, font and screen. What was drawn lies behind the
  loop (`DrawnBefore`), without which the order could not be kept. The pen is right
  only modulo 2^64 (`PenCongruent`): a gap behind the glyph drawn last, which is the one
  `prev` remembers, whatever was skipped since. A glyph that Blt accepts lies inside the screen as its
  predecessor does, and bearings and kerning of 32 bits cannot take it from there to another
  number of the same residue (`PenIsFor`, `SameIfNear`); so the column is
  right as an integer. `DrawEveryStepCounts`: each step lessens what is left of the text.
* **ConvBitmapProofs** — `WritesInTarget` and `WholePicture` for bitmaps of every
  size. The strengthening `Progress` says that the target index is
  `width * j + i` and that exactly the elements before it are written; `RowsApart` is the
  arithmetic that keeps rows from overlapping. `ConvReads` says how bad the finding of `conv_row`
  is: no pixel reads further than two bytes behind its row, and the picture reads
  behind a row exactly if the padding is less than two bytes, that is if the width has the
  remainder 0 or 3 by 4.
* **DebugHostProofs** — `HostInvariant` and from it all safety properties of the run,
  for texts and heaps of every size. None of them is inductive alone. `Chain` and `Ends` say that the
  pointers follow `kept`; `Apart` that its blocks differ; `HeapInv` what of it is on
  the heap at each place (all of it, or in `free_data` what lies behind `ptr`); `TextInv`
  which characters it holds; `WindowInv` what there is of the window. `HostEveryStepCounts`: every
  step of the program lessens `Rank`, so that the loops over the pointers end (`LeftFacts`: no
  node comes twice) and no message is processed for ever; of the user's actions only
  uncovering the window adds a step.
* **LoadFileProofs** — `LoadInvariant` and from it the three properties of the run,
  for every set of statuses and file sizes. The lemma `MessageOf` says what
  `print_status_msg` returns for every number: the status if it has a name.
* **StdioProofs** — `StdioInvariant` and from it `StdioTypeOK`, `OneOwnerEach`, `AsLargeAsAsked`
  and the action properties `FailureSaysWhy` and `ReallocKeeps`, for every pool, set of handles
  and number of FILEs. `FailureSaysWhy` speaks of each step, of `NoName` too, and excepts the
  empty name (`StepReports`, from `ReportsAre`); `ProductIs` is why no product wraps. `Owners` restates `OneOwnerEach` with what all FILEs have together (`FB`, `FF`, `FR`), which
  steps that leave the FILEs alone do not change; the failing ends of `fopen` are one kind of
  step (`GivesBack`); `Written` bounds what `realloc` copies, and the lemma `ReallocReads` says
  how far it reads behind the old block.

`Honest`, `Reliable` and `TrueCounts` are assumptions about the environment, not about the code;
`ft_stream_lying` shows what happens without them. The assumptions on the other
modules' constants are widths of C types (`DrawAssumption`, `StdioAssumption`) or say
that a parameter is a number or a set.

Only model-checked: liveness (`KeyReboots`, `ResetsInTheEnd`, `SelectionEnds`,
`DrawEnds`, `HostEnds`), which needs fairness and ENABLED and is outside the prover's reach.
What can be proved of it are the theorems on steps above: no behaviour has
infinitely many steps of the program without the user uncovering the window. That a
step is possible until the end is reached is TLC's part. Every other property of a passing
run is a theorem. That seeks succeed is assumed by
every passing run: `FT_Stream_Open` and `ft_ansi_stream_io` ignore the result of `fseek`.

## 5. What is not modelled, and the plan

Left out for good: FreeType's rasterizers, hinting and font drivers, musl's string,
math and printf code, gnu-efi's start-up code: sequential computation on data, or
declarations.

Left out because nothing depends on it: writing to files (the program never does);
`load_file`'s other way to the volume, which `BOOT_PARTITION_FILE_ACCESS` compiles out; the
Debug forms of the heap and of stdio, each one call of Windows, with the exceptions
listed above.

What a continuation would take up, in this order:

1. Composition of Boot with GopMode, DrawText and FtStream: the announcement comes
   before the font has been read to the end, and README.md tells the user to
   pull out the medium.
2. Composition of FtStream with Stdio, so that the stream's file is one of the
   FILEs and its blocks are in the pool.
3. `FT_Stream_ReadFields` in FtStream; `FT_Stream_New` and its free.
4. The Debug form of stdio, with its `set_file_pointer_ex_seek`.
