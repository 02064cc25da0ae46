--------------------------- MODULE DebugHostProofs --------------------------
(***************************************************************************)
(* The safety properties of DebugHost for every set of texts, heap and     *)
(* failures.                                                               *)
(*                                                                         *)
(* kept is the list as it should be.  Chain and Ends say that the pointers *)
(* follow it, HeapInv what of it is on the heap at each place, TextInv     *)
(* which characters it holds, and WindowInv what there is of the window.   *)
(***************************************************************************)
EXTENDS DebugHost, TLAPS

\* The block of the k-th node; NULL before the first and behind the last.
Node(s, k) == IF k \in DOMAIN s THEN s[k].node ELSE NoBlock
At(k) == Node(kept, k)
Items(n) == [k \in 1 .. n |-> kept[k].item]

KeptEntries == [item : Nat, node : Blocks, buffer : Blocks]
KeptType == kept \in Seq(KeptEntries)
Chain ==
  \A k \in DOMAIN kept :
    node[kept[k].node] = [item |-> kept[k].item, buffer |-> kept[k].buffer, next |-> At(k + 1)]
Apart ==
  /\ \A k \in DOMAIN kept : kept[k].node # kept[k].buffer
  /\ \A k, l \in DOMAIN kept : k # l => BlocksOf(k) \cap BlocksOf(l) = {}

Before == {"start", "library", "font", "face", "size", "text"}
Loops == {"draw_list", "free_list"}
After == {"show", "loop", "face_done", "library_done", "get_char", "exited"}

Ends == data = At(1) /\ (pc \in Before => current = At(Len(kept)))

Drawing ==
  /\ heap = KeptBlocks
  /\ \E n \in 0 .. Len(kept) : drawn = Items(n) /\ ptr = At(n + 1)
Freeing ==
  /\ drawn = Items(Len(kept))
  /\ \E k \in 1 .. Len(kept) + 1 :
       ptr = At(k) /\ heap = UNION {BlocksOf(m) : m \in k .. Len(kept)}
HeapInv ==
  /\ pc \in Before \cup {"create", "error"} => drawn = <<>> /\ heap = KeptBlocks
  /\ pc = "draw_list" => Drawing
  /\ pc = "free_list" => Freeing
  /\ pc \in After => \/ drawn = <<>> /\ heap = KeptBlocks /\ (Drawable => kept = <<>>)
                     \/ drawn = Items(Len(kept)) /\ heap = {}

TextInv ==
  /\ \A k \in DOMAIN kept : /\ kept[k].item \in 1 .. i - 1
                            /\ text[kept[k].item] = "glyph" /\ kept[k].item \notin lost
  /\ \A k, l \in DOMAIN kept : k < l => kept[k].item < kept[l].item
  /\ \A n \in 1 .. i - 1 :
       text[n] = "glyph" => n \in lost \/ \E k \in DOMAIN kept : kept[k].item = n
  /\ lost \subseteq 1 .. i - 1
  /\ pc \in Before \ {"text"} => i = 1
  /\ pc \in Loops \cup {"create", "show", "loop"} => i = Len(text) + 1

WindowInv ==
  /\ pc \in Before \cup {"error"} => window = "none"
  /\ pc \in Loops \cup {"create", "show"} => window = "hidden"
  /\ pc = "loop" => window \in {"shown", "destroyed"}
  /\ pc \in Before \cup {"create", "error"} => gdi = {}
  /\ pc \in Loops => Drawable
  /\ window = "destroyed" => quit /\ gdi = {}
  /\ window = "shown" => pc = "loop"
  /\ quit => window = "destroyed"
  /\ window = "none" => gdi = {}
  /\ pc = "loop" /\ window = "shown" /\ ~invalid /\ Drawable => screen = drawn

HeldInv ==
  /\ pc \notin {"start", "library", "error"} /\ ~Ended => "library" \in held
  /\ pc \notin {"start", "library", "font", "face", "error"} /\ ~Ended =>
       {"face", "font"} \subseteq held
  /\ ShowsOnlyWhenReady

ListInv == KeptType /\ Chain /\ Apart /\ Ends /\ HeapInv
HostInv == HostTypeOK /\ ListInv /\ TextInv /\ WindowInv /\ HeldInv

----------------------------------------------------------------------------
(* Types                                                                   *)

\* A text is a sequence.
LEMMA TextType ==
  ASSUME HostTypeOK
  PROVE /\ Len(text) \in Nat /\ i \in Nat /\ i >= 1
        /\ DOMAIN text = 1 .. Len(text)
        /\ \A n \in 1 .. Len(text) : text[n] \in {"glyph", "blank", "undefined"}
<1>1. text \in Seq({"glyph", "blank", "undefined"})
  BY HostAssumption DEF HostTypeOK
<1>2. QED
  BY <1>1 DEF HostTypeOK

\* Linking a block into the list keeps the nodes well-formed.
LEMMA LinkedType ==
  ASSUME HostTypeOK, NEW n \in Blocks \cup {NoBlock}
  PROVE Linked(n) \in [Blocks -> Entries]
<1>1. CASE current \in Blocks
  <2>1. node[current] \in Entries
    BY <1>1 DEF HostTypeOK
  <2>2. [node[current] EXCEPT !.next = n] \in Entries
    BY <2>1 DEF Entries
  <2>3. QED
    BY <2>2 DEF Linked, HostTypeOK
<1>2. CASE current \notin Blocks
  BY <1>2 DEF Linked, HostTypeOK
<1>3. QED
  BY <1>1, <1>2

\* Every step keeps the types.
LEMMA TypeStep ==
  ASSUME HostTypeOK, [HostNext]_hostVars
  PROVE HostTypeOK'
<1> USE DEF HostTypeOK, Places, Resources
<1> DEFINE list == /\ heap \subseteq Blocks /\ {data, current, ptr} \subseteq Blocks \cup {NoBlock}
                   /\ node \in [Blocks -> Entries]
           rest == /\ pc \in Places /\ text \in Texts /\ i \in 1 .. Len(text) + 1
                   /\ held \subseteq Resources /\ lost \subseteq 1 .. Len(text)
                   /\ console \in BOOLEAN /\ entered \in BOOLEAN /\ display \in BOOLEAN
                   /\ closing \in BOOLEAN /\ invalid \in BOOLEAN /\ quit \in BOOLEAN
                   /\ window \in {"none", "hidden", "shown", "destroyed"}
                   /\ gdi \subseteq {"dc", "bitmap"} /\ (gdi # {} => display)
<1>1. CASE UNCHANGED hostVars
  BY <1>1 DEF hostVars, listVars, winVars
<1>2. CASE AllocConsole \/ InitFreeType \/ LoadFont \/ NewMemoryFace \/ SetPixelSizes
  BY <1>2 DEF AllocConsole, InitFreeType, LoadFont, NewMemoryFace, SetPixelSizes, GoOn,
              ErrorPrint, setupRest, listVars, winVars
<1>3. CASE SkipCharacter \/ RenderFails
  <2>0. i \in 1 .. Len(text) /\ i' = i + 1 /\ (lost' = lost \/ lost' = lost \cup {i})
    BY <1>3, TextType DEF SkipCharacter, RenderFails, InText
  <2>1. i' \in 1 .. Len(text) + 1
    BY <2>0, TextType
  <2>4. lost' \subseteq 1 .. Len(text)
    BY <2>0
  <2>2. UNCHANGED <<listVars, textRest>>
    BY <1>3 DEF SkipCharacter, RenderFails
  <2>3. QED
    BY <2>1, <2>2, <2>4 DEF textRest, listVars, winVars
<1>4. CASE KeepGlyph
  <2>1. rest'
    BY <1>4, TextType DEF KeepGlyph, InText, textRest, winVars
  <2>2. PICK b \in Blocks \ heap : \E n \in Blocks \ (heap \cup {b}) :
          /\ heap' = heap \cup {b, n}
          /\ node' = [Linked(n) EXCEPT ![n] = Entry(i, b)]
          /\ data' = IF data = NoBlock THEN n ELSE data
          /\ current' = n /\ ptr' = ptr
    BY <1>4, Zenon DEF KeepGlyph, AppendData
  <2>3. PICK n \in Blocks \ (heap \cup {b}) :
          /\ heap' = heap \cup {b, n}
          /\ node' = [Linked(n) EXCEPT ![n] = Entry(i, b)]
          /\ data' = IF data = NoBlock THEN n ELSE data
          /\ current' = n /\ ptr' = ptr
    BY <2>2
  <2>4. Entry(i, b) \in Entries
    BY TextType DEF Entry, Entries
  <2>5. node' \in [Blocks -> Entries]
    BY <2>3, <2>4, LinkedType
  <2>6. QED
    BY <2>1, <2>3, <2>5
<1>5. CASE LoseGlyph
  <2>1. rest'
    BY <1>5, TextType DEF LoseGlyph, InText, textRest, winVars
  <2>2. node' \in [Blocks -> Entries]
    BY <1>5, LinkedType DEF LoseGlyph, AppendFails
  <2>3. QED
    BY <1>5, <2>1, <2>2 DEF LoseGlyph, AppendFails
<1>6. CASE CreateWindow
  BY <1>6 DEF CreateWindow, GoOn, ErrorPrint, windowRest, listVars
<1>7. CASE WmCreate
  <2>1. gdi' \subseteq {"dc", "bitmap"} /\ (gdi' # {} => display') /\ display' \in BOOLEAN
    BY <1>7 DEF WmCreate
  <2>2. list'
    BY <1>7 DEF WmCreate, StartDrawing, listVars
  <2>3. pc' \in Places /\ held' \subseteq Resources
    BY <1>7 DEF WmCreate, GoOn
  <2>4. QED
    BY <1>7, <2>1, <2>2, <2>3 DEF WmCreate, windowRest
<1>8. CASE DrawList \/ FreeList
  <2>1. ptr # NoBlock => node[ptr] \in Entries
    BY DEF HostTypeOK
  <2>2. list'
    BY <1>8, <2>1 DEF DrawList, FreeList, DrawNode, FreeNode, StartFreeing, listVars, Entries
  <2>3. rest'
    BY <1>8 DEF DrawList, FreeList, GoOn, createRest, windowRest, winVars
  <2>4. QED
    BY <2>2, <2>3
<1>9. CASE ShowWindow
  BY <1>9 DEF ShowWindow, WmPaint, GoOn, windowRest, listVars
<1>10. CASE DispatchClose \/ DispatchPaint \/ GetQuit
  BY <1>10 DEF DispatchClose, DispatchPaint, GetQuit, WmPaint, WmDestroy, Deleted, loopRest, listVars, winVars
<1>11. CASE DoneFace \/ DoneFreeType \/ Exit
  BY <1>11 DEF DoneFace, DoneFreeType, Exit, endRest, listVars, winVars
<1>12. CASE EnterLine \/ CloseWindow \/ UncoverWindow
  <2>1. entered' \in BOOLEAN /\ closing' \in BOOLEAN /\ invalid' \in BOOLEAN
    BY <1>12 DEF EnterLine, CloseWindow, UncoverWindow
  <2>2. UNCHANGED userRest
    BY <1>12 DEF EnterLine, CloseWindow, UncoverWindow
  <2>3. QED
    BY <2>1, <2>2 DEF userRest, listVars
<1>13. QED
  BY <1>1, <1>2, <1>3, <1>4, <1>5, <1>6, <1>7, <1>8, <1>9, <1>10, <1>11, <1>12 DEF HostNext, WinMain

----------------------------------------------------------------------------
(* The list                                                                *)

\* The blocks of the list, one by one.
LEMMA KeptBlocksAre ==
  \A x : x \in KeptBlocks <=> \E k \in DOMAIN kept : x = kept[k].node \/ x = kept[k].buffer
BY DEF KeptBlocks, BlocksOf

LEMMA KeptFacts ==
  ASSUME KeptType
  PROVE /\ Len(kept) \in Nat /\ DOMAIN kept = 1 .. Len(kept)
        /\ \A k \in 1 .. Len(kept) :
             /\ kept[k] = [item |-> kept[k].item, node |-> kept[k].node, buffer |-> kept[k].buffer]
             /\ kept[k].item \in Nat /\ kept[k].node \in Blocks /\ kept[k].buffer \in Blocks
             /\ At(k) = kept[k].node
        /\ At(0) = NoBlock /\ At(Len(kept) + 1) = NoBlock
<1>1. Len(kept) \in Nat /\ DOMAIN kept = 1 .. Len(kept)
  BY DEF KeptType
<1>2. \A k \in 1 .. Len(kept) : kept[k] \in KeptEntries
  BY <1>1 DEF KeptType
<1>3. ASSUME NEW k \in 1 .. Len(kept)
      PROVE kept[k] = [item |-> kept[k].item, node |-> kept[k].node, buffer |-> kept[k].buffer]
            /\ kept[k].item \in Nat /\ kept[k].node \in Blocks /\ kept[k].buffer \in Blocks
  BY <1>2 DEF KeptEntries
<1>4. QED
  BY <1>1, <1>3 DEF At, Node

\* What append_data() does to a list that is in order: the new node is linked
\* behind the last one, and both blocks are new.
LEMMA AppendStep ==
  ASSUME HostTypeOK, ListInv, pc = "text", pc' = pc, AppendData(i)
  PROVE ListInv'
<1> DEFINE L == Len(kept)
<1>0. PICK b \in Blocks \ heap : \E n \in Blocks \ (heap \cup {b}) :
        /\ heap' = heap \cup {b, n}
        /\ node' = [Linked(n) EXCEPT ![n] = Entry(i, b)]
        /\ data' = IF data = NoBlock THEN n ELSE data
        /\ current' = n
        /\ kept' = Append(kept, [item |-> i, node |-> n, buffer |-> b])
        /\ UNCHANGED <<ptr, drawn>>
  BY Zenon DEF AppendData
<1>1. PICK n \in Blocks \ (heap \cup {b}) :
        /\ heap' = heap \cup {b, n}
        /\ node' = [Linked(n) EXCEPT ![n] = Entry(i, b)]
        /\ data' = IF data = NoBlock THEN n ELSE data
        /\ current' = n
        /\ kept' = Append(kept, [item |-> i, node |-> n, buffer |-> b])
        /\ UNCHANGED <<ptr, drawn>>
  BY <1>0
<1>2. KeptType /\ Chain /\ Apart /\ Ends /\ heap = KeptBlocks /\ drawn = <<>>
  BY DEF ListInv, HeapInv, Before
<1>3. /\ L \in Nat /\ DOMAIN kept = 1 .. L
      /\ \A k \in 1 .. L : /\ kept[k].item \in Nat /\ kept[k].node \in Blocks
                           /\ kept[k].buffer \in Blocks /\ At(k) = kept[k].node
      /\ At(0) = NoBlock /\ At(L + 1) = NoBlock
  BY <1>2, KeptFacts
<1>4. i \in Nat
  BY TextType
<1>5. /\ Len(kept') = L + 1 /\ DOMAIN kept' = 1 .. L + 1
      /\ \A k \in 1 .. L : kept'[k] = kept[k]
      /\ kept'[L + 1] = [item |-> i, node |-> n, buffer |-> b]
  BY <1>1, <1>2, <1>3 DEF KeptType
<1>6. KeptType'
  <2>1. [item |-> i, node |-> n, buffer |-> b] \in KeptEntries
    BY <1>4 DEF KeptEntries
  <2>2. QED
    BY <1>1, <1>2, <2>1 DEF KeptType
<1>7. \A k \in 1 .. L : kept[k].node \in heap /\ kept[k].buffer \in heap
  BY <1>2, <1>3, KeptBlocksAre
<1>8. \A k \in 1 .. L : Node(kept', k) = At(k)
  BY <1>3, <1>5 DEF At, Node
<1>9. Node(kept', L + 1) = n /\ Node(kept', L + 2) = NoBlock
  BY <1>3, <1>5 DEF Node
<1>10. Apart'
  <2>1. \A k \in 1 .. L + 1 : kept'[k].node # kept'[k].buffer
    BY <1>2, <1>3, <1>5 DEF Apart
  <2>2. ASSUME NEW k \in 1 .. L + 1, NEW l \in 1 .. L + 1, k < l
        PROVE {kept'[k].node, kept'[k].buffer} \cap {kept'[l].node, kept'[l].buffer} = {}
    <3>1. k \in 1 .. L
      BY <2>2, <1>3
    <3>2. CASE l = L + 1
      BY <3>1, <3>2, <1>5, <1>7
    <3>3. CASE l # L + 1
      <4>1. l \in 1 .. L /\ k # l
        BY <3>3, <2>2, <1>3
      <4>2. QED
        BY <3>1, <4>1, <1>2, <1>3, <1>5 DEF Apart, BlocksOf
    <3>4. QED
      BY <3>2, <3>3
  <2>3. ASSUME NEW k \in 1 .. L + 1, NEW l \in 1 .. L + 1, k # l
        PROVE {kept'[k].node, kept'[k].buffer} \cap {kept'[l].node, kept'[l].buffer} = {}
    <3>1. k < l \/ l < k
      BY <2>3, <1>3
    <3>2. QED
      BY <3>1, <2>2
  <2>4. QED
    BY <2>1, <2>3, <1>5 DEF Apart, BlocksOf
<1>11. /\ L = 0 => data = NoBlock
       /\ L # 0 => data # NoBlock /\ current = kept[L].node
  <2>1. L # 0 => 1 \in 1 .. L /\ L \in 1 .. L
    BY <1>3
  <2>2. data = At(1) /\ current = At(L)
    BY <1>2 DEF Ends, Before
  <2>3. QED
    BY <2>1, <2>2, <1>3, ListAssumption
<1>12. Chain'
  <2>1. n \in Blocks /\ Linked(n) \in [Blocks -> Entries]
    BY LinkedType
  <2>2. node'[n] = Entry(i, b)
    BY <1>1, <2>1
  <2>3. \A x \in Blocks \ {n} : node'[x] = Linked(n)[x]
    BY <1>1, <2>1
  <2>4. ASSUME NEW k \in 1 .. L, k # L
        PROVE node'[kept[k].node] = [item |-> kept[k].item, buffer |-> kept[k].buffer,
                                     next |-> Node(kept', k + 1)]
    <3>1. kept[k].node \in Blocks \ {n} /\ L # 0 /\ k + 1 \in 1 .. L
      BY <2>4, <1>3, <1>7
    <3>2. kept[k].node # current
      <4>1. L \in DOMAIN kept /\ k \in DOMAIN kept
        BY <3>1, <1>3
      <4>2. BlocksOf(k) \cap BlocksOf(L) = {}
        BY <4>1, <2>4, <1>2 DEF Apart
      <4>3. QED
        BY <4>2, <3>1, <1>11 DEF BlocksOf
    <3>3. Linked(n)[kept[k].node] = node[kept[k].node]
      BY <3>1, <3>2 DEF Linked, HostTypeOK
    <3>4. QED
      BY <3>1, <3>3, <2>3, <1>2, <1>3, <1>8 DEF Chain
  <2>5. ASSUME L # 0
        PROVE node'[kept[L].node] = [item |-> kept[L].item, buffer |-> kept[L].buffer, next |-> n]
    <3>1. kept[L].node \in Blocks \ {n} /\ L \in 1 .. L
      BY <2>5, <1>3, <1>7
    <3>2. node[current] = [item |-> kept[L].item, buffer |-> kept[L].buffer, next |-> At(L + 1)]
      BY <3>1, <2>5, <1>2, <1>3, <1>11 DEF Chain
    <3>3. Linked(n)[current] = [node[current] EXCEPT !.next = n]
      BY <3>1, <2>5, <1>11 DEF Linked, HostTypeOK
    <3>4. Linked(n)[current] = [item |-> kept[L].item, buffer |-> kept[L].buffer, next |-> n]
      BY <3>2, <3>3
    <3>5. QED
      BY <3>1, <3>4, <2>3, <2>5, <1>11
  <2>6. ASSUME NEW k \in 1 .. L + 1
        PROVE node'[kept'[k].node] = [item |-> kept'[k].item, buffer |-> kept'[k].buffer,
                                      next |-> Node(kept', k + 1)]
    <3>1. CASE k = L + 1
      <4>1. Node(kept', k + 1) = NoBlock
        BY <3>1, <1>3, <1>9
      <4>2. QED
        BY <3>1, <4>1, <2>2, <1>5 DEF Entry
    <3>2. CASE k = L
      BY <3>2, <2>5, <1>3, <1>5, <1>9
    <3>3. CASE k # L /\ k # L + 1
      <4>0. L \in Nat
        BY <1>3
      <4>1. k \in 1 .. L
        BY <3>3, <4>0
      <4>2. QED
        <5>1. kept'[k] = kept[k]
          BY <4>1, <1>5
        <5>2. QED
          BY <3>3, <4>1, <5>1, <2>4, Zenon
    <3>4. QED
      BY <3>1, <3>2, <3>3
  <2>7. QED
    BY <2>6, <1>5 DEF Chain, At
<1>13. Ends'
  <2>1. current' = Node(kept', Len(kept'))
    BY <1>1, <1>5, <1>9
  <2>2. data' = Node(kept', 1)
    <3>1. CASE L = 0
      BY <3>1, <1>1, <1>9, <1>11
    <3>2. CASE L # 0
      <4>1. 1 \in 1 .. L
        BY <3>2, <1>3
      <4>2. QED
        BY <3>2, <4>1, <1>1, <1>2, <1>8, <1>11 DEF Ends
    <3>3. QED
      BY <3>1, <3>2
  <2>3. QED
    BY <2>1, <2>2 DEF Ends, At
<1>14. HeapInv'
  <2>1. heap' = KeptBlocks'
    <3>1. ASSUME NEW x PROVE x \in KeptBlocks' <=> x \in KeptBlocks \cup {b, n}
      <4>1. x \in KeptBlocks' <=>
              \E k \in DOMAIN kept' : x = kept'[k].node \/ x = kept'[k].buffer
        BY DEF KeptBlocks, BlocksOf
      <4>2. QED
        BY <4>1, <1>3, <1>5, KeptBlocksAre
    <3>2. QED
      BY <3>1, <1>1, <1>2
  <2>2. drawn' = <<>>
    BY <1>1, <1>2
  <2>3. QED
    BY <2>1, <2>2 DEF HeapInv, Before, After
<1>15. QED
  BY <1>6, <1>10, <1>12, <1>13, <1>14 DEF ListInv

\* A list that is not appended to keeps what does not depend on the place.
LEMMA KeptStays ==
  ASSUME KeptType, Chain, Apart, UNCHANGED <<kept, node>>
  PROVE KeptType' /\ Chain' /\ Apart' /\ KeptBlocks' = KeptBlocks
        /\ Items(Len(kept))' = Items(Len(kept)) /\ Len(kept)' = Len(kept)
        /\ \A k : Node(kept', k) = At(k)
BY DEF KeptType, Chain, Apart, KeptBlocks, BlocksOf, Items, At, Node

\* Steps that leave the list alone and go to a place where it may be so.
LEMMA ListStays ==
  ASSUME ListInv, UNCHANGED listVars, HeapInv',
         pc' \in Before => pc \in Before
  PROVE ListInv'
<1>1. UNCHANGED <<kept, node, data, current>>
  BY DEF listVars
<1>2. KeptType' /\ Chain' /\ Apart'
  BY <1>1, KeptStays DEF ListInv
<1>3. Ends'
  BY <1>1 DEF ListInv, Ends, At, Node
<1>4. QED
  BY <1>2, <1>3 DEF ListInv

\* append_data() that fails writes at most the NULL that is already there.
LEMMA LoseStep ==
  ASSUME HostTypeOK, ListInv, LoseGlyph
  PROVE ListInv'
<1>1. KeptType /\ Chain /\ Apart /\ Ends
  BY DEF ListInv
<1>2. pc = "text" /\ pc' = "text" /\ UNCHANGED <<heap, data, current, ptr, drawn, kept>>
  BY DEF LoseGlyph, InText, AppendFails, textRest
<1>3. node' = node
  <2>1. CASE node' = node
    BY <2>1
  <2>2. CASE node' = Linked(NoBlock)
    <3>1. CASE data = NoBlock
      BY <2>2, <3>1 DEF Linked
    <3>2. CASE data # NoBlock
      <4>1. data = At(1) /\ current = At(Len(kept))
        BY <1>1, <1>2 DEF Ends, Before
      <4>2. Len(kept) \in Nat \ {0} /\ DOMAIN kept = 1 .. Len(kept)
        <5>1. Len(kept) \in Nat /\ DOMAIN kept = 1 .. Len(kept) /\ At(Len(kept) + 1) = NoBlock
          BY <1>1, KeptFacts
        <5>2. Len(kept) # 0
          BY <5>1, <3>2, <4>1
        <5>3. QED
          BY <5>1, <5>2
      <4>3. Len(kept) \in DOMAIN kept
        BY <4>2
      <4>4. current = kept[Len(kept)].node /\ At(Len(kept) + 1) = NoBlock /\ current \in Blocks
        BY <1>1, <4>1, <4>2, <4>3, KeptFacts DEF At, Node
      <4>5. node[current].next = NoBlock
        <5>1. node[current] = [item |-> kept[Len(kept)].item, buffer |-> kept[Len(kept)].buffer,
                               next |-> NoBlock]
          BY <1>1, <4>3, <4>4 DEF Chain
        <5>2. QED
          BY <5>1
      <4>6. node[current] \in Entries /\ node \in [Blocks -> Entries]
        BY <4>4 DEF HostTypeOK
      <4>7. [node[current] EXCEPT !.next = NoBlock] = node[current]
        BY <4>5, <4>6 DEF Entries
      <4>8. QED
        BY <2>2, <3>2, <4>4, <4>6, <4>7 DEF Linked
    <3>3. QED
      BY <3>1, <3>2
  <2>3. QED
    BY <2>1, <2>2 DEF LoseGlyph, AppendFails
<1>4. UNCHANGED listVars
  BY <1>2, <1>3 DEF listVars
<1>5. HeapInv'
  <2>1. drawn' = <<>> /\ heap' = KeptBlocks'
    BY <1>1, <1>2, <1>3, KeptStays DEF ListInv, HeapInv, Before
  <2>2. QED
    BY <1>2, <2>1 DEF HeapInv, Before, After
<1>6. QED
  BY <1>2, <1>4, <1>5, ListStays

\* The loop of draw_text() visits the list in order.
LEMMA DrawStep ==
  ASSUME HostTypeOK, ListInv, DrawList
  PROVE ListInv'
<1> DEFINE L == Len(kept)
<1>1. KeptType /\ Chain /\ Apart /\ Ends /\ Drawing
  BY DEF ListInv, HeapInv, DrawList
<1>2. /\ L \in Nat /\ DOMAIN kept = 1 .. L
      /\ \A k \in 1 .. L : kept[k].node \in Blocks /\ At(k) = kept[k].node
      /\ At(L + 1) = NoBlock
  BY <1>1, KeptFacts
<1>3. PICK n \in 0 .. L : drawn = Items(n) /\ ptr = At(n + 1)
  BY <1>1 DEF Drawing
<1>4. UNCHANGED <<heap, node, data, kept>>
  BY DEF DrawList, DrawNode, StartFreeing
<1>5. /\ KeptType' /\ Chain' /\ Apart' /\ KeptBlocks' = KeptBlocks
      /\ \A k : Node(kept', k) = At(k)
  BY <1>1, <1>4, KeptStays
<1>6. n = L <=> ptr = NoBlock
  <2>0. L \in Nat
    BY <1>2
  <2>1. n # L => n + 1 \in 1 .. L
    BY <2>0
  <2>2. QED
    BY <2>1, <1>2, <1>3, ListAssumption
<1>7. CASE DrawNode /\ pc' = "draw_list"
  <2>0. L \in Nat /\ n # L
    BY <1>2, <1>6, <1>7 DEF DrawNode
  <2>1. n \in 0 .. L - 1 /\ n + 1 \in 1 .. L
    BY <2>0
  <2>2. node[ptr] = [item |-> kept[n + 1].item, buffer |-> kept[n + 1].buffer,
                     next |-> At(n + 2)]
    BY <2>1, <1>1, <1>2, <1>3 DEF Chain
  <2>3. drawn' = Append(Items(n), kept[n + 1].item) /\ ptr' = At(n + 2)
    BY <2>2, <1>3, <1>7 DEF DrawNode
  <2>4. Append(Items(n), kept[n + 1].item) = Items(n + 1)
    BY <2>1 DEF Items
  <2>5. Drawing'
    <3>1. n + 1 \in 0 .. L /\ (n + 1) + 1 = n + 2
      BY <2>1, <1>2
    <3>2. heap' = KeptBlocks'
      BY <1>1, <1>4, <1>5 DEF Drawing
    <3>3. drawn' = [k \in 1 .. n + 1 |-> kept'[k].item] /\ ptr' = Node(kept', (n + 1) + 1)
      BY <2>3, <2>4, <3>1, <1>4, <1>5 DEF Items
    <3>4. QED
      BY <3>1, <3>2, <3>3, <1>4 DEF Drawing, Items, At
  <2>6. QED
    <3>1. Ends'
      BY <1>1, <1>4, <1>5, <1>7 DEF Ends, At, Before
    <3>2. HeapInv'
      BY <1>7, <2>5 DEF HeapInv, Before, After
    <3>3. QED
      BY <1>5, <3>1, <3>2 DEF ListInv
<1>8. CASE ptr = NoBlock /\ StartFreeing /\ pc' = "free_list"
  <2>1. drawn = Items(L) /\ ptr' = At(1)
    BY <1>8, <1>6, <1>3, <1>1 DEF StartFreeing, Ends
  <2>2. heap = UNION {BlocksOf(m) : m \in 1 .. L}
    BY <1>1, <1>2 DEF Drawing, KeptBlocks
  <2>3. Freeing'
    <3>1. drawn' = Items(Len(kept))'
      BY <2>1, <1>8, <1>4 DEF StartFreeing, Items
    <3>2. heap' = UNION {{kept'[m].node, kept'[m].buffer} : m \in 1 .. Len(kept')}
      BY <2>2, <1>4 DEF BlocksOf
    <3>3. ptr' = Node(kept', 1) /\ 1 \in 1 .. Len(kept') + 1
      BY <2>1, <1>2, <1>4, <1>5
    <3>4. QED
      BY <3>1, <3>2, <3>3 DEF Freeing, At, BlocksOf
  <2>4. QED
    <3>1. Ends'
      BY <1>1, <1>4, <1>5, <1>8 DEF Ends, At, Before
    <3>2. HeapInv'
      BY <1>8, <2>3 DEF HeapInv, Before, After
    <3>3. QED
      BY <1>5, <3>1, <3>2 DEF ListInv
<1>9. QED
  BY <1>7, <1>8 DEF DrawList, GoOn

\* The loop of free_data() frees the blocks of each node once, and all of them.
LEMMA FreeStep ==
  ASSUME HostTypeOK, ListInv, FreeList
  PROVE ListInv'
<1> DEFINE L == Len(kept)
<1>1. KeptType /\ Chain /\ Apart /\ Ends /\ Freeing
  BY DEF ListInv, HeapInv, FreeList
<1>2. /\ L \in Nat /\ DOMAIN kept = 1 .. L
      /\ \A k \in 1 .. L : kept[k].node \in Blocks /\ At(k) = kept[k].node
      /\ At(L + 1) = NoBlock
  BY <1>1, KeptFacts
<1>3. PICK k \in 1 .. L + 1 : ptr = At(k) /\ heap = UNION {BlocksOf(m) : m \in k .. L}
  BY <1>1 DEF Freeing
<1>4. UNCHANGED <<node, data, kept, drawn>>
  BY DEF FreeList, FreeNode, listVars
<1>5. /\ KeptType' /\ Chain' /\ Apart' /\ KeptBlocks' = KeptBlocks
      /\ \A m : Node(kept', m) = At(m)
  BY <1>1, <1>4, KeptStays
<1>6. drawn' = Items(Len(kept))'
  BY <1>1, <1>4 DEF Freeing, Items
<1>7. CASE FreeNode /\ pc' = "free_list"
  <2>0. L \in Nat
    BY <1>2
  <2>1. k \in 1 .. L /\ k + 1 \in 1 .. L + 1
    <3>1. k # L + 1
      BY <1>2, <1>3, <1>7 DEF FreeNode
    <3>2. QED
      BY <2>0, <3>1
  <2>2. node[ptr] = [item |-> kept[k].item, buffer |-> kept[k].buffer, next |-> At(k + 1)]
        /\ ptr = kept[k].node
    BY <2>1, <1>1, <1>2, <1>3 DEF Chain
  <2>3. heap' = heap \ BlocksOf(k) /\ ptr' = At(k + 1)
    BY <2>2, <1>7 DEF FreeNode, BlocksOf
  <2>4. \A m \in k + 1 .. L : BlocksOf(m) \cap BlocksOf(k) = {}
    <3>1. ASSUME NEW m \in k + 1 .. L
          PROVE BlocksOf(m) \cap BlocksOf(k) = {}
      <4>1. m \in DOMAIN kept /\ k \in DOMAIN kept /\ m # k
        BY <2>0, <2>1, <1>2
      <4>2. QED
        BY <4>1, <1>1 DEF Apart
    <3>2. QED
      BY <3>1
  <2>5. k .. L = {k} \cup (k + 1 .. L)
    BY <2>0, <2>1
  <2>6. heap = BlocksOf(k) \cup UNION {BlocksOf(m) : m \in k + 1 .. L}
    BY <2>5, <1>3
  <2>7. heap' = UNION {BlocksOf(m) : m \in k + 1 .. L}
    BY <2>3, <2>4, <2>6
  <2>8. Freeing'
    <3>1. heap' = UNION {{kept'[m].node, kept'[m].buffer} : m \in k + 1 .. Len(kept')}
      BY <2>7, <1>4 DEF BlocksOf
    <3>2. ptr' = Node(kept', k + 1) /\ k + 1 \in 1 .. Len(kept') + 1
      BY <2>1, <2>3, <1>4, <1>5
    <3>3. QED
      BY <3>1, <3>2, <1>6 DEF Freeing, At, BlocksOf
  <2>9. QED
    <3>1. Ends'
      BY <1>1, <1>4, <1>5, <1>7 DEF Ends, At, Before
    <3>2. HeapInv'
      BY <1>7, <2>8 DEF HeapInv, Before, After
    <3>3. QED
      BY <1>5, <3>1, <3>2 DEF ListInv
<1>8. CASE ptr = NoBlock /\ UNCHANGED listVars /\ pc' = "show"
  <2>0. L \in Nat
    BY <1>2
  <2>1. k = L + 1
    <3>1. k \in 1 .. L => At(k) # NoBlock
      BY <1>2, ListAssumption
    <3>2. QED
      BY <2>0, <3>1, <1>3, <1>8
  <2>2. k .. L = {}
    BY <2>0, <2>1
  <2>3. heap' = {}
    BY <2>2, <1>3, <1>8 DEF listVars
  <2>4. HeapInv'
    BY <2>3, <1>6, <1>8 DEF HeapInv, Before, After
  <2>5. QED
    BY <2>4, <1>8, ListStays DEF Before
<1>9. QED
  BY <1>7, <1>8 DEF FreeList, GoOn

\* WM_CREATE starts the loop at the first node, or leaves the list alone.
LEMMA CreateStep ==
  ASSUME HostTypeOK, ListInv, WmCreate
  PROVE ListInv'
<1>1. KeptType /\ Chain /\ Apart /\ Ends /\ drawn = <<>> /\ heap = KeptBlocks
  BY DEF ListInv, HeapInv, WmCreate
<1>2. CASE gdi' = {"dc", "bitmap"}
  <2>1. pc' = "draw_list" /\ ptr' = data /\ UNCHANGED <<heap, node, data, current, drawn, kept>>
    BY <1>2 DEF WmCreate, StartDrawing, GoOn
  <2>2. KeptType' /\ Chain' /\ Apart' /\ KeptBlocks' = KeptBlocks /\ \A k : Node(kept', k) = At(k)
    BY <1>1, <2>1, KeptStays
  <2>3. Drawing'
    <3>1. 0 \in 0 .. Len(kept') /\ 0 + 1 = 1
      BY <2>2, <2>1, KeptFacts, <1>1
    <3>2. drawn' = [k \in 1 .. 0 |-> kept'[k].item]
      BY <2>1, <1>1
    <3>3. ptr' = Node(kept', 1)
      BY <2>1, <2>2, <1>1 DEF Ends
    <3>4. heap' = KeptBlocks'
      BY <2>1, <2>2, <1>1
    <3>5. QED
      BY <3>1, <3>2, <3>3, <3>4 DEF Drawing, Items, At
  <2>4. Ends'
    BY <1>1, <2>1, <2>2 DEF Ends, At, Before
  <2>5. HeapInv'
    BY <2>1, <2>3 DEF HeapInv, Before, After
  <2>6. QED
    BY <2>2, <2>4, <2>5 DEF ListInv
<1>3. CASE gdi' # {"dc", "bitmap"}
  <2>1. pc' = "show" /\ UNCHANGED listVars
    BY <1>3 DEF WmCreate, GoOn
  <2>2. HeapInv'
    <3>1. drawn' = <<>> /\ heap' = KeptBlocks' /\ ~Drawable'
      BY <2>1, <1>1, <1>3, KeptStays DEF listVars, Drawable
    <3>2. QED
      BY <2>1, <3>1 DEF HeapInv, Before, After
  <2>3. QED
    BY <2>1, <2>2, ListStays DEF Before
<1>4. QED
  BY <1>2, <1>3

\* Every step keeps the list in order.
LEMMA ListStep ==
  ASSUME HostTypeOK, ListInv, WindowInv, [HostNext]_hostVars
  PROVE ListInv'
<1>1. CASE KeepGlyph
  BY <1>1, AppendStep DEF KeepGlyph, InText, textRest
<1>2. CASE LoseGlyph
  BY <1>2, LoseStep
<1>3. CASE WmCreate
  BY <1>3, CreateStep
<1>4. CASE DrawList \/ FreeList
  BY <1>4, DrawStep, FreeStep
<1>5. ASSUME UNCHANGED listVars, HeapInv', pc' \in Before => pc \in Before
      PROVE ListInv'
  BY <1>5, ListStays
<1>6. UNCHANGED listVars => UNCHANGED <<heap, drawn, kept>> /\ KeptBlocks' = KeptBlocks
                            /\ (Items(Len(kept))' = Items(Len(kept)))
  BY DEF listVars, KeptBlocks, BlocksOf, Items
<1>7. CASE AllocConsole \/ InitFreeType \/ LoadFont \/ NewMemoryFace \/ SetPixelSizes
           \/ SkipCharacter \/ RenderFails \/ CreateWindow
  <2>1. UNCHANGED listVars /\ pc \in Before /\ pc' \in Before \cup {"create", "error"}
    BY <1>7 DEF AllocConsole, InitFreeType, LoadFont, NewMemoryFace, SetPixelSizes, SkipCharacter,
                RenderFails, CreateWindow, InText, textRest, setupRest, GoOn, ErrorPrint, Before
  <2>2. HeapInv'
    BY <2>1, <1>6 DEF ListInv, HeapInv, Before, After
  <2>3. QED
    BY <2>1, <2>2, <1>5
<1>8. CASE UNCHANGED hostVars \/ ShowWindow \/ DispatchClose \/ DispatchPaint \/ GetQuit
           \/ DoneFace \/ DoneFreeType \/ Exit \/ EnterLine \/ CloseWindow \/ UncoverWindow
  <2>1. /\ UNCHANGED listVars
        /\ \/ pc' = pc
           \/ pc \in After /\ pc' \in After
           \/ pc = "error" /\ pc' = "exited"
        /\ gdi' = gdi \/ (gdi' # {"dc", "bitmap"} /\ pc = "loop")
    <3>1. CASE UNCHANGED hostVars
      BY <3>1 DEF hostVars, winVars
    <3>2. CASE ShowWindow \/ DispatchPaint \/ GetQuit
      BY <3>2 DEF ShowWindow, DispatchPaint, GetQuit, GoOn, loopRest, winVars, After
    <3>3. CASE DispatchClose
      BY <3>3 DEF DispatchClose, loopRest, WmDestroy, Deleted
    <3>4. CASE DoneFace \/ DoneFreeType \/ Exit
      BY <3>4 DEF DoneFace, DoneFreeType, Exit, endRest, winVars, After
    <3>5. CASE EnterLine \/ CloseWindow \/ UncoverWindow
      BY <3>5 DEF EnterLine, CloseWindow, UncoverWindow, userRest
    <3>6. QED
      BY <1>8, <3>1, <3>2, <3>3, <3>4, <3>5
  <2>2. pc' \in Before => pc \in Before
    BY <2>1 DEF Before, After
  <2>3. HeapInv'
    <3>1. Drawable' => Drawable
      BY <2>1 DEF Drawable
    <3>2. pc = "error" => ~Drawable
      BY DEF WindowInv, Drawable
    <3>3. HeapInv
      BY DEF ListInv
    <3>4. CASE pc' = pc /\ pc \notin Loops
      BY <2>1, <3>1, <3>3, <3>4, <1>6 DEF HeapInv, Before, After, Loops
    <3>5. CASE pc' = pc /\ pc \in Loops
      <4>1. Drawing' <=> Drawing
        BY <2>1 DEF Drawing, listVars, KeptBlocks, BlocksOf, Items, At, Node
      <4>2. Freeing' <=> Freeing
        BY <2>1 DEF Freeing, listVars, BlocksOf, Items, At, Node
      <4>3. QED
        BY <3>3, <3>5, <4>1, <4>2 DEF HeapInv, Before, After, Loops
    <3>6. CASE pc \in After /\ pc' \in After
      BY <2>1, <3>1, <3>3, <3>6, <1>6 DEF HeapInv, Before, After
    <3>7. CASE pc = "error" /\ pc' = "exited"
      BY <2>1, <3>1, <3>2, <3>3, <3>7, <1>6 DEF HeapInv, Before, After
    <3>8. QED
      BY <2>1, <3>4, <3>5, <3>6, <3>7
  <2>4. QED
    BY <2>1, <2>2, <2>3, <1>5
<1>9. QED
  BY <1>1, <1>2, <1>3, <1>4, <1>7, <1>8 DEF HostNext, WinMain

----------------------------------------------------------------------------
(* The text, the window and what is held                                   *)

\* Every step keeps the list to the characters that are behind the loop.
LEMMA TextStep ==
  ASSUME HostTypeOK, ListInv, TextInv, [HostNext]_hostVars
  PROVE TextInv'
<1> DEFINE L == Len(kept)
<1>1. /\ L \in Nat /\ DOMAIN kept = 1 .. L
      /\ Len(text) \in Nat /\ i \in Nat /\ i >= 1
  BY KeptFacts, TextType DEF ListInv
<1>2. CASE KeepGlyph
  <2>1. pc = "text" /\ pc' = "text" /\ text' = text /\ lost' = lost /\ i' = i + 1
        /\ text[i] = "glyph"
    BY <1>2 DEF KeepGlyph, InText, textRest
  <2>2. \E n, b : kept' = Append(kept, [item |-> i, node |-> n, buffer |-> b])
    BY <1>2, Zenon DEF KeepGlyph, AppendData
  <2>3. PICK n, b : kept' = Append(kept, [item |-> i, node |-> n, buffer |-> b])
    BY <2>2
  <2>4. /\ DOMAIN kept' = 1 .. L + 1
        /\ \A k \in 1 .. L : kept'[k] = kept[k]
        /\ kept'[L + 1].item = i
    BY <2>3, <1>1 DEF ListInv, KeptType
  <2>5. \A k \in 1 .. L : kept[k].item \in 1 .. i - 1
    BY <1>1 DEF TextInv
  <2>6. \A k \in 1 .. L + 1 : /\ kept'[k].item \in 1 .. i
                              /\ text[kept'[k].item] = "glyph" /\ kept'[k].item \notin lost
    <3>1. i \notin lost
      BY <1>1 DEF TextInv
    <3>2. ASSUME NEW k \in 1 .. L
          PROVE /\ kept'[k].item \in 1 .. i
                /\ text[kept'[k].item] = "glyph" /\ kept'[k].item \notin lost
      BY <1>1, <2>4, <2>5 DEF TextInv
    <3>3. \A k \in 1 .. L + 1 : k \in 1 .. L \/ k = L + 1
      BY <1>1
    <3>4. QED
      BY <3>1, <3>2, <3>3, <2>1, <2>4, <1>1
  <2>7. \A k, l \in 1 .. L + 1 : k < l => kept'[k].item < kept'[l].item
    <3>1. ASSUME NEW k \in 1 .. L + 1, NEW l \in 1 .. L + 1, k < l
          PROVE kept'[k].item < kept'[l].item
      <4>1. k \in 1 .. L
        BY <3>1, <1>1
      <4>2. CASE l = L + 1
        BY <4>1, <4>2, <1>1, <2>4, <2>5
      <4>3. CASE l # L + 1
        <5>1. l \in 1 .. L
          BY <4>3, <1>1
        <5>2. QED
          BY <5>1, <4>1, <3>1, <1>1, <2>4 DEF TextInv
      <4>4. QED
        BY <4>2, <4>3
    <3>2. QED
      BY <3>1
  <2>8. ASSUME NEW c \in 1 .. i, text[c] = "glyph"
        PROVE c \in lost \/ \E k \in 1 .. L + 1 : kept'[k].item = c
    <3>1. CASE c = i
      <4>1. L + 1 \in 1 .. L + 1
        BY <1>1
      <4>2. QED
        BY <3>1, <4>1, <2>4
    <3>2. CASE c # i
      <4>1. c \in 1 .. i - 1
        BY <3>2, <1>1
      <4>2. c \in lost \/ \E k \in 1 .. L : kept[k].item = c
        BY <4>1, <2>8, <1>1 DEF TextInv
      <4>3. \A k \in 1 .. L : k \in 1 .. L + 1
        BY <1>1
      <4>4. QED
        BY <4>2, <4>3, <2>4
    <3>3. QED
      BY <3>1, <3>2
  <2>9. lost \subseteq 1 .. i
    BY <1>1 DEF TextInv
  <2>10. i' - 1 = i
    BY <2>1, <1>1
  <2>11. QED
    BY <2>1, <2>4, <2>6, <2>7, <2>8, <2>9, <2>10 DEF TextInv, Before, Loops
<1>3. CASE SkipCharacter \/ RenderFails \/ LoseGlyph
  <2>1. /\ pc = "text" /\ pc' = "text" /\ text' = text /\ kept' = kept /\ i' = i + 1
        /\ \/ lost' = lost /\ text[i] # "glyph"
           \/ lost' = lost \cup {i}
    BY <1>3 DEF SkipCharacter, RenderFails, LoseGlyph, AppendFails, InText, textRest, listVars
  <2>2. i' - 1 = i /\ 1 .. i = (1 .. i - 1) \cup {i} /\ i \notin 1 .. i - 1
    BY <2>1, <1>1
  <2>3. \A k \in DOMAIN kept : /\ kept[k].item \in 1 .. i
                               /\ text[kept[k].item] = "glyph" /\ kept[k].item \notin lost'
    BY <2>1, <2>2 DEF TextInv
  <2>4. \A c \in 1 .. i :
          text[c] = "glyph" => c \in lost' \/ \E k \in DOMAIN kept : kept[k].item = c
    BY <2>1, <2>2 DEF TextInv
  <2>5. lost' \subseteq 1 .. i
    BY <2>1, <2>2 DEF TextInv
  <2>6. QED
    BY <2>1, <2>2, <2>3, <2>4, <2>5 DEF TextInv, Before, Loops
<1>4. ASSUME UNCHANGED <<kept, text, i, lost>>,
             pc' \in Before \ {"text"} => pc \in Before \ {"text"},
             pc' \in Loops \cup {"create", "show", "loop"} =>
               pc \in Loops \cup {"create", "show", "loop"} \/ i = Len(text) + 1
      PROVE TextInv'
  BY <1>4 DEF TextInv
<1>5. CASE AllocConsole \/ InitFreeType \/ LoadFont \/ NewMemoryFace \/ SetPixelSizes
  BY <1>4, <1>5 DEF AllocConsole, InitFreeType, LoadFont, NewMemoryFace, SetPixelSizes,
                    setupRest, listVars, GoOn, ErrorPrint, Before, Loops
<1>6. CASE CreateWindow
  <2>1. i = Len(text) + 1
    BY <1>1, <1>6 DEF CreateWindow, HostTypeOK
  <2>2. QED
    BY <1>4, <1>6, <2>1 DEF CreateWindow, windowRest, listVars, GoOn, ErrorPrint, Before, Loops
<1>7. CASE WmCreate \/ ShowWindow \/ DrawList \/ FreeList
  BY <1>4, <1>7 DEF WmCreate, ShowWindow, DrawList, FreeList, StartDrawing, DrawNode, StartFreeing,
                    FreeNode, createRest, windowRest, listVars, GoOn, Before, Loops
<1>8. CASE DispatchClose \/ DispatchPaint \/ GetQuit
  BY <1>4, <1>8 DEF DispatchClose, DispatchPaint, GetQuit, loopRest, listVars, Before, Loops
<1>9. CASE DoneFace \/ DoneFreeType \/ Exit
  BY <1>4, <1>9 DEF DoneFace, DoneFreeType, Exit, endRest, listVars, Before, Loops
<1>10. CASE EnterLine \/ CloseWindow \/ UncoverWindow \/ UNCHANGED hostVars
  BY <1>4, <1>10 DEF EnterLine, CloseWindow, UncoverWindow, userRest, hostVars, listVars
<1>11. QED
  BY <1>2, <1>3, <1>5, <1>6, <1>7, <1>8, <1>9, <1>10 DEF HostNext, WinMain

\* Every step keeps the window to its place in the program.
LEMMA WindowStep ==
  ASSUME HostTypeOK, WindowInv, [HostNext]_hostVars
  PROVE WindowInv'
<1> USE DEF WindowInv, Before, Loops, Drawable
<1>1. CASE UNCHANGED hostVars
  BY <1>1 DEF hostVars, listVars, winVars
<1>2. CASE AllocConsole \/ InitFreeType \/ LoadFont \/ NewMemoryFace \/ SetPixelSizes
  BY <1>2 DEF AllocConsole, InitFreeType, LoadFont, NewMemoryFace, SetPixelSizes,
              setupRest, winVars, GoOn, ErrorPrint
<1>3. CASE SkipCharacter \/ RenderFails \/ KeepGlyph \/ LoseGlyph
  <2>1. pc = "text" /\ pc' = "text" /\ UNCHANGED winVars
    BY <1>3 DEF SkipCharacter, RenderFails, KeepGlyph, LoseGlyph, InText, textRest
  <2>2. QED
    BY <2>1 DEF winVars
<1>4. CASE CreateWindow
  BY <1>4 DEF CreateWindow, GoOn, ErrorPrint
<1>5. CASE WmCreate
  BY <1>5 DEF WmCreate, GoOn
<1>6. CASE DrawList \/ FreeList
  <2>1. pc \in Loops /\ pc' \in Loops \cup {"show"} /\ UNCHANGED winVars
    BY <1>6 DEF DrawList, FreeList, GoOn, createRest
  <2>2. QED
    BY <2>1 DEF winVars
<1>7. CASE ShowWindow
  BY <1>7 DEF ShowWindow, WmPaint, GoOn, listVars, HostTypeOK
<1>8. CASE DispatchClose
  <2>1. gdi' = {}
    BY <1>8 DEF DispatchClose, WmDestroy, Deleted, HostTypeOK
  <2>2. QED
    BY <1>8, <2>1 DEF DispatchClose, WmDestroy
<1>9. CASE DispatchPaint
  BY <1>9 DEF DispatchPaint, WmPaint, loopRest, listVars, HostTypeOK
<1>10. CASE GetQuit \/ DoneFace \/ DoneFreeType \/ Exit
  BY <1>10 DEF GetQuit, DoneFace, DoneFreeType, Exit, loopRest, endRest, listVars, winVars
<1>11. CASE EnterLine \/ CloseWindow \/ UncoverWindow
  BY <1>11 DEF EnterLine, CloseWindow, UncoverWindow, userRest, listVars
<1>12. QED
  BY <1>1, <1>2, <1>3, <1>4, <1>5, <1>6, <1>7, <1>8, <1>9, <1>10, <1>11 DEF HostNext, WinMain

\* Every step keeps what was acquired until the place where it is given back.
LEMMA HeldStep ==
  ASSUME HostTypeOK, TextInv, WindowInv, HeldInv, [HostNext]_hostVars
  PROVE HeldInv'
<1> USE DEF HeldInv, ShowsOnlyWhenReady, Ended
<1>1. CASE UNCHANGED hostVars
  BY <1>1 DEF hostVars, winVars
<1>2. CASE AllocConsole \/ InitFreeType \/ LoadFont \/ NewMemoryFace \/ SetPixelSizes
  <2>1. pc \in Before \ {"text"} /\ i = 1 /\ i' = i /\ window = "none" /\ window' = window
    BY <1>2 DEF AllocConsole, InitFreeType, LoadFont, NewMemoryFace, SetPixelSizes, setupRest,
                winVars, TextInv, WindowInv, Before
  <2>2. QED
    BY <1>2, <2>1 DEF AllocConsole, InitFreeType, LoadFont, NewMemoryFace, SetPixelSizes,
                      GoOn, ErrorPrint
<1>3. CASE SkipCharacter \/ RenderFails \/ KeepGlyph \/ LoseGlyph
  <2>1. pc = "text" /\ UNCHANGED <<pc, held, window>>
    BY <1>3 DEF SkipCharacter, RenderFails, KeepGlyph, LoseGlyph, InText, textRest, winVars
  <2>2. QED
    BY <2>1
<1>4. CASE CreateWindow
  BY <1>4 DEF CreateWindow, GoOn, ErrorPrint, windowRest
<1>5. CASE WmCreate \/ DrawList \/ FreeList \/ ShowWindow
  <2>1. /\ pc \in Loops \cup {"create", "show"} /\ pc' \in Loops \cup {"show", "loop"}
        /\ UNCHANGED i /\ held' = held \cup {}
    BY <1>5 DEF WmCreate, DrawList, FreeList, ShowWindow, GoOn, createRest, windowRest, Loops
  <2>2. QED
    BY <2>1 DEF Loops
<1>6. CASE DispatchClose \/ DispatchPaint \/ GetQuit
  <2>1. pc = "loop" /\ pc' \in {"loop", "face_done"} /\ UNCHANGED <<i, held>>
    BY <1>6 DEF DispatchClose, DispatchPaint, GetQuit, loopRest
  <2>2. QED
    BY <2>1
<1>7. CASE DoneFace \/ DoneFreeType \/ Exit
  BY <1>7 DEF DoneFace, DoneFreeType, Exit, endRest, winVars
<1>8. CASE EnterLine \/ CloseWindow \/ UncoverWindow
  BY <1>8 DEF EnterLine, CloseWindow, UncoverWindow, userRest
<1>9. QED
  BY <1>1, <1>2, <1>3, <1>4, <1>5, <1>6, <1>7, <1>8 DEF HostNext, WinMain

----------------------------------------------------------------------------

\* The first state is in order: there is no list, no window, nothing held.
LEMMA HostInitInv ==
  ASSUME HostInit
  PROVE HostInv
<1>1. kept = <<>> /\ drawn = <<>> /\ heap = {} /\ pc = "start" /\ i = 1 /\ lost = {}
      /\ window = "none" /\ gdi = {} /\ quit = FALSE
  BY DEF HostInit, ListInit
<1>2. /\ Len(kept) = 0 /\ DOMAIN kept = {}
  BY <1>1
<1>3. HostTypeOK
  <2>1. text \in Texts /\ Len(text) \in Nat
    BY HostAssumption DEF HostInit
  <2>2. node \in [Blocks -> Entries]
    BY DEF HostInit, ListInit, Entries
  <2>3. i \in 1 .. Len(text) + 1
    BY <1>1, <2>1
  <2>4. pc \in Places /\ lost = {} /\ held = {} /\ gdi = {} /\ heap = {}
    BY DEF HostInit, ListInit, Places
  <2>5. QED
    BY <2>1, <2>2, <2>3, <2>4, Zenon DEF HostInit, ListInit, HostTypeOK
<1>4. ListInv
  <2>1. KeptType
    BY <1>1 DEF KeptType
  <2>2. KeptBlocks = {}
    BY <1>2 DEF KeptBlocks
  <2>3. At(1) = NoBlock /\ At(Len(kept)) = NoBlock
    BY <1>2 DEF At, Node
  <2>4. QED
    BY <1>1, <1>2, <2>1, <2>2, <2>3
       DEF ListInv, Chain, Apart, Ends, HeapInv, Before, After, HostInit, ListInit
<1>5. TextInv
  BY <1>1, <1>2 DEF TextInv, Loops
<1>6. WindowInv
  BY <1>1 DEF WindowInv, Loops, Drawable
<1>7. HeldInv
  BY <1>1 DEF HeldInv, ShowsOnlyWhenReady
<1>8. QED
  BY <1>3, <1>4, <1>5, <1>6, <1>7 DEF HostInv

\* In order always.
THEOREM HostInvariant == HostSpec => []HostInv
<1>1. HostInit => HostInv
  BY HostInitInv
<1>2. HostInv /\ [HostNext]_hostVars => HostInv'
  BY TypeStep, ListStep, TextStep, WindowStep, HeldStep DEF HostInv
<1>3. QED
  BY <1>1, <1>2, PTL DEF HostSpec

\* The variables keep their types, for all texts and heaps.
THEOREM HostTypeCorrect == HostSpec => []HostTypeOK
<1>1. HostInv => HostTypeOK
  BY DEF HostInv
<1>2. QED
  BY <1>1, HostInvariant, PTL

\* No pointer of the list is followed to a block that has been freed.
THEOREM HostNoStrayPointer == HostSpec => []NoStrayPointer
<1>1. HostInv => NoStrayPointer
  <2> SUFFICES ASSUME HostInv PROVE NoStrayPointer
    OBVIOUS
  <2>1. KeptType /\ Chain /\ Ends /\ HeapInv
    BY DEF HostInv, ListInv
  <2>2. /\ Len(kept) \in Nat /\ DOMAIN kept = 1 .. Len(kept)
        /\ \A k \in 1 .. Len(kept) : At(k) = kept[k].node
        /\ At(0) = NoBlock /\ At(Len(kept) + 1) = NoBlock
    BY <2>1, KeptFacts
  <2>3. ASSUME pc = "text", data # NoBlock
        PROVE current \in heap
    <3>1. data = At(1) /\ current = At(Len(kept)) /\ heap = KeptBlocks
      BY <2>1, <2>3 DEF Ends, HeapInv, Before
    <3>2. Len(kept) # 0
      BY <3>1, <2>2, <2>3
    <3>3. Len(kept) \in 1 .. Len(kept)
      BY <3>2, <2>2
    <3>4. QED
      BY <3>1, <3>3, <2>2, KeptBlocksAre
  <2>4. ASSUME NEW k \in 1 .. Len(kept) + 1, ptr = At(k), ptr # NoBlock
        PROVE k \in 1 .. Len(kept) /\ {ptr, node[ptr].buffer} = BlocksOf(k)
    <3>0. Len(kept) \in Nat
      BY <2>2
    <3>1. k # Len(kept) + 1
      BY <2>2, <2>4
    <3>2. k \in 1 .. Len(kept)
      BY <3>0, <3>1
    <3>3. ptr = kept[k].node /\ node[ptr].buffer = kept[k].buffer
      <4>1. k \in DOMAIN kept /\ ptr = kept[k].node
        BY <3>2, <2>2, <2>4
      <4>2. node[ptr] = [item |-> kept[k].item, buffer |-> kept[k].buffer, next |-> At(k + 1)]
        BY <4>1, <2>1 DEF Chain
      <4>3. QED
        BY <4>1, <4>2
    <3>4. QED
      BY <3>2, <3>3 DEF BlocksOf
  <2>5. ASSUME pc = "draw_list", ptr # NoBlock
        PROVE {ptr, node[ptr].buffer} \subseteq heap
    <3>1. PICK n \in 0 .. Len(kept) : ptr = At(n + 1)
      BY <2>1, <2>5 DEF HeapInv, Drawing
    <3>2. n + 1 \in 1 .. Len(kept) + 1
      <4>1. Len(kept) \in Nat
        BY <2>2
      <4>2. QED
        BY <4>1
    <3>3. n + 1 \in DOMAIN kept /\ {ptr, node[ptr].buffer} = BlocksOf(n + 1)
      BY <3>1, <3>2, <2>2, <2>4, <2>5
    <3>4. heap = KeptBlocks
      BY <2>1, <2>5 DEF HeapInv, Drawing
    <3>5. QED
      BY <3>3, <3>4 DEF KeptBlocks
  <2>6. ASSUME pc = "free_list", ptr # NoBlock
        PROVE {ptr, node[ptr].buffer} \subseteq heap
    <3>1. PICK k \in 1 .. Len(kept) + 1 :
            ptr = At(k) /\ heap = UNION {BlocksOf(m) : m \in k .. Len(kept)}
      BY <2>1, <2>6 DEF HeapInv, Freeing
    <3>2. k \in 1 .. Len(kept) /\ {ptr, node[ptr].buffer} = BlocksOf(k)
      BY <3>1, <2>4, <2>6
    <3>3. k \in k .. Len(kept)
      BY <3>2, <2>2
    <3>4. QED
      BY <3>1, <3>2, <3>3
  <2>7. QED
    BY <2>3, <2>5, <2>6 DEF NoStrayPointer
<1>2. QED
  BY <1>1, HostInvariant, PTL

\* The heap holds the list and nothing else, until it is freed as a whole.
THEOREM HostNothingLeaks == HostSpec => []NothingLeaks
<1>1. HostInv => NothingLeaks
  <2> SUFFICES ASSUME HostInv PROVE NothingLeaks
    OBVIOUS
  <2>1. KeptType /\ Apart /\ HeapInv /\ pc \in Places
    BY DEF HostInv, ListInv, HostTypeOK
  <2>2. Len(kept) \in Nat /\ DOMAIN kept = 1 .. Len(kept)
    BY <2>1, KeptFacts
  <2>3. drawn = Items(Len(kept)) /\ drawn = <<>> => KeptBlocks = {}
    <3>1. ASSUME Items(Len(kept)) = <<>> PROVE KeptBlocks = {}
      <4>1. DOMAIN Items(Len(kept)) = 1 .. Len(kept)
        BY DEF Items
      <4>2. DOMAIN kept = {}
        BY <4>1, <3>1, <2>2
      <4>3. QED
        BY <4>2 DEF KeptBlocks
    <3>2. QED
      BY <3>1
  <2>4. CASE pc \in Before \cup {"create", "error"}
    BY <2>1, <2>4 DEF HeapInv, NothingLeaks, Apart, Before
  <2>5. CASE pc = "draw_list"
    BY <2>1, <2>5 DEF HeapInv, Drawing, NothingLeaks, Apart
  <2>6. CASE pc = "free_list"
    BY <2>1, <2>6 DEF NothingLeaks, Apart
  <2>7. CASE pc \in After
    BY <2>1, <2>3, <2>7 DEF HeapInv, NothingLeaks, Apart, After
  <2>8. QED
    BY <2>1, <2>4, <2>5, <2>6, <2>7 DEF Places, Before, After
<1>2. QED
  BY <1>1, HostInvariant, PTL

\* A painted window shows the glyphs of the text that did not fail, in order.
THEOREM HostShowsText == HostSpec => []ShowsText
<1>1. HostInv => ShowsText
  <2> SUFFICES ASSUME HostInv, pc = "loop", window = "shown", ~invalid, Drawable
               PROVE /\ \A m, n \in DOMAIN screen : m < n => screen[m] < screen[n]
                     /\ {screen[n] : n \in DOMAIN screen}
                          = {n \in DOMAIN text : text[n] = "glyph"} \ lost
    BY DEF ShowsText
  <2>1. /\ Len(kept) \in Nat /\ DOMAIN kept = 1 .. Len(kept)
        /\ Len(text) \in Nat /\ DOMAIN text = 1 .. Len(text)
    BY KeptFacts, TextType DEF HostInv, ListInv
  <2>2. screen = Items(Len(kept))
    <3>1. (drawn = <<>> /\ kept = <<>>) \/ drawn = Items(Len(kept))
      BY DEF HostInv, ListInv, HeapInv, After
    <3>2. kept = <<>> => Items(Len(kept)) = <<>>
      BY DEF Items
    <3>3. QED
      BY <3>1, <3>2 DEF HostInv, WindowInv
  <2>3. DOMAIN screen = 1 .. Len(kept) /\ \A k \in 1 .. Len(kept) : screen[k] = kept[k].item
    BY <2>2 DEF Items
  <2>4. i - 1 = Len(text)
    BY <2>1 DEF HostInv, TextInv, Loops
  <2>5. \A m, n \in DOMAIN screen : m < n => screen[m] < screen[n]
    BY <2>1, <2>3 DEF HostInv, TextInv
  <2>6. \A k \in 1 .. Len(kept) : /\ kept[k].item \in 1 .. Len(text)
                                  /\ text[kept[k].item] = "glyph" /\ kept[k].item \notin lost
    BY <2>1, <2>4 DEF HostInv, TextInv
  <2>7. \A n \in 1 .. Len(text) :
          text[n] = "glyph" => n \in lost \/ \E k \in 1 .. Len(kept) : kept[k].item = n
    BY <2>1, <2>4 DEF HostInv, TextInv
  <2>8. QED
    BY <2>1, <2>3, <2>5, <2>6, <2>7
<1>2. QED
  BY <1>1, HostInvariant, PTL

\* Nothing is collected or shown without library, font and face, for texts of
\* every length.
THEOREM HostShowsOnlyWhenReady == HostSpec => []ShowsOnlyWhenReady
<1>1. HostInv => ShowsOnlyWhenReady
  BY DEF HostInv, HeldInv
<1>2. QED
  BY <1>1, HostInvariant, PTL

\* When the window is gone so are its GDI objects.
THEOREM HostGdiReleased == HostSpec => []GdiReleased
<1>1. HostInv => GdiReleased
  BY DEF HostInv, WindowInv, GdiReleased
<1>2. QED
  BY <1>1, HostInvariant, PTL

----------------------------------------------------------------------------
(* Steps                                                                   *)

\* The number of nodes from ptr on, ptr's own one included.
Left == CHOOSE n \in 0 .. Len(kept) : ptr = At(Len(kept) + 1 - n)

\* A window on which WM_CLOSE waits is open.
CloseInv == closing => window = "shown"

\* What is still to be done for the window, unless it is uncovered again.
Messages == (IF invalid THEN 1 ELSE 0) + (IF window = "shown" THEN 1 ELSE 0)

\* How many steps the program has left at most, unless the window is uncovered
\* again.  A character is looked at in one step; one that is kept costs two
\* more, an iteration of each loop over the list.
Rank ==
  CASE pc = "start"        -> 15 + 3 * Len(text)
    [] pc = "library"      -> 14 + 3 * Len(text)
    [] pc = "font"         -> 13 + 3 * Len(text)
    [] pc = "face"         -> 12 + 3 * Len(text)
    [] pc = "size"         -> 11 + 3 * Len(text)
    [] pc = "text"         -> 10 + 2 * Len(kept) + 3 * (Len(text) + 1 - i)
    [] pc = "create"       -> 9 + 2 * Len(kept)
    [] pc = "draw_list"    -> 8 + Len(kept) + Left
    [] pc = "free_list"    -> 7 + Left
    [] pc = "show"         -> 6
    [] pc = "loop"         -> 4 + Messages
    [] pc = "face_done"    -> 3
    [] pc = "library_done" -> 2
    [] pc \in {"get_char", "error"} -> 1
    [] pc = "exited"       -> 0

\* The pointers of a list that is in order tell how much of it is left: no
\* node comes twice.
LEMMA LeftIs ==
  ASSUME KeptType, Apart, NEW n \in 0 .. Len(kept), ptr = At(Len(kept) + 1 - n)
  PROVE  Left = n
<1>1. /\ Len(kept) \in Nat /\ DOMAIN kept = 1 .. Len(kept)
      /\ \A k \in 1 .. Len(kept) : At(k) = kept[k].node /\ kept[k].node \in Blocks
      /\ At(Len(kept) + 1) = NoBlock
  BY KeptFacts
<1>2. ASSUME NEW k \in 1 .. Len(kept) + 1, NEW l \in 1 .. Len(kept) + 1, At(k) = At(l), k < l
      PROVE  FALSE
  <2>1. k \in 1 .. Len(kept)
    BY <1>1, <1>2
  <2>2. l # Len(kept) + 1
    BY <1>1, <1>2, <2>1, ListAssumption
  <2>3. l \in 1 .. Len(kept) /\ k # l
    BY <1>1, <1>2, <2>2
  <2>4. kept[k].node \in BlocksOf(k) /\ kept[k].node \in BlocksOf(l)
    BY <1>1, <1>2, <2>1, <2>3 DEF BlocksOf
  <2>5. BlocksOf(k) \cap BlocksOf(l) = {}
    BY <1>1, <2>1, <2>3 DEF Apart
  <2> QED
    BY <2>4, <2>5
<1>3. ASSUME NEW m \in 0 .. Len(kept), ptr = At(Len(kept) + 1 - m) PROVE m = n
  <2>1. /\ Len(kept) + 1 - m \in 1 .. Len(kept) + 1
        /\ Len(kept) + 1 - n \in 1 .. Len(kept) + 1
    BY <1>1
  <2>2. ~(Len(kept) + 1 - m < Len(kept) + 1 - n) /\ ~(Len(kept) + 1 - n < Len(kept) + 1 - m)
    BY <1>2, <1>3, <2>1
  <2> QED
    BY <1>1, <2>1, <2>2
<1> QED
  BY <1>3 DEF Left

LeftUnique ==
  KeptType /\ Apart =>
    \A n \in 0 .. Len(kept) : ptr = At(Len(kept) + 1 - n) => Left = n

LEMMA LeftIsUnique == LeftUnique
  BY LeftIs DEF LeftUnique

\* Where ptr is in the loops over the list.
LEMMA LeftFacts ==
  ASSUME ListInv, pc \in Loops
  PROVE  /\ Left \in 0 .. Len(kept) /\ ptr = At(Len(kept) + 1 - Left)
         /\ Left = 0 <=> ptr = NoBlock
         /\ Left # 0 => node[ptr].next = At(Len(kept) + 1 - (Left - 1))
<1>1. /\ Len(kept) \in Nat /\ DOMAIN kept = 1 .. Len(kept)
      /\ \A k \in 1 .. Len(kept) : At(k) = kept[k].node /\ kept[k].node \in Blocks
      /\ At(Len(kept) + 1) = NoBlock
  BY KeptFacts DEF ListInv
<1>2. \E k \in 1 .. Len(kept) + 1 : ptr = At(k)
  <2>1. CASE pc = "draw_list"
    <3>1. PICK n \in 0 .. Len(kept) : ptr = At(n + 1)
      BY <2>1 DEF ListInv, HeapInv, Drawing
    <3>2. n + 1 \in 1 .. Len(kept) + 1
      BY <1>1
    <3> QED
      BY <3>1, <3>2
  <2>2. CASE pc = "free_list"
    BY <2>2 DEF ListInv, HeapInv, Freeing
  <2> QED
    BY <2>1, <2>2 DEF Loops
<1>3. PICK k \in 1 .. Len(kept) + 1 : ptr = At(k)
  BY <1>2
<1>4. Len(kept) + 1 - k \in 0 .. Len(kept) /\ Len(kept) + 1 - (Len(kept) + 1 - k) = k
  BY <1>1
<1>5. Left = Len(kept) + 1 - k
  BY <1>3, <1>4, LeftIs DEF ListInv
<1>6. Left = 0 <=> k = Len(kept) + 1
  BY <1>1, <1>5
<1>7. CASE k = Len(kept) + 1
  BY <1>1, <1>3, <1>4, <1>5, <1>6, <1>7
<1>8. CASE k # Len(kept) + 1
  <2>1. k \in DOMAIN kept /\ k \in 1 .. Len(kept)
    BY <1>1, <1>8
  <2>2. ptr = kept[k].node /\ ptr # NoBlock
    BY <1>1, <1>3, <2>1, ListAssumption
  <2>3. node[ptr].next = At(k + 1)
    <3>1. node[kept[k].node]
            = [item |-> kept[k].item, buffer |-> kept[k].buffer, next |-> At(k + 1)]
      BY <2>1 DEF ListInv, Chain
    <3> QED
      BY <2>2, <3>1
  <2>4. Len(kept) + 1 - (Left - 1) = k + 1
    BY <1>1, <1>5
  <2> QED
    BY <1>3, <1>4, <1>5, <1>6, <1>8, <2>2, <2>3, <2>4
<1> QED
  BY <1>7, <1>8

\* The rank at each place.
LEMMA RankFacts ==
  ASSUME HostInv
  PROVE  /\ pc = "start" => Rank = 15 + 3 * Len(text)
         /\ pc = "library" => Rank = 14 + 3 * Len(text)
         /\ pc = "font" => Rank = 13 + 3 * Len(text)
         /\ pc = "face" => Rank = 12 + 3 * Len(text)
         /\ pc = "size" => Rank = 11 + 3 * Len(text)
         /\ pc = "text" => Rank = 10 + 2 * Len(kept) + 3 * (Len(text) + 1 - i)
         /\ pc = "create" => Rank = 9 + 2 * Len(kept)
         /\ pc = "draw_list" => Rank = 8 + Len(kept) + Left
         /\ pc = "free_list" => Rank = 7 + Left
         /\ pc = "show" => Rank = 6
         /\ pc = "loop" => Rank = 4 + Messages
         /\ pc = "face_done" => Rank = 3
         /\ pc = "library_done" => Rank = 2
         /\ pc \in {"get_char", "error"} => Rank = 1
         /\ pc = "exited" => Rank = 0
         /\ pc \in Loops => Left \in Nat
         /\ Messages \in 0 .. 2
         /\ Rank \in Nat
         /\ Len(text) \in Nat /\ Len(kept) \in Nat /\ i \in 1 .. Len(text) + 1
<1>1. Len(text) \in Nat /\ Len(kept) \in Nat /\ i \in 1 .. Len(text) + 1
  BY TextType, KeptFacts DEF HostInv, HostTypeOK, ListInv
<1>2. Messages \in 0 .. 2
  BY DEF Messages
<1>3. pc \in Loops => Left \in Nat
  BY <1>1, LeftFacts DEF HostInv
<1>4. pc \in Places
  BY DEF HostInv, HostTypeOK
<1>5. CASE pc \in {"start", "library", "font", "face", "size"}
  BY <1>1, <1>2, <1>3, <1>5 DEF Rank, Loops
<1>6. CASE pc \in {"text", "create"}
  BY <1>1, <1>2, <1>3, <1>6 DEF Rank, Loops
<1>8. CASE pc = "draw_list"
  BY <1>1, <1>2, <1>3, <1>8 DEF Rank, Loops
<1>9. CASE pc = "free_list"
  BY <1>1, <1>2, <1>3, <1>9 DEF Rank, Loops
<1>7. CASE pc \in {"show", "loop", "face_done", "library_done", "get_char", "error", "exited"}
  BY <1>1, <1>2, <1>3, <1>7 DEF Rank, Loops
<1> QED
  BY <1>4, <1>5, <1>6, <1>7, <1>8, <1>9 DEF Places

\* Before the text is looked at, the list is empty.
LEMMA SetupRank ==
  ASSUME HostInv, HostInv',
         AllocConsole \/ InitFreeType \/ LoadFont \/ NewMemoryFace \/ SetPixelSizes
  PROVE  Rank' < Rank
<1>1. kept = <<>> /\ i = 1 /\ UNCHANGED <<text, i, kept>>
  <2>1. pc \in Before \ {"text"}
    BY DEF AllocConsole, InitFreeType, LoadFont, NewMemoryFace, SetPixelSizes, Before
  <2>2. i = 1 /\ KeptType
    BY <2>1 DEF HostInv, TextInv, ListInv
  <2>3. \A k \in DOMAIN kept : FALSE
    BY <2>2 DEF HostInv, TextInv
  <2>4. kept = <<>>
    <3>1. Len(kept) = 0
      BY <2>2, <2>3, KeptFacts
    <3> QED
      BY <2>2, <3>1 DEF KeptType
  <2> QED
    BY <2>2, <2>4 DEF AllocConsole, InitFreeType, LoadFont, NewMemoryFace, SetPixelSizes,
                      setupRest, listVars
<1>2. Len(kept) = 0 /\ Len(kept') = 0 /\ Len(text) \in Nat /\ Len(text') = Len(text)
  BY <1>1, RankFacts
<1>3. Rank = CASE pc = "start" -> 15 + 3 * Len(text) [] pc = "library" -> 14 + 3 * Len(text)
               [] pc = "font" -> 13 + 3 * Len(text) [] pc = "face" -> 12 + 3 * Len(text)
               [] pc = "size" -> 11 + 3 * Len(text) [] OTHER -> Rank
  BY RankFacts
<1>4. /\ pc' = "library" => Rank' = 14 + 3 * Len(text)
      /\ pc' = "font" => Rank' = 13 + 3 * Len(text)
      /\ pc' = "face" => Rank' = 12 + 3 * Len(text)
      /\ pc' = "size" => Rank' = 11 + 3 * Len(text)
      /\ pc' = "text" => Rank' = 10 + 3 * Len(text)
      /\ pc' = "error" => Rank' = 1
  BY <1>1, <1>2 DEF Rank
<1> QED
  BY <1>2, <1>3, <1>4
  DEF AllocConsole, InitFreeType, LoadFont, NewMemoryFace, SetPixelSizes, GoOn, ErrorPrint

\* A character is passed, with at most one node more.
LEMMA TextRank ==
  ASSUME HostInv, HostInv', SkipCharacter \/ RenderFails \/ KeepGlyph \/ LoseGlyph
  PROVE  Rank' < Rank
<1>1. pc = "text" /\ pc' = "text" /\ i' = i + 1 /\ text' = text
  BY DEF SkipCharacter, RenderFails, KeepGlyph, LoseGlyph, InText, textRest
<1>2. Len(kept') \in {Len(kept), Len(kept) + 1}
  <2>1. CASE KeepGlyph
    <3>1. \E e : kept' = Append(kept, e)
      BY <2>1 DEF KeepGlyph, AppendData
    <3>2. kept \in Seq(KeptEntries) /\ kept' \in Seq(KeptEntries)
      BY DEF HostInv, ListInv, KeptType
    <3> QED
      BY <3>1, <3>2
  <2>2. CASE SkipCharacter \/ RenderFails \/ LoseGlyph
    BY <2>2 DEF SkipCharacter, RenderFails, LoseGlyph, AppendFails, listVars
  <2> QED
    BY <2>1, <2>2
<1>3. /\ Rank = 10 + 2 * Len(kept) + 3 * (Len(text) + 1 - i)
      /\ Len(text) \in Nat /\ Len(kept) \in Nat /\ i \in Nat
  BY <1>1, RankFacts
<1>4. Rank' = 10 + 2 * Len(kept') + 3 * (Len(text) + 1 - (i + 1))
  BY <1>1 DEF Rank
<1> QED
  BY <1>2, <1>3, <1>4

\* An iteration of a loop over the list, or its start or end.
LEMMA LoopRank ==
  ASSUME HostInv, HostInv', CreateWindow \/ WmCreate \/ DrawList \/ FreeList
  PROVE  Rank' < Rank
<1>1. kept' = kept /\ text' = text /\ Len(kept) \in Nat /\ Len(text) \in Nat /\ i \in Nat
  BY RankFacts
  DEF CreateWindow, WmCreate, DrawList, FreeList, StartDrawing, StartFreeing, DrawNode,
      FreeNode, listVars, windowRest, createRest
<1>2. ListInv /\ ListInv' /\ (pc' \in Loops => Left' \in 0 .. Len(kept))
  <2>1. ListInv /\ ListInv'
    BY DEF HostInv
  <2>2. ListInv' /\ (pc \in Loops)' => (Left \in 0 .. Len(kept))'
    BY LeftFacts, PTL
  <2> QED
    BY <1>1, <2>1, <2>2
<1>3. /\ pc' = "create" => Rank' = 9 + 2 * Len(kept)
      /\ pc' = "draw_list" => Rank' = 8 + Len(kept) + Left'
      /\ pc' = "free_list" => Rank' = 7 + Left'
      /\ pc' = "show" => Rank' = 6
      /\ pc' = "error" => Rank' = 1
  BY <1>1 DEF Rank
<1>4. CASE CreateWindow
  <2>1. pc = "text" /\ pc' \in {"create", "error"} /\ i = Len(text) + 1
    BY <1>1, <1>4, RankFacts DEF CreateWindow, GoOn, ErrorPrint
  <2>2. Rank = 10 + 2 * Len(kept)
    BY <1>1, <2>1, RankFacts
  <2> QED
    BY <1>1, <1>3, <2>1, <2>2
<1>5. CASE WmCreate
  <2>1. pc = "create" /\ pc' \in {"draw_list", "show"}
    BY <1>5 DEF WmCreate, GoOn
  <2>2. Rank = 9 + 2 * Len(kept)
    BY <2>1, RankFacts
  <2> QED
    BY <1>1, <1>2, <1>3, <2>1, <2>2 DEF Loops
<1>6. ASSUME DrawNode \/ FreeNode, pc \in Loops, pc' \in Loops PROVE Left' = Left - 1
  <2>1. /\ Left \in 0 .. Len(kept) /\ Left # 0
        /\ node[ptr].next = At(Len(kept) + 1 - (Left - 1))
    BY <1>2, <1>6, LeftFacts DEF DrawNode, FreeNode
  <2>2. Left - 1 \in 0 .. Len(kept) /\ ptr' = At(Len(kept) + 1 - (Left - 1))
    BY <1>1, <1>6, <2>1 DEF DrawNode, FreeNode
  <2>3. PICK n \in Nat : n = Left - 1
    BY <2>2, <1>1
  <2>4. n \in 0 .. Len(kept') /\ ptr' = Node(kept', Len(kept') + 1 - n)
    BY <1>1, <2>2, <2>3 DEF At
  <2>5. (KeptType /\ Apart)'
    BY <1>2 DEF ListInv
  <2>6. LeftUnique'
    BY LeftIsUnique, PTL
  <2> QED
    BY <2>3, <2>4, <2>5, <2>6 DEF At, LeftUnique
<1>7. CASE DrawList
  <2>1. pc = "draw_list" /\ Rank = 8 + Len(kept) + Left /\ Left \in Nat
    BY <1>7, RankFacts DEF DrawList, Loops
  <2>2. CASE DrawNode /\ pc' = "draw_list"
    BY <1>1, <1>3, <1>6, <2>1, <2>2 DEF Loops
  <2>3. CASE pc' = "free_list"
    BY <1>1, <1>2, <1>3, <2>1, <2>3 DEF Loops
  <2> QED
    BY <1>7, <2>2, <2>3 DEF DrawList, GoOn
<1>8. CASE FreeList
  <2>1. pc = "free_list" /\ Rank = 7 + Left /\ Left \in Nat
    BY <1>8, RankFacts DEF FreeList, Loops
  <2>2. CASE FreeNode /\ pc' = "free_list"
    BY <1>1, <1>3, <1>6, <2>1, <2>2 DEF Loops
  <2>3. CASE pc' = "show"
    BY <1>1, <1>3, <2>1, <2>3
  <2> QED
    BY <1>8, <2>2, <2>3 DEF FreeList, GoOn
<1> QED
  BY <1>4, <1>5, <1>7, <1>8

\* A message is processed, or the program is left.
LEMMA MessageRank ==
  ASSUME HostInv, HostInv', CloseInv,
         ShowWindow \/ DispatchClose \/ DispatchPaint \/ GetQuit \/ DoneFace \/ DoneFreeType \/ Exit
  PROVE  Rank' < Rank
<1>1. /\ pc' = "loop" => Rank' = 4 + Messages'
      /\ pc' = "face_done" => Rank' = 3
      /\ pc' = "library_done" => Rank' = 2
      /\ pc' = "get_char" => Rank' = 1
      /\ pc' = "exited" => Rank' = 0
  BY DEF Rank
<1>2. CASE ShowWindow
  <2>1. Messages' \in 0 .. 1 /\ pc = "show" /\ pc' = "loop"
    BY <1>2 DEF ShowWindow, GoOn, WmPaint, Messages
  <2>2. Rank = 6
    BY <2>1, RankFacts
  <2>3. Rank' = 4 + Messages' /\ (Messages' = 0 \/ Messages' = 1)
    BY <1>1, <2>1
  <2> QED
    BY <2>2, <2>3
<1>3. CASE DispatchClose
  <2>1. Messages' = 0 /\ Messages \in 1 .. 2 /\ pc = "loop" /\ pc' = "loop"
    BY <1>3 DEF DispatchClose, WmDestroy, Messages, CloseInv
  <2> QED
    BY <1>1, <2>1, RankFacts
<1>4. CASE DispatchPaint
  <2>1. Messages' = Messages - 1 /\ Messages \in 1 .. 2 /\ pc = "loop" /\ pc' = "loop"
    BY <1>4 DEF DispatchPaint, WmPaint, Messages
  <2> QED
    BY <1>1, <2>1, RankFacts
<1>5. CASE GetQuit \/ DoneFace \/ DoneFreeType \/ Exit
  <2>1. pc = "loop" => Rank \in 4 .. 6
    BY RankFacts
  <2> QED
    BY <1>1, <1>5, <2>1, RankFacts DEF GetQuit, DoneFace, DoneFreeType, Exit
<1> QED
  BY <1>2, <1>3, <1>4, <1>5

\* WM_CLOSE waits only on a window that is open: one that was closed twice is
\* closed once.
LEMMA CloseStep == ASSUME HostInv, CloseInv, [HostNext]_hostVars PROVE CloseInv'
<1>1. CASE closing' /\ ~closing
  BY <1>1
  DEF CloseInv, HostNext, WinMain, AllocConsole, InitFreeType, LoadFont, NewMemoryFace,
      SetPixelSizes, SkipCharacter, RenderFails, KeepGlyph, LoseGlyph, CreateWindow, WmCreate,
      DrawList, FreeList, ShowWindow, DispatchClose, DispatchPaint, GetQuit, DoneFace,
      DoneFreeType, Exit, EnterLine, CloseWindow, UncoverWindow, setupRest, textRest,
      windowRest, createRest, loopRest, endRest, userRest, winVars, hostVars
<1>2. CASE closing' /\ closing
  <2>1. window = "shown" /\ pc = "loop"
    BY <1>2 DEF CloseInv, HostInv, WindowInv
  <2> QED
    BY <1>2, <2>1
    DEF CloseInv, HostNext, WinMain, AllocConsole, InitFreeType, LoadFont, NewMemoryFace,
        SetPixelSizes, SkipCharacter, RenderFails, KeepGlyph, LoseGlyph, CreateWindow, WmCreate,
        DrawList, FreeList, ShowWindow, DispatchClose, DispatchPaint, GetQuit, DoneFace,
        DoneFreeType, Exit, EnterLine, CloseWindow, UncoverWindow, InText, setupRest, textRest,
        windowRest, createRest, loopRest, endRest, userRest, winVars, hostVars
<1> QED
  BY <1>1, <1>2 DEF CloseInv

\* Every step of the program brings it nearer to its end, whatever fails: the
\* loops over the list follow each pointer once, and a message is processed once.
\* What the user does takes it one step further from the end only when the window
\* is uncovered.
THEOREM HostEveryStepCounts ==
  HostSpec => [][/\ Rank' \in Nat
                 /\ WinMain => Rank' < Rank
                 /\ EnterLine \/ CloseWindow => Rank' = Rank
                 /\ UncoverWindow => Rank' = Rank + 1]_hostVars
<1>1. HostInit => CloseInv
  BY DEF HostInit, CloseInv
<1>2. HostInv /\ CloseInv /\ [HostNext]_hostVars => CloseInv'
  BY CloseStep
<1>3. ASSUME HostInv, HostInv' PROVE Rank' \in Nat
  <2>1. HostInv' => (Rank \in Nat)'
    BY RankFacts, PTL
  <2> QED
    BY <1>3, <2>1
<1>4. ASSUME HostInv, HostInv', CloseInv, WinMain PROVE Rank' < Rank
  BY <1>4, SetupRank, TextRank, LoopRank, MessageRank DEF WinMain
<1>5. ASSUME HostInv, EnterLine \/ CloseWindow PROVE Rank' = Rank
  <2>1. UNCHANGED <<pc, text, i, kept, ptr, invalid, window>>
    BY <1>5 DEF EnterLine, CloseWindow, userRest, listVars
  <2> QED
    BY <2>1 DEF Rank, Left, Messages, At, Node
<1>6. ASSUME HostInv, UncoverWindow PROVE Rank' = Rank + 1
  <2>1. pc = "loop" /\ pc' = "loop" /\ Messages' = Messages + 1 /\ Messages \in 0 .. 2
    BY <1>6, RankFacts DEF UncoverWindow, userRest, Messages, HostInv, WindowInv, HostTypeOK
  <2>2. Rank' = 4 + Messages'
    BY <2>1 DEF Rank
  <2> QED
    BY <1>6, <2>1, <2>2, RankFacts
<1>7. HostInv /\ HostInv' /\ CloseInv /\ [HostNext]_hostVars
      => [/\ Rank' \in Nat /\ (WinMain => Rank' < Rank)
          /\ (EnterLine \/ CloseWindow => Rank' = Rank)
          /\ (UncoverWindow => Rank' = Rank + 1)]_hostVars
  BY <1>3, <1>4, <1>5, <1>6 DEF HostNext
<1> QED
  BY <1>1, <1>2, <1>7, HostInvariant, PTL DEF HostSpec
=============================================================================
