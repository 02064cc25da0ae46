----------------------------- MODULE BitmapList -----------------------------
(***************************************************************************)
(* The list of bitmaps in win64env.c, between draw_text() of the Debug     *)
(* build, which fills it, and the window, which draws and frees it.        *)
(*                                                                         *)
(* Each entry is two blocks of the process heap, a node and its bytes.     *)
(* What the list should hold is kept beside it, as a sequence.             *)
(***************************************************************************)
EXTENDS Naturals, Sequences

CONSTANTS
  Blocks,    \* what the heap can hand out
  NoBlock    \* NULL

ASSUME ListAssumption == NoBlock \notin Blocks

VARIABLES
  heap,      \* the blocks handed out and not freed
  node,      \* the contents of a block that is used as a node
  data,      \* the first node
  current,   \* the last node
  ptr,       \* the node the loop over the list has reached
  drawn,     \* history: the bitmaps drawn into the memory DC
  kept       \* history: what was appended, and in which blocks

listVars == <<heap, node, data, current, ptr, drawn, kept>>

ListInit ==
  /\ heap = {}
  /\ node = [b \in Blocks |-> [item |-> 0, buffer |-> NoBlock, next |-> NoBlock]]
  /\ data = NoBlock /\ current = NoBlock /\ ptr = NoBlock
  /\ drawn = <<>> /\ kept = <<>>

----------------------------------------------------------------------------

Entries == [item : Nat, buffer : Blocks \cup {NoBlock}, next : Blocks \cup {NoBlock}]

\* The nodes when block n is to follow the last one.
Linked(n) == IF data = NoBlock THEN node ELSE [node EXCEPT ![current].next = n]

\* append_data() with memory for both blocks.  (Wrong: current is not set for
\* the first node.)
Entry(bitmap, b) == [item |-> bitmap, buffer |-> b, next |-> NoBlock]
AppendDataMutCurrent(bitmap) ==
  \E b \in Blocks \ heap : \E n \in Blocks \ (heap \cup {b}) :
    /\ heap' = heap \cup {b, n}
    /\ node' = [Linked(n) EXCEPT ![n] = Entry(bitmap, b)]
    /\ data' = IF data = NoBlock THEN n ELSE data
    /\ current' = IF data = NoBlock THEN current ELSE n
    /\ kept' = Append(kept, [item |-> bitmap, node |-> n, buffer |-> b])
    /\ UNCHANGED <<ptr, drawn>>
AppendData(bitmap) ==
  \E b \in Blocks \ heap : \E n \in Blocks \ (heap \cup {b}) :
    /\ heap' = heap \cup {b, n}
    /\ node' = [Linked(n) EXCEPT ![n] = Entry(bitmap, b)]
    /\ data' = IF data = NoBlock THEN n ELSE data
    /\ current' = n
    /\ kept' = Append(kept, [item |-> bitmap, node |-> n, buffer |-> b])
    /\ UNCHANGED <<ptr, drawn>>

\* append_data() without: no bytes, or bytes but no node.  (Wrong: the bytes
\* are kept.)
AppendFailsMutLeak ==
  /\ \E b \in Blocks \ heap : heap' = heap \cup {b}
  /\ node' = Linked(NoBlock)
  /\ UNCHANGED <<data, current, ptr, drawn, kept>>
AppendFails ==
  /\ \/ UNCHANGED node
     \/ node' = Linked(NoBlock)
  /\ UNCHANGED <<heap, data, current, ptr, drawn, kept>>

\* The loops of draw_text() and free_data() start at the first node.
StartDrawing ==
  /\ ptr' = data
  /\ UNCHANGED <<heap, node, data, current, drawn, kept>>
StartFreeing ==
  /\ current' = NoBlock
  /\ ptr' = data
  /\ UNCHANGED <<heap, node, data, drawn, kept>>

\* One iteration of each.  (Wrong: the bytes are forgotten.)
DrawNode ==
  /\ ptr # NoBlock
  /\ drawn' = Append(drawn, node[ptr].item)
  /\ ptr' = node[ptr].next
  /\ UNCHANGED <<heap, node, data, current, kept>>
FreeNode ==
  /\ ptr # NoBlock
  /\ heap' = heap \ {node[ptr].buffer, ptr}
  /\ ptr' = node[ptr].next
  /\ UNCHANGED <<node, data, current, drawn, kept>>

=============================================================================
