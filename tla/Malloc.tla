------------------------------- MODULE Malloc --------------------------------
(***************************************************************************)
(* A client of the allocator, which makes any sequence of calls, one at a  *)
(* time.  It fills each payload with the number of its block, as the       *)
(* driver does (labs/08-malloc/mdriver.c, eval_mm_valid), and unlike it    *)
(* goes on when a call fails.                                              *)
(***************************************************************************)
EXTENDS MM

CONSTANTS
  Ids,        \* the blocks of the client
  NoId,
  Requests,   \* bound: the sizes it asks for
  Undo        \* whether a realloc may fail behind an allocated block

ASSUME MallocAssumption ==
  /\ NoId \notin Ids
  /\ Requests \subseteq Nat
  /\ \A n \in Requests : n + CHUNKSIZE + 4 < SizeMod
  /\ Undo \in BOOLEAN

VARIABLES
  heap,       \* its words, its free lists and its end
  live,       \* the address and the length of each block
  unwritten   \* the block that the client has yet to fill

vars == <<heap, live, unwritten>>

-----------------------------------------------------------------------------
(* The calls                                                               *)

None == [ptr |-> NULL, len |-> 0]

Init ==
  /\ heap = mm_init(NewHeap)
  /\ live = [i \in Ids |-> None]
  /\ unwritten = NoId

Malloc(i, n) ==
  /\ unwritten = NoId /\ live[i] = None
  /\ LET r == mm_malloc(heap, n) IN
     /\ heap' = r.heap
     /\ live' = [live EXCEPT ![i] = IF r.ptr = NULL THEN None ELSE [ptr |-> r.ptr, len |-> n]]
     /\ unwritten' = IF r.ptr = NULL THEN NoId ELSE i

Free(i) ==
  /\ unwritten = NoId /\ live[i] # None
  /\ heap' = mm_free(heap, live[i].ptr)
  /\ live' = [live EXCEPT ![i] = None]
  /\ UNCHANGED unwritten

Realloc(i, n) ==
  /\ unwritten = NoId
  /\ LET r == mm_realloc(heap, live[i].ptr, n) IN
     /\ r.ptr = NULL /\ n # 0 /\ live[i] # None =>
          Undo \/ ~ALOC(heap.mem, HDRP(PREVBLK(heap.mem, live[i].ptr)))
     /\ heap' = r.heap
     /\ IF r.ptr # NULL
        THEN /\ live' = [live EXCEPT ![i] = [ptr |-> r.ptr, len |-> n]]
             /\ unwritten' = i
        ELSE /\ live' = IF n = 0 THEN [live EXCEPT ![i] = None] ELSE live
             /\ UNCHANGED unwritten

\* memset; what the block holds behind the payload is forgotten.
Write(i) ==
  /\ unwritten = i
  /\ LET b == live[i]
         spare == NEXTBLK(heap.mem, b.ptr) - 3
     IN  heap' = [heap EXCEPT !.mem =
           [a \in DOMAIN @ |->
              CASE a \in b.ptr..b.ptr + b.len - 1 -> i
                [] a \in b.ptr + b.len..spare -> Junk
                [] OTHER -> @[a]]]
  /\ unwritten' = NoId
  /\ UNCHANGED live

Next ==
  \E i \in Ids :
    \/ \E n \in Requests \cup {0} : Malloc(i, n) \/ Realloc(i, n)
    \/ Free(i) \/ Write(i)

Spec == Init /\ [][Next]_vars

-----------------------------------------------------------------------------
(* Properties                                                              *)

SizeAt(p) == SIZE(heap.mem, HDRP(p))
FreeBlocks == {p \in Blocks(heap) : ~ALOC(heap.mem, HDRP(p))}

(* Every variable has its type.                                            *)
TypeOK ==
  /\ heap.mem \in [-1..MAX_HEAP - 1 -> ((0..SizeMod) \X {0, 1}) \cup Ids \cup {Junk}]
  /\ heap.lists \in [Classes -> Seq(First..MAX_HEAP)]
  /\ heap.end \in CHUNKSIZE..MAX_HEAP
  /\ live \in [Ids -> [ptr : 0..MAX_HEAP, len : Requests \cup {0}]]
  /\ unwritten \in Ids \cup {NoId}

(* The blocks tile the heap from the prolog to the epilog, each with equal *)
(* header and footer and room for the links of a free list (mm_check).     *)
Tiled ==
  /\ \A p \in Blocks(heap) :
       /\ SizeAt(p) >= MIN_ALLOC /\ SizeAt(p) % 2 = 0
       /\ p + SizeAt(p) <= heap.end
       /\ heap.mem[PFTRP(p + SizeAt(p))] = heap.mem[HDRP(p)]
  /\ heap.mem[HDRP(heap.end)] = <<0, 1>>
  /\ heap.mem[HDRP(0)] = <<Prolog, 1>> /\ heap.mem[PFTRP(First)] = <<Prolog, 1>>

(* No two free blocks are neighbours, whichever of malloc, the two ways of *)
(* realloc and its undoing, free and the growth of the heap left them.     *)
Coalesced ==
  \A p \in FreeBlocks : p + SizeAt(p) \notin FreeBlocks

(* The lists hold exactly the free blocks, each once and in its own class: *)
(* none is lost for ever, and none can be given out twice.                 *)
ListsExact ==
  \A c \in Classes :
    /\ {heap.lists[c][i] : i \in DOMAIN heap.lists[c]}
         = {p \in FreeBlocks : classof(SizeAt(p)) = c}
    /\ \A i, j \in DOMAIN heap.lists[c] : heap.lists[c][i] = heap.lists[c][j] => i = j

(* The allocated blocks are those of the client, and none is larger than   *)
(* its payload by so much that another block could be made of the rest.    *)
NothingLost ==
  /\ Blocks(heap) \ FreeBlocks = {live[i].ptr : i \in Ids} \ {NULL}
  /\ \A i \in Ids : live[i] # None =>
       SizeAt(live[i].ptr) - ALLOC_SIZE(live[i].len) \in 0..MIN_ALLOC - 1

(* After any sequence of calls mm_check would pass, and the tags, the lists *)
(* and the client agree on every word of the heap.                         *)
Consistent == TypeOK /\ mm_check(heap) /\ Tiled /\ Coalesced /\ ListsExact /\ NothingLost

(* The heap grows only when no free block is large enough.                 *)
GrowsOnlyWhenFull ==
  [][heap'.end # heap.end =>
       \A p \in FreeBlocks : SizeAt(p) < ALLOC_SIZE(live'[unwritten'].len)]_vars

(* A payload holds what its owner wrote (mdriver.c:606-608).                   *)
Intact ==
  \A i \in Ids \ {unwritten} :
    \A a \in live[i].ptr..live[i].ptr + live[i].len - 1 : heap.mem[a] = i

(* The heap keeps the promises of Allocator.                               *)
Driver == INSTANCE Allocator WITH
  end <- heap.end, Blank <- Junk,
  holds <- [i \in Ids |-> [k \in 0..live[i].len - 1 |->
              IF heap.mem[live[i].ptr + k] = i THEN i ELSE Junk]]
ImplementsAllocator == Driver!Spec
=============================================================================
