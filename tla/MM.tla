---------------------------------- MODULE MM ----------------------------------
(***************************************************************************)
(* The allocator (labs/08-malloc/mm.c): blocks with a header and a footer  *)
(* tile the heap behind a prolog; free blocks are in one list for each     *)
(* class of sizes, newest first.  Each function takes a heap, that is its  *)
(* words, its free lists and its end, and gives the heap it leaves.        *)
(*                                                                         *)
(* Addresses and sizes are in words (WSIZE = 1, DSIZE = ALIGNMENT = 2);    *)
(* word 0 is the one mem_sbrk returns first.  A word holds a tag, which is *)
(* a pair of a size and the allocated bit, or what the client wrote.  The  *)
(* links of the free lists are in the blocks; here each list is a          *)
(* sequence, and what a free block holds besides its tags is Junk.         *)
(*                                                                         *)
(* A definition marked "A bug" is a plausible mistake: PROJECT.json lists  *)
(* the property that notices it.                                           *)
(***************************************************************************)
EXTENDS Integers, Sequences, FiniteSets

CONSTANTS
  CHUNKSIZE,  \* by how much the heap grows at least
  MAX_HEAP,   \* the words that mem_sbrk can give
  SizeMod,    \* the values of a size_t, in words
  Junk        \* a word that nobody needs

NULL == 0
MIN_ALLOC == 4
ALIGN(n) == n + (n % 2)
ALLOC_SIZE(n) == ALIGN((IF n < 2 THEN 2 ELSE n) + 2) % SizeMod

\* The least size of the blocks in each list.
Classes == {c \in MIN_ALLOC..CHUNKSIZE : \E k \in 0..CHUNKSIZE : c = MIN_ALLOC * 2^k}

\* The prolog: two words for every list, and its tags.
Prolog == 2 + 2 * Cardinality(Classes)
First == Prolog

ASSUME MMAssumption ==
  /\ CHUNKSIZE \in Classes /\ CHUNKSIZE >= Prolog + MIN_ALLOC
  /\ MAX_HEAP \in Nat /\ SizeMod \in Nat /\ SizeMod % CHUNKSIZE = 0
  /\ CHUNKSIZE <= MAX_HEAP /\ MAX_HEAP < SizeMod

-----------------------------------------------------------------------------
(* Tags                                                                    *)

HDRP(p) == p - 1
PFTRP(p) == p - 2
SIZE(m, a) == m[a][1]
ALOC(m, a) == m[a][2] = 1
PREVBLK(m, p) == p - SIZE(m, PFTRP(p))
NEXTBLK(m, p) == p + SIZE(m, HDRP(p))

\* Pointer arithmetic wraps around.
META_PUT(m, p, size, alloc) ==
  [m EXCEPT ![HDRP(p)] = <<size, alloc>>,
            ![PFTRP((p + size) % SizeMod)] = <<size, alloc>>]

\* memmove and memcpy
Copy(m, to, from, n) ==
  [a \in DOMAIN m |-> IF a \in to..to + n - 1 THEN m[from + a - to] ELSE m[a]]

Forget(m, from, to) == [a \in DOMAIN m |-> IF a \in from..to THEN Junk ELSE m[a]]

-----------------------------------------------------------------------------
(* Free lists                                                              *)

\* The last list holds every larger block, too.
classof(size) ==
  LET fitting == {c \in Classes : c <= size} \cup {MIN_ALLOC}
  IN  CHOOSE c \in fitting : \A d \in fitting : d <= c

\* free_list_remove
Unlinked(s, p) ==
  LET at == {i \in DOMAIN s : s[i] = p}
      i == CHOOSE i \in at : TRUE
  IN  IF at = {} THEN s ELSE [j \in 1..Len(s) - 1 |-> IF j < i THEN s[j] ELSE s[j + 1]]

resv_node(h, p) == [h EXCEPT !.lists = [c \in Classes |-> Unlinked(@[c], p)]]

free_node(h, p) ==
  LET size == SIZE(h.mem, HDRP(p))
  IN  [h EXCEPT !.lists[classof(size)] = <<p>> \o @,
                !.mem = Forget(@, p, p + size - 3)]

\* A bug: the block in front is not merged.
coalesce_will_freeForward(h, p) ==
  LET next == NEXTBLK(h.mem, p)
      after == ~ALOC(h.mem, HDRP(next))
      size == SIZE(h.mem, HDRP(p)) + (IF after THEN SIZE(h.mem, HDRP(next)) ELSE 0)
      taken == IF after THEN resv_node(h, next) ELSE h
  IN  [ptr |-> p, heap |-> [taken EXCEPT !.mem = META_PUT(@, p, size, 0)]]

\* The block p becomes free together with its free neighbours, which leave
\* their lists; the whole is in none yet.
coalesce_will_free(h, p) ==
  LET prev == PREVBLK(h.mem, p)
      next == NEXTBLK(h.mem, p)
      before == ~ALOC(h.mem, HDRP(prev))
      after == ~ALOC(h.mem, HDRP(next))
      ptr == IF before THEN prev ELSE p
      size == SIZE(h.mem, HDRP(p))
                + (IF before THEN SIZE(h.mem, HDRP(prev)) ELSE 0)
                + (IF after THEN SIZE(h.mem, HDRP(next)) ELSE 0)
      taken == IF before THEN resv_node(h, prev) ELSE h
      both == IF after THEN resv_node(taken, next) ELSE taken
  IN  [ptr |-> ptr, heap |-> [both EXCEPT !.mem = META_PUT(@, ptr, size, 0)]]

\* The coalesced block is cut again at both ends of the old one.
uncoalesce_was_resvd(h, new, old, oldsz) ==
  LET newsz == SIZE(h.mem, HDRP(new))
      mem == META_PUT(h.mem, old, oldsz, 1)
      prev == PREVBLK(mem, old)
      next == NEXTBLK(mem, old)
      prevsz == old - prev
      nextsz == (newsz - oldsz - prevsz) % SizeMod
      Freed(g, p, size) ==
        IF size > 0 THEN free_node([g EXCEPT !.mem = META_PUT(@, p, size, 0)], p) ELSE g
  IN  Freed(Freed([h EXCEPT !.mem = mem], prev, prevsz), next, nextsz)

-----------------------------------------------------------------------------
(* Blocks                                                                  *)

Failed(h) == [ptr |-> NULL, heap |-> h]

\* mem_sbrk, a new epilog, and the new block merged with a free one in front.
extend_heap(h, minsize) ==
  LET tail == IF ALOC(h.mem, PFTRP(h.end)) THEN 0 ELSE SIZE(h.mem, PFTRP(h.end))
      asked == IF minsize - tail > CHUNKSIZE THEN minsize - tail ELSE CHUNKSIZE
      reqsz == ((asked + CHUNKSIZE - 1) \div CHUNKSIZE) * CHUNKSIZE
      end == h.end + reqsz
      grown == META_PUT([h.mem EXCEPT ![HDRP(end)] = <<0, 1>>], h.end, reqsz, 0)
  IN  IF end > MAX_HEAP THEN Failed(h)
      ELSE coalesce_will_free([h EXCEPT !.end = end, !.mem = grown], h.end)

\* The block p, which is in no list, is allocated up to req; a rest that makes
\* a block is freed.
free_tail_was_resvd(h, p, req) ==
  LET blksz == SIZE(h.mem, HDRP(p))
      second == blksz - req
  IN  IF second < MIN_ALLOC
      THEN [h EXCEPT !.mem = META_PUT(@, p, blksz, 1)]
      ELSE free_node([h EXCEPT !.mem =
             META_PUT(META_PUT(@, p, req, 1), p + req, second, 0)], p + req)

Fitting(h, c, size) == {i \in DOMAIN h.lists[c] : SIZE(h.mem, HDRP(h.lists[c][i])) >= size}

\* A bug: only the list of the class itself is searched.
FirstFitClass(h, size) ==
  LET fits == Fitting(h, classof(size), size)
  IN  IF fits = {} THEN NULL
      ELSE h.lists[classof(size)][CHOOSE i \in fits : \A j \in fits : i <= j]

\* The first block that fits in the lowest class from classof(size) on that
\* has one.
FirstFit(h, size) ==
  LET good == {c \in Classes : c >= classof(size) /\ Fitting(h, c, size) # {}}
      c == CHOOSE c \in good : \A d \in good : c <= d
      i == CHOOSE i \in Fitting(h, c, size) : \A j \in Fitting(h, c, size) : i <= j
  IN  IF good = {} THEN NULL ELSE h.lists[c][i]

allocate_block(h, size) ==
  LET node == FirstFit(h, size)
      got == IF node = NULL THEN extend_heap(h, size)
             ELSE [ptr |-> node, heap |-> resv_node(h, node)]
  IN  IF got.ptr = NULL THEN got
      ELSE [got EXCEPT !.heap = free_tail_was_resvd(@, got.ptr, size)]

-----------------------------------------------------------------------------
(* The interface                                                           *)

mm_malloc(h, n) == IF n = 0 THEN Failed(h) ELSE allocate_block(h, ALLOC_SIZE(n))

mm_free(h, p) ==
  IF p = NULL THEN h
  ELSE LET c == coalesce_will_free(h, p) IN free_node(c.heap, c.ptr)

\* A bug: no memmove.
GrowInPlaceStill(c, p, size, copysz) ==
  [ptr |-> c.ptr, heap |-> free_tail_was_resvd(c.heap, c.ptr, size)]

\* In place, with the free neighbours' words.
GrowInPlace(c, p, size, copysz) ==
  [ptr |-> c.ptr,
   heap |-> free_tail_was_resvd([c.heap EXCEPT !.mem = Copy(@, c.ptr, p, copysz)],
                                c.ptr, size)]

\* In another block; the coalesced one is marked allocated until then.
Move(c, p, oldsz, size, copysz) ==
  LET room == SIZE(c.heap.mem, HDRP(c.ptr))
      held == [c.heap EXCEPT !.mem = META_PUT(@, c.ptr, room, 1)]
      b == allocate_block(held, size)
      moved == [b.heap EXCEPT
        !.mem = META_PUT(Copy(@, b.ptr, p, copysz), c.ptr, room, 0)]
  IN  IF b.ptr = NULL
      THEN [ptr |-> NULL, heap |-> uncoalesce_was_resvd(held, c.ptr, p, oldsz)]
      ELSE [ptr |-> b.ptr, heap |-> free_node(moved, c.ptr)]

mm_realloc(h, p, n) ==
  IF p = NULL THEN mm_malloc(h, n)
  ELSE IF n = 0 THEN [ptr |-> NULL, heap |-> mm_free(h, p)]
  ELSE LET size == ALLOC_SIZE(n)
           oldsz == SIZE(h.mem, HDRP(p))
           copysz == (IF oldsz < size THEN oldsz ELSE size) - 2
           c == coalesce_will_free(h, p)
       IN  IF size <= SIZE(c.heap.mem, HDRP(c.ptr))
           THEN GrowInPlace(c, p, size, copysz)
           ELSE Move(c, p, oldsz, size, copysz)

\* The prolog, one free block behind it, and the epilog; the heap was empty, but
\* its words and the lists are what a former use of them left.
mm_init(h) ==
  LET tags == META_PUT(META_PUT(h.mem, 0, Prolog, 1), First, CHUNKSIZE - First, 0)
  IN  free_node([mem |-> [tags EXCEPT ![HDRP(CHUNKSIZE)] = <<0, 1>>],
                 lists |-> [c \in Classes |-> <<>>],
                 end |-> CHUNKSIZE], First)

\* What mem_init gives.
NewHeap ==
  [mem |-> [a \in -1..MAX_HEAP - 1 |-> Junk], lists |-> [c \in Classes |-> <<>>], end |-> 0]

-----------------------------------------------------------------------------
(* mm_check                                                                *)

\* The blocks met by walking from the first one to the end of the heap.
Blocks(h) ==
  LET walk[k \in 0..h.end \div MIN_ALLOC] ==
        IF k = 0 THEN First
        ELSE LET p == walk[k - 1] IN IF p >= h.end THEN p ELSE NEXTBLK(h.mem, p)
  IN  {walk[k] : k \in DOMAIN walk} \ {h.end}

\* The node has the size of its class; only the last one has no upper end.
InClass(m, c, p) == SIZE(m, HDRP(p)) >= c /\ (SIZE(m, HDRP(p)) < 2 * c \/ c = CHUNKSIZE)

\* The links of a block are whole where the block is in a list.
mm_check(h) ==
  LET nodes(c) == {h.lists[c][i] : i \in DOMAIN h.lists[c]} IN
  /\ \A c \in Classes : \A p \in nodes(c) : ~ALOC(h.mem, HDRP(p)) /\ InClass(h.mem, c, p)
  /\ \A p \in Blocks(h) :
       /\ h.mem[HDRP(p)] = h.mem[PFTRP(NEXTBLK(h.mem, p))]
       /\ ALOC(h.mem, HDRP(p)) \/ \E c \in Classes : p \in nodes(c)
=============================================================================
