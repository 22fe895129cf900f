-------------------------------- MODULE SBuf --------------------------------
(***************************************************************************)
(* The bounded buffer between the proxy's accepting thread and its         *)
(* workers (labs/09-proxy/sbuf.c): two counting semaphores, a mutex, and   *)
(* a byte array indexed by two free-running size_t cursors.                *)
(*                                                                         *)
(* sbuf_enq and sbuf_deq are split where another thread can run: at the    *)
(* semaphore wait, the lock, the unlock and the post.  A memcpy and its    *)
(* cursor increment happen under the mutex and are one step.               *)
(*                                                                         *)
(* The array is modelled byte by byte, because sbuf_enq copies buf->sz     *)
(* bytes to data + rear % n: the slot number is not scaled by the size of  *)
(* an item, so that neighbouring slots overlap whenever sz > 1.            *)
(*                                                                         *)
(* A definition named after another with a suffix (EnqPostLost) is a       *)
(* plausible bug: PROJECT.json lists the property that notices it.         *)
(***************************************************************************)
EXTENDS Integers, Sequences, FiniteSets

CONSTANTS
  Producers,  \* threads that call sbuf_enq (the proxy: the main thread)
  Consumers,  \* threads that call sbuf_deq (the proxy: the workers)
  N,          \* buf->n, the number of slots
  Sz,         \* buf->sz, the bytes of an item
  Byte,       \* the values of a byte
  Zero,       \* the byte calloc fills the array with
  Items,      \* the items that can be enqueued, as byte arrays
  SizeMax,    \* SIZE_MAX, the largest value of the size_t cursors
  Free        \* the mutex has no owner

ASSUME SBufAssumption ==
  /\ IsFiniteSet(Producers) /\ IsFiniteSet(Consumers)
  /\ Producers \cap Consumers = {}
  /\ Free \notin Producers \cup Consumers
  /\ N \in Nat \ {0} /\ Sz \in Nat \ {0}
  /\ Zero \in Byte
  /\ Items \subseteq [0..Sz - 1 -> Byte]
  /\ SizeMax \in Nat /\ N <= SizeMax

\* LISTENQ is a power of two, so wrapping a cursor keeps the slot order.
ASSUME CursorAssumption == (SizeMax + 1) % N = 0

Threads == Producers \cup Consumers

VARIABLES
  data,   \* buf->data, a byte array
  front,  \* buf->front
  rear,   \* buf->rear
  mutex,  \* the owner of buf->mutex, or Free
  slots,  \* the value of the semaphore buf->slots
  items,  \* the value of the semaphore buf->items
  pc,     \* where each thread is
  item,   \* *item, the caller's buffer in each thread
  queue   \* history: what was copied in and not yet out, oldest first

bufvars == <<data, front, rear, mutex, slots, items, queue>>
vars == <<data, front, rear, mutex, slots, items, pc, item, queue>>

\* The places of a call that took a token from its first semaphore and has
\* not yet posted the other one.
EnqHeld == {"enq_lock", "enq_copy", "enq_unlock", "enq_post"}
DeqHeld == {"deq_lock", "deq_copy", "deq_unlock", "deq_post"}
Places == {"idle", "enq_wait", "deq_wait"} \cup EnqHeld \cup DeqHeld

Goto(t, from, to) ==
  /\ pc[t] = from
  /\ pc' = [pc EXCEPT ![t] = to]

\* The threads that are, with the program counters p, at one of the places.
At(p, places) == {t \in Threads : p[t] \in places}
CountAt(p, places) == Cardinality(At(p, places))

\* cursor++ on a size_t, and its inverse.
Incr(c) == IF c = SizeMax THEN 0 ELSE c + 1
Decr(c) == IF c = 0 THEN SizeMax ELSE c - 1

\* data + (cursor % buf->n): the first of the bytes a copy touches.
Offset(c) == c % N

\* The buf->sz bytes of d that a copy at the cursor c reads.
ReadAt(d, c) == [k \in 0..Sz - 1 |-> d[Offset(c) + k]]

\* The array d after x was copied to the cursor c.
WriteAt(d, c, x) ==
  [b \in 0..N * Sz - 1 |->
     IF b \in Offset(c)..Offset(c) + Sz - 1 THEN x[b - Offset(c)] ELSE d[b]]

-----------------------------------------------------------------------------
(* sbuf_create                                                             *)

Init ==
  /\ data = [b \in 0..N * Sz - 1 |-> Zero]
  /\ front = 0 /\ rear = 0
  /\ mutex = Free
  /\ slots = N /\ items = 0
  /\ pc = [t \in Threads |-> "idle"]
  /\ item = [t \in Threads |-> [k \in 0..Sz - 1 |-> Zero]]
  /\ queue = <<>>

-----------------------------------------------------------------------------
(* sbuf_enq                                                                *)

EnqCall(t, x) ==
  /\ Goto(t, "idle", "enq_wait")
  /\ item' = [item EXCEPT ![t] = x]
  /\ UNCHANGED bufvars

\* sem_retry_wait(&buf->slots)
EnqWait(t) ==
  /\ slots > 0
  /\ Goto(t, "enq_wait", "enq_lock")
  /\ slots' = slots - 1
  /\ UNCHANGED <<data, front, rear, mutex, items, item, queue>>

EnqLock(t) ==
  /\ mutex = Free
  /\ Goto(t, "enq_lock", "enq_copy")
  /\ mutex' = t
  /\ UNCHANGED <<data, front, rear, slots, items, item, queue>>

EnqCopyPreIncrement(t) ==
  /\ Goto(t, "enq_copy", "enq_unlock")
  /\ data' = WriteAt(data, Incr(rear), item[t])
  /\ rear' = Incr(rear)
  /\ queue' = Append(queue, item[t])
  /\ UNCHANGED <<front, mutex, slots, items, item>>

EnqCopy(t) ==
  /\ Goto(t, "enq_copy", "enq_unlock")
  /\ data' = WriteAt(data, rear, item[t])
  /\ rear' = Incr(rear)
  /\ queue' = Append(queue, item[t])
  /\ UNCHANGED <<front, mutex, slots, items, item>>

EnqUnlock(t) ==
  /\ Goto(t, "enq_unlock", "enq_post")
  /\ mutex' = Free
  /\ UNCHANGED <<data, front, rear, slots, items, item, queue>>

EnqPostLost(t) ==
  /\ Goto(t, "enq_post", "idle")
  /\ UNCHANGED <<data, front, rear, mutex, slots, items, item, queue>>

\* sem_retry_post(&buf->items)
EnqPost(t) ==
  /\ Goto(t, "enq_post", "idle")
  /\ items' = items + 1
  /\ UNCHANGED <<data, front, rear, mutex, slots, item, queue>>

-----------------------------------------------------------------------------
(* sbuf_deq                                                                *)

DeqCall(t) ==
  /\ Goto(t, "idle", "deq_wait")
  /\ UNCHANGED <<data, front, rear, mutex, slots, items, item, queue>>

DeqWaitNoBlock(t) ==
  /\ Goto(t, "deq_wait", "deq_lock")
  /\ items' = items - 1
  /\ UNCHANGED <<data, front, rear, mutex, slots, item, queue>>

\* sem_retry_wait(&buf->items)
DeqWait(t) ==
  /\ items > 0
  /\ Goto(t, "deq_wait", "deq_lock")
  /\ items' = items - 1
  /\ UNCHANGED <<data, front, rear, mutex, slots, item, queue>>

DeqLock(t) ==
  /\ mutex = Free
  /\ Goto(t, "deq_lock", "deq_copy")
  /\ mutex' = t
  /\ UNCHANGED <<data, front, rear, slots, items, item, queue>>

DeqCopy(t) ==
  /\ Goto(t, "deq_copy", "deq_unlock")
  /\ item' = [item EXCEPT ![t] = ReadAt(data, front)]
  /\ front' = Incr(front)
  /\ queue' = Tail(queue)
  /\ UNCHANGED <<data, rear, mutex, slots, items>>

DeqUnlock(t) ==
  /\ Goto(t, "deq_unlock", "deq_post")
  /\ mutex' = Free
  /\ UNCHANGED <<data, front, rear, slots, items, item, queue>>

DeqPostItems(t) ==
  /\ Goto(t, "deq_post", "idle")
  /\ items' = items + 1
  /\ UNCHANGED <<data, front, rear, mutex, slots, item, queue>>

\* sem_retry_post(&buf->slots)
DeqPost(t) ==
  /\ Goto(t, "deq_post", "idle")
  /\ slots' = slots + 1
  /\ UNCHANGED <<data, front, rear, mutex, items, item, queue>>

-----------------------------------------------------------------------------

Enq(t) == EnqWait(t) \/ EnqLock(t) \/ EnqCopy(t) \/ EnqUnlock(t) \/ EnqPost(t)
Deq(t) == DeqWait(t) \/ DeqLock(t) \/ DeqCopy(t) \/ DeqUnlock(t) \/ DeqPost(t)

Next ==
  \/ \E t \in Producers : (\E x \in Items : EnqCall(t, x)) \/ Enq(t)
  \/ \E t \in Consumers : DeqCall(t) \/ Deq(t)

Spec == Init /\ [][Next]_vars

\* A thread inside an operation keeps running.  Nobody has to bring new items,
\* and no worker has to come back for another one: between two calls of
\* sbuf_deq it is in handle_connection, which may wait for its client for ever.
Fairness ==
  /\ \A t \in Producers : WF_vars(Enq(t))
  /\ \A t \in Consumers : WF_vars(Deq(t))

FairSpec == Spec /\ Fairness

-----------------------------------------------------------------------------
(* Properties                                                              *)

(* Every variable holds a value its C declaration allows.                  *)
TypeOK ==
  /\ data \in [0..N * Sz - 1 -> Byte]
  /\ front \in 0..SizeMax
  /\ rear \in 0..SizeMax
  /\ mutex \in Threads \cup {Free}
  /\ slots \in Nat
  /\ items \in Nat
  /\ pc \in [Threads -> Places]
  /\ item \in [Threads -> [0..Sz - 1 -> Byte]]
  /\ queue \in Seq([0..Sz - 1 -> Byte])

(* Exactly the owner of the mutex is between its lock and its unlock: no   *)
(* copy of sbuf_enq or sbuf_deq overlaps another.                          *)
LockDiscipline ==
  \A t \in Threads :
    pc[t] \in {"enq_copy", "enq_unlock", "deq_copy", "deq_unlock"}
      <=> mutex = t

(* A slot is free, full, or in the hands of exactly one call: the two      *)
(* semaphores and the calls under way always account for n slots.          *)
TokensConserved ==
  slots + items + CountAt(pc, EnqHeld) + CountAt(pc, DeqHeld) = N

(* The cursors bracket exactly what was copied in and not yet out, also    *)
(* when rear has wrapped around SIZE_MAX and front has not.                *)
CursorsBracketQueue ==
  rear = IF front + Len(queue) > SizeMax
         THEN front + Len(queue) - (SizeMax + 1)
         ELSE front + Len(queue)

(* The semaphores keep the cursors apart: whoever reaches the copy of      *)
(* sbuf_enq finds a free slot, whoever reaches that of sbuf_deq an item.   *)
CopyHasRoom ==
  /\ At(pc, {"enq_copy"}) # {} => Len(queue) < N
  /\ At(pc, {"deq_copy"}) # {} => queue # <<>>

(* The bytes of the item that entered last are intact: a buffer that never *)
(* holds two items at once delivers what was put in.                       *)
NewestIntact ==
  queue # <<>> => ReadAt(data, Decr(rear)) = queue[Len(queue)]

(* The bytes the next sbuf_deq reads are those of the oldest item.         *)
OldestIntact ==
  queue # <<>> => ReadAt(data, front) = queue[1]

(* One worker is enough: once a single one has called sbuf_deq, an item    *)
(* that is in the buffer does not stay there, and the front cursor moves   *)
(* on, even if every other worker is busy for ever.  While all of them are *)
(* busy nothing is claimed.                                                *)
FrontAdvances ==
  \A c \in 0..SizeMax, t \in Consumers :
    (front = c /\ queue # <<>> /\ pc[t] \in {"deq_wait", "deq_lock", "deq_copy"})
      ~> front # c
=============================================================================
