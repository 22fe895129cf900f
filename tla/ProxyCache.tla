----------------------------- MODULE ProxyCache -----------------------------
(***************************************************************************)
(* The object cache of the proxy (labs/09-proxy/cache.c): a doubly linked  *)
(* list of entries guarded by a reader-writer lock.  A hit lowers the      *)
(* patience of its entry; cache_put walks the list from its tail, promotes *)
(* the entries whose patience ran out (they were hit often) and evicts     *)
(* others until the new object fits.                                       *)
(*                                                                         *)
(* The list is the sequence of its nodes from cache.head.next on; a walk   *)
(* is at a position of that sequence, 0 for &cache.head.  A step is one    *)
(* iteration of a loop of cache_bookkeeping, or what a call does between   *)
(* two points where another thread can run.                                *)
(*                                                                         *)
(* A definition named after another with a suffix (EvictHereUnfair) is     *)
(* a plausible bug: PROJECT.json lists the property that notices it.       *)
(***************************************************************************)
EXTENDS Integers, Sequences, FiniteSets

CONSTANTS
  Threads,      \* the callers
  Uris,         \* the keys, host and location
  Objects,      \* the responses that can be cached
  SizeOf,       \* the length of each object in bytes
  Capacity,     \* the argument of cache_init
  Nodes,        \* the addresses malloc can give an entry
  NoUri,        \* a thread looks for no uri
  NoNode,       \* a thread works on no node
  NoObject,     \* the answer of a cache_get that found nothing
  PatienceMin   \* bound: cache_get is not called while a patience is this low

\* Every object fits into the empty cache: MAX_OBJECT_SIZE < MAX_CACHE_SIZE.
ASSUME CacheAssumption ==
  /\ Capacity \in Nat
  /\ SizeOf \in [Objects -> 0..Capacity]
  /\ NoNode \notin Nodes /\ NoObject \notin Objects /\ NoUri \notin Uris
  /\ PatienceMin \in Int

DefaultPatience == 3

VARIABLES
  freesz,    \* cache.freesz
  list,      \* the nodes from cache.head.next to cache.head.prev
  entry,     \* the allocated nodes, each with its uri, data and patience
  readers,   \* the threads that hold cache_lock for reading
  writer,    \* the threads that hold cache_lock for writing
  pc,        \* where each thread is
  want,      \* cache_get: the uri it looks for
  node,      \* cache_get: the node found; cache_put: the new node
  cursor,    \* cache_put: the position of the walk
  answer,    \* cache_get: what it returns
  chance     \* history: the nodes out of patience when the writer locked

shared == <<freesz, list, entry, chance>>
locals == <<want, node, cursor, answer>>
vars == <<freesz, list, entry, readers, writer, pc, want, node, cursor,
          answer, chance>>

Reading == {"get_find", "get_copy", "get_count", "get_unlock"}
Writing == {"put_walk", "put_sweep", "put_insert", "put_unlock", "put_drop"}
Places == {"idle", "get_rdlock", "put_wrlock"} \cup Reading \cup Writing

Goto(t, from, to) ==
  /\ pc[t] = from
  /\ pc' = [pc EXCEPT ![t] = to]

Listed == {list[i] : i \in DOMAIN list}

\* The list with the node at position i moved to its front, and without it.
Promoted(i) ==
  [j \in 1..Len(list) |->
     IF j = 1 THEN list[i] ELSE IF j <= i THEN list[j - 1] ELSE list[j]]
Without(i) ==
  [j \in 1..Len(list) - 1 |-> IF j < i THEN list[j] ELSE list[j + 1]]

Bytes(n) == SizeOf[entry[n].data]

-----------------------------------------------------------------------------
(* cache_init                                                              *)

Init ==
  /\ freesz = Capacity
  /\ list = <<>>
  /\ entry = [n \in {} |-> NoObject]
  /\ readers = {} /\ writer = {}
  /\ pc = [t \in Threads |-> "idle"]
  /\ want = [t \in Threads |-> NoUri]
  /\ node = [t \in Threads |-> NoNode]
  /\ cursor = [t \in Threads |-> 0]
  /\ answer = [t \in Threads |-> NoObject]
  /\ chance = {}

-----------------------------------------------------------------------------
(* cache_get                                                               *)

GetCall(t, u) ==
  /\ \A n \in Listed : entry[n].patience > PatienceMin
  /\ Goto(t, "idle", "get_rdlock")
  /\ want' = [want EXCEPT ![t] = u]
  /\ UNCHANGED <<shared, readers, writer, node, cursor, answer>>

\* pthread_rwlock_rdlock: readers pass while no writer holds the lock.
GetRdlock(t) ==
  /\ writer = {}
  /\ Goto(t, "get_rdlock", "get_find")
  /\ readers' = readers \cup {t}
  /\ UNCHANGED <<shared, writer, locals>>

GetFind(t) ==
  \/ \E i \in DOMAIN list :
       /\ entry[list[i]].uri = want[t]
       /\ \A j \in 1..i - 1 : entry[list[j]].uri # want[t]
       /\ Goto(t, "get_find", "get_copy")
       /\ node' = [node EXCEPT ![t] = list[i]]
       /\ UNCHANGED <<shared, readers, writer, want, cursor, answer>>
  \/ /\ \A i \in DOMAIN list : entry[list[i]].uri # want[t]
     /\ Goto(t, "get_find", "get_unlock")
     /\ UNCHANGED <<shared, readers, writer, locals>>

\* memcpy(*buf, node->data, *bufsz)
GetCopy(t) ==
  /\ Goto(t, "get_copy", "get_count")
  /\ answer' = [answer EXCEPT ![t] = entry[node[t]].data]
  /\ UNCHANGED <<shared, readers, writer, want, node, cursor>>

\* __atomic_sub_fetch(&node->patience, 1)
GetCount(t) ==
  /\ Goto(t, "get_count", "get_unlock")
  /\ entry' = [entry EXCEPT ![node[t]].patience = @ - 1]
  /\ UNCHANGED <<freesz, list, chance, readers, writer, locals>>

Return(t) ==
  /\ want' = [want EXCEPT ![t] = NoUri]
  /\ node' = [node EXCEPT ![t] = NoNode]
  /\ cursor' = [cursor EXCEPT ![t] = 0]
  /\ answer' = [answer EXCEPT ![t] = NoObject]

GetUnlock(t) ==
  /\ Goto(t, "get_unlock", "idle")
  /\ readers' = readers \ {t}
  /\ Return(t)
  /\ UNCHANGED <<shared, writer>>

-----------------------------------------------------------------------------
(* cache_put                                                               *)

\* entry_create, on memory that malloc finds free.
PutCall(t, u, o) ==
  \E n \in Nodes \ DOMAIN entry :
    /\ Goto(t, "idle", "put_wrlock")
    /\ node' = [node EXCEPT ![t] = n]
    /\ entry' = [m \in DOMAIN entry \cup {n} |->
         IF m = n THEN [uri |-> u, data |-> o, patience |-> DefaultPatience]
         ELSE entry[m]]
    /\ UNCHANGED <<freesz, list, chance, readers, writer, want, cursor, answer>>

PutWrlockUnguarded(t) ==
  /\ writer = {}
  /\ Goto(t, "put_wrlock", "put_walk")
  /\ writer' = {t}
  /\ cursor' = [cursor EXCEPT ![t] = Len(list)]
  /\ chance' = {n \in Listed : entry[n].patience <= 0}
  /\ UNCHANGED <<freesz, list, entry, readers, want, node, answer>>

\* pthread_rwlock_wrlock, and the start of the first loop of cache_bookkeeping.
PutWrlock(t) ==
  /\ readers = {} /\ writer = {}
  /\ Goto(t, "put_wrlock", "put_walk")
  /\ writer' = {t}
  /\ cursor' = [cursor EXCEPT ![t] = Len(list)]
  /\ chance' = {n \in Listed : entry[n].patience <= 0}
  /\ UNCHANGED <<freesz, list, entry, readers, want, node, answer>>

Lacking(t) == freesz < Bytes(node[t])
Here(t) == list[cursor[t]]
AtHead(t) == cursor[t] = 0
MatchesNever(t) == FALSE
Matches(t) == entry[Here(t)].uri = entry[node[t]].uri

PromoteHereImpatient(t) ==
  /\ entry[Here(t)].patience <= 0
  /\ list' = Promoted(cursor[t])
  /\ cursor' = [cursor EXCEPT ![t] = IF @ = 1 THEN 0 ELSE @]
  /\ UNCHANGED <<freesz, entry>>

\* cache_promote of the node at the walk, whose previous node is the next one
\* the walk visits.
PromoteHere(t) ==
  /\ entry[Here(t)].patience <= 0
  /\ list' = Promoted(cursor[t])
  /\ entry' = [entry EXCEPT ![Here(t)].patience = @ + DefaultPatience]
  /\ cursor' = [cursor EXCEPT ![t] = IF @ = 1 THEN 0 ELSE @]
  /\ UNCHANGED freesz

EvictHereUnfair(t) ==
  /\ freesz' = freesz + Bytes(Here(t))
  /\ list' = Without(cursor[t])
  /\ entry' = [n \in DOMAIN entry \ {Here(t)} |-> entry[n]]
  /\ cursor' = [cursor EXCEPT ![t] = @ - 1]

\* cache_evict of the node at the walk.
EvictHere(t) ==
  /\ entry[Here(t)].patience > 0
  /\ freesz' = freesz + Bytes(Here(t))
  /\ list' = Without(cursor[t])
  /\ entry' = [n \in DOMAIN entry \ {Here(t)} |-> entry[n]]
  /\ cursor' = [cursor EXCEPT ![t] = @ - 1]

\* The uri is cached: its entry becomes the newest one, with full patience.
WalkMatch(t) ==
  /\ ~AtHead(t) /\ Matches(t)
  /\ Goto(t, "put_walk", "put_drop")
  /\ list' = Promoted(cursor[t])
  /\ entry' = [entry EXCEPT ![Here(t)].patience = DefaultPatience]
  /\ UNCHANGED <<freesz, chance, readers, writer, locals>>

WalkPromote(t) ==
  /\ pc[t] = "put_walk" /\ ~AtHead(t) /\ ~Matches(t)
  /\ PromoteHere(t)
  /\ UNCHANGED <<chance, readers, writer, pc, want, node, answer>>

WalkEvictAlways(t) ==
  /\ pc[t] = "put_walk" /\ ~AtHead(t) /\ ~Matches(t)
  /\ EvictHere(t)
  /\ UNCHANGED <<chance, readers, writer, pc, want, node, answer>>

WalkEvict(t) ==
  /\ pc[t] = "put_walk" /\ ~AtHead(t) /\ ~Matches(t)
  /\ Lacking(t)
  /\ EvictHere(t)
  /\ UNCHANGED <<chance, readers, writer, pc, want, node, answer>>

WalkKeep(t) ==
  /\ pc[t] = "put_walk" /\ ~AtHead(t) /\ ~Matches(t)
  /\ entry[Here(t)].patience > 0 /\ ~Lacking(t)
  /\ cursor' = [cursor EXCEPT ![t] = @ - 1]
  /\ UNCHANGED <<shared, readers, writer, pc, want, node, answer>>

LoopEndUnchecked(t) ==
  /\ pc[t] \in {"put_walk", "put_sweep"} /\ AtHead(t)
  /\ pc' = [pc EXCEPT ![t] = "put_insert"]
  /\ UNCHANGED <<shared, readers, writer, locals>>

\* The while condition, after the first loop and after each round of the
\* second: start a round from the tail, or go on to the insertion.
LoopEnd(t) ==
  /\ pc[t] \in {"put_walk", "put_sweep"} /\ AtHead(t)
  /\ pc' = [pc EXCEPT ![t] = IF Lacking(t) THEN "put_sweep" ELSE "put_insert"]
  /\ cursor' = [cursor EXCEPT ![t] = IF Lacking(t) THEN Len(list) ELSE 0]
  /\ UNCHANGED <<shared, readers, writer, want, node, answer>>

\* The second loop does not look at the free space inside a round.
Sweep(t) ==
  /\ pc[t] = "put_sweep" /\ ~AtHead(t)
  /\ PromoteHere(t) \/ EvictHere(t)
  /\ UNCHANGED <<chance, readers, writer, pc, want, node, answer>>

\* cache.freesz -= bufsz and cache_insert
PutInsert(t) ==
  /\ Goto(t, "put_insert", "put_unlock")
  /\ freesz' = freesz - Bytes(node[t])
  /\ list' = <<node[t]>> \o list
  /\ UNCHANGED <<entry, chance, readers, writer, locals>>

PutUnlock(t) ==
  /\ Goto(t, "put_unlock", "idle")
  /\ writer' = {}
  /\ chance' = {}
  /\ Return(t)
  /\ UNCHANGED <<freesz, list, entry, readers>>

PutDropLeaks(t) ==
  /\ Goto(t, "put_drop", "idle")
  /\ writer' = {}
  /\ chance' = {}
  /\ Return(t)
  /\ UNCHANGED <<freesz, list, entry, readers>>

\* Unlock when the uri was found, then entry_destroy of the new node, which
\* no other thread has seen.
PutDrop(t) ==
  /\ Goto(t, "put_drop", "idle")
  /\ writer' = {}
  /\ chance' = {}
  /\ entry' = [n \in DOMAIN entry \ {node[t]} |-> entry[n]]
  /\ Return(t)
  /\ UNCHANGED <<freesz, list, readers>>

-----------------------------------------------------------------------------

Get(t) ==
  GetRdlock(t) \/ GetFind(t) \/ GetCopy(t) \/ GetCount(t) \/ GetUnlock(t)
Bookkeeping(t) ==
  \/ WalkMatch(t) \/ WalkPromote(t) \/ WalkEvict(t) \/ WalkKeep(t)
  \/ LoopEnd(t) \/ Sweep(t)
Put(t) ==
  PutWrlock(t) \/ Bookkeeping(t) \/ PutInsert(t) \/ PutUnlock(t) \/ PutDrop(t)

Next ==
  \E t \in Threads :
    \/ \E u \in Uris : GetCall(t, u)
    \/ \E u \in Uris, o \in Objects : PutCall(t, u, o)
    \/ Get(t) \/ Put(t)

Spec == Init /\ [][Next]_vars

-----------------------------------------------------------------------------
(* Properties                                                              *)

Entry == [uri : Uris, data : Objects, patience : Int]

(* Every variable holds a value its C declaration allows; in particular    *)
(* freesz, a size_t, has not wrapped around.                               *)
TypeOK ==
  /\ freesz \in 0..Capacity
  /\ list \in Seq(Nodes)
  /\ DOMAIN entry \subseteq Nodes
  /\ entry \in [DOMAIN entry -> Entry]
  /\ readers \subseteq Threads /\ writer \subseteq Threads
  /\ pc \in [Threads -> Places]
  /\ want \in [Threads -> Uris \cup {NoUri}]
  /\ node \in [Threads -> Nodes \cup {NoNode}]
  /\ cursor \in [Threads -> Nat]
  /\ answer \in [Threads -> Objects \cup {NoObject}]
  /\ chance \subseteq Nodes

(* The lock is held by exactly the threads inside a locked region, and a   *)
(* writer is alone: cache_bookkeeping never runs beside a cache_get.       *)
LockDiscipline ==
  /\ readers = {t \in Threads : pc[t] \in Reading}
  /\ writer = {t \in Threads : pc[t] \in Writing}
  /\ \A t \in writer : readers = {} /\ writer = {t}

(* The node a cache_get found stays in the list, and the one it looked     *)
(* for, until it was copied and counted: no use after free.                *)
ReaderSafe ==
  \A t \in Threads : pc[t] \in {"get_copy", "get_count"} =>
    node[t] \in Listed /\ entry[node[t]].uri = want[t]

(* No uri is cached twice, also when two threads fetched the same object   *)
(* at the same time and both put it.                                       *)
UniqueUris ==
  \A i, j \in DOMAIN list :
    entry[list[i]].uri = entry[list[j]].uri => i = j

(* Every entry that is allocated is in the list or still belongs to the    *)
(* one call that made it: nothing leaks and nothing is freed while listed. *)
Pending == {t \in Threads :
  pc[t] \in {"put_wrlock", "put_walk", "put_sweep", "put_insert", "put_drop"}}

NothingLeaks ==
  /\ DOMAIN entry = Listed \cup {node[t] : t \in Pending}
  /\ \A t \in Pending : node[t] \notin Listed
  /\ \A t, s \in Pending : node[t] = node[s] => t = s

(* An entry that was out of patience when the put began (it was hit often) *)
(* is evicted only when every entry that was not is gone: it gets its      *)
(* second chance, in whatever order the walk meets the two kinds.          *)
SecondChance ==
  [][\A n \in chance : n \in Listed \ Listed' => Listed' \subseteq chance]_vars

(* The walk ends, also when it promotes entries to its own front and meets *)
(* them again, and rounds are added while the room does not suffice: every *)
(* step of it leaves less work, counted in entries, in the promotions they *)
(* can still get, and in places to visit, and no round is started on an    *)
(* empty list.  No put keeps the write lock for ever.                      *)
Due(n) == IF entry[n].patience > 0 THEN 0
          ELSE 1 + (-entry[n].patience) \div DefaultPatience
Rounds == UNION {{n} \X (0..Due(n)) : n \in Listed}
Work(t) ==
  2 * Cardinality(Rounds)
    + (IF pc[t] = "put_walk" THEN cursor[t] ELSE IF AtHead(t) THEN 1 ELSE 0)
WalkShrinks ==
  /\ [](\A t \in Threads : pc[t] = "put_sweep" /\ Lacking(t) => list # <<>>)
  /\ [][\A t \in Threads :
          /\ pc[t] \in {"put_walk", "put_sweep"} /\ pc'[t] = pc[t]
          /\ <<list, cursor[t]>>' # <<list, cursor[t]>>
          => Work(t)' < Work(t)]_vars

-----------------------------------------------------------------------------
(* What the callers see: the list as a map, and a call as done from the    *)
(* step at which it takes effect.                                          *)

Contents ==
  [u \in {entry[n].uri : n \in Listed} |->
     entry[CHOOSE n \in Listed : entry[n].uri = u].data]

Call(t) ==
  CASE pc[t] = "idle" -> [op |-> "none"]
    [] pc[t] \in {"get_rdlock", "get_find", "get_copy"} ->
         [op |-> "get", uri |-> want[t]]
    [] pc[t] \in {"put_wrlock", "put_walk", "put_sweep", "put_insert"} ->
         [op |-> "put", uri |-> entry[node[t]].uri, obj |-> entry[node[t]].data]
    [] OTHER -> [op |-> "done"]

Store == INSTANCE CacheStore WITH
  contents <- Contents, call <- [t \in Threads |-> Call(t)], answer <- answer

(* The cache is a map that is read at one instant, never changes a cached  *)
(* value and evicts only while the object to be put does not fit.          *)
ImplementsStore == Store!Spec
=============================================================================
