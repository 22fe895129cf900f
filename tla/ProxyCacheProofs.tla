-------------------------- MODULE ProxyCacheProofs --------------------------
(* Proofs about ProxyCache, for any threads, uris, objects and addresses:  *)
(* the lock and the list first, then the account of the free bytes, the    *)
(* order of eviction, the end of the walk, and that it implements          *)
(* CacheStore.                                                             *)
EXTENDS ProxyCache, SequenceTheorems, FiniteSetTheorems, TLAPS

-----------------------------------------------------------------------------
(* The lock                                                                *)

Locks ==
  /\ pc \in [Threads -> Places]
  /\ readers \subseteq Threads /\ writer \subseteq Threads
  /\ LockDiscipline

(* A thread that moves between places of one kind leaves the lock alone.   *)
LEMMA LockUntouched ==
  ASSUME Locks, NEW t \in Threads, NEW to \in Places,
         pc' = [pc EXCEPT ![t] = to],
         to \in Reading <=> pc[t] \in Reading,
         to \in Writing <=> pc[t] \in Writing,
         UNCHANGED <<readers, writer>>
  PROVE  Locks'
<1>1. \A s \in Threads : /\ pc'[s] \in Reading <=> pc[s] \in Reading
                         /\ pc'[s] \in Writing <=> pc[s] \in Writing
  BY DEF Locks
<1>2. pc' \in [Threads -> Places]
  BY DEF Locks
<1> QED
  BY <1>1, <1>2 DEF Locks, LockDiscipline

LEMMA LocksStep == Locks /\ [Next]_vars => Locks'
<1> SUFFICES ASSUME Locks, [Next]_vars
             PROVE  Locks'
  OBVIOUS
<1> USE DEF Goto, Places
<1>1. ASSUME UNCHANGED vars
      PROVE  Locks'
  BY <1>1 DEF vars, Locks, LockDiscipline
<1>2. ASSUME NEW t \in Threads, NEW u \in Uris, GetCall(t, u)
      PROVE  Locks'
  BY <1>2, LockUntouched DEF GetCall, Reading, Writing
<1>3. ASSUME NEW t \in Threads, NEW u \in Uris, NEW o \in Objects, PutCall(t, u, o)
      PROVE  Locks'
  BY <1>3, LockUntouched DEF PutCall, Reading, Writing
<1>4. ASSUME NEW t \in Threads, GetRdlock(t)
      PROVE  Locks'
  <2>1. pc[t] = "get_rdlock" /\ pc' = [pc EXCEPT ![t] = "get_find"]
          /\ writer = {} /\ writer' = {} /\ readers' = readers \cup {t}
    BY <1>4 DEF GetRdlock
  <2>2. \A s \in Threads : pc[s] \notin Writing
    BY <2>1 DEF Locks, LockDiscipline
  <2>3. \A s \in Threads : pc'[s] \notin Writing
    BY <2>1, <2>2 DEF Locks, Writing
  <2>4. \A s \in Threads : pc'[s] \in Reading <=> s \in readers'
    BY <2>1 DEF Locks, LockDiscipline, Reading
  <2>5. pc' \in [Threads -> Places] /\ readers' \subseteq Threads
    BY <2>1 DEF Locks, Reading
  <2> QED
    BY <2>1, <2>3, <2>4, <2>5 DEF Locks, LockDiscipline
<1>5. ASSUME NEW t \in Threads, GetFind(t)
      PROVE  Locks'
  <2>1. \E to \in {"get_copy", "get_unlock"} : Goto(t, "get_find", to)
    BY <1>5 DEF GetFind
  <2>2. UNCHANGED <<readers, writer>>
    BY <1>5 DEF GetFind
  <2> QED
    BY <2>1, <2>2, LockUntouched DEF Reading, Writing
<1>6. ASSUME NEW t \in Threads, GetCopy(t) \/ GetCount(t)
      PROVE  Locks'
  <2>1. \E to \in {"get_count", "get_unlock"} : \E from \in {"get_copy", "get_count"} :
          Goto(t, from, to)
    BY <1>6 DEF GetCopy, GetCount
  <2>2. UNCHANGED <<readers, writer>>
    BY <1>6 DEF GetCopy, GetCount
  <2> QED
    BY <2>1, <2>2, LockUntouched DEF Reading, Writing
<1>7. ASSUME NEW t \in Threads, GetUnlock(t)
      PROVE  Locks'
  <2>1. pc[t] = "get_unlock" /\ pc' = [pc EXCEPT ![t] = "idle"]
          /\ writer' = writer /\ readers' = readers \ {t}
    BY <1>7 DEF GetUnlock, shared
  <2>2. \A s \in Threads : pc'[s] \in Reading <=> s \in readers'
    BY <2>1 DEF Locks, LockDiscipline, Reading
  <2>3. \A s \in Threads : pc'[s] \in Writing <=> s \in writer'
    BY <2>1 DEF Locks, LockDiscipline, Writing
  <2>4. pc' \in [Threads -> Places] /\ readers' \subseteq readers
    BY <2>1 DEF Locks, Reading
  <2> QED
    BY <2>1, <2>2, <2>3, <2>4 DEF Locks, LockDiscipline
<1>8. ASSUME NEW t \in Threads, PutWrlock(t)
      PROVE  Locks'
  <2>1. pc[t] = "put_wrlock" /\ pc' = [pc EXCEPT ![t] = "put_walk"]
          /\ readers = {} /\ writer = {} /\ writer' = {t} /\ readers' = {}
    BY <1>8 DEF PutWrlock
  <2>2. \A s \in Threads : pc[s] \notin Writing /\ pc[s] \notin Reading
    BY <2>1 DEF Locks, LockDiscipline
  <2>3. \A s \in Threads : pc'[s] \notin Reading /\ (pc'[s] \in Writing <=> s = t)
    BY <2>1, <2>2 DEF Locks, Writing, Reading
  <2>4. pc' \in [Threads -> Places]
    BY <2>1 DEF Locks, Writing
  <2> QED
    BY <2>1, <2>3, <2>4 DEF Locks, LockDiscipline
<1>9. ASSUME NEW t \in Threads, Bookkeeping(t) \/ PutInsert(t)
      PROVE  Locks'
  <2>1. pc[t] \in Writing /\ \E to \in Writing : pc' = [pc EXCEPT ![t] = to]
    <3>1. CASE WalkMatch(t)
      BY <3>1 DEF WalkMatch, Writing
    <3>2. CASE WalkPromote(t) \/ WalkEvict(t) \/ WalkKeep(t) \/ Sweep(t)
      <4>1. pc[t] \in Writing /\ pc' = pc
        BY <3>2 DEF WalkPromote, WalkEvict, WalkKeep, Sweep, Writing
      <4>2. pc = [pc EXCEPT ![t] = pc[t]]
        BY DEF Locks
      <4> QED
        BY <4>1, <4>2
    <3>3. CASE LoopEnd(t)
      BY <3>3 DEF LoopEnd, Writing
    <3>4. CASE PutInsert(t)
      BY <3>4 DEF PutInsert, Writing
    <3> QED
      BY <1>9, <3>1, <3>2, <3>3, <3>4 DEF Bookkeeping
  <2>2. UNCHANGED <<readers, writer>>
    BY <1>9 DEF Bookkeeping, WalkMatch, WalkPromote, WalkEvict, WalkKeep, Sweep,
                LoopEnd, PutInsert
  <2>3. \A p \in Writing : p \notin Reading /\ p \in Places
    BY DEF Writing, Reading
  <2> QED
    BY <2>1, <2>2, <2>3, LockUntouched
<1>10. ASSUME NEW t \in Threads, PutUnlock(t) \/ PutDrop(t)
       PROVE  Locks'
  <2>1. pc[t] \in Writing /\ pc' = [pc EXCEPT ![t] = "idle"]
          /\ writer' = {} /\ readers' = readers
    BY <1>10 DEF PutUnlock, PutDrop, Writing
  <2>2. t \in writer /\ readers = {} /\ writer = {t}
    BY <2>1 DEF Locks, LockDiscipline
  <2>3. \A s \in Threads : pc'[s] \notin Reading /\ pc'[s] \notin Writing
    BY <2>1, <2>2 DEF Locks, LockDiscipline, Reading, Writing
  <2>4. pc' \in [Threads -> Places]
    BY <2>1 DEF Locks
  <2> QED
    BY <2>1, <2>2, <2>3, <2>4 DEF Locks, LockDiscipline
<1> QED
  BY <1>1, <1>2, <1>3, <1>4, <1>5, <1>6, <1>7, <1>8, <1>9, <1>10
  DEF Next, Get, Put

LEMMA LocksInit == Init => Locks
BY DEF Init, Locks, LockDiscipline, Places, Reading, Writing

LEMMA LocksAlways == Spec => []Locks
BY LocksInit, LocksStep, PTL DEF Spec

(* The lock is held by exactly the threads inside a locked region of       *)
(* cache_get or cache_put, and a writer is alone.                          *)
THEOREM LockHeld == Spec => []LockDiscipline
<1>1. Locks => LockDiscipline
  BY DEF Locks
<1> QED
  BY <1>1, LocksAlways, PTL

-----------------------------------------------------------------------------
(* The list                                                                *)

LEMMA FunctionIsSeq ==
  ASSUME NEW S, NEW n \in Nat, NEW f \in [1..n -> S]
  PROVE  f \in Seq(S) /\ Len(f) = n /\ DOMAIN f = 1..n
OBVIOUS

(* Moving the node at i to the front permutes the list: position j then    *)
(* holds what was at From(i, j).                                           *)
From(i, j) == IF j = 1 THEN i ELSE IF j <= i THEN j - 1 ELSE j

LEMMA PromotedList ==
  ASSUME list \in Seq(Nodes), NEW i \in DOMAIN list
  PROVE  /\ Promoted(i) \in Seq(Nodes)
         /\ Len(Promoted(i)) = Len(list)
         /\ \A j \in DOMAIN list : From(i, j) \in DOMAIN list
                                     /\ Promoted(i)[j] = list[From(i, j)]
         /\ \A j \in DOMAIN list : \E k \in DOMAIN list : From(i, k) = j
         /\ \A j, k \in DOMAIN list : From(i, j) = From(i, k) => j = k
<1>1. Len(list) \in Nat /\ DOMAIN list = 1..Len(list)
  OBVIOUS
<1>2. \A j \in 1..Len(list) : From(i, j) \in 1..Len(list)
  BY <1>1 DEF From
<1>3. \A j \in 1..Len(list) : Promoted(i)[j] = list[From(i, j)]
  BY <1>1 DEF Promoted, From
<1>4. \A j \in 1..Len(list) : list[j] \in Nodes
  BY <1>1
<1>5. Promoted(i) \in [1..Len(list) -> Nodes]
  BY <1>1, <1>2, <1>4 DEF Promoted, From
<1>6. Promoted(i) \in Seq(Nodes) /\ Len(Promoted(i)) = Len(list)
  BY <1>1, <1>5
<1>7. ASSUME NEW j \in 1..Len(list)
      PROVE  \E k \in 1..Len(list) : From(i, k) = j
  <2>1. CASE j = i
    BY <2>1, <1>1 DEF From
  <2>2. CASE j < i
    <3>1. j + 1 \in 1..Len(list) /\ From(i, j + 1) = j
      BY <2>2, <1>1 DEF From
    <3> QED
      BY <3>1
  <2>3. CASE j > i
    <3>1. From(i, j) = j
      BY <2>3, <1>1 DEF From
    <3> QED
      BY <3>1
  <2> QED
    BY <2>1, <2>2, <2>3, <1>1
<1>8. \A j, k \in 1..Len(list) : From(i, j) = From(i, k) => j = k
  BY <1>1 DEF From
<1> QED
  BY <1>1, <1>2, <1>3, <1>6, <1>7, <1>8

(* Taking the node at i out keeps the others in their order.               *)
Behind(i, j) == IF j < i THEN j ELSE j + 1

LEMMA ShortenedList ==
  ASSUME list \in Seq(Nodes), NEW i \in DOMAIN list
  PROVE  /\ Without(i) \in Seq(Nodes)
         /\ Len(Without(i)) = Len(list) - 1
         /\ \A j \in DOMAIN Without(i) :
              /\ Behind(i, j) \in DOMAIN list \ {i}
              /\ Without(i)[j] = list[Behind(i, j)]
         /\ \A j \in DOMAIN list \ {i} : \E k \in DOMAIN Without(i) : Behind(i, k) = j
         /\ \A j, k \in DOMAIN Without(i) : Behind(i, j) = Behind(i, k) => j = k
<1> DEFINE n == Len(list) - 1
<1>1. Len(list) \in Nat /\ DOMAIN list = 1..Len(list) /\ n \in Nat
  OBVIOUS
<1>2. \A j \in 1..n : Behind(i, j) \in (1..Len(list)) \ {i}
  BY <1>1 DEF Behind
<1>3. \A j \in 1..n : Without(i)[j] = list[Behind(i, j)]
  BY <1>1 DEF Without, Behind
<1>4. \A j \in 1..Len(list) : list[j] \in Nodes
  BY <1>1
<1>5. Without(i) \in [1..n -> Nodes]
  BY <1>1, <1>2, <1>4 DEF Without, Behind
<1>6. Without(i) \in Seq(Nodes) /\ Len(Without(i)) = n /\ DOMAIN Without(i) = 1..n
  <2> HIDE DEF n
  <2> QED
    BY <1>1, <1>5, FunctionIsSeq
<1>7. ASSUME NEW j \in (1..Len(list)) \ {i}
      PROVE  \E k \in 1..n : Behind(i, k) = j
  <2>1. CASE j < i
    BY <2>1, <1>1 DEF Behind
  <2>2. CASE j > i
    <3>1. j - 1 \in 1..n /\ Behind(i, j - 1) = j
      BY <2>2, <1>1 DEF Behind
    <3> QED
      BY <3>1
  <2> QED
    BY <2>1, <2>2, <1>1
<1>8. \A j, k \in 1..n : Behind(i, j) = Behind(i, k) => j = k
  BY <1>1 DEF Behind
<1> QED
  BY <1>1, <1>2, <1>3, <1>6, <1>7, <1>8

-----------------------------------------------------------------------------
(* The structure of the cache                                              *)

Typed ==
  /\ list \in Seq(Nodes)
  /\ DOMAIN entry \subseteq Nodes
  /\ entry \in [DOMAIN entry -> Entry]
  /\ want \in [Threads -> Uris \cup {NoUri}]
  /\ node \in [Threads -> Nodes \cup {NoNode}]
  /\ cursor \in [Threads -> Nat]

Owning == {"put_wrlock", "put_walk", "put_sweep", "put_insert", "put_drop"}

(* What the loops of cache_bookkeeping know: the walk is inside the list   *)
(* and the positions it has passed do not hold the new entry's uri, hence  *)
(* no position does when the second loop or the insertion begins.          *)
Walks ==
  \A t \in Threads :
    /\ pc[t] \in {"put_walk", "put_sweep"} => cursor[t] \in 0..Len(list)
    /\ pc[t] = "put_walk" =>
         \A j \in DOMAIN list : j > cursor[t] => entry[list[j]].uri # entry[node[t]].uri
    /\ pc[t] \in {"put_sweep", "put_insert"} =>
         \A j \in DOMAIN list : entry[list[j]].uri # entry[node[t]].uri

Shape == UniqueUris /\ NothingLeaks /\ ReaderSafe /\ Walks
Struct == Typed /\ Shape

LEMMA Known ==
  ASSUME Typed, NothingLeaks
  PROVE  /\ \A j \in DOMAIN list : list[j] \in DOMAIN entry /\ list[j] \in Listed
         /\ \A t \in Threads : pc[t] \in Owning => node[t] \in DOMAIN entry
                                                  /\ node[t] \notin Listed
BY DEF Typed, NothingLeaks, Listed, Pending, Owning

(* A step that leaves the list and the uris alone and concerns one thread. *)
LEMMA Undisturbed ==
  ASSUME Struct, NEW t \in Threads,
         list' = list, DOMAIN entry' = DOMAIN entry,
         \A n \in DOMAIN entry : entry'[n].uri = entry[n].uri,
         \A s \in Threads \ {t} : /\ pc'[s] = pc[s] /\ node'[s] = node[s]
                                  /\ want'[s] = want[s] /\ cursor'[s] = cursor[s],
         pc'[t] \in Owning <=> pc[t] \in Owning,
         pc[t] \in Owning => node'[t] = node[t],
         pc'[t] \in {"get_copy", "get_count"} =>
           node'[t] \in Listed /\ entry[node'[t]].uri = want'[t],
         pc'[t] \in {"put_walk", "put_sweep"} => cursor'[t] \in 0..Len(list),
         pc'[t] = "put_walk" =>
           \A j \in DOMAIN list : j > cursor'[t] => entry[list[j]].uri # entry[node[t]].uri,
         pc'[t] \in {"put_sweep", "put_insert"} =>
           \A j \in DOMAIN list : entry[list[j]].uri # entry[node[t]].uri
  PROVE  Shape'
<1>1. /\ \A j \in DOMAIN list : list[j] \in DOMAIN entry /\ list[j] \in Listed
      /\ \A s \in Threads : pc[s] \in Owning => node[s] \in DOMAIN entry
                                               /\ node[s] \notin Listed
  BY Known DEF Struct, Shape
<1>2. Listed' = Listed /\ Listed \subseteq DOMAIN entry
  BY <1>1 DEF Listed
<1>3. UniqueUris'
  <2>1. UniqueUris
    BY DEF Struct, Shape
  <2> QED
    BY <2>1, <1>1 DEF UniqueUris
<1>4. NothingLeaks'
  <2>1. NothingLeaks
    BY DEF Struct, Shape
  <2>2. Pending' = Pending
    BY DEF Pending, Owning
  <2>3. \A s \in Pending : node'[s] = node[s]
    BY DEF Pending, Owning
  <2> QED
    BY <2>1, <2>2, <2>3, <1>2 DEF NothingLeaks
<1>5. ReaderSafe'
  <2>1. ReaderSafe
    BY DEF Struct, Shape
  <2> QED
    BY <2>1, <1>2 DEF ReaderSafe
<1>6. Walks'
  <2>1. Walks
    BY DEF Struct, Shape
  <2>2. \A s \in Threads : pc'[s] \in {"put_walk", "put_sweep"} => cursor'[s] \in 0..Len(list')
    BY <2>1 DEF Walks
  <2>3. \A s \in Threads : pc'[s] \in Owning => node'[s] = node[s] /\ node[s] \in DOMAIN entry
    BY <1>1
  <2>4. \A s \in Threads : pc'[s] = "put_walk" =>
          \A j \in DOMAIN list' : j > cursor'[s] => entry'[list'[j]].uri # entry'[node'[s]].uri
    BY <2>1, <2>3, <1>1 DEF Walks, Owning
  <2>5. \A s \in Threads : pc'[s] \in {"put_sweep", "put_insert"} =>
          \A j \in DOMAIN list' : entry'[list'[j]].uri # entry'[node'[s]].uri
    BY <2>1, <2>3, <1>1 DEF Walks, Owning
  <2> QED
    BY <2>2, <2>4, <2>5 DEF Walks
<1> QED
  BY <1>3, <1>4, <1>5, <1>6 DEF Shape

(* A step of a thread that has the write lock: no other thread reads or    *)
(* walks, so what remains is the list itself and the writer's own walk.    *)
LEMMA OneWriter ==
  ASSUME Locks, NEW t \in Threads, pc[t] \in Writing,
         \A s \in Threads \ {t} : pc'[s] = pc[s],
         pc'[t] \notin Reading
  PROVE  /\ ReaderSafe'
         /\ \A s \in Threads : pc'[s] \in Writing => s = t
<1>1. writer = {t} /\ readers = {}
  BY DEF Locks, LockDiscipline
<1>2. \A s \in Threads \ {t} : pc[s] \notin Writing /\ pc[s] \notin Reading
  BY <1>1 DEF Locks, LockDiscipline
<1> QED
  BY <1>2 DEF ReaderSafe, Reading

LEMMA OneWalk ==
  ASSUME NEW t \in Threads,
         \A s \in Threads : pc'[s] \in {"put_walk", "put_sweep", "put_insert"} => s = t,
         pc'[t] # "put_insert",
         cursor'[t] \in 0..Len(list'),
         pc'[t] = "put_walk" => \A j \in DOMAIN list' :
           j > cursor'[t] => entry'[list'[j]].uri # entry'[node'[t]].uri,
         pc'[t] = "put_sweep" => \A j \in DOMAIN list' :
           entry'[list'[j]].uri # entry'[node'[t]].uri
  PROVE  Walks'
BY DEF Walks

(* The node at i moves to the front, at the end of a walk that found the   *)
(* uri there or in the middle of one that does not look for it.            *)
LEMMA AfterPromote ==
  ASSUME Struct, Locks, NEW t \in Threads, NEW i \in DOMAIN list,
         list' = Promoted(i), DOMAIN entry' = DOMAIN entry, node' = node,
         \A n \in DOMAIN entry : entry'[n].uri = entry[n].uri,
         \A s \in Threads \ {t} : pc'[s] = pc[s],
         pc[t] \in {"put_walk", "put_sweep"},
         \/ pc'[t] = "put_drop"
         \/ /\ pc'[t] = pc[t] /\ cursor[t] = i
            /\ cursor'[t] = IF i = 1 THEN 0 ELSE i
            /\ entry[list[i]].uri # entry[node[t]].uri
  PROVE  Shape'
<1>1. /\ \A j \in DOMAIN list : list[j] \in DOMAIN entry /\ list[j] \in Listed
      /\ \A s \in Threads : pc[s] \in Owning => node[s] \in DOMAIN entry
                                               /\ node[s] \notin Listed
  BY Known DEF Struct, Shape
<1>2. /\ list' \in Seq(Nodes) /\ Len(list') = Len(list)
      /\ \A j \in DOMAIN list : From(i, j) \in DOMAIN list /\ list'[j] = list[From(i, j)]
      /\ \A j \in DOMAIN list : \E k \in DOMAIN list : From(i, k) = j
      /\ \A j, k \in DOMAIN list : From(i, j) = From(i, k) => j = k
  BY PromotedList DEF Struct, Typed
<1>3. DOMAIN list' = DOMAIN list /\ DOMAIN list = 1..Len(list) /\ Len(list) \in Nat
  BY <1>2 DEF Struct, Typed
<1>4. Listed' = Listed
  <2>1. ASSUME NEW j \in DOMAIN list
        PROVE  list'[j] \in Listed
    <3>1. PICK k \in DOMAIN list : list'[j] = list[k]
      BY <1>2
    <3> QED
      BY <3>1 DEF Listed
  <2>2. ASSUME NEW j \in DOMAIN list
        PROVE  list[j] \in Listed'
    <3>1. PICK k \in DOMAIN list : From(i, k) = j
      BY <1>2
    <3>2. list'[k] = list[j] /\ k \in DOMAIN list'
      BY <3>1, <1>2, <1>3
    <3> QED
      BY <3>2 DEF Listed
  <2> QED
    <3>1. \A n : n \in Listed' <=> \E j \in DOMAIN list : n = list'[j]
      BY <1>3 DEF Listed
    <3>2. \A n : n \in Listed <=> \E j \in DOMAIN list : n = list[j]
      BY DEF Listed
    <3>3. \A n : n \in Listed' <=> n \in Listed
      BY <2>1, <2>2, <3>1, <3>2
    <3> QED
      BY <3>3
<1>5. UniqueUris'
  <2>1. UniqueUris
    BY DEF Struct, Shape
  <2> SUFFICES ASSUME NEW j \in DOMAIN list, NEW k \in DOMAIN list,
                      entry'[list'[j]].uri = entry'[list'[k]].uri
               PROVE  j = k
    BY <1>3 DEF UniqueUris
  <2>2. entry[list[From(i, j)]].uri = entry[list[From(i, k)]].uri
    BY <1>1, <1>2
  <2>3. From(i, j) = From(i, k)
    BY <2>1, <2>2, <1>2 DEF UniqueUris
  <2> QED
    BY <2>3, <1>2
<1>6. NothingLeaks'
  <2>1. NothingLeaks
    BY DEF Struct, Shape
  <2>2. Pending' = Pending
    BY DEF Pending
  <2> QED
    BY <2>1, <2>2, <1>4 DEF NothingLeaks
<1>7. ReaderSafe' /\ \A s \in Threads : pc'[s] \in Writing => s = t
  BY OneWriter DEF Writing, Reading
<1>8. Walks'
  <2>1. CASE pc'[t] = "put_drop"
    BY <2>1, <1>7 DEF Walks, Writing
  <2>2. CASE /\ pc'[t] = pc[t] /\ cursor[t] = i
             /\ cursor'[t] = IF i = 1 THEN 0 ELSE i
             /\ entry[list[i]].uri # entry[node[t]].uri
    <3>1. cursor'[t] \in 0..Len(list')
      BY <2>2, <1>2, <1>3
    <3>2. \A j \in DOMAIN list : j > cursor'[t] => From(i, j) = j /\ (j = i \/ j > i)
      BY <2>2, <1>3 DEF From
    <3>3. ASSUME pc[t] = "put_walk", NEW j \in DOMAIN list, j > cursor'[t]
          PROVE  entry'[list'[j]].uri # entry'[node'[t]].uri
      <4>1. From(i, j) = j /\ (j = i \/ j > i)
        BY <3>2, <3>3
      <4>2. list'[j] = list[j]
        BY <4>1, <1>2
      <4>3. entry[list[j]].uri # entry[node[t]].uri
        BY <4>1, <3>3, <2>2 DEF Struct, Shape, Walks
      <4> QED
        BY <4>2, <4>3, <1>1 DEF Owning
    <3>4. ASSUME pc[t] = "put_sweep", NEW j \in DOMAIN list
          PROVE  entry'[list'[j]].uri # entry'[node'[t]].uri
      <4>1. entry[list[From(i, j)]].uri # entry[node[t]].uri
        BY <3>4, <1>2 DEF Struct, Shape, Walks
      <4> QED
        BY <4>1, <1>1, <1>2 DEF Owning
    <3> QED
      BY <3>1, <3>3, <3>4, <2>2, <1>3, <1>7 DEF Walks, Writing
  <2> QED
    BY <2>1, <2>2
<1> QED
  BY <1>5, <1>6, <1>7, <1>8 DEF Shape

(* The node at the walk leaves the list and is freed.                      *)
LEMMA AfterEvict ==
  ASSUME Struct, Locks, NEW t \in Threads, NEW i \in DOMAIN list,
         list' = Without(i), node' = node,
         entry' = [n \in DOMAIN entry \ {list[i]} |-> entry[n]],
         pc' = pc, pc[t] \in {"put_walk", "put_sweep"},
         cursor[t] = i, cursor'[t] = i - 1,
         entry[list[i]].uri # entry[node[t]].uri
  PROVE  Shape'
<1>1. /\ \A j \in DOMAIN list : list[j] \in DOMAIN entry /\ list[j] \in Listed
      /\ \A s \in Threads : pc[s] \in Owning => node[s] \in DOMAIN entry
                                               /\ node[s] \notin Listed
  BY Known DEF Struct, Shape
<1>2. /\ list' \in Seq(Nodes) /\ Len(list') = Len(list) - 1
      /\ \A j \in DOMAIN list' : /\ Behind(i, j) \in DOMAIN list \ {i}
                                /\ list'[j] = list[Behind(i, j)]
      /\ \A j \in DOMAIN list \ {i} : \E k \in DOMAIN list' : Behind(i, k) = j
      /\ \A j, k \in DOMAIN list' : Behind(i, j) = Behind(i, k) => j = k
  BY ShortenedList DEF Struct, Typed
<1>3. DOMAIN list' = 1..Len(list) - 1 /\ DOMAIN list = 1..Len(list) /\ Len(list) \in Nat
  BY <1>2 DEF Struct, Typed
<1>4. \A j \in DOMAIN list \ {i} : list[j] # list[i]
  BY DEF Struct, Shape, UniqueUris
<1>5. Listed' = Listed \ {list[i]}
  BY <1>2, <1>4 DEF Listed
<1>6. \A j \in DOMAIN list' : entry'[list'[j]] = entry[list[Behind(i, j)]]
  BY <1>1, <1>2, <1>4
<1>7. UniqueUris'
  <2>1. UniqueUris
    BY DEF Struct, Shape
  <2> SUFFICES ASSUME NEW j \in DOMAIN list', NEW k \in DOMAIN list',
                      entry'[list'[j]].uri = entry'[list'[k]].uri
               PROVE  j = k
    BY DEF UniqueUris
  <2>2. entry[list[Behind(i, j)]].uri = entry[list[Behind(i, k)]].uri
    BY <1>6
  <2>3. Behind(i, j) \in DOMAIN list /\ Behind(i, k) \in DOMAIN list
    BY <1>2
  <2>4. Behind(i, j) = Behind(i, k)
    BY <2>1, <2>2, <2>3 DEF UniqueUris
  <2> QED
    BY <2>4, <1>2
<1>8. NothingLeaks'
  <2>1. NothingLeaks
    BY DEF Struct, Shape
  <2>2. Pending' = Pending
    BY DEF Pending
  <2>3. \A s \in Pending : node[s] # list[i]
    BY <2>1, <1>1 DEF NothingLeaks
  <2> QED
    BY <2>1, <2>2, <2>3, <1>5 DEF NothingLeaks
<1>9. ReaderSafe' /\ \A s \in Threads : pc'[s] \in Writing => s = t
  BY OneWriter DEF Writing, Reading
<1>10. Walks'
  <2>1. cursor'[t] \in 0..Len(list')
    BY <1>2, <1>3
  <2>2. entry'[node'[t]] = entry[node[t]]
    BY <1>1 DEF Owning
  <2>3. \A j \in DOMAIN list' : j > cursor'[t] => Behind(i, j) > cursor[t]
    BY <1>3 DEF Behind
  <2>4. ASSUME pc[t] = "put_walk", NEW j \in DOMAIN list', j > cursor'[t]
        PROVE  entry'[list'[j]].uri # entry'[node'[t]].uri
    <3>1. Behind(i, j) \in DOMAIN list /\ Behind(i, j) > cursor[t]
      BY <2>3, <2>4, <1>2
    <3>2. entry[list[Behind(i, j)]].uri # entry[node[t]].uri
      BY <3>1, <2>4 DEF Struct, Shape, Walks
    <3> QED
      BY <3>2, <2>2, <1>6
  <2>5. ASSUME pc[t] = "put_sweep", NEW j \in DOMAIN list'
        PROVE  entry'[list'[j]].uri # entry'[node'[t]].uri
    <3>1. Behind(i, j) \in DOMAIN list
      BY <1>2
    <3>2. entry[list[Behind(i, j)]].uri # entry[node[t]].uri
      BY <3>1, <2>5 DEF Struct, Shape, Walks
    <3> QED
      BY <3>2, <2>2, <1>6
  <2>6. pc[t] = "put_walk" => \A j \in DOMAIN list' :
          j > cursor'[t] => entry'[list'[j]].uri # entry'[node'[t]].uri
    BY <2>4
  <2>7. pc[t] = "put_sweep" => \A j \in DOMAIN list' :
          entry'[list'[j]].uri # entry'[node'[t]].uri
    BY <2>5
  <2>8. \A s \in Threads : pc'[s] \in {"put_walk", "put_sweep", "put_insert"} => s = t
    BY <1>9 DEF Writing
  <2> QED
    BY <2>1, <2>6, <2>7, <2>8, OneWalk
<1> QED
  BY <1>7, <1>8, <1>9, <1>10 DEF Shape

(* A new entry is known to its thread alone.                               *)
LEMMA AfterCreate ==
  ASSUME Struct, Locks, NEW t \in Threads, NEW u \in Uris, NEW o \in Objects,
         PutCall(t, u, o)
  PROVE  Struct'
<1>1. PICK n \in Nodes \ DOMAIN entry :
        /\ pc[t] = "idle" /\ pc' = [pc EXCEPT ![t] = "put_wrlock"]
        /\ node' = [node EXCEPT ![t] = n]
        /\ entry' = [m \in DOMAIN entry \cup {n} |->
             IF m = n THEN [uri |-> u, data |-> o, patience |-> DefaultPatience]
             ELSE entry[m]]
        /\ UNCHANGED <<list, want, cursor>>
  BY DEF PutCall, Goto
<1>2. /\ \A j \in DOMAIN list : list[j] \in DOMAIN entry /\ list[j] \in Listed
      /\ \A s \in Threads : pc[s] \in Owning => node[s] \in DOMAIN entry
                                               /\ node[s] \notin Listed
  BY Known DEF Struct, Shape
<1>3. Listed' = Listed /\ Listed \subseteq DOMAIN entry
  BY <1>1, <1>2 DEF Listed
<1>4. \A m \in DOMAIN entry : entry'[m] = entry[m]
  BY <1>1
<1>5. DOMAIN entry' = DOMAIN entry \cup {n}
  BY <1>1
<1>6. /\ node' \in [Threads -> Nodes \cup {NoNode}] /\ node'[t] = n
      /\ \A s \in Threads \ {t} : node'[s] = node[s] /\ pc'[s] = pc[s]
  BY <1>1 DEF Struct, Typed
<1>7. Typed'
  <2>1. [uri |-> u, data |-> o, patience |-> DefaultPatience] \in Entry
    BY DEF Entry, DefaultPatience
  <2>2. entry' \in [DOMAIN entry \cup {n} -> Entry]
    BY <2>1, <1>1 DEF Struct, Typed
  <2> QED
    BY <2>2, <1>1, <1>5, <1>6 DEF Struct, Typed
<1>8. UniqueUris'
  BY <1>1, <1>2, <1>4 DEF Struct, Shape, UniqueUris
<1>9. pc'[t] = "put_wrlock"
  BY <1>1 DEF Locks
<1>10. NothingLeaks'
  <2>1. NothingLeaks
    BY DEF Struct, Shape
  <2>2. pc' = [pc EXCEPT ![t] = "put_wrlock"] /\ pc[t] = "idle"
    BY <1>1
  <2>3. \A s \in Threads \ {t} : s \in Pending' <=> s \in Pending
    BY <1>6 DEF Pending
  <2>4. t \notin Pending /\ Pending \subseteq Threads /\ Pending' \subseteq Threads
    BY <2>2 DEF Pending
  <2>5. Pending' = Pending \cup {t}
    BY <2>2, <2>3, <2>4 DEF Pending, Locks
  <2>6. \A s \in Pending : node'[s] = node[s] /\ node[s] \in DOMAIN entry /\ node[s] # n
    BY <2>1, <2>4, <1>6 DEF NothingLeaks
  <2>7. {node'[s] : s \in Pending'} = {node[s] : s \in Pending} \cup {n}
    BY <2>5, <2>6, <1>6
  <2>8. DOMAIN entry' = Listed' \cup {node'[s] : s \in Pending'}
    BY <2>7, <2>1, <1>3, <1>5 DEF NothingLeaks
  <2>9. \A s \in Pending' : node'[s] \notin Listed'
    BY <2>5, <2>6, <2>1, <1>3, <1>6 DEF NothingLeaks
  <2>10. \A r, s \in Pending' : node'[r] = node'[s] => r = s
    BY <2>5, <2>6, <2>1, <1>6 DEF NothingLeaks
  <2> QED
    BY <2>8, <2>9, <2>10 DEF NothingLeaks
<1>11. ReaderSafe'
  BY <1>1, <1>3, <1>4, <1>6, <1>9 DEF Struct, Shape, ReaderSafe
<1>12. Walks'
  <2>1. Walks /\ pc[t] = "idle"
    BY <1>1 DEF Struct, Shape
  <2>2. \A s \in Threads : pc'[s] \in {"put_walk", "put_sweep", "put_insert"} =>
          /\ pc'[s] = pc[s] /\ node'[s] = node[s] /\ cursor'[s] = cursor[s]
          /\ entry'[node[s]] = entry[node[s]]
    BY <2>1, <1>1, <1>2, <1>4, <1>6, <1>9 DEF Owning
  <2>3. \A j \in DOMAIN list : entry'[list[j]] = entry[list[j]]
    BY <1>2, <1>4
  <2>4. list' = list
    BY <1>1
  <2> QED
    BY <2>1, <2>2, <2>3, <2>4 DEF Walks
<1> QED
  BY <1>7, <1>8, <1>10, <1>11, <1>12 DEF Struct, Shape

(* The new node becomes the first of the list and nobody's own.            *)
LEMMA AfterInsert ==
  ASSUME Struct, Locks, NEW t \in Threads, PutInsert(t)
  PROVE  Struct'
<1>1. /\ pc[t] = "put_insert" /\ pc'[t] = "put_unlock"
      /\ \A s \in Threads \ {t} : pc'[s] = pc[s]
      /\ list' = <<node[t]>> \o list
      /\ UNCHANGED <<entry, node, want, cursor>>
  BY DEF PutInsert, Goto, Locks, locals
<1>2. /\ \A j \in DOMAIN list : list[j] \in DOMAIN entry /\ list[j] \in Listed
      /\ \A s \in Threads : pc[s] \in Owning => node[s] \in DOMAIN entry
                                               /\ node[s] \notin Listed
  BY Known DEF Struct, Shape
<1>3. node[t] \in DOMAIN entry /\ node[t] \notin Listed /\ node[t] \in Nodes
  BY <1>1, <1>2 DEF Owning, Struct, Typed
<1>4. list \in Seq(Nodes) /\ Len(list) \in Nat /\ DOMAIN list = 1..Len(list)
  BY DEF Struct, Typed
<1>5. /\ list' \in Seq(Nodes) /\ Len(list') = Len(list) + 1
      /\ DOMAIN list' = 1..(Len(list) + 1)
      /\ list'[1] = node[t] /\ \A j \in DOMAIN list : list'[j + 1] = list[j]
  BY <1>1, <1>3, <1>4
<1>6. \A k \in DOMAIN list' : k = 1 \/ \E j \in DOMAIN list : k = j + 1
  <2>1. ASSUME NEW k \in 1..(Len(list) + 1), k # 1
        PROVE  k - 1 \in 1..Len(list) /\ k = (k - 1) + 1
    BY <2>1, <1>4
  <2> QED
    BY <2>1, <1>4, <1>5
<1>7. Listed' = Listed \cup {node[t]}
  <2>1. \A k \in DOMAIN list' : list'[k] \in Listed \cup {node[t]}
    BY <1>5, <1>6, <1>2
  <2>2. \A j \in DOMAIN list : j + 1 \in DOMAIN list'
    BY <1>4, <1>5
  <2>3. \A j \in DOMAIN list : list[j] \in Listed'
    BY <2>2, <1>5 DEF Listed
  <2>4. 1 \in DOMAIN list'
    BY <1>4, <1>5
  <2>5. node[t] \in Listed'
    BY <2>4, <1>5 DEF Listed
  <2> QED
    BY <2>1, <2>3, <2>5 DEF Listed
<1>8. \A j \in DOMAIN list : entry[list[j]].uri # entry[node[t]].uri
  BY <1>1 DEF Struct, Shape, Walks
<1>9. UniqueUris'
  <2>1. UniqueUris
    BY DEF Struct, Shape
  <2>2. ASSUME NEW j \in DOMAIN list', NEW k \in DOMAIN list',
               entry[list'[j]].uri = entry[list'[k]].uri
        PROVE  j = k
    <3>1. CASE j = 1 \/ k = 1
      BY <3>1, <2>2, <1>5, <1>6, <1>8
    <3>2. CASE j # 1 /\ k # 1
      <4>1. PICK a \in DOMAIN list, b \in DOMAIN list : j = a + 1 /\ k = b + 1
        BY <3>2, <1>6
      <4>2. a = b
        BY <4>1, <2>1, <2>2, <1>5 DEF UniqueUris
      <4> QED
        BY <4>1, <4>2
    <3> QED
      BY <3>1, <3>2
  <2> QED
    BY <2>2, <1>1 DEF UniqueUris
<1>10. NothingLeaks'
  <2>1. NothingLeaks /\ t \in Pending
    BY <1>1 DEF Struct, Shape, Pending
  <2>2. Pending' = Pending \ {t}
    BY <1>1 DEF Pending
  <2>3. {node[s] : s \in Pending} = {node[s] : s \in Pending \ {t}} \cup {node[t]}
    BY <2>1
  <2>4. DOMAIN entry' = Listed' \cup {node'[s] : s \in Pending'}
    BY <2>1, <2>2, <2>3, <1>1, <1>7 DEF NothingLeaks
  <2>5. \A s \in Pending' : node'[s] \notin Listed'
    BY <2>1, <2>2, <1>1, <1>7 DEF NothingLeaks
  <2>6. \A r, s \in Pending' : node'[r] = node'[s] => r = s
    BY <2>1, <2>2, <1>1 DEF NothingLeaks
  <2> QED
    BY <2>4, <2>5, <2>6 DEF NothingLeaks
<1>11. ReaderSafe' /\ \A s \in Threads : pc'[s] \in Writing => s = t
  BY <1>1, OneWriter DEF Writing, Reading
<1>12. Walks'
  BY <1>1, <1>11 DEF Walks, Writing
<1> QED
  BY <1>1, <1>5, <1>9, <1>10, <1>11, <1>12 DEF Struct, Shape, Typed

(* The new node of a put that found its uri cached is freed.               *)
LEMMA AfterDrop ==
  ASSUME Struct, Locks, NEW t \in Threads, PutDrop(t)
  PROVE  Struct'
<1>1. /\ pc[t] = "put_drop" /\ pc'[t] = "idle"
      /\ \A s \in Threads \ {t} : pc'[s] = pc[s] /\ node'[s] = node[s]
      /\ entry' = [n \in DOMAIN entry \ {node[t]} |-> entry[n]]
      /\ list' = list
  BY DEF PutDrop, Goto, Locks, Return, Struct, Typed
<1>2. /\ \A j \in DOMAIN list : list[j] \in DOMAIN entry /\ list[j] \in Listed
      /\ \A s \in Threads : pc[s] \in Owning => node[s] \in DOMAIN entry
                                               /\ node[s] \notin Listed
  BY Known DEF Struct, Shape
<1>3. node[t] \in DOMAIN entry /\ node[t] \notin Listed
  BY <1>1, <1>2 DEF Owning
<1>4. \A j \in DOMAIN list : entry'[list[j]] = entry[list[j]]
  BY <1>1, <1>2, <1>3
<1>5. Listed' = Listed
  BY <1>1 DEF Listed
<1>6. Typed'
  BY <1>1 DEF Struct, Typed, PutDrop, Return
<1>7. UniqueUris'
  BY <1>1, <1>4 DEF Struct, Shape, UniqueUris
<1>8. NothingLeaks'
  <2>1. NothingLeaks /\ t \in Pending
    BY <1>1 DEF Struct, Shape, Pending
  <2>2. Pending' = Pending \ {t}
    BY <1>1 DEF Pending
  <2>3. \A s \in Pending' : node'[s] = node[s]
    BY <2>2, <1>1 DEF Pending
  <2>4. \A s \in Pending \ {t} : node[s] # node[t]
    BY <2>1 DEF NothingLeaks
  <2>5. DOMAIN entry' = DOMAIN entry \ {node[t]}
    BY <1>1
  <2>6. {node[s] : s \in Pending} = {node'[s] : s \in Pending'} \cup {node[t]}
    BY <2>1, <2>2, <2>3
  <2>7. node[t] \notin {node'[s] : s \in Pending'}
    BY <2>2, <2>3, <2>4
  <2>8. DOMAIN entry' = Listed' \cup {node'[s] : s \in Pending'}
    BY <2>1, <2>5, <2>6, <2>7, <1>3, <1>5 DEF NothingLeaks
  <2>9. \A s \in Pending' : node'[s] \notin Listed'
    BY <2>1, <2>2, <2>3, <1>5 DEF NothingLeaks
  <2>10. \A r, s \in Pending' : node'[r] = node'[s] => r = s
    BY <2>1, <2>2, <2>3 DEF NothingLeaks
  <2> QED
    BY <2>8, <2>9, <2>10 DEF NothingLeaks
<1>9. ReaderSafe' /\ \A s \in Threads : pc'[s] \in Writing => s = t
  BY <1>1, OneWriter DEF Writing, Reading
<1>10. Walks'
  BY <1>1, <1>9 DEF Walks, Writing
<1> QED
  BY <1>6, <1>7, <1>8, <1>9, <1>10 DEF Struct, Shape

LEMMA PatienceOnly ==
  ASSUME Typed, NEW n \in DOMAIN entry, NEW p \in Int,
         entry' = [entry EXCEPT ![n].patience = p]
  PROVE  /\ DOMAIN entry' = DOMAIN entry /\ entry' \in [DOMAIN entry -> Entry]
         /\ \A m \in DOMAIN entry : entry'[m].uri = entry[m].uri
BY DEF Typed, Entry

LEMMA InsideList ==
  ASSUME Struct, NEW t \in Threads, pc[t] \in {"put_walk", "put_sweep"}, ~AtHead(t)
  PROVE  cursor[t] \in DOMAIN list
<1>1. cursor[t] \in 0..Len(list) /\ cursor[t] # 0
  BY DEF Struct, Shape, Walks, AtHead
<1>2. Len(list) \in Nat /\ DOMAIN list = 1..Len(list)
  BY DEF Struct, Typed
<1> QED
  BY <1>1, <1>2

(* An iteration of either loop of cache_bookkeeping at an entry with       *)
(* another uri.                                                            *)
LEMMA AtOtherUri ==
  ASSUME Struct, Locks, NEW t \in Threads, pc[t] \in {"put_walk", "put_sweep"},
         ~AtHead(t), ~Matches(t), PromoteHere(t) \/ EvictHere(t),
         UNCHANGED <<pc, want, node>>
  PROVE  Struct'
<1>1. cursor[t] \in DOMAIN list /\ cursor[t] \in Nat /\ list \in Seq(Nodes)
  BY InsideList DEF Struct, Typed
<1>2. Here(t) = list[cursor[t]] /\ Here(t) \in DOMAIN entry
  BY <1>1, Known DEF Struct, Shape, Here
<1>3. entry[list[cursor[t]]].uri # entry[node[t]].uri
  BY <1>2 DEF Matches
<1>4. CASE PromoteHere(t)
  <2>1. list' = Promoted(cursor[t])
    BY <1>4 DEF PromoteHere
  <2>2. entry' = [entry EXCEPT ![Here(t)].patience = entry[Here(t)].patience + DefaultPatience]
    BY <1>4 DEF PromoteHere
  <2>3. entry[Here(t)].patience + DefaultPatience \in Int
    BY <1>2 DEF Struct, Typed, Entry, DefaultPatience
  <2>4. /\ DOMAIN entry' = DOMAIN entry /\ entry' \in [DOMAIN entry -> Entry]
        /\ \A m \in DOMAIN entry : entry'[m].uri = entry[m].uri
    BY <1>2, <2>2, <2>3, PatienceOnly DEF Struct
  <2>5. cursor' = [cursor EXCEPT ![t] = IF cursor[t] = 1 THEN 0 ELSE cursor[t]]
    BY <1>4 DEF PromoteHere
  <2>6. cursor'[t] = (IF cursor[t] = 1 THEN 0 ELSE cursor[t]) /\ cursor' \in [Threads -> Nat]
    BY <2>5, <1>1 DEF Struct, Typed
  <2>7. Typed'
    BY <2>1, <2>4, <2>6, <1>1, PromotedList DEF Struct, Typed
  <2>8. Shape'
    BY <2>1, <2>4, <2>6, <1>1, <1>3, AfterPromote
  <2> QED
    BY <2>7, <2>8 DEF Struct
<1>5. CASE EvictHere(t)
  <2>1. list' = Without(cursor[t])
    BY <1>5 DEF EvictHere
  <2>2. entry' = [n \in DOMAIN entry \ {list[cursor[t]]} |-> entry[n]]
    BY <1>5, <1>2 DEF EvictHere
  <2>3. cursor' = [cursor EXCEPT ![t] = cursor[t] - 1]
    BY <1>5 DEF EvictHere
  <2>4. cursor'[t] = cursor[t] - 1
    BY <2>3 DEF Struct, Typed
  <2>5. cursor[t] - 1 \in Nat
    BY <1>1 DEF AtHead
  <2>6. cursor' \in [Threads -> Nat]
    BY <2>3, <2>5 DEF Struct, Typed
  <2>7. DOMAIN entry' \subseteq Nodes /\ entry' \in [DOMAIN entry' -> Entry]
    BY <2>2 DEF Struct, Typed
  <2>8. Typed'
    BY <2>1, <2>6, <2>7, <1>1, ShortenedList DEF Struct, Typed
  <2>9. Shape'
    BY <2>1, <2>2, <2>4, <1>1, <1>3, AfterEvict
  <2> QED
    BY <2>8, <2>9 DEF Struct
<1> QED
  BY <1>4, <1>5

LEMMA StructStep == Struct /\ Locks /\ [Next]_vars => Struct'
<1> SUFFICES ASSUME Struct, Locks, [Next]_vars
             PROVE  Struct'
  OBVIOUS
<1>1. ASSUME UNCHANGED vars
      PROVE  Struct'
  BY <1>1 DEF vars, Struct, Typed, Shape, UniqueUris, NothingLeaks, ReaderSafe, Walks,
              Listed, Pending
<1>2. ASSUME NEW t \in Threads, NEW u \in Uris, GetCall(t, u)
      PROVE  Struct'
  <2>1. Typed'
    BY <1>2 DEF GetCall, shared, Struct, Typed
  <2>2. Shape'
    BY <1>2, Undisturbed DEF GetCall, shared, Goto, Locks, Owning, Struct, Typed
  <2> QED
    BY <2>1, <2>2 DEF Struct
<1>3. ASSUME NEW t \in Threads, NEW u \in Uris, NEW o \in Objects, PutCall(t, u, o)
      PROVE  Struct'
  BY <1>3, AfterCreate
<1>4. ASSUME NEW t \in Threads, GetRdlock(t)
      PROVE  Struct'
  <2>1. Typed'
    BY <1>4 DEF GetRdlock, shared, locals, Struct, Typed
  <2>2. Shape'
    BY <1>4, Undisturbed DEF GetRdlock, shared, locals, Goto, Locks, Owning
  <2> QED
    BY <2>1, <2>2 DEF Struct
<1>5. ASSUME NEW t \in Threads, GetFind(t)
      PROVE  Struct'
  <2>1. CASE \E i \in DOMAIN list :
               /\ entry[list[i]].uri = want[t]
               /\ Goto(t, "get_find", "get_copy")
               /\ node' = [node EXCEPT ![t] = list[i]]
               /\ UNCHANGED <<shared, readers, writer, want, cursor, answer>>
    <3>1. PICK i \in DOMAIN list :
               /\ entry[list[i]].uri = want[t]
               /\ Goto(t, "get_find", "get_copy")
               /\ node' = [node EXCEPT ![t] = list[i]]
               /\ UNCHANGED <<shared, readers, writer, want, cursor, answer>>
      BY <2>1
    <3>2. list[i] \in Nodes /\ list[i] \in Listed
      BY DEF Struct, Typed, Listed
    <3>3. Typed'
      BY <3>1, <3>2 DEF shared, Struct, Typed
    <3>4. node'[t] = list[i] /\ \A s \in Threads \ {t} : node'[s] = node[s]
      BY <3>1 DEF Struct, Typed
    <3>5. Shape'
      BY <3>1, <3>2, <3>4, Undisturbed DEF shared, Goto, Locks, Owning
    <3> QED
      BY <3>3, <3>5 DEF Struct
  <2>2. CASE /\ Goto(t, "get_find", "get_unlock")
             /\ UNCHANGED <<shared, readers, writer, locals>>
    <3>1. Typed'
      BY <2>2 DEF shared, locals, Struct, Typed
    <3>2. Shape'
      BY <2>2, Undisturbed DEF shared, locals, Goto, Locks, Owning
    <3> QED
      BY <3>1, <3>2 DEF Struct
  <2> QED
    BY <1>5, <2>1, <2>2 DEF GetFind
<1>6. ASSUME NEW t \in Threads, GetCopy(t)
      PROVE  Struct'
  <2>1. Typed'
    BY <1>6 DEF GetCopy, shared, Struct, Typed
  <2>2. node[t] \in Listed /\ entry[node[t]].uri = want[t]
    BY <1>6 DEF GetCopy, Goto, Struct, Shape, ReaderSafe
  <2>3. Shape'
    BY <1>6, <2>2, Undisturbed DEF GetCopy, shared, Goto, Locks, Owning
  <2> QED
    BY <2>1, <2>3 DEF Struct
<1>7. ASSUME NEW t \in Threads, GetCount(t)
      PROVE  Struct'
  <2>1. node[t] \in Listed
    BY <1>7 DEF GetCount, Goto, Struct, Shape, ReaderSafe
  <2>2. node[t] \in DOMAIN entry
    BY <2>1 DEF Struct, Shape, NothingLeaks
  <2>3. entry[node[t]].patience - 1 \in Int
    BY <2>2 DEF Struct, Typed, Entry
  <2>4. entry' = [entry EXCEPT ![node[t]].patience = entry[node[t]].patience - 1]
    BY <1>7 DEF GetCount
  <2>5. /\ DOMAIN entry' = DOMAIN entry /\ entry' \in [DOMAIN entry -> Entry]
        /\ \A m \in DOMAIN entry : entry'[m].uri = entry[m].uri
    BY <2>2, <2>3, <2>4, PatienceOnly DEF Struct
  <2>6. Typed'
    BY <1>7, <2>5 DEF GetCount, locals, Struct, Typed
  <2>7. /\ list' = list /\ pc[t] = "get_count" /\ pc' = [pc EXCEPT ![t] = "get_unlock"]
        /\ UNCHANGED <<node, want, cursor>>
    BY <1>7 DEF GetCount, Goto, locals
  <2>8. Shape'
    BY <2>5, <2>7, Undisturbed DEF Locks, Owning
  <2> QED
    BY <2>6, <2>8 DEF Struct
<1>8. ASSUME NEW t \in Threads, GetUnlock(t) \/ PutUnlock(t)
      PROVE  Struct'
  <2>1. /\ pc[t] \in {"get_unlock", "put_unlock"} /\ pc' = [pc EXCEPT ![t] = "idle"]
        /\ UNCHANGED <<list, entry>> /\ Return(t)
    BY <1>8 DEF GetUnlock, PutUnlock, Goto, shared
  <2>2. Typed'
    BY <2>1 DEF Return, Struct, Typed
  <2>3. Shape'
    BY <2>1, Undisturbed DEF Return, Locks, Owning, Struct, Typed
  <2> QED
    BY <2>2, <2>3 DEF Struct
<1>9. ASSUME NEW t \in Threads, PutWrlock(t)
      PROVE  Struct'
  <2>1. /\ pc[t] = "put_wrlock" /\ pc' = [pc EXCEPT ![t] = "put_walk"]
        /\ cursor' = [cursor EXCEPT ![t] = Len(list)]
        /\ UNCHANGED <<list, entry, want, node>>
    BY <1>9 DEF PutWrlock, Goto
  <2>2. Len(list) \in Nat /\ \A j \in DOMAIN list : ~(j > Len(list))
    BY DEF Struct, Typed
  <2>3. Typed'
    BY <2>1, <2>2 DEF Struct, Typed
  <2>4. cursor'[t] = Len(list) /\ Len(list) \in 0..Len(list)
        /\ \A s \in Threads \ {t} : cursor'[s] = cursor[s]
    BY <2>1, <2>2 DEF Struct, Typed
  <2>5. Shape'
    BY <2>1, <2>2, <2>4, Undisturbed DEF Locks, Owning
  <2> QED
    BY <2>3, <2>5 DEF Struct
<1>10. ASSUME NEW t \in Threads, WalkMatch(t)
       PROVE  Struct'
  <2>1. /\ pc[t] = "put_walk" /\ pc' = [pc EXCEPT ![t] = "put_drop"]
        /\ ~AtHead(t) /\ list' = Promoted(cursor[t])
        /\ entry' = [entry EXCEPT ![Here(t)].patience = DefaultPatience]
        /\ UNCHANGED <<want, node, cursor>>
    BY <1>10 DEF WalkMatch, Goto, locals
  <2>2. cursor[t] \in DOMAIN list
    BY <2>1, InsideList
  <2>3. Here(t) \in DOMAIN entry
    BY <2>2, Known DEF Struct, Shape, Here
  <2>4. /\ DOMAIN entry' = DOMAIN entry /\ entry' \in [DOMAIN entry -> Entry]
        /\ \A m \in DOMAIN entry : entry'[m].uri = entry[m].uri
    <3>1. DefaultPatience \in Int
      BY DEF DefaultPatience
    <3> QED
      BY <3>1, <2>1, <2>3, PatienceOnly DEF Struct
  <2>5. Typed'
    BY <2>1, <2>2, <2>4, PromotedList DEF Struct, Typed
  <2>6. Shape'
    BY <2>1, <2>2, <2>4, AfterPromote DEF Locks
  <2> QED
    BY <2>5, <2>6 DEF Struct
<1>11. ASSUME NEW t \in Threads, WalkPromote(t) \/ WalkEvict(t)
       PROVE  Struct'
  BY <1>11, AtOtherUri DEF WalkPromote, WalkEvict
<1>12. ASSUME NEW t \in Threads, Sweep(t)
       PROVE  Struct'
  <2>1. pc[t] = "put_sweep" /\ ~AtHead(t) /\ (PromoteHere(t) \/ EvictHere(t))
        /\ UNCHANGED <<pc, want, node>>
    BY <1>12 DEF Sweep
  <2>2. cursor[t] \in DOMAIN list
    BY <2>1, InsideList
  <2>3. ~Matches(t)
    BY <2>1, <2>2 DEF Struct, Shape, Walks, Matches, Here
  <2> QED
    BY <2>1, <2>3, AtOtherUri
<1>13. ASSUME NEW t \in Threads, WalkKeep(t)
       PROVE  Struct'
  <2>1. /\ pc[t] = "put_walk" /\ pc' = pc /\ cursor[t] # 0 /\ ~Matches(t)
        /\ cursor' = [cursor EXCEPT ![t] = cursor[t] - 1]
        /\ UNCHANGED <<list, entry, want, node>>
    BY <1>13 DEF WalkKeep, AtHead, shared
  <2>2. cursor[t] \in 0..Len(list) /\ Len(list) \in Nat /\ DOMAIN list = 1..Len(list)
    BY <2>1 DEF Struct, Shape, Walks, Typed
  <2>3. cursor[t] - 1 \in 0..Len(list) /\ cursor[t] - 1 \in Nat
        /\ \A j \in 1..Len(list) : j > cursor[t] - 1 => j = cursor[t] \/ j > cursor[t]
    BY <2>1, <2>2
  <2>4. cursor'[t] = cursor[t] - 1 /\ cursor' \in [Threads -> Nat]
        /\ \A s \in Threads \ {t} : cursor'[s] = cursor[s]
    BY <2>1, <2>3 DEF Struct, Typed
  <2>5. Typed'
    BY <2>1, <2>4 DEF Struct, Typed
  <2>6. \A j \in DOMAIN list : j > cursor'[t] => entry[list[j]].uri # entry[node[t]].uri
    BY <2>1, <2>2, <2>3, <2>4 DEF Struct, Shape, Walks, Matches, Here
  <2>7. Shape'
    BY <2>1, <2>3, <2>4, <2>6, Undisturbed
  <2> QED
    BY <2>5, <2>7 DEF Struct
<1>14. ASSUME NEW t \in Threads, LoopEnd(t)
       PROVE  Struct'
  <2>1. /\ pc[t] \in {"put_walk", "put_sweep"} /\ cursor[t] = 0
        /\ \E to \in {"put_sweep", "put_insert"} : pc' = [pc EXCEPT ![t] = to]
        /\ \E c \in {Len(list), 0} : cursor' = [cursor EXCEPT ![t] = c]
        /\ UNCHANGED <<list, entry, want, node>>
    BY <1>14 DEF LoopEnd, AtHead, shared
  <2>2. Len(list) \in Nat /\ 0 \in 0..Len(list) /\ Len(list) \in 0..Len(list)
        /\ \A j \in DOMAIN list : j > 0
    BY DEF Struct, Typed
  <2>3. cursor' \in [Threads -> Nat] /\ cursor'[t] \in 0..Len(list)
        /\ \A s \in Threads \ {t} : cursor'[s] = cursor[s]
    BY <2>1, <2>2 DEF Struct, Typed
  <2>4. Typed'
    BY <2>1, <2>3 DEF Struct, Typed
  <2>5. \A j \in DOMAIN list : entry[list[j]].uri # entry[node[t]].uri
    BY <2>1, <2>2 DEF Struct, Shape, Walks
  <2>6. pc'[t] \in {"put_sweep", "put_insert"} /\ \A s \in Threads \ {t} : pc'[s] = pc[s]
    BY <2>1 DEF Locks
  <2>7. Shape'
    BY <2>1, <2>3, <2>5, <2>6, Undisturbed DEF Owning
  <2> QED
    BY <2>4, <2>7 DEF Struct
<1>15. ASSUME NEW t \in Threads, PutInsert(t) \/ PutDrop(t)
       PROVE  Struct'
  BY <1>15, AfterInsert, AfterDrop
<1> QED
  BY <1>1, <1>2, <1>3, <1>4, <1>5, <1>6, <1>7, <1>8, <1>9, <1>10, <1>11, <1>12, <1>13,
     <1>14, <1>15
  DEF Next, Get, Put, Bookkeeping

LEMMA StructInit == Init => Struct
BY DEF Init, Struct, Typed, Shape, UniqueUris, NothingLeaks, ReaderSafe, Walks,
       Listed, Pending

LEMMA StructAlways == Spec => []Struct
BY StructInit, StructStep, LocksAlways, PTL DEF Spec

(* The node a cache_get found is still listed, under the uri it looked     *)
(* for, when it is copied and counted: cache_get never reads freed memory. *)
THEOREM NoUseAfterFree == Spec => []ReaderSafe
<1>1. Struct => ReaderSafe
  BY DEF Struct, Shape
<1> QED
  BY <1>1, StructAlways, PTL

(* No uri is ever listed twice, whatever puts overlap.                     *)
THEOREM UrisUnique == Spec => []UniqueUris
<1>1. Struct => UniqueUris
  BY DEF Struct, Shape
<1> QED
  BY <1>1, StructAlways, PTL

(* Every allocated entry is listed or belongs to exactly one put.          *)
THEOREM EntriesOwned == Spec => []NothingLeaks
<1>1. Struct => NothingLeaks
  BY DEF Struct, Shape
<1> QED
  BY <1>1, StructAlways, PTL

-----------------------------------------------------------------------------
(* What cache_bookkeeping relies on.                                       *)

(* The free bytes are those that no listed entry takes.                    *)
Accounts ==
  /\ IsFiniteSet(Store!StoredBytes)
  /\ freesz = Store!Room /\ freesz \in Nat

(* A walk that lacks room has kept no entry, so that it is at the tail, or *)
(* at the head behind the one it promoted last.  The second loop starts    *)
(* with at most one entry, and evicts it only when it has to.              *)
AtTail(t) == cursor[t] = Len(list)
Tails ==
  \A t \in Threads :
    /\ pc[t] = "put_walk" /\ Lacking(t) => AtTail(t) \/ (AtHead(t) /\ Len(list) = 1)
    /\ pc[t] = "put_sweep" => Len(list) <= 1 /\ (Lacking(t) \/ AtHead(t))
    /\ pc[t] = "put_insert" => ~Lacking(t)

(* While it lacks room, the entries it promoted are in front of those it   *)
(* has not visited yet, whose patience is what it was in the beginning.    *)
Visited(k) ==
  /\ \A j \in 1..k : list[j] \in chance
  /\ \A j \in k + 1..Len(list) : list[j] \in chance <=> entry[list[j]].patience <= 0
Chances ==
  /\ chance \subseteq Nodes
  /\ \A t \in Threads : pc[t] = "put_walk" /\ Lacking(t) /\ AtTail(t) =>
       \E k \in 0..Len(list) : Visited(k)

Answers ==
  /\ answer \in [Threads -> Objects \cup {NoObject}]
  /\ \A t \in Threads : pc[t] \notin {"get_count", "get_unlock"} => answer[t] = NoObject

Kept == Accounts /\ Tails /\ Chances /\ Answers

-----------------------------------------------------------------------------
(* The listed nodes                                                        *)

LEMMA ListedBasics ==
  ASSUME Struct
  PROVE  /\ Len(list) \in Nat /\ DOMAIN list = 1..Len(list)
         /\ \A j \in DOMAIN list : list[j] \in Listed
         /\ Listed \subseteq DOMAIN entry /\ Listed \subseteq Nodes
         /\ \A n \in Listed : entry[n] \in Entry
         /\ \A i, j \in DOMAIN list : list[i] = list[j] => i = j
         /\ \A m, n \in Listed : entry[m].uri = entry[n].uri => m = n
<1>1. \A j \in DOMAIN list : list[j] \in DOMAIN entry /\ list[j] \in Listed
  BY Known DEF Struct, Shape
<1>2. Listed \subseteq DOMAIN entry /\ DOMAIN entry \subseteq Nodes
        /\ entry \in [DOMAIN entry -> Entry]
  BY <1>1 DEF Listed, Struct, Typed
<1>3. \A m, n \in Listed : entry[m].uri = entry[n].uri => m = n
  BY DEF Struct, Shape, UniqueUris, Listed
<1>4. \A i, j \in DOMAIN list : list[i] = list[j] => i = j
  BY DEF Struct, Shape, UniqueUris
<1>5. Len(list) \in Nat /\ DOMAIN list = 1..Len(list)
  BY DEF Struct, Typed
<1> QED
  BY <1>1, <1>2, <1>3, <1>4, <1>5

LEMMA ListedPromoted ==
  ASSUME Struct, NEW i \in DOMAIN list, list' = Promoted(i)
  PROVE  Listed' = Listed /\ Len(list') = Len(list) /\ DOMAIN list' = DOMAIN list
<1>1. list \in Seq(Nodes)
  BY DEF Struct, Typed
<1>2. list' \in Seq(Nodes) /\ Len(list') = Len(list) /\ DOMAIN list' = DOMAIN list
  BY <1>1, PromotedList
<1>3. \A n : n \in Listed' <=> n \in Listed
  <2>1. ASSUME NEW j \in DOMAIN list
        PROVE  list'[j] \in Listed /\ list[j] \in Listed'
    <3>1. PICK k \in DOMAIN list : From(i, k) = j
      BY <1>1, PromotedList
    <3>2. From(i, j) \in DOMAIN list /\ list'[j] = list[From(i, j)] /\ list'[k] = list[j]
      BY <1>1, <3>1, PromotedList
    <3> QED
      BY <3>2, <1>2 DEF Listed
  <2> QED
    BY <2>1, <1>2 DEF Listed
<1> QED
  BY <1>2, <1>3

LEMMA ListedWithout ==
  ASSUME Struct, NEW i \in DOMAIN list, list' = Without(i)
  PROVE  Listed' = Listed \ {list[i]} /\ Len(list') = Len(list) - 1
           /\ DOMAIN list' = 1..Len(list) - 1
<1>1. list \in Seq(Nodes) /\ Len(list) \in Nat
  BY DEF Struct, Typed
<1>2. \A j \in DOMAIN list : list[j] = list[i] => j = i
  BY ListedBasics
<1>3. list' \in Seq(Nodes) /\ Len(list') = Len(list) - 1 /\ DOMAIN list' = 1..Len(list) - 1
  BY <1>1, ShortenedList
<1>4. DOMAIN list' = DOMAIN Without(i)
  OBVIOUS
<1>5. ASSUME NEW j \in DOMAIN list'
      PROVE  list'[j] \in Listed \ {list[i]}
  BY <1>1, <1>2, <1>4, ShortenedList DEF Listed
<1>6. ASSUME NEW j \in DOMAIN list, list[j] # list[i]
      PROVE  list[j] \in Listed'
  <2>1. j \in DOMAIN list \ {i}
    BY <1>6
  <2>2. PICK k \in DOMAIN Without(i) : Behind(i, k) = j
    BY <1>1, <2>1, ShortenedList
  <2>3. Without(i)[k] = list[j]
    BY <1>1, <2>2, ShortenedList
  <2>4. k \in DOMAIN list' /\ list'[k] = list[j]
    BY <2>2, <2>3
  <2> QED
    BY <2>4 DEF Listed
<1>7. \A n : n \in Listed' <=> n \in Listed \ {list[i]}
  BY <1>5, <1>6 DEF Listed
<1> QED
  BY <1>3, <1>7

-----------------------------------------------------------------------------
(* The map that the list stands for                                        *)

Mapped ==
  /\ DOMAIN Contents = {entry[n].uri : n \in Listed}
  /\ DOMAIN Contents \subseteq Uris
  /\ \A n \in Listed : Contents[entry[n].uri] = entry[n].data
  /\ Contents = [u \in DOMAIN Contents |-> Contents[u]]

LEMMA MappedHere == Struct => Mapped
<1> SUFFICES ASSUME Struct
             PROVE  Mapped
  OBVIOUS
<1>1. \A n \in Listed : (CHOOSE m \in Listed : entry[m].uri = entry[n].uri) = n
  BY ListedBasics
<1>2. \A n \in Listed : entry[n].uri \in Uris
  BY ListedBasics DEF Entry
<1> QED
  <2>1. DOMAIN Contents = {entry[n].uri : n \in Listed} /\ Contents = [u \in DOMAIN Contents |-> Contents[u]]
    BY DEF Contents
  <2>2. \A n \in Listed : Contents[entry[n].uri] = entry[n].data
    BY <1>1 DEF Contents
  <2> QED
    BY <2>1, <2>2, <1>2 DEF Mapped

LEMMA MappedNext == Struct' => Mapped'
BY MappedHere, PTL

(* A step that keeps the listed nodes, their uris and data, keeps the map. *)
LEMMA ContentsKept ==
  ASSUME Struct, Struct', Listed' = Listed,
         \A n \in Listed : entry'[n].uri = entry[n].uri /\ entry'[n].data = entry[n].data
  PROVE  Contents' = Contents
<1>1. Mapped /\ Mapped'
  BY MappedHere, MappedNext
<1>2. DOMAIN Contents' = DOMAIN Contents
  BY <1>1 DEF Mapped
<1>3. \A u \in DOMAIN Contents : Contents'[u] = Contents[u]
  BY <1>1 DEF Mapped
<1> QED
  BY <1>1, <1>2, <1>3 DEF Mapped

LEMMA ContentsEvicted ==
  ASSUME Struct, Struct', NEW m \in Listed, Listed' = Listed \ {m},
         \A n \in Listed' : entry'[n] = entry[n]
  PROVE  Contents' = [u \in DOMAIN Contents \ {entry[m].uri} |-> Contents[u]]
<1>1. Mapped /\ Mapped'
  BY MappedHere, MappedNext
<1>2. \A n \in Listed : entry[n].uri = entry[m].uri => n = m
  BY ListedBasics
<1>3. DOMAIN Contents' = DOMAIN Contents \ {entry[m].uri}
  BY <1>1, <1>2 DEF Mapped
<1>4. \A u \in DOMAIN Contents' : Contents'[u] = Contents[u]
  BY <1>1, <1>3 DEF Mapped
<1> QED
  BY <1>1, <1>3, <1>4 DEF Mapped

LEMMA ContentsAdded ==
  ASSUME Struct, Struct', NEW m, Listed' = Listed \cup {m}, entry' = entry,
         \A n \in Listed : entry[n].uri # entry[m].uri
  PROVE  /\ entry[m].uri \notin DOMAIN Contents
         /\ Contents' = [u \in DOMAIN Contents \cup {entry[m].uri} |->
                            IF u = entry[m].uri THEN entry[m].data ELSE Contents[u]]
<1>1. Mapped /\ Mapped'
  BY MappedHere, MappedNext
<1>2. entry[m].uri \notin DOMAIN Contents
  BY <1>1 DEF Mapped
<1>3. DOMAIN Contents' = DOMAIN Contents \cup {entry[m].uri}
  BY <1>1 DEF Mapped
<1>4. \A u \in DOMAIN Contents' : Contents'[u] = IF u = entry[m].uri THEN entry[m].data ELSE Contents[u]
  BY <1>1, <1>2, <1>3 DEF Mapped
<1> QED
  BY <1>1, <1>2, <1>3, <1>4 DEF Mapped

-----------------------------------------------------------------------------
(* The account of the free bytes                                           *)

(* CacheStore counts with its own copy of Cardinality.                     *)
LEMMA SameCount == \A S : Store!Cardinality(S) = Cardinality(S)
BY DEF Cardinality, Store!Cardinality

BytesOf(u, o) == {u} \X (1..SizeOf[o])

LEMMA BytesCounted ==
  ASSUME NEW u, NEW o \in Objects
  PROVE  /\ IsFiniteSet(BytesOf(u, o)) /\ Cardinality(BytesOf(u, o)) = SizeOf[o]
         /\ SizeOf[o] \in 0..Capacity /\ Capacity \in Nat
<1>1. SizeOf[o] \in 0..Capacity /\ Capacity \in Nat /\ SizeOf[o] \in Nat
  BY CacheAssumption
<1>2. IsFiniteSet(1..SizeOf[o]) /\ Cardinality(1..SizeOf[o]) = SizeOf[o]
  <2>1. 1 \in Int /\ SizeOf[o] \in Int /\ (1 > SizeOf[o] => SizeOf[o] = 0)
    BY <1>1
  <2>2. /\ IsFiniteSet(1..SizeOf[o])
        /\ Cardinality(1..SizeOf[o]) = IF 1 > SizeOf[o] THEN 0 ELSE SizeOf[o] - 1 + 1
    BY <2>1, FS_Interval
  <2> QED
    BY <1>1, <2>1, <2>2
<1>3. IsFiniteSet({u}) /\ Cardinality({u}) = 1
  BY FS_Singleton
<1>4. Cardinality({u} \X (1..SizeOf[o])) = 1 * SizeOf[o] /\ IsFiniteSet({u} \X (1..SizeOf[o]))
  <2> DEFINE S == 1..SizeOf[o]
  <2>1. IsFiniteSet(S) /\ Cardinality(S) = SizeOf[o]
    BY <1>2
  <2> HIDE DEF S
  <2>2. /\ IsFiniteSet({u} \X S)
        /\ Cardinality({u} \X S) = Cardinality({u}) * Cardinality(S)
    BY <1>3, <2>1, FS_Product
  <2>3. Cardinality({u} \X S) = 1 * SizeOf[o] /\ IsFiniteSet({u} \X S)
    BY <1>3, <2>1, <2>2
  <2> QED
    BY <2>3 DEF S
<1> QED
  BY <1>1, <1>4 DEF BytesOf

LEMMA AccountsEvicted ==
  ASSUME Struct, Struct', Accounts, NEW m \in Listed, Listed' = Listed \ {m},
         \A n \in Listed' : entry'[n] = entry[n], freesz' = freesz + Bytes(m)
  PROVE  Accounts'
<1> DEFINE u == entry[m].uri
<1> DEFINE o == entry[m].data
<1> DEFINE S == Store!StoredBytes
<1>1. u \in Uris /\ o \in Objects
  BY ListedBasics DEF Entry
<1>2. u \in DOMAIN Contents /\ Contents[u] = o
  BY MappedHere DEF Mapped
<1>3. Contents' = [v \in DOMAIN Contents \ {u} |-> Contents[v]]
  BY ContentsEvicted
<1>4. SizeOf[o] \in 0..Capacity /\ Capacity \in Nat /\ IsFiniteSet(BytesOf(u, o))
        /\ Cardinality(BytesOf(u, o)) = SizeOf[o]
  BY <1>1, BytesCounted
<1>5. BytesOf(u, o) \subseteq S
  BY <1>2, <1>4 DEF BytesOf, Store!StoredBytes
<1>6. S' = S \ BytesOf(u, o)
  <2>1. ASSUME NEW p \in S'
        PROVE  p \in S \ BytesOf(u, o)
    BY <1>3 DEF BytesOf, Store!StoredBytes
  <2>2. ASSUME NEW p \in S, p \notin BytesOf(u, o)
        PROVE  p \in S'
    <3>1. p[1] \in DOMAIN Contents /\ p[2] \in 1..Capacity /\ p[2] <= SizeOf[Contents[p[1]]]
            /\ p = <<p[1], p[2]>>
      BY DEF Store!StoredBytes
    <3>2. p[1] # u
      BY <2>2, <3>1, <1>2, <1>4 DEF BytesOf
    <3> QED
      BY <3>1, <3>2, <1>3 DEF Store!StoredBytes
  <2> QED
    BY <2>1, <2>2
<1>7. IsFiniteSet(S) /\ freesz = Capacity - Cardinality(S) /\ freesz \in Nat
  BY SameCount DEF Accounts, Store!Room
<1> HIDE DEF S
<1>8. S \cap BytesOf(u, o) = BytesOf(u, o) /\ Cardinality(S) \in Nat
  BY <1>5, <1>7, FS_CardinalityType
<1>9. IsFiniteSet(S') /\ Cardinality(S') = Cardinality(S) - SizeOf[o]
  <2>1. /\ IsFiniteSet(S \ BytesOf(u, o))
        /\ Cardinality(S \ BytesOf(u, o)) = Cardinality(S) - Cardinality(S \cap BytesOf(u, o))
    BY <1>7, FS_Difference
  <2> QED
    BY <2>1, <1>4, <1>6, <1>8
<1>10. freesz' = freesz + SizeOf[o]
  BY DEF Bytes
<1>11. freesz' = Capacity - Cardinality(S') /\ freesz' \in Nat
  BY <1>4, <1>7, <1>8, <1>9, <1>10
<1> QED
  BY <1>9, <1>11, SameCount DEF S, Accounts, Store!Room

LEMMA AccountsAdded ==
  ASSUME Struct, Struct', Accounts, NEW m \in DOMAIN entry, Listed' = Listed \cup {m},
         entry' = entry, \A n \in Listed : entry[n].uri # entry[m].uri,
         freesz >= Bytes(m), freesz' = freesz - Bytes(m)
  PROVE  Accounts'
<1> DEFINE u == entry[m].uri
<1> DEFINE o == entry[m].data
<1> DEFINE S == Store!StoredBytes
<1>1. u \in Uris /\ o \in Objects
  BY DEF Struct, Typed, Entry
<1>2. u \notin DOMAIN Contents
        /\ Contents' = [v \in DOMAIN Contents \cup {u} |-> IF v = u THEN o ELSE Contents[v]]
  BY ContentsAdded
<1>3. SizeOf[o] \in 0..Capacity /\ Capacity \in Nat /\ IsFiniteSet(BytesOf(u, o))
        /\ Cardinality(BytesOf(u, o)) = SizeOf[o]
  BY <1>1, BytesCounted
<1>4. S \cap BytesOf(u, o) = {}
  BY <1>2 DEF BytesOf, Store!StoredBytes
<1>5. S' = S \cup BytesOf(u, o)
  <2>1. ASSUME NEW p \in S', p[1] # u
        PROVE  p \in S
    BY <2>1, <1>2 DEF Store!StoredBytes
  <2>2. ASSUME NEW p \in S', p[1] = u
        PROVE  p \in BytesOf(u, o)
    BY <2>2, <1>2, <1>3 DEF BytesOf, Store!StoredBytes
  <2>3. ASSUME NEW p \in BytesOf(u, o)
        PROVE  p \in S'
    BY <1>2, <1>3 DEF BytesOf, Store!StoredBytes
  <2>4. ASSUME NEW p \in S
        PROVE  p \in S'
    BY <1>2 DEF Store!StoredBytes
  <2> QED
    BY <2>1, <2>2, <2>3, <2>4
<1>6. IsFiniteSet(S) /\ freesz = Capacity - Cardinality(S) /\ freesz \in Nat
  BY SameCount DEF Accounts, Store!Room
<1> HIDE DEF S
<1>7. Cardinality(S \cap BytesOf(u, o)) = 0 /\ Cardinality(S) \in Nat
  BY <1>4, <1>6, FS_CardinalityType, FS_EmptySet
<1>8. IsFiniteSet(S') /\ Cardinality(S') = Cardinality(S) + SizeOf[o]
  <2>1. /\ IsFiniteSet(S \cup BytesOf(u, o))
        /\ Cardinality(S \cup BytesOf(u, o)) =
             Cardinality(S) + Cardinality(BytesOf(u, o)) - Cardinality(S \cap BytesOf(u, o))
    BY <1>3, <1>6, FS_Union
  <2> QED
    BY <2>1, <1>3, <1>5, <1>7
<1>9. freesz >= SizeOf[o] /\ freesz' = freesz - SizeOf[o]
  BY DEF Bytes
<1>10. freesz' = Capacity - Cardinality(S') /\ freesz' \in Nat
  BY <1>3, <1>6, <1>7, <1>8, <1>9
<1> QED
  BY <1>8, <1>10, SameCount DEF S, Accounts, Store!Room

-----------------------------------------------------------------------------
(* What an iteration of cache_bookkeeping does                             *)

LEMMA BytesTyped ==
  ASSUME Struct, NEW n \in DOMAIN entry
  PROVE  Bytes(n) \in Nat /\ Bytes(n) <= Capacity /\ Capacity \in Nat
<1>1. entry[n].data \in Objects
  BY DEF Struct, Typed, Entry
<1> QED
  BY <1>1, CacheAssumption DEF Bytes

LEMMA PromoteEffect ==
  ASSUME Struct, Struct', NEW t \in Threads, pc[t] \in {"put_walk", "put_sweep"},
         ~AtHead(t), PromoteHere(t), node' = node
  PROVE  /\ cursor[t] \in DOMAIN list /\ Here(t) \in Listed
         /\ Listed' = Listed /\ Len(list') = Len(list) /\ DOMAIN list' = DOMAIN list
         /\ cursor'[t] = IF cursor[t] = 1 THEN 0 ELSE cursor[t]
         /\ entry'[Here(t)].patience = entry[Here(t)].patience + DefaultPatience
         /\ \A n \in DOMAIN entry \ {Here(t)} : entry'[n] = entry[n]
         /\ Contents' = Contents
         /\ Lacking(t)' <=> Lacking(t)
<1>1. cursor[t] \in DOMAIN list
  BY InsideList
<1>2. Here(t) \in Listed /\ Here(t) \in DOMAIN entry
  BY <1>1, ListedBasics DEF Here
<1>3. Listed' = Listed /\ Len(list') = Len(list) /\ DOMAIN list' = DOMAIN list
  BY <1>1, ListedPromoted DEF PromoteHere
<1>4. cursor'[t] = IF cursor[t] = 1 THEN 0 ELSE cursor[t]
  BY DEF PromoteHere, Struct, Typed
<1>5. entry' = [entry EXCEPT ![Here(t)].patience = entry[Here(t)].patience + DefaultPatience]
  BY DEF PromoteHere
<1>6. entry[Here(t)] \in Entry
  BY <1>2, ListedBasics
<1>7. /\ entry'[Here(t)].patience = entry[Here(t)].patience + DefaultPatience
      /\ entry'[Here(t)].uri = entry[Here(t)].uri /\ entry'[Here(t)].data = entry[Here(t)].data
      /\ \A n \in DOMAIN entry \ {Here(t)} : entry'[n] = entry[n]
  BY <1>2, <1>5, <1>6 DEF Entry
<1>8. \A n \in DOMAIN entry : entry'[n].uri = entry[n].uri /\ entry'[n].data = entry[n].data
  BY <1>7
<1>9. Contents' = Contents
  BY <1>3, <1>8, ListedBasics, ContentsKept
<1>10. node[t] \in DOMAIN entry
  BY Known DEF Struct, Shape, Owning
<1>11. Lacking(t)' <=> Lacking(t)
  BY <1>8, <1>10 DEF Lacking, Bytes, PromoteHere
<1> QED
  BY <1>1, <1>2, <1>3, <1>4, <1>7, <1>9, <1>11

LEMMA EvictEffect ==
  ASSUME Struct, Struct', Accounts, NEW t \in Threads,
         pc[t] \in {"put_walk", "put_sweep"}, ~AtHead(t), EvictHere(t), node' = node
  PROVE  /\ cursor[t] \in DOMAIN list /\ Here(t) \in Listed
         /\ Listed' = Listed \ {Here(t)} /\ Len(list') = Len(list) - 1
         /\ DOMAIN list' = 1..Len(list) - 1
         /\ cursor'[t] = cursor[t] - 1
         /\ \A n \in Listed' : entry'[n] = entry[n]
         /\ Accounts'
         /\ Lacking(t)' => Lacking(t)
<1>1. cursor[t] \in DOMAIN list
  BY InsideList
<1>2. Here(t) \in Listed /\ Here(t) \in DOMAIN entry
  BY <1>1, ListedBasics DEF Here
<1>3. Listed' = Listed \ {Here(t)} /\ Len(list') = Len(list) - 1 /\ DOMAIN list' = 1..Len(list) - 1
  BY <1>1, ListedWithout DEF EvictHere, Here
<1>4. cursor'[t] = cursor[t] - 1
  BY DEF EvictHere, Struct, Typed
<1>5. entry' = [n \in DOMAIN entry \ {Here(t)} |-> entry[n]]
  BY DEF EvictHere
<1>6. \A n \in Listed' : entry'[n] = entry[n]
  BY <1>3, <1>5, ListedBasics
<1>7. freesz' = freesz + Bytes(Here(t))
  BY DEF EvictHere
<1>8. Accounts'
  BY <1>2, <1>3, <1>6, <1>7, AccountsEvicted
<1>9. node[t] \in DOMAIN entry /\ node[t] \notin Listed
  BY Known DEF Struct, Shape, Owning
<1>10. Bytes(node[t])' = Bytes(node[t])
  BY <1>2, <1>5, <1>9 DEF Bytes
<1>11. Bytes(node[t]) \in Nat /\ Bytes(Here(t)) \in Nat /\ freesz \in Nat
  BY <1>2, <1>9, BytesTyped DEF Accounts
<1>12. Lacking(t)' => Lacking(t)
  BY <1>7, <1>10, <1>11 DEF Lacking
<1> QED
  BY <1>1, <1>2, <1>3, <1>4, <1>6, <1>8, <1>12

-----------------------------------------------------------------------------
(* The steps keep it, one conjunct at a time                               *)

Walking == {"put_walk", "put_sweep", "put_insert"}

(* A step that leaves every walk over.                                     *)
LEMMA NoWalk ==
  ASSUME \A s \in Threads : pc'[s] \notin Walking, chance' \subseteq Nodes
  PROVE  Tails' /\ Chances'
BY DEF Walking, Tails, Chances

LEMMA AnswersStep ==
  ASSUME Struct, Locks, Answers, [Next]_vars
  PROVE  Answers'
<1> USE DEF Answers
<1>1. ASSUME UNCHANGED vars
      PROVE  Answers'
  BY <1>1 DEF vars
<1>2. ASSUME NEW t \in Threads, UNCHANGED answer,
             \E from, to \in Places :
               /\ Goto(t, from, to)
               /\ to \in {"get_count", "get_unlock"} \/ from \notin {"get_count", "get_unlock"}
      PROVE  Answers'
  BY <1>2 DEF Goto, Locks
<1>3. ASSUME NEW t \in Threads, UNCHANGED <<answer, pc>>
      PROVE  Answers'
  BY <1>3
<1>4. ASSUME NEW t \in Threads, Return(t), \E from \in Places : Goto(t, from, "idle")
      PROVE  Answers'
  BY <1>4 DEF Return, Goto, Locks
<1>5. ASSUME NEW t \in Threads, GetCopy(t)
      PROVE  Answers'
  <2>1. node[t] \in Listed
    BY <1>5 DEF GetCopy, Goto, Struct, Shape, ReaderSafe
  <2>2. entry[node[t]].data \in Objects
    BY <2>1, ListedBasics DEF Entry
  <2> QED
    BY <1>5, <2>2 DEF GetCopy, Goto, Locks
<1>6. ASSUME NEW t \in Threads, NEW u \in Uris, NEW o \in Objects, PutCall(t, u, o)
      PROVE  Answers'
  BY <1>6, <1>2 DEF PutCall, Places
<1>7. ASSUME NEW t \in Threads, NEW u \in Uris, GetCall(t, u)
      PROVE  Answers'
  BY <1>7, <1>2 DEF GetCall, Places
<1>8. ASSUME NEW t \in Threads, Get(t)
      PROVE  Answers'
  <2>1. CASE GetRdlock(t)
    BY <2>1, <1>2 DEF GetRdlock, locals, Places, Reading
  <2>2. CASE GetFind(t)
    BY <2>2, <1>2 DEF GetFind, locals, Places, Reading
  <2>3. CASE GetCount(t)
    BY <2>3, <1>2 DEF GetCount, locals, Places, Reading
  <2>4. CASE GetUnlock(t)
    BY <2>4, <1>4 DEF GetUnlock, Places, Reading
  <2> QED
    BY <1>8, <1>5, <2>1, <2>2, <2>3, <2>4 DEF Get
<1>9. ASSUME NEW t \in Threads, Put(t)
      PROVE  Answers'
  <2>1. CASE PutWrlock(t)
    BY <2>1, <1>2 DEF PutWrlock, Places, Writing
  <2>2. CASE WalkMatch(t)
    BY <2>2, <1>2 DEF WalkMatch, locals, Places, Writing
  <2>3. CASE WalkPromote(t) \/ WalkEvict(t) \/ WalkKeep(t) \/ Sweep(t)
    <3>1. UNCHANGED <<answer, pc>>
      BY <2>3 DEF WalkPromote, WalkEvict, WalkKeep, Sweep
    <3> QED
      BY <3>1, <1>3
  <2>4. CASE LoopEnd(t)
    <3>1. pc[t] \in {"put_walk", "put_sweep"} /\ UNCHANGED answer
            /\ \E to \in {"put_sweep", "put_insert"} : pc' = [pc EXCEPT ![t] = to]
      BY <2>4 DEF LoopEnd
    <3>2. \E from, to \in Places : Goto(t, from, to) /\ from \notin {"get_count", "get_unlock"}
      BY <3>1 DEF Places, Writing, Goto
    <3> QED
      BY <3>1, <3>2, <1>2
  <2>5. CASE PutInsert(t)
    <3>1. UNCHANGED answer /\ Goto(t, "put_insert", "put_unlock")
      BY <2>5 DEF PutInsert, locals
    <3> QED
      BY <3>1, <1>2 DEF Places, Writing
  <2>6. CASE PutUnlock(t) \/ PutDrop(t)
    BY <2>6, <1>4 DEF PutUnlock, PutDrop, Places, Writing
  <2> QED
    BY <1>9, <2>1, <2>2, <2>3, <2>4, <2>5, <2>6 DEF Put, Bookkeeping
<1> QED
  BY <1>1, <1>6, <1>7, <1>8, <1>9 DEF Next

(* What the steps that neither evict nor insert leave alone.               *)
LEMMA ContentsSame ==
  ASSUME Struct, Struct', NEW t \in Threads,
         \/ \E u \in Uris : GetCall(t, u)
         \/ \E u \in Uris, o \in Objects : PutCall(t, u, o)
         \/ Get(t) \/ PutWrlock(t) \/ WalkMatch(t) \/ WalkKeep(t) \/ LoopEnd(t)
         \/ PutUnlock(t) \/ PutDrop(t)
  PROVE  Listed' = Listed /\ Contents' = Contents /\ freesz' = freesz
<1>1. CASE \/ UNCHANGED <<list, entry, freesz>>
  BY <1>1 DEF Contents, Listed
<1>2. CASE GetCount(t)
  <2>1. node[t] \in Listed /\ UNCHANGED <<list, freesz>>
          /\ entry' = [entry EXCEPT ![node[t]].patience = entry[node[t]].patience - 1]
    BY <1>2 DEF GetCount, Goto, Struct, Shape, ReaderSafe
  <2>2. node[t] \in DOMAIN entry /\ entry[node[t]] \in Entry
    BY <2>1, ListedBasics
  <2>3. \A n \in DOMAIN entry : entry'[n].uri = entry[n].uri /\ entry'[n].data = entry[n].data
    BY <2>1, <2>2 DEF Entry
  <2>4. Listed' = Listed
    BY <2>1 DEF Listed
  <2> QED
    BY <2>1, <2>3, <2>4, ListedBasics, ContentsKept
<1>3. CASE WalkMatch(t)
  <2>1. /\ pc[t] = "put_walk" /\ ~AtHead(t) /\ list' = Promoted(cursor[t]) /\ freesz' = freesz
        /\ entry' = [entry EXCEPT ![Here(t)].patience = DefaultPatience]
    BY <1>3 DEF WalkMatch, Goto
  <2>2. cursor[t] \in DOMAIN list
    BY <2>1, InsideList
  <2>3. Here(t) \in DOMAIN entry /\ entry[Here(t)] \in Entry
    BY <2>2, ListedBasics DEF Here
  <2>4. \A n \in DOMAIN entry : entry'[n].uri = entry[n].uri /\ entry'[n].data = entry[n].data
    BY <2>1, <2>3 DEF Entry
  <2>5. Listed' = Listed
    BY <2>1, <2>2, ListedPromoted
  <2> QED
    BY <2>1, <2>4, <2>5, ListedBasics, ContentsKept
<1>4. CASE PutDrop(t)
  <2>1. /\ pc[t] = "put_drop" /\ UNCHANGED <<list, freesz>>
        /\ entry' = [n \in DOMAIN entry \ {node[t]} |-> entry[n]]
    BY <1>4 DEF PutDrop, Goto
  <2>2. node[t] \notin Listed /\ Listed' = Listed
    BY <2>1, Known DEF Struct, Shape, Owning, Listed
  <2>3. \A n \in Listed : entry'[n] = entry[n]
    BY <2>1, <2>2, ListedBasics
  <2> QED
    BY <2>1, <2>2, <2>3, ContentsKept
<1>5. CASE \E u \in Uris, o \in Objects : PutCall(t, u, o)
  <2>1. PICK n \in Nodes \ DOMAIN entry, e \in [uri : Uris, data : Objects, patience : {DefaultPatience}] :
          /\ entry' = [m \in DOMAIN entry \cup {n} |-> IF m = n THEN e ELSE entry[m]]
          /\ UNCHANGED <<list, freesz>>
    BY <1>5 DEF PutCall
  <2>2. Listed' = Listed
    BY <2>1 DEF Listed
  <2>3. \A m \in Listed : entry'[m] = entry[m]
    BY <2>1, ListedBasics
  <2> QED
    BY <2>1, <2>2, <2>3, ContentsKept
<1>6. CASE \/ \E u \in Uris : GetCall(t, u)
           \/ GetRdlock(t) \/ GetFind(t) \/ GetCopy(t) \/ GetUnlock(t)
  BY <1>1, <1>6 DEF GetCall, GetRdlock, GetFind, GetCopy, GetUnlock, shared
<1>7. CASE PutWrlock(t) \/ WalkKeep(t) \/ LoopEnd(t) \/ PutUnlock(t)
  BY <1>1, <1>7 DEF PutWrlock, WalkKeep, LoopEnd, PutUnlock, shared
<1> QED
  BY <1>2, <1>3, <1>4, <1>5, <1>6, <1>7 DEF Get

LEMMA InsertEffect ==
  ASSUME Struct, Struct', Locks, Accounts, Tails, NEW t \in Threads, PutInsert(t)
  PROVE  /\ Listed' = Listed \cup {node[t]} /\ entry' = entry
         /\ \A n \in Listed : entry[n].uri # entry[node[t]].uri
         /\ node[t] \in DOMAIN entry /\ ~Lacking(t)
         /\ Accounts'
<1>1. /\ pc[t] = "put_insert" /\ entry' = entry
      /\ freesz' = freesz - Bytes(node[t]) /\ list' = <<node[t]>> \o list
  BY DEF PutInsert, Goto
<1>2. node[t] \in DOMAIN entry /\ node[t] \in Nodes
  BY <1>1, Known DEF Struct, Shape, Owning, Typed
<1>3. \A n \in Listed : entry[n].uri # entry[node[t]].uri
  BY <1>1 DEF Struct, Shape, Walks, Listed
<1>4. list \in Seq(Nodes) /\ Len(list) \in Nat /\ DOMAIN list = 1..Len(list)
  BY DEF Struct, Typed
<1>5. /\ Len(list') = Len(list) + 1 /\ DOMAIN list' = 1..Len(list) + 1
      /\ list'[1] = node[t] /\ \A j \in DOMAIN list : list'[j + 1] = list[j]
  BY <1>1, <1>2, <1>4
<1>6. Listed' = Listed \cup {node[t]}
  <2>1. ASSUME NEW j \in DOMAIN list'
        PROVE  list'[j] \in Listed \cup {node[t]}
    <3>1. CASE j = 1
      BY <3>1, <1>5
    <3>2. CASE j # 1
      <4>1. j - 1 \in DOMAIN list /\ j = (j - 1) + 1
        BY <3>2, <1>4, <1>5
      <4> QED
        BY <4>1, <1>5 DEF Listed
    <3> QED
      BY <3>1, <3>2
  <2>2. ASSUME NEW j \in DOMAIN list
        PROVE  list[j] \in Listed'
    <3>1. j + 1 \in DOMAIN list'
      BY <1>4, <1>5
    <3> QED
      BY <3>1, <1>5 DEF Listed
  <2>3. node[t] \in Listed'
    <3>1. 1 \in DOMAIN list'
      BY <1>4, <1>5
    <3> QED
      BY <3>1, <1>5 DEF Listed
  <2>4. \A n : n \in Listed' <=> n \in Listed \cup {node[t]}
    BY <2>1, <2>2, <2>3 DEF Listed
  <2> QED
    BY <2>4
<1>7. ~Lacking(t)
  BY <1>1 DEF Tails
<1>8. freesz >= Bytes(node[t])
  BY <1>2, <1>7, BytesTyped DEF Lacking, Accounts
<1>9. Accounts'
  BY <1>1, <1>2, <1>3, <1>6, <1>8, AccountsAdded
<1> QED
  BY <1>1, <1>2, <1>3, <1>6, <1>7, <1>9

LEMMA AccountsStep ==
  ASSUME Struct, Struct', Locks, Accounts, Tails, [Next]_vars
  PROVE  Accounts'
<1>1. ASSUME Contents' = Contents, freesz' = freesz
      PROVE  Accounts'
  BY <1>1 DEF Accounts, Store!Room, Store!StoredBytes
<1>2. CASE UNCHANGED vars
  BY <1>1, <1>2 DEF vars, Contents, Listed
<1>3. ASSUME NEW t \in Threads, WalkPromote(t) \/ WalkEvict(t) \/ Sweep(t)
      PROVE  Accounts'
  <2>1. /\ pc[t] \in {"put_walk", "put_sweep"} /\ ~AtHead(t) /\ node' = node
        /\ PromoteHere(t) \/ EvictHere(t)
    BY <1>3 DEF WalkPromote, WalkEvict, Sweep
  <2>2. CASE PromoteHere(t)
    <3>1. Contents' = Contents /\ freesz' = freesz
      BY <2>1, <2>2, PromoteEffect DEF PromoteHere
    <3> QED
      BY <3>1, <1>1
  <2>3. CASE EvictHere(t)
    BY <2>1, <2>3, EvictEffect
  <2> QED
    BY <2>1, <2>2, <2>3
<1>4. ASSUME NEW t \in Threads, PutInsert(t)
      PROVE  Accounts'
  BY <1>4, InsertEffect
<1>5. ASSUME NEW t \in Threads,
             \/ \E u \in Uris : GetCall(t, u)
             \/ \E u \in Uris, o \in Objects : PutCall(t, u, o)
             \/ Get(t) \/ PutWrlock(t) \/ WalkMatch(t) \/ WalkKeep(t) \/ LoopEnd(t)
             \/ PutUnlock(t) \/ PutDrop(t)
      PROVE  Accounts'
  BY <1>1, <1>5, ContentsSame
<1> QED
  BY <1>2, <1>3, <1>4, <1>5 DEF Next, Put, Bookkeeping

(* The order of the visits, step by step.                                  *)
LEMMA VisitPromotes ==
  ASSUME Struct, Struct', Chances, NEW t \in Threads, pc[t] = "put_walk", pc' = pc,
         ~AtHead(t), Lacking(t), AtTail(t), PromoteHere(t), node' = node, chance' = chance,
         AtTail(t)'
  PROVE  \E k \in 0..Len(list') : Visited(k)'
<1>1. /\ cursor[t] \in DOMAIN list /\ Here(t) \in Listed
      /\ Len(list') = Len(list) /\ DOMAIN list' = DOMAIN list
      /\ cursor'[t] = IF cursor[t] = 1 THEN 0 ELSE cursor[t]
      /\ \A n \in DOMAIN entry \ {Here(t)} : entry'[n] = entry[n]
  BY PromoteEffect
<1>2. /\ Len(list) \in Nat /\ DOMAIN list = 1..Len(list) /\ list \in Seq(Nodes)
      /\ \A i, j \in DOMAIN list : list[i] = list[j] => i = j
      /\ Listed \subseteq DOMAIN entry /\ \A j \in DOMAIN list : list[j] \in Listed
  BY ListedBasics DEF Struct, Typed
<1>3. cursor[t] = Len(list) /\ Here(t) = list[Len(list)] /\ Len(list) # 1
  BY <1>1, <1>2 DEF AtTail, Here
<1>4. list' = Promoted(Len(list))
  BY <1>3 DEF PromoteHere
<1>5. list'[1] = list[Len(list)] /\ \A j \in 2..Len(list) : list'[j] = list[j - 1]
  <2>1. Len(list) \in Nat /\ Len(list) # 0
    BY <1>1, <1>2
  <2> QED
    BY <2>1, <1>4 DEF Promoted
<1>6. PICK k \in 0..Len(list) : Visited(k)
  BY DEF Chances
<1>13. Len(list) \in Nat /\ k \in Nat /\ k <= Len(list)
  BY <1>2, <1>6
<1>7. Here(t) \in chance
  <2>1. CASE k = Len(list)
    BY <2>1, <1>1, <1>2, <1>3, <1>6 DEF Visited
  <2>2. CASE k < Len(list)
    <3>1. list[Len(list)] \in chance <=> entry[list[Len(list)]].patience <= 0
      BY <2>2, <1>2, <1>6 DEF Visited
    <3> QED
      BY <3>1, <1>3 DEF PromoteHere
  <2> QED
    BY <2>1, <2>2, <1>13
<1>8. \A j \in 1..Len(list) - 1 : entry'[list[j]] = entry[list[j]]
  BY <1>1, <1>2, <1>3
<1>9. DEFINE m == IF k = Len(list) THEN k ELSE k + 1
<1>10. m \in 0..Len(list)
  BY <1>2, <1>6
<1>11. \A j \in 1..m : list'[j] \in chance
  <2>1. \A j \in 1..k : list[j] \in chance
    BY <1>6 DEF Visited
  <2>2. ASSUME NEW j \in 1..m
        PROVE  list'[j] \in chance
    <3>1. CASE j = 1
      BY <3>1, <1>3, <1>5, <1>7
    <3>2. CASE j # 1
      <4>1. j \in 2..Len(list) /\ j - 1 \in 1..k
        BY <3>2, <1>13
      <4> QED
        BY <4>1, <2>1, <1>5
    <3> QED
      BY <3>1, <3>2
  <2> QED
    BY <2>2
<1>12. \A j \in m + 1..Len(list) : list'[j] \in chance <=> entry'[list'[j]].patience <= 0
  <2>1. \A j \in k + 1..Len(list) : list[j] \in chance <=> entry[list[j]].patience <= 0
    BY <1>6 DEF Visited
  <2>2. ASSUME NEW j \in m + 1..Len(list)
        PROVE  list'[j] \in chance <=> entry'[list'[j]].patience <= 0
    <3>1. j \in 2..Len(list) /\ j - 1 \in k + 1..Len(list) /\ j - 1 \in 1..Len(list) - 1
      BY <1>2, <1>6
    <3> QED
      BY <3>1, <2>1, <1>5, <1>8
  <2> QED
    BY <2>2
<1> QED
  BY <1>1, <1>10, <1>11, <1>12 DEF Visited

LEMMA VisitEvicts ==
  ASSUME Struct, Struct', Accounts, Chances, NEW t \in Threads, pc[t] = "put_walk",
         ~AtHead(t), Lacking(t), AtTail(t), EvictHere(t), node' = node, chance' = chance
  PROVE  /\ \E k \in 0..Len(list') : Visited(k)'
         /\ Here(t) \in chance => Listed' \subseteq chance
<1>1. /\ cursor[t] \in DOMAIN list /\ Here(t) \in Listed
      /\ Listed' = Listed \ {Here(t)}
      /\ Len(list') = Len(list) - 1 /\ DOMAIN list' = 1..Len(list) - 1
      /\ \A n \in Listed' : entry'[n] = entry[n]
  BY EvictEffect
<1>2. /\ Len(list) \in Nat /\ DOMAIN list = 1..Len(list) /\ list \in Seq(Nodes)
      /\ \A j \in DOMAIN list : list[j] \in Listed
  BY ListedBasics DEF Struct, Typed
<1>3. cursor[t] = Len(list) /\ Here(t) = list[Len(list)] /\ Len(list) > 0
  BY <1>1, <1>2 DEF AtTail, Here
<1>4. list' = Without(Len(list)) /\ entry[list[Len(list)]].patience > 0
  BY <1>3 DEF EvictHere
<1>5. \A j \in 1..Len(list) - 1 : list'[j] = list[j]
  BY <1>2, <1>4 DEF Without
<1>6. \A j \in 1..Len(list) - 1 : entry'[list[j]] = entry[list[j]]
  BY <1>1, <1>5 DEF Listed
<1>7. PICK k \in 0..Len(list) : Visited(k)
  BY DEF Chances
<1>13. Len(list) \in Nat /\ k \in Nat /\ k <= Len(list)
  BY <1>2, <1>7
<1>8. /\ \A j \in 1..k : list[j] \in chance
      /\ \A j \in k + 1..Len(list) : list[j] \in chance <=> entry[list[j]].patience <= 0
  BY <1>7 DEF Visited
<1>9. k = Len(list) \/ Here(t) \notin chance
  <2>1. CASE k # Len(list)
    <3>1. Len(list) \in k + 1..Len(list)
      BY <2>1, <1>13
    <3>2. entry[list[Len(list)]] \in Entry
      BY <1>1, <1>3, ListedBasics
    <3>3. ~(entry[list[Len(list)]].patience <= 0)
      BY <3>2, <1>4 DEF Entry
    <3> QED
      BY <3>1, <3>3, <1>3, <1>8
  <2> QED
    BY <2>1
<1>10. Here(t) \in chance => Listed' \subseteq chance
  BY <1>1, <1>5, <1>8, <1>9, <1>2 DEF Listed
<1>11. CASE k = Len(list)
  <2>1. Len(list) - 1 \in 0..Len(list')
    BY <1>1, <1>2, <1>3
  <2>2. \A j \in 1..Len(list) - 1 : list'[j] \in chance'
    BY <1>13, <1>5, <1>8, <1>11
  <2>3. \A j \in Len(list) - 1 + 1..Len(list') :
          list'[j] \in chance' <=> entry'[list'[j]].patience <= 0
    BY <1>1, <1>13
  <2> QED
    BY <2>1, <2>2, <2>3, <1>10 DEF Visited
<1>12. CASE k # Len(list)
  <2>1. k \in 0..Len(list')
    BY <1>1, <1>2, <1>7, <1>12
  <2>2. \A j \in 1..k : list'[j] \in chance'
    BY <2>1, <1>1, <1>2, <1>5, <1>8
  <2>3. \A j \in k + 1..Len(list') : list'[j] \in chance' <=> entry'[list'[j]].patience <= 0
    BY <2>1, <1>1, <1>2, <1>5, <1>6, <1>8
  <2> QED
    BY <2>1, <2>2, <2>3, <1>10 DEF Visited
<1> QED
  BY <1>11, <1>12

-----------------------------------------------------------------------------
(* One thread walks at a time.                                             *)

LEMMA OnlyWalk ==
  ASSUME NEW t \in Threads,
         \A s \in Threads : pc'[s] \in Walking => s = t,
         chance' \subseteq Nodes,
         pc'[t] = "put_walk" /\ Lacking(t)' => AtTail(t)' \/ (AtHead(t)' /\ Len(list') = 1),
         pc'[t] = "put_walk" /\ Lacking(t)' /\ AtTail(t)' => \E k \in 0..Len(list') : Visited(k)',
         pc'[t] = "put_sweep" => Len(list') <= 1 /\ (Lacking(t)' \/ AtHead(t)'),
         pc'[t] = "put_insert" => ~Lacking(t)'
  PROVE  Tails' /\ Chances'
<1>1. Tails'
  BY DEF Tails, Walking
<1>2. Chances'
  BY DEF Chances, Walking
<1> QED
  BY <1>1, <1>2

LEMMA WriterAlone ==
  ASSUME Locks, NEW t \in Threads, pc[t] \in Writing,
         \A s \in Threads \ {t} : pc'[s] = pc[s]
  PROVE  \A s \in Threads : pc'[s] \in Walking => s = t
<1>1. writer = {t}
  BY DEF Locks, LockDiscipline
<1>2. \A s \in Threads \ {t} : pc[s] \notin Writing
  BY <1>1 DEF Locks, LockDiscipline
<1> QED
  BY <1>2 DEF Writing, Walking

LEMMA NoWriter ==
  ASSUME Locks, NEW t \in Threads, pc[t] \in Reading \/ writer = {},
         \A s \in Threads \ {t} : pc'[s] = pc[s], pc'[t] \notin Walking
  PROVE  \A s \in Threads : pc'[s] \notin Walking
<1>1. writer = {}
  BY DEF Locks, LockDiscipline
<1>2. \A s \in Threads : pc[s] \notin Writing
  BY <1>1 DEF Locks, LockDiscipline
<1> QED
  BY <1>2 DEF Writing, Walking

(* A call that begins does not touch the walk of another thread.           *)
LEMMA CallsApart ==
  ASSUME Struct, Locks, Tails, Chances, NEW t \in Threads,
         pc[t] = "idle", pc' = [pc EXCEPT ![t] = "get_rdlock"] \/ pc' = [pc EXCEPT ![t] = "put_wrlock"],
         UNCHANGED <<freesz, list, chance, cursor>>,
         \A s \in Threads \ {t} : node'[s] = node[s],
         \A n \in DOMAIN entry : entry'[n] = entry[n]
  PROVE  Tails' /\ Chances'
<1>1. /\ \A s \in Threads \ {t} : pc'[s] = pc[s]
      /\ pc'[t] \notin Walking
  BY DEF Locks, Walking
<1>2. ASSUME NEW s \in Threads, pc'[s] \in Walking
      PROVE  pc'[s] = pc[s] /\ (Lacking(s)' <=> Lacking(s))
               /\ (AtTail(s)' <=> AtTail(s)) /\ (AtHead(s)' <=> AtHead(s))
  <2>1. s # t /\ pc'[s] = pc[s] /\ node'[s] = node[s]
    BY <1>1, <1>2
  <2>2. node[s] \in DOMAIN entry
    BY <1>2, <2>1, Known DEF Struct, Shape, Owning, Walking
  <2> QED
    BY <2>1, <2>2 DEF Lacking, Bytes, AtTail, AtHead
<1>3. Tails'
  BY <1>2 DEF Tails, Walking
<1>4. \A j \in DOMAIN list : list[j] \in DOMAIN entry
  BY ListedBasics
<1>5. ASSUME NEW k \in 0..Len(list), Visited(k)
      PROVE  Visited(k)'
  <2>1. DOMAIN list = 1..Len(list) /\ Len(list) \in Nat
    BY ListedBasics
  <2>2. \A j \in k + 1..Len(list) : entry'[list[j]] = entry[list[j]]
    BY <1>4, <2>1
  <2> QED
    BY <1>5, <2>2 DEF Visited
<1>6. Chances'
  <2>1. ASSUME NEW s \in Threads, pc'[s] = "put_walk", Lacking(s)', AtTail(s)'
        PROVE  \E k \in 0..Len(list') : Visited(k)'
    <3>1. pc[s] = "put_walk" /\ Lacking(s) /\ AtTail(s)
      BY <2>1, <1>2 DEF Walking
    <3>2. PICK k \in 0..Len(list) : Visited(k)
      BY <3>1 DEF Chances
    <3> QED
      BY <3>2, <1>5
  <2> QED
    BY <2>1 DEF Chances
<1> QED
  BY <1>3, <1>6

LEMMA WalksStep ==
  ASSUME Struct, Struct', Locks, Accounts, Accounts', Tails, Chances, [Next]_vars
  PROVE  Tails' /\ Chances'
<1>1. CASE UNCHANGED vars
  BY <1>1 DEF vars, Tails, Chances, Lacking, Bytes, AtTail, AtHead, Visited
<1>2. ASSUME NEW t \in Threads, NEW u \in Uris, GetCall(t, u)
      PROVE  Tails' /\ Chances'
  BY <1>2, CallsApart DEF GetCall, Goto, shared
<1>3. ASSUME NEW t \in Threads, NEW u \in Uris, NEW o \in Objects, PutCall(t, u, o)
      PROVE  Tails' /\ Chances'
  <2>1. PICK n \in Nodes \ DOMAIN entry :
          /\ Goto(t, "idle", "put_wrlock") /\ node' = [node EXCEPT ![t] = n]
          /\ UNCHANGED <<freesz, list, chance, cursor>>
          /\ \A m \in DOMAIN entry : entry'[m] = entry[m]
    BY <1>3 DEF PutCall
  <2>2. \A s \in Threads \ {t} : node'[s] = node[s]
    BY <2>1
  <2> QED
    BY <2>1, <2>2, CallsApart DEF Goto
<1>4. ASSUME NEW t \in Threads, Get(t)
      PROVE  Tails' /\ Chances'
  <2>1. pc[t] \in Reading \/ writer = {}
    BY <1>4 DEF Get, GetRdlock, GetFind, GetCopy, GetCount, GetUnlock, Goto, Reading
  <2>2. \E to \in Places \ Walking : pc' = [pc EXCEPT ![t] = to]
    BY <1>4 DEF Get, GetRdlock, GetFind, GetCopy, GetCount, GetUnlock, Goto, Places, Reading, Walking
  <2>3. chance' = chance
    BY <1>4 DEF Get, GetRdlock, GetFind, GetCopy, GetCount, GetUnlock, shared
  <2>4. pc'[t] \notin Walking /\ \A s \in Threads \ {t} : pc'[s] = pc[s]
    BY <2>2 DEF Locks
  <2> QED
    BY <2>1, <2>3, <2>4, NoWriter, NoWalk DEF Chances
<1>5. ASSUME NEW t \in Threads, PutWrlock(t)
      PROVE  Tails' /\ Chances'
  <2>1. /\ writer = {} /\ pc[t] = "put_wrlock" /\ pc' = [pc EXCEPT ![t] = "put_walk"]
        /\ cursor' = [cursor EXCEPT ![t] = Len(list)] /\ UNCHANGED <<list, entry>>
        /\ chance' = {n \in Listed : entry[n].patience <= 0}
    BY <1>5 DEF PutWrlock, Goto
  <2>2. \A s \in Threads : pc[s] \notin Writing
    BY <2>1 DEF Locks, LockDiscipline
  <2>3. \A s \in Threads : pc'[s] \in Walking => s = t
    BY <2>1, <2>2 DEF Locks, Writing, Walking
  <2>4. chance' \subseteq Nodes
    BY <2>1, ListedBasics
  <2>5. pc'[t] = "put_walk" /\ cursor'[t] = Len(list')
    BY <2>1 DEF Locks, Struct, Typed
  <2>6. 0 \in 0..Len(list') /\ Visited(0)'
    <3>1. Len(list') \in Nat /\ DOMAIN list = 1..Len(list) /\ \A j \in DOMAIN list : list[j] \in Listed
      BY <2>1, ListedBasics
    <3> QED
      BY <2>1, <3>1 DEF Visited
  <2> QED
    BY <2>3, <2>4, <2>5, <2>6, OnlyWalk DEF AtTail
<1>6. ASSUME NEW t \in Threads, WalkMatch(t) \/ PutInsert(t) \/ PutUnlock(t) \/ PutDrop(t)
      PROVE  Tails' /\ Chances'
  <2>1. pc[t] \in Writing /\ \E to \in Places \ Walking : pc' = [pc EXCEPT ![t] = to]
    BY <1>6 DEF WalkMatch, PutInsert, PutUnlock, PutDrop, Goto, Writing, Places, Walking
  <2>2. pc'[t] \notin Walking /\ \A s \in Threads \ {t} : pc'[s] = pc[s]
    BY <2>1 DEF Locks
  <2>3. \A s \in Threads : pc'[s] \notin Walking
    BY <2>1, <2>2, WriterAlone
  <2>4. chance' \subseteq Nodes
    BY <1>6 DEF WalkMatch, PutInsert, PutUnlock, PutDrop, Chances
  <2> QED
    BY <2>3, <2>4, NoWalk
<1>7. ASSUME NEW t \in Threads, WalkPromote(t)
      PROVE  Tails' /\ Chances'
  <2>1. /\ pc[t] = "put_walk" /\ ~AtHead(t) /\ PromoteHere(t)
        /\ UNCHANGED <<chance, pc, node>>
    BY <1>7 DEF WalkPromote
  <2>2. \A s \in Threads : pc'[s] \in Walking => s = t
    BY <2>1, WriterAlone DEF Writing
  <2>3. /\ Len(list') = Len(list) /\ (Lacking(t)' <=> Lacking(t))
        /\ cursor'[t] = IF cursor[t] = 1 THEN 0 ELSE cursor[t]
    BY <2>1, PromoteEffect
  <2>4. ASSUME Lacking(t)'
        PROVE  /\ AtTail(t)' \/ (AtHead(t)' /\ Len(list') = 1)
               /\ AtTail(t)' => \E k \in 0..Len(list') : Visited(k)'
    <3>1. Lacking(t) /\ AtTail(t)
      BY <2>1, <2>3, <2>4 DEF Tails
    <3> QED
      BY <2>1, <2>3, <3>1, VisitPromotes DEF AtTail, AtHead
  <2>5. chance' \subseteq Nodes /\ pc'[t] = "put_walk"
    BY <2>1 DEF Chances
  <2> QED
    BY <2>2, <2>4, <2>5, OnlyWalk
<1>8. ASSUME NEW t \in Threads, WalkEvict(t)
      PROVE  Tails' /\ Chances'
  <2>1. /\ pc[t] = "put_walk" /\ ~AtHead(t) /\ EvictHere(t) /\ Lacking(t)
        /\ UNCHANGED <<chance, pc, node>>
    BY <1>8 DEF WalkEvict
  <2>2. \A s \in Threads : pc'[s] \in Walking => s = t
    BY <2>1, WriterAlone DEF Writing
  <2>3. AtTail(t)
    BY <2>1 DEF Tails
  <2>4. Len(list') = Len(list) - 1 /\ cursor'[t] = cursor[t] - 1
    BY <2>1, EvictEffect
  <2>5. AtTail(t)' /\ \E k \in 0..Len(list') : Visited(k)'
    BY <2>1, <2>3, <2>4, VisitEvicts DEF AtTail
  <2>6. chance' \subseteq Nodes /\ pc'[t] = "put_walk"
    BY <2>1 DEF Chances
  <2> QED
    BY <2>2, <2>5, <2>6, OnlyWalk
<1>9. ASSUME NEW t \in Threads, WalkKeep(t)
      PROVE  Tails' /\ Chances'
  <2>1. /\ pc[t] = "put_walk" /\ ~Lacking(t)
        /\ UNCHANGED <<freesz, entry, chance, pc, node>>
    BY <1>9 DEF WalkKeep, shared
  <2>2. \A s \in Threads : pc'[s] \in Walking => s = t
    BY <2>1, WriterAlone DEF Writing
  <2>3. ~Lacking(t)' /\ chance' \subseteq Nodes /\ pc'[t] = "put_walk"
    BY <2>1 DEF Chances, Lacking, Bytes
  <2> QED
    BY <2>2, <2>3, OnlyWalk
<1>10. ASSUME NEW t \in Threads, LoopEnd(t)
       PROVE  Tails' /\ Chances'
  <2>1. /\ pc[t] \in {"put_walk", "put_sweep"} /\ AtHead(t)
        /\ pc' = [pc EXCEPT ![t] = IF Lacking(t) THEN "put_sweep" ELSE "put_insert"]
        /\ UNCHANGED <<freesz, list, entry, chance, node>>
    BY <1>10 DEF LoopEnd, shared
  <2>2. pc'[t] = (IF Lacking(t) THEN "put_sweep" ELSE "put_insert")
          /\ \A s \in Threads \ {t} : pc'[s] = pc[s]
    BY <2>1 DEF Locks
  <2>3. \A s \in Threads : pc'[s] \in Walking => s = t
    BY <2>1, <2>2, WriterAlone DEF Writing
  <2>4. (Lacking(t)' <=> Lacking(t)) /\ chance' \subseteq Nodes
    BY <2>1 DEF Chances, Lacking, Bytes
  <2>5. Lacking(t) => Len(list) <= 1
    <3>1. cursor[t] = 0
      BY <2>1 DEF AtHead
    <3>2. CASE pc[t] = "put_walk"
      <4>1. Lacking(t) => Len(list) = 0 \/ Len(list) = 1
        BY <3>1, <3>2, Zenon DEF Tails, AtTail
      <4>2. Len(list) = 0 \/ Len(list) = 1 => Len(list) <= 1
        BY ListedBasics
      <4> QED
        BY <4>1, <4>2, Zenon
    <3>3. CASE pc[t] = "put_sweep"
      BY <3>3 DEF Tails
    <3> QED
      BY <2>1, <3>2, <3>3
  <2> QED
    BY <2>1, <2>2, <2>3, <2>4, <2>5, OnlyWalk
<1>11. ASSUME NEW t \in Threads, Sweep(t)
       PROVE  Tails' /\ Chances'
  <2>1. /\ pc[t] = "put_sweep" /\ ~AtHead(t) /\ (PromoteHere(t) \/ EvictHere(t))
        /\ UNCHANGED <<chance, pc, node>>
    BY <1>11 DEF Sweep
  <2>2. \A s \in Threads : pc'[s] \in Walking => s = t
    BY <2>1, WriterAlone DEF Writing
  <2>3. /\ Len(list) \in Nat /\ Len(list) <= 1 /\ cursor[t] \in 1..Len(list)
    BY <2>1, InsideList, ListedBasics DEF Tails
  <2>4. cursor'[t] = 0 /\ Len(list') <= 1
    <3>1. CASE PromoteHere(t)
      BY <2>1, <2>3, <3>1, PromoteEffect
    <3>2. CASE EvictHere(t)
      BY <2>1, <2>3, <3>2, EvictEffect
    <3> QED
      BY <2>1, <3>1, <3>2
  <2>5. chance' \subseteq Nodes /\ pc'[t] = "put_sweep" /\ AtHead(t)'
    BY <2>1, <2>4 DEF Chances, AtHead
  <2> QED
    BY <2>2, <2>4, <2>5, OnlyWalk
<1> QED
  BY <1>1, <1>2, <1>3, <1>4, <1>5, <1>6, <1>7, <1>8, <1>9, <1>10, <1>11
  DEF Next, Put, Bookkeeping

LEMMA KeptInit == Init => Kept
<1> SUFFICES ASSUME Init
             PROVE  Kept
  OBVIOUS
<1>1. Contents = [u \in {} |-> NoObject]
  BY DEF Init, Contents, Listed
<1>2. Store!StoredBytes = {}
  BY <1>1 DEF Store!StoredBytes
<1>3. Accounts
  BY <1>2, FS_EmptySet, SameCount, CacheAssumption DEF Init, Accounts, Store!Room
<1>4. Tails /\ Chances /\ Answers
  BY DEF Init, Tails, Chances, Answers
<1> QED
  BY <1>3, <1>4 DEF Kept

LEMMA KeptAlways == Spec => []Kept
<1>1. Struct /\ Struct' /\ Locks /\ Kept /\ [Next]_vars => Kept'
  BY AccountsStep, WalksStep, AnswersStep DEF Kept
<1> QED
  BY <1>1, KeptInit, StructAlways, LocksAlways, PTL DEF Spec

(* Every variable keeps the range its C declaration gives it; in           *)
(* particular cache.freesz, a size_t, never wraps around, whatever objects *)
(* are put and in whatever order.                                          *)
THEOREM TypesKept == Spec => []TypeOK
<1>1. Struct /\ Locks /\ Kept => TypeOK
  <2> SUFFICES ASSUME Struct, Locks, Kept
               PROVE  TypeOK
    OBVIOUS
  <2>1. freesz \in 0..Capacity
    <3>1. IsFiniteSet(Store!StoredBytes) /\ freesz = Capacity - Cardinality(Store!StoredBytes)
            /\ freesz \in Nat
      BY SameCount DEF Kept, Accounts, Store!Room
    <3>2. Cardinality(Store!StoredBytes) \in Nat
      BY <3>1, FS_CardinalityType
    <3> QED
      BY <3>1, <3>2, CacheAssumption
  <2> QED
    BY <2>1 DEF TypeOK, Struct, Typed, Locks, Kept, Chances, Answers
<1> QED
  BY <1>1, KeptAlways, StructAlways, LocksAlways, PTL

(* An entry that was hit often is given up only when every entry that was  *)
(* not is gone, in whatever order the walk meets them.                     *)
THEOREM SecondChances == Spec => SecondChance
<1>1. Struct /\ Struct' /\ Locks /\ Kept /\ [Next]_vars
        => [\A n \in chance : n \in Listed \ Listed' => Listed' \subseteq chance]_vars
  <2> SUFFICES ASSUME Struct, Struct', Locks, Kept, [Next]_vars,
                      NEW n \in chance, n \in Listed, n \notin Listed'
               PROVE  Listed' \subseteq chance
    OBVIOUS
  <2>1. Accounts /\ Tails /\ Chances
    BY DEF Kept
  <2>2. CASE UNCHANGED vars
    BY <2>2 DEF vars, Listed
  <2>3. ASSUME NEW t \in Threads, WalkPromote(t) \/ Sweep(t), PromoteHere(t)
        PROVE  Listed' = Listed
    BY <2>3, PromoteEffect DEF WalkPromote, Sweep
  <2>4. ASSUME NEW t \in Threads, WalkEvict(t)
        PROVE  Listed' \subseteq chance
    <3>1. /\ pc[t] = "put_walk" /\ ~AtHead(t) /\ EvictHere(t) /\ Lacking(t)
          /\ UNCHANGED <<chance, pc, node>>
      BY <2>4 DEF WalkEvict
    <3>2. AtTail(t)
      BY <2>1, <3>1 DEF Tails
    <3>3. Listed' = Listed \ {Here(t)}
      BY <2>1, <3>1, EvictEffect
    <3> QED
      BY <2>1, <3>1, <3>2, <3>3, VisitEvicts
  <2>5. ASSUME NEW t \in Threads, Sweep(t), EvictHere(t)
        PROVE  Listed' = {}
    <3>1. /\ pc[t] = "put_sweep" /\ ~AtHead(t) /\ node' = node
      BY <2>5 DEF Sweep
    <3>2. Len(list) \in Nat /\ Len(list) <= 1 /\ DOMAIN list' = 1..Len(list) - 1
      BY <2>1, <2>5, <3>1, EvictEffect, ListedBasics DEF Tails
    <3>3. DOMAIN list' = {}
      BY <3>2
    <3> QED
      BY <3>3 DEF Listed
  <2>6. ASSUME NEW t \in Threads, PutInsert(t)
        PROVE  Listed \subseteq Listed'
    BY <2>1, <2>6, InsertEffect
  <2>7. ASSUME NEW t \in Threads,
               \/ \E u \in Uris : GetCall(t, u)
               \/ \E u \in Uris, o \in Objects : PutCall(t, u, o)
               \/ Get(t) \/ PutWrlock(t) \/ WalkMatch(t) \/ WalkKeep(t) \/ LoopEnd(t)
               \/ PutUnlock(t) \/ PutDrop(t)
        PROVE  Listed' = Listed
    BY <2>7, ContentsSame
  <2>8. ASSUME NEW t \in Threads, WalkPromote(t)
        PROVE  PromoteHere(t)
    BY <2>8 DEF WalkPromote
  <2>9. ASSUME NEW t \in Threads, Sweep(t)
        PROVE  PromoteHere(t) \/ EvictHere(t)
    BY <2>9 DEF Sweep
  <2> QED
    BY <2>2, <2>3, <2>4, <2>5, <2>6, <2>7, <2>8, <2>9 DEF Next, Put, Bookkeeping
<1> QED
  BY <1>1, KeptAlways, StructAlways, LocksAlways, PTL DEF Spec, SecondChance

-----------------------------------------------------------------------------
(* The end of the walk                                                     *)

(* A round of the second loop always has an entry to look at.              *)
LEMMA SomethingToEvict ==
  ASSUME Struct, Accounts, NEW t \in Threads, pc[t] \in Walking, Lacking(t)
  PROVE  list # <<>>
<1> SUFFICES ASSUME list = <<>>
             PROVE  FALSE
  OBVIOUS
<1>1. Listed = {}
  BY DEF Listed
<1>2. Store!StoredBytes = {}
  BY <1>1 DEF Store!StoredBytes, Contents
<1>3. freesz = Capacity /\ Capacity \in Nat
  BY <1>2, FS_EmptySet, SameCount, CacheAssumption DEF Accounts, Store!Room
<1>4. node[t] \in DOMAIN entry
  BY Known DEF Struct, Shape, Owning, Walking
<1> QED
  BY <1>3, <1>4, BytesTyped DEF Lacking

LEMMA DueTyped ==
  ASSUME Struct, NEW n \in Listed
  PROVE  Due(n) \in Nat
<1>1. entry[n].patience \in Int
  BY ListedBasics DEF Entry
<1> QED
  BY <1>1 DEF Due, DefaultPatience

LEMMA RoundsFinite == Struct => IsFiniteSet(Rounds)
<1> SUFFICES ASSUME Struct
             PROVE  IsFiniteSet(Rounds)
  OBVIOUS
<1> DEFINE Of(n) == {n} \X (0..Due(n))
<1> DEFINE f == [i \in 1..Len(list) |-> Of(list[i])]
<1> DEFINE All == {Of(n) : n \in Listed}
<1>1. Len(list) \in Nat /\ DOMAIN list = 1..Len(list) /\ IsFiniteSet(1..Len(list))
  BY ListedBasics, FS_Interval
<1>2. f \in Surjection(1..Len(list), All)
  BY <1>1 DEF Surjection, Listed
<1>3. IsFiniteSet(All)
  <2> HIDE DEF f, All
  <2> QED
    BY <1>1, <1>2, FS_Surjection
<1>4. ASSUME NEW n \in Listed
      PROVE  IsFiniteSet(Of(n))
  <2>1. IsFiniteSet({n}) /\ IsFiniteSet(0..Due(n))
    <3>1. 0 \in Int /\ Due(n) \in Int
      BY DueTyped
    <3> QED
      BY <3>1, FS_Singleton, FS_Interval
  <2> QED
    BY <2>1, FS_Product
<1>5. \A T \in All : IsFiniteSet(T)
  BY <1>4
<1>6. IsFiniteSet(UNION All)
  <2> HIDE DEF All
  <2> QED
    BY <1>3, <1>5, FS_UNION
<1> QED
  BY <1>6 DEF Rounds

LEMMA RoundsFiniteNext == Struct' => IsFiniteSet(Rounds)'
BY RoundsFinite, PTL

(* Taking an entry out, or lowering its promotions due, leaves fewer.      *)
LEMMA RoundsFewer ==
  ASSUME Struct, Struct', NEW n \in Listed, Listed' \subseteq Listed,
         \A m \in Listed' \ {n} : entry'[m] = entry[m],
         n \in Listed' => Due(n)' < Due(n)
  PROVE  /\ Cardinality(Rounds) \in Nat /\ Cardinality(Rounds') \in Nat
         /\ Cardinality(Rounds') + 1 <= Cardinality(Rounds)
<1>1. \A m \in Listed : Due(m) \in Nat
  BY DueTyped
<1>2. n \in Listed' => Due(n)' \in Nat
  <2>1. n \in Listed' => entry'[n].patience \in Int
    <3>1. \A m \in Listed : entry[m] \in Entry
      BY ListedBasics
    <3>2. Struct => \A m \in Listed : entry[m] \in Entry
      BY ListedBasics
    <3>3. \A m \in Listed' : entry'[m] \in Entry
      BY DEF Struct, Typed, Shape, NothingLeaks
    <3> QED
      BY <3>3 DEF Entry
  <2> QED
    BY <2>1 DEF Due, DefaultPatience
<1>3. \A m \in Listed' \ {n} : Due(m)' = Due(m)
  BY DEF Due
<1>4. Rounds' \subseteq Rounds
  <2>1. ASSUME NEW m \in Listed', NEW d \in 0..Due(m)'
        PROVE  m \in Listed /\ d \in 0..Due(m)
    <3>1. CASE m = n
      BY <3>1, <1>1, <1>2
    <3>2. CASE m # n
      BY <3>2, <1>3
    <3> QED
      BY <3>1, <3>2
  <2> QED
    BY <2>1 DEF Rounds
<1>5. <<n, Due(n)>> \in Rounds
  BY <1>1 DEF Rounds
<1>6. <<n, Due(n)>> \notin Rounds'
  BY <1>1, <1>2 DEF Rounds
<1>7. IsFiniteSet(Rounds) /\ IsFiniteSet(Rounds')
  BY RoundsFinite, RoundsFiniteNext
<1>8. Cardinality(Rounds) \in Nat /\ Cardinality(Rounds') \in Nat
  BY <1>7, FS_CardinalityType
<1>9. Cardinality(Rounds') <= Cardinality(Rounds) /\ Cardinality(Rounds') # Cardinality(Rounds)
  BY <1>4, <1>5, <1>6, <1>7, FS_Subset
<1> QED
  BY <1>8, <1>9

LEMMA PromotionShrinks ==
  ASSUME Struct, Struct', NEW t \in Threads, pc[t] \in {"put_walk", "put_sweep"}, pc' = pc,
         ~AtHead(t), PromoteHere(t), node' = node
  PROVE  Work(t)' < Work(t)
<1>1. /\ cursor[t] \in DOMAIN list /\ Here(t) \in Listed /\ Listed' = Listed
      /\ cursor'[t] = IF cursor[t] = 1 THEN 0 ELSE cursor[t]
      /\ entry'[Here(t)].patience = entry[Here(t)].patience + DefaultPatience
      /\ \A n \in DOMAIN entry \ {Here(t)} : entry'[n] = entry[n]
  BY PromoteEffect
<1>2. cursor[t] \in Nat /\ Listed \subseteq DOMAIN entry
  BY ListedBasics DEF Struct, Typed
<1>5. PICK n \in Listed : n = Here(t)
  BY <1>1
<1>3. Due(n)' < Due(n)
  <2>1. \A p \in Int : p <= 0 =>
          /\ 0 < 1 + (-p) \div 3
          /\ 1 + (-(p + 3)) \div 3 < 1 + (-p) \div 3
    OBVIOUS
  <2>2. /\ entry[n].patience \in Int /\ entry[n].patience <= 0
        /\ entry'[n].patience = entry[n].patience + 3
    BY <1>1, <1>5, ListedBasics DEF Entry, PromoteHere, DefaultPatience
  <2> DEFINE p == entry[n].patience
  <2>3. Due(n) = 1 + (-p) \div 3
    BY <2>2 DEF Due, DefaultPatience
  <2>4. Due(n)' \in {0, 1 + (-(p + 3)) \div 3}
    BY <2>2 DEF Due, DefaultPatience
  <2> QED
    BY <2>1, <2>2, <2>3, <2>4
<1>4. /\ Cardinality(Rounds) \in Nat /\ Cardinality(Rounds') \in Nat
      /\ Cardinality(Rounds') + 1 <= Cardinality(Rounds)
  BY <1>1, <1>2, <1>3, <1>5, RoundsFewer
<1> QED
  BY <1>1, <1>2, <1>4 DEF Work, AtHead

LEMMA EvictionShrinks ==
  ASSUME Struct, Struct', Accounts, NEW t \in Threads,
         pc[t] \in {"put_walk", "put_sweep"}, pc' = pc,
         ~AtHead(t), EvictHere(t), node' = node
  PROVE  Work(t)' < Work(t)
<1>1. /\ cursor[t] \in DOMAIN list /\ Here(t) \in Listed /\ Listed' = Listed \ {Here(t)}
      /\ cursor'[t] = cursor[t] - 1 /\ \A n \in Listed' : entry'[n] = entry[n]
  BY EvictEffect
<1>2. cursor[t] \in Nat
  BY DEF Struct, Typed
<1>3. /\ Cardinality(Rounds) \in Nat /\ Cardinality(Rounds') \in Nat
      /\ Cardinality(Rounds') + 1 <= Cardinality(Rounds)
  BY <1>1, RoundsFewer
<1> QED
  BY <1>1, <1>2, <1>3 DEF Work, AtHead

LEMMA OnlyTheWriter ==
  ASSUME Struct, Locks, [Next]_vars, NEW t \in Threads,
         pc[t] \in {"put_walk", "put_sweep"}, pc'[t] = pc[t],
         <<list, cursor[t]>>' # <<list, cursor[t]>>
  PROVE  WalkPromote(t) \/ WalkEvict(t) \/ WalkKeep(t) \/ LoopEnd(t) \/ Sweep(t)
<1>1. writer = {t} /\ \A s \in Threads \ {t} : pc[s] \notin Writing
  BY DEF Locks, LockDiscipline, Writing
<1>2. PICK s \in Threads :
         \/ \E u \in Uris : GetCall(s, u)
         \/ \E u \in Uris, o \in Objects : PutCall(s, u, o)
         \/ Get(s) \/ Put(s)
  BY DEF Next, vars
<1>3. CASE s # t
  <2>1. Put(s) => FALSE
    BY <1>1, <1>3 DEF Put, PutWrlock, Bookkeeping, WalkMatch, WalkPromote, WalkEvict, WalkKeep,
       LoopEnd, Sweep, PutInsert, PutUnlock, PutDrop, Goto, Writing
  <2>2. \/ UNCHANGED <<list, cursor>>
        \/ UNCHANGED list /\ cursor' = [cursor EXCEPT ![s] = 0]
    BY <2>1, <1>2 DEF GetCall, PutCall, Get, GetRdlock, GetFind, GetCopy, GetCount, GetUnlock,
       shared, locals, Return
  <2>3. cursor'[t] = cursor[t] /\ list' = list
    BY <2>2, <1>3 DEF Struct, Typed
  <2> QED
    BY <2>3
<1>4. CASE s = t
  <2>1. pc'[t] # "put_drop"
    OBVIOUS
  <2>2. ~WalkMatch(t)
    BY <2>1 DEF WalkMatch, Goto, Locks
  <2> QED
    BY <1>2, <1>4, <2>2 DEF GetCall, PutCall, Get, GetRdlock, GetFind, GetCopy, GetCount, GetUnlock,
       Put, PutWrlock, Bookkeeping, PutInsert, PutUnlock, PutDrop, Goto
<1> QED
  BY <1>3, <1>4

(* Every step of the walk of cache_put leaves less work, and a round of    *)
(* the second loop never starts on an empty list: no put holds the write   *)
(* lock for ever, whatever the capacity, the sizes and the hits.           *)
THEOREM WalksEnd == Spec => WalkShrinks
<1>1. Struct /\ Kept => \A t \in Threads : pc[t] = "put_sweep" /\ Lacking(t) => list # <<>>
  BY SomethingToEvict DEF Kept, Walking
<1>2. Struct /\ Struct' /\ Locks /\ Kept /\ [Next]_vars
        => [\A t \in Threads :
              /\ pc[t] \in {"put_walk", "put_sweep"} /\ pc'[t] = pc[t]
              /\ <<list, cursor[t]>>' # <<list, cursor[t]>>
              => Work(t)' < Work(t)]_vars
  <2> SUFFICES ASSUME Struct, Struct', Locks, Kept, [Next]_vars, NEW t \in Threads,
                      pc[t] \in {"put_walk", "put_sweep"}, pc'[t] = pc[t],
                      <<list, cursor[t]>>' # <<list, cursor[t]>>
               PROVE  Work(t)' < Work(t)
    OBVIOUS
  <2>1. WalkPromote(t) \/ WalkEvict(t) \/ WalkKeep(t) \/ LoopEnd(t) \/ Sweep(t)
    BY OnlyTheWriter
  <2>2. CASE WalkPromote(t) \/ WalkEvict(t) \/ Sweep(t)
    <3>1. ~AtHead(t) /\ (PromoteHere(t) \/ EvictHere(t)) /\ pc' = pc /\ node' = node
      BY <2>2 DEF WalkPromote, WalkEvict, Sweep
    <3> QED
      BY <3>1, PromotionShrinks, EvictionShrinks DEF Kept
  <2>3. Cardinality(Rounds) \in Nat /\ cursor[t] \in Nat
    BY RoundsFinite, FS_CardinalityType DEF Struct, Typed
  <2>4. ASSUME UNCHANGED <<list, entry>>
        PROVE  Rounds' = Rounds
    BY <2>4 DEF Rounds, Due, Listed
  <2>5. CASE WalkKeep(t)
    <3>1. /\ pc[t] = "put_walk" /\ UNCHANGED <<list, entry>>
          /\ cursor' = [cursor EXCEPT ![t] = cursor[t] - 1]
      BY <2>5 DEF WalkKeep, shared
    <3>2. cursor'[t] = cursor[t] - 1
      BY <3>1 DEF Struct, Typed
    <3> QED
      BY <3>1, <3>2, <2>3, <2>4 DEF Work
  <2>6. CASE LoopEnd(t)
    <3>1. /\ cursor[t] = 0 /\ UNCHANGED <<list, entry>>
          /\ pc' = [pc EXCEPT ![t] = IF Lacking(t) THEN "put_sweep" ELSE "put_insert"]
          /\ cursor' = [cursor EXCEPT ![t] = IF Lacking(t) THEN Len(list) ELSE 0]
      BY <2>6 DEF LoopEnd, AtHead, shared
    <3>2. pc[t] = "put_sweep" /\ Lacking(t)
      BY <3>1 DEF Locks
    <3>3. list # <<>>
      BY <3>2, SomethingToEvict DEF Kept, Walking
    <3>4. Len(list) \in Nat /\ Len(list) # 0
      BY <3>3 DEF Struct, Typed
    <3>5. cursor'[t] = Len(list)
      BY <3>1, <3>2 DEF Struct, Typed
    <3> QED
      BY <3>1, <3>2, <3>4, <3>5, <2>3, <2>4 DEF Work, AtHead
  <2> QED
    BY <2>1, <2>2, <2>5, <2>6
<1> QED
  BY <1>1, <1>2, KeptAlways, StructAlways, LocksAlways, PTL DEF Spec, WalkShrinks

-----------------------------------------------------------------------------
(* The cache implements CacheStore.                                        *)

Calls == [t \in Threads |-> Call(t)]

CallsMeant ==
  \A t \in Threads :
    /\ pc[t] = "idle" => Call(t) = Store!NoCall
    /\ pc[t] \in {"get_rdlock", "get_find", "get_copy"} => Call(t) = Store!Get(want[t])
    /\ pc[t] \in {"put_wrlock", "put_walk", "put_sweep", "put_insert"} =>
         Call(t) = Store!Put(entry[node[t]].uri, entry[node[t]].data)
    /\ pc[t] \in {"get_count", "get_unlock", "put_unlock", "put_drop"} => Call(t) = Store!Done

LEMMA CallsKnown == CallsMeant
<1> SUFFICES ASSUME NEW t \in Threads
             PROVE  /\ pc[t] = "idle" => Call(t) = Store!NoCall
                    /\ pc[t] \in {"get_rdlock", "get_find", "get_copy"} =>
                         Call(t) = Store!Get(want[t])
                    /\ pc[t] \in {"put_wrlock", "put_walk", "put_sweep", "put_insert"} =>
                         Call(t) = Store!Put(entry[node[t]].uri, entry[node[t]].data)
                    /\ pc[t] \in {"get_count", "get_unlock", "put_unlock", "put_drop"} =>
                         Call(t) = Store!Done
  BY DEF CallsMeant
<1> QED
  BY DEF Call, Store!NoCall, Store!Get, Store!Put, Store!Done

LEMMA CallsKnownNext == CallsMeant'
BY CallsKnown, PTL

(* The step of a thread changes its own call alone.                        *)
LEMMA OneCall ==
  ASSUME NEW t \in Threads,
         \A s \in Threads \ {t} :
           /\ pc'[s] = pc[s] /\ want'[s] = want[s] /\ node'[s] = node[s]
           /\ pc[s] \in Owning => /\ entry'[node[s]].uri = entry[node[s]].uri
                                  /\ entry'[node[s]].data = entry[node[s]].data
  PROVE  /\ Calls' = [Calls EXCEPT ![t] = Call(t)']
         /\ Call(t)' = Call(t) => Calls' = Calls
<1>1. ASSUME NEW s \in Threads \ {t}
      PROVE  Call(s)' = Call(s)
  <2>1. CASE pc[s] \in Owning
    BY <1>1, <2>1 DEF Call
  <2>2. CASE pc[s] \notin Owning
    BY <1>1, <2>2 DEF Call, Owning
  <2> QED
    BY <2>1, <2>2
<1> HIDE DEF Call
<1> QED
  BY <1>1 DEF Calls

(* Which entries of other calls a step can touch: none.                    *)
LEMMA OthersEntries ==
  ASSUME Struct, NEW t \in Threads, NEW m,
         m \in Listed \/ m \notin DOMAIN entry \/ (pc[t] \in Owning /\ m = node[t])
  PROVE  \A s \in Threads \ {t} : pc[s] \in Owning =>
           node[s] \in DOMAIN entry /\ node[s] # m
<1>1. \A s \in Threads : pc[s] \in Owning => node[s] \in DOMAIN entry /\ node[s] \notin Listed
  BY Known DEF Struct, Shape
<1>2. \A s \in Threads \ {t} : pc[s] \in Owning /\ pc[t] \in Owning => node[s] # node[t]
  BY DEF Struct, Shape, NothingLeaks, Pending, Owning
<1> QED
  BY <1>1, <1>2

LEMMA BeginSteps ==
  ASSUME Struct, Struct', Locks, NEW t \in Threads, NEW u \in Uris
  PROVE  /\ GetCall(t, u) => Store!Begin(t, Store!Get(u))
         /\ \A o \in Objects : PutCall(t, u, o) => Store!Begin(t, Store!Put(u, o))
<1>1. ASSUME GetCall(t, u)
      PROVE  Store!Begin(t, Store!Get(u))
  <2>1. /\ pc[t] = "idle" /\ pc' = [pc EXCEPT ![t] = "get_rdlock"]
        /\ want' = [want EXCEPT ![t] = u] /\ UNCHANGED <<list, entry, node, answer>>
    BY <1>1 DEF GetCall, Goto, shared
  <2>2. pc'[t] = "get_rdlock" /\ want'[t] = u
    BY <2>1 DEF Locks, Struct, Typed
  <2>3. Call(t) = Store!NoCall /\ Call(t)' = Store!Get(u)
    BY <2>1, <2>2, CallsKnown, CallsKnownNext DEF CallsMeant
  <2>4. Calls' = [Calls EXCEPT ![t] = Store!Get(u)]
    BY <2>1, <2>3, OneCall DEF Locks, Struct, Typed
  <2>5. Contents' = Contents
    BY <1>1, ContentsSame
  <2> QED
    BY <2>1, <2>3, <2>4, <2>5 DEF Store!Begin, Calls
<1>2. ASSUME NEW o \in Objects, PutCall(t, u, o)
      PROVE  Store!Begin(t, Store!Put(u, o))
  <2>1. PICK n \in Nodes \ DOMAIN entry :
          /\ pc[t] = "idle" /\ pc' = [pc EXCEPT ![t] = "put_wrlock"]
          /\ node' = [node EXCEPT ![t] = n] /\ UNCHANGED <<list, want, answer>>
          /\ entry' = [m \in DOMAIN entry \cup {n} |->
               IF m = n THEN [uri |-> u, data |-> o, patience |-> DefaultPatience]
               ELSE entry[m]]
    BY <1>2 DEF PutCall, Goto
  <2>2. pc'[t] = "put_wrlock" /\ node'[t] = n
    BY <2>1 DEF Locks, Struct, Typed
  <2>3. entry'[n].uri = u /\ entry'[n].data = o
    BY <2>1
  <2>4. Call(t) = Store!NoCall /\ Call(t)' = Store!Put(u, o)
    BY <2>1, <2>2, <2>3, CallsKnown, CallsKnownNext DEF CallsMeant
  <2>5. \A s \in Threads \ {t} : pc[s] \in Owning => entry'[node[s]] = entry[node[s]]
    BY <2>1, OthersEntries
  <2>6. \A s \in Threads \ {t} : pc'[s] = pc[s] /\ node'[s] = node[s]
    BY <2>1 DEF Locks, Struct, Typed
  <2>7. Calls' = [Calls EXCEPT ![t] = Store!Put(u, o)]
    BY <2>1, <2>4, <2>5, <2>6, OneCall
  <2>8. Contents' = Contents
    BY <1>2, ContentsSame
  <2> QED
    BY <2>1, <2>4, <2>7, <2>8 DEF Store!Begin, Calls
<1> QED
  BY <1>1, <1>2

LEMMA LookupMiss ==
  ASSUME Struct, Struct', Locks, Answers, NEW t \in Threads, GetFind(t), UNCHANGED node,
         \A i \in DOMAIN list : entry[list[i]].uri # want[t],
         Goto(t, "get_find", "get_unlock"), UNCHANGED <<shared, locals>>
  PROVE  Store!Lookup(t)
<1>1. pc[t] = "get_find" /\ pc'[t] = "get_unlock" /\ \A s \in Threads \ {t} : pc'[s] = pc[s]
  BY DEF Goto, Locks
<1>2. UNCHANGED <<list, entry, want, answer, node>>
  BY DEF shared, locals
<1>3. Call(t) = Store!Get(want[t]) /\ Call(t)' = Store!Done
  BY <1>1, CallsKnown, CallsKnownNext DEF CallsMeant
<1>4. Calls' = [Calls EXCEPT ![t] = Store!Done]
  BY <1>1, <1>2, <1>3, OneCall
<1>5. want[t] \notin DOMAIN Contents
  BY MappedHere DEF Mapped, Listed
<1>6. answer' = [answer EXCEPT ![t] = NoObject]
  BY <1>1, <1>2 DEF Answers
<1>7. Contents' = Contents
  BY <1>2 DEF Contents, Listed
<1>8. Call(t).op = "get" /\ Call(t).uri = want[t]
  BY <1>3 DEF Store!Get
<1> QED
  BY <1>4, <1>5, <1>6, <1>7, <1>8 DEF Store!Lookup, Calls

LEMMA LookupHit ==
  ASSUME Struct, Struct', Locks, NEW t \in Threads, GetCopy(t)
  PROVE  Store!Lookup(t)
<1>1. pc[t] = "get_copy" /\ pc'[t] = "get_count" /\ \A s \in Threads \ {t} : pc'[s] = pc[s]
  BY DEF GetCopy, Goto, Locks
<1>2. UNCHANGED <<list, entry, want, node>>
        /\ answer' = [answer EXCEPT ![t] = entry[node[t]].data]
  BY DEF GetCopy, shared
<1>3. Call(t) = Store!Get(want[t]) /\ Call(t)' = Store!Done
  BY <1>1, CallsKnown, CallsKnownNext DEF CallsMeant
<1>4. Calls' = [Calls EXCEPT ![t] = Store!Done]
  BY <1>1, <1>2, <1>3, OneCall
<1>5. node[t] \in Listed /\ entry[node[t]].uri = want[t]
  BY <1>1 DEF Struct, Shape, ReaderSafe
<1>6. want[t] \in DOMAIN Contents /\ Contents[want[t]] = entry[node[t]].data
  BY <1>5, MappedHere DEF Mapped
<1>7. Contents' = Contents
  BY <1>2 DEF Contents, Listed
<1>8. Call(t).op = "get" /\ Call(t).uri = want[t]
  BY <1>3 DEF Store!Get
<1> QED
  BY <1>2, <1>4, <1>6, <1>7, <1>8 DEF Store!Lookup, Calls

LEMMA ReturnSteps ==
  ASSUME Struct, Struct', Locks, NEW t \in Threads, GetUnlock(t) \/ PutUnlock(t) \/ PutDrop(t)
  PROVE  Store!Return(t)
<1>1. /\ pc[t] \in {"get_unlock", "put_unlock", "put_drop"} /\ pc' = [pc EXCEPT ![t] = "idle"]
      /\ Return(t)
  BY DEF GetUnlock, PutUnlock, PutDrop, Goto
<1>2. /\ pc'[t] = "idle" /\ \A s \in Threads \ {t} : pc'[s] = pc[s]
      /\ \A s \in Threads \ {t} : want'[s] = want[s] /\ node'[s] = node[s]
  BY <1>1 DEF Locks, Return, Struct, Typed
<1>3. \A s \in Threads \ {t} : pc[s] \in Owning => entry'[node[s]] = entry[node[s]]
  <2>1. CASE PutDrop(t)
    <3>1. pc[t] \in Owning /\ entry' = [n \in DOMAIN entry \ {node[t]} |-> entry[n]]
      BY <2>1 DEF PutDrop, Goto, Owning
    <3> QED
      BY <3>1, OthersEntries
  <2>2. CASE ~PutDrop(t)
    BY <2>2 DEF GetUnlock, PutUnlock, shared
  <2> QED
    BY <2>1, <2>2
<1>4. Call(t) = Store!Done /\ Call(t)' = Store!NoCall
  BY <1>1, <1>2, CallsKnown, CallsKnownNext DEF CallsMeant
<1>5. Calls' = [Calls EXCEPT ![t] = Store!NoCall]
  BY <1>2, <1>3, <1>4, OneCall
<1>6. Contents' = Contents
  BY ContentsSame DEF Get
<1> QED
  BY <1>1, <1>4, <1>5, <1>6 DEF Store!Return, Return, Calls

LEMMA KeepStep ==
  ASSUME Struct, Struct', Locks, NEW t \in Threads, WalkMatch(t)
  PROVE  Store!Keep(t)
<1>1. /\ pc[t] = "put_walk" /\ pc' = [pc EXCEPT ![t] = "put_drop"] /\ ~AtHead(t) /\ Matches(t)
      /\ entry' = [entry EXCEPT ![Here(t)].patience = DefaultPatience]
      /\ UNCHANGED <<want, node, answer>>
  BY DEF WalkMatch, Goto, locals
<1>2. pc'[t] = "put_drop" /\ \A s \in Threads \ {t} : pc'[s] = pc[s]
  BY <1>1 DEF Locks
<1>3. cursor[t] \in DOMAIN list /\ Here(t) \in Listed
  BY <1>1, InsideList, ListedBasics DEF Here
<1>4. \A s \in Threads \ {t} : pc[s] \in Owning => entry'[node[s]] = entry[node[s]]
  BY <1>1, <1>3, OthersEntries
<1>5. /\ Call(t) = Store!Put(entry[node[t]].uri, entry[node[t]].data)
      /\ Call(t)' = Store!Done
  BY <1>1, <1>2, CallsKnown, CallsKnownNext DEF CallsMeant
<1>6. Calls' = [Calls EXCEPT ![t] = Store!Done]
  BY <1>1, <1>2, <1>4, <1>5, OneCall
<1>7. entry[node[t]].uri \in DOMAIN Contents
  BY <1>1, <1>3, MappedHere DEF Mapped, Matches
<1>8. Call(t).op = "put" /\ Call(t).uri = entry[node[t]].uri
  BY <1>5 DEF Store!Put
<1>9. Contents' = Contents
  BY ContentsSame
<1> QED
  BY <1>1, <1>6, <1>7, <1>8, <1>9 DEF Store!Keep, Calls

LEMMA StoreStep ==
  ASSUME Struct, Struct', Locks, Accounts, Tails, NEW t \in Threads, PutInsert(t)
  PROVE  Store!Store(t)
<1>1. /\ pc[t] = "put_insert" /\ pc' = [pc EXCEPT ![t] = "put_unlock"]
      /\ UNCHANGED <<entry, want, node, answer>>
  BY DEF PutInsert, Goto, locals
<1>2. pc'[t] = "put_unlock" /\ \A s \in Threads \ {t} : pc'[s] = pc[s]
  BY <1>1 DEF Locks
<1>3. /\ Listed' = Listed \cup {node[t]} /\ entry' = entry
      /\ \A n \in Listed : entry[n].uri # entry[node[t]].uri
      /\ node[t] \in DOMAIN entry /\ ~Lacking(t)
  BY InsertEffect
<1>4. /\ Call(t) = Store!Put(entry[node[t]].uri, entry[node[t]].data)
      /\ Call(t)' = Store!Done
  BY <1>1, <1>2, CallsKnown, CallsKnownNext DEF CallsMeant
<1>5. Calls' = [Calls EXCEPT ![t] = Store!Done]
  BY <1>1, <1>2, <1>4, OneCall
<1>6. /\ entry[node[t]].uri \notin DOMAIN Contents
      /\ Contents' = [v \in DOMAIN Contents \cup {entry[node[t]].uri} |->
           IF v = entry[node[t]].uri THEN entry[node[t]].data ELSE Contents[v]]
  BY <1>3, ContentsAdded
<1>7. SizeOf[entry[node[t]].data] <= Store!Room
  BY <1>3, BytesTyped DEF Lacking, Bytes, Accounts
<1>8. Call(t).op = "put" /\ Call(t).uri = entry[node[t]].uri /\ Call(t).obj = entry[node[t]].data
  BY <1>4 DEF Store!Put
<1> QED
  BY <1>1, <1>5, <1>6, <1>7, <1>8 DEF Store!Store, Calls

LEMMA EvictStep ==
  ASSUME Struct, Struct', Locks, Accounts, Tails, NEW t \in Threads,
         WalkEvict(t) \/ (Sweep(t) /\ EvictHere(t))
  PROVE  \E u \in Uris : Store!Evict(u)
<1>1. /\ pc[t] \in {"put_walk", "put_sweep"} /\ ~AtHead(t) /\ EvictHere(t) /\ Lacking(t)
      /\ UNCHANGED <<pc, want, node, answer>>
  BY DEF WalkEvict, Sweep, Tails
<1>2. /\ Here(t) \in Listed /\ Listed' = Listed \ {Here(t)}
      /\ \A n \in Listed' : entry'[n] = entry[n]
  BY <1>1, EvictEffect
<1>3. entry' = [n \in DOMAIN entry \ {Here(t)} |-> entry[n]]
  BY <1>1 DEF EvictHere
<1>4. \A s \in Threads : pc[s] \in Owning => entry'[node[s]] = entry[node[s]]
  BY <1>2, <1>3, Known DEF Struct, Shape
<1>5. CallsMeant /\ CallsMeant'
  BY CallsKnown, CallsKnownNext
<1>6. Call(t) = Store!Put(entry[node[t]].uri, entry[node[t]].data) /\ Call(t)' = Call(t)
  BY <1>1, <1>4, <1>5 DEF CallsMeant, Owning
<1>7. Calls' = Calls
  BY <1>1, <1>4, <1>6, OneCall
<1>8. Call(t).op = "put" /\ Call(t).obj = entry[node[t]].data
  BY <1>6 DEF Store!Put
<1>9. node[t] \in DOMAIN entry
  BY <1>1, Known DEF Struct, Shape, Owning
<1>10. Store!Room < SizeOf[Call(t).obj]
  BY <1>1, <1>8, <1>9, BytesTyped DEF Lacking, Bytes, Accounts
<1>11. entry[Here(t)].uri \in DOMAIN Contents /\ entry[Here(t)].uri \in Uris
  BY <1>2, MappedHere DEF Mapped
<1>12. Contents' = [v \in DOMAIN Contents \ {entry[Here(t)].uri} |-> Contents[v]]
  BY <1>2, ContentsEvicted
<1>13. \E s \in Threads : Calls[s].op = "put" /\ Store!Room < SizeOf[Calls[s].obj]
  BY <1>8, <1>10 DEF Calls
<1> QED
  BY <1>1, <1>7, <1>11, <1>12, <1>13 DEF Store!Evict, Calls

(* The steps the callers do not see.                                       *)
LEMMA HiddenStep ==
  ASSUME Struct, Struct', Locks, NEW t \in Threads,
         \/ GetRdlock(t) \/ GetCount(t) \/ (GetFind(t) /\ pc'[t] = "get_copy")
         \/ PutWrlock(t) \/ WalkPromote(t) \/ WalkKeep(t) \/ LoopEnd(t)
         \/ (Sweep(t) /\ PromoteHere(t))
  PROVE  UNCHANGED <<Contents, Calls, answer>>
<1>1. answer' = answer
  BY DEF GetRdlock, GetCount, GetFind, PutWrlock, WalkPromote, WalkKeep, LoopEnd, Sweep, locals
<1>2. CASE (WalkPromote(t) \/ Sweep(t)) /\ PromoteHere(t)
  <2>1. /\ pc[t] \in {"put_walk", "put_sweep"} /\ ~AtHead(t) /\ UNCHANGED <<pc, want, node>>
    BY <1>2 DEF WalkPromote, Sweep
  <2>2. Contents' = Contents /\ Here(t) \in Listed
          /\ \A n \in DOMAIN entry \ {Here(t)} : entry'[n] = entry[n]
    BY <1>2, <2>1, PromoteEffect
  <2>3. \A s \in Threads : pc[s] \in Owning => entry'[node[s]] = entry[node[s]]
    BY <2>2, Known DEF Struct, Shape
  <2>4. Call(t)' = Call(t)
    BY <2>1, <2>3, CallsKnown, CallsKnownNext DEF CallsMeant, Owning
  <2>5. Calls' = Calls
    BY <2>1, <2>3, <2>4, OneCall
  <2> QED
    BY <1>1, <2>2, <2>5
<1>3. CASE GetCount(t)
  <2>1. /\ pc[t] = "get_count" /\ pc' = [pc EXCEPT ![t] = "get_unlock"] /\ UNCHANGED <<want, node>>
        /\ entry' = [entry EXCEPT ![node[t]].patience = entry[node[t]].patience - 1]
    BY <1>3 DEF GetCount, Goto, locals
  <2>2. node[t] \in Listed
    BY <2>1 DEF Struct, Shape, ReaderSafe
  <2>3. pc'[t] = "get_unlock" /\ \A s \in Threads \ {t} : pc'[s] = pc[s]
    BY <2>1 DEF Locks
  <2>4. \A s \in Threads \ {t} : pc[s] \in Owning => entry'[node[s]] = entry[node[s]]
    BY <2>1, <2>2, OthersEntries
  <2>5. Call(t)' = Call(t)
    BY <2>1, <2>3, CallsKnown, CallsKnownNext DEF CallsMeant
  <2>6. Calls' = Calls
    BY <2>1, <2>3, <2>4, <2>5, OneCall
  <2>7. Contents' = Contents
    BY <1>3, ContentsSame DEF Get
  <2> QED
    BY <1>1, <2>6, <2>7
<1>4. CASE \/ GetRdlock(t) \/ (GetFind(t) /\ pc'[t] = "get_copy")
           \/ PutWrlock(t) \/ WalkKeep(t) \/ LoopEnd(t)
  <2>1. UNCHANGED <<list, entry, want>> /\ (pc[t] \in Owning => node' = node)
          /\ \A s \in Threads \ {t} : node'[s] = node[s]
    BY <1>4 DEF GetRdlock, GetFind, PutWrlock, WalkKeep, LoopEnd, shared, locals, Goto, Owning,
       Struct, Typed
  <2>2. \/ {pc[t], pc'[t]} \subseteq {"get_rdlock", "get_find", "get_copy"}
        \/ {pc[t], pc'[t]} \subseteq {"put_wrlock", "put_walk", "put_sweep", "put_insert"}
    BY <1>4 DEF GetRdlock, GetFind, PutWrlock, WalkKeep, LoopEnd, Goto, Locks
  <2>3. \A s \in Threads \ {t} : pc'[s] = pc[s]
    BY <1>4 DEF GetRdlock, GetFind, PutWrlock, WalkKeep, LoopEnd, Goto, Locks
  <2>4. Call(t)' = Call(t)
    BY <2>1, <2>2, CallsKnown, CallsKnownNext DEF CallsMeant, Owning
  <2>5. Calls' = Calls
    BY <2>1, <2>3, <2>4, OneCall
  <2>6. Contents' = Contents
    BY <2>1 DEF Contents, Listed
  <2> QED
    BY <1>1, <2>5, <2>6
<1>5. WalkPromote(t) => PromoteHere(t)
  BY DEF WalkPromote
<1> QED
  BY <1>2, <1>3, <1>4, <1>5

(* The cache is a map that is read at one instant, that never changes a    *)
(* cached value, that drops what is put under a cached uri, and that       *)
(* evicts only while the object to be put does not fit.                    *)
THEOREM StoreImplemented == Spec => ImplementsStore
<1>1. Init => Store!Init
  <2> SUFFICES ASSUME Init
               PROVE  Store!Init
    OBVIOUS
  <2>1. Contents = [u \in {} |-> NoObject]
    BY DEF Init, Contents, Listed
  <2>2. \A t \in Threads : Call(t) = Store!NoCall
    BY CallsKnown DEF CallsMeant, Init
  <2>3. Calls = [t \in Threads |-> Store!NoCall]
    BY <2>2 DEF Calls
  <2> QED
    BY <2>1, <2>3 DEF Init, Store!Init, Calls
<1>2. Struct /\ Struct' /\ Locks /\ Kept /\ [Next]_vars
        => [Store!Next]_<<Contents, Calls, answer>>
  <2> SUFFICES ASSUME Struct, Struct', Locks, Kept, [Next]_vars
               PROVE  Store!Next \/ UNCHANGED <<Contents, Calls, answer>>
    OBVIOUS
  <2>1. Accounts /\ Tails /\ Answers
    BY DEF Kept
  <2>2. CASE UNCHANGED vars
    <3>1. Contents' = Contents /\ answer' = answer
      BY <2>2 DEF vars, Contents, Listed
    <3>2. Calls' = Calls
      BY <2>2 DEF vars, Calls, Call
    <3> QED
      BY <3>1, <3>2
  <2>10. ASSUME NEW t \in Threads, NEW u \in Uris, NEW o \in Objects, PutCall(t, u, o)
         PROVE  Store!Next
    BY <2>10, BeginSteps DEF Store!Next
  <2>3. ASSUME NEW t \in Threads, NEW u \in Uris, GetCall(t, u)
        PROVE  Store!Next
    BY <2>3, BeginSteps DEF Store!Next
  <2>4. ASSUME NEW t \in Threads, GetFind(t)
        PROVE  Store!Next \/ UNCHANGED <<Contents, Calls, answer>>
    <3>1. CASE pc'[t] = "get_copy"
      BY <2>4, <3>1, HiddenStep
    <3>2. CASE pc'[t] # "get_copy"
      <4>1. /\ \A i \in DOMAIN list : entry[list[i]].uri # want[t]
            /\ Goto(t, "get_find", "get_unlock") /\ UNCHANGED <<shared, locals>>
        BY <2>4, <3>2 DEF GetFind, Goto, Locks
      <4>2. UNCHANGED node
        BY <4>1 DEF locals
      <4> QED
        BY <2>1, <2>4, <4>1, <4>2, LookupMiss DEF Store!Next
    <3> QED
      BY <3>1, <3>2
  <2>5. ASSUME NEW t \in Threads, GetCopy(t)
        PROVE  Store!Next
    BY <2>5, LookupHit DEF Store!Next
  <2>6. ASSUME NEW t \in Threads, GetUnlock(t) \/ PutUnlock(t) \/ PutDrop(t)
        PROVE  Store!Next
    BY <2>6, ReturnSteps DEF Store!Next
  <2>7. ASSUME NEW t \in Threads, WalkMatch(t) \/ PutInsert(t)
        PROVE  Store!Next
    BY <2>1, <2>7, KeepStep, StoreStep DEF Store!Next
  <2>8. ASSUME NEW t \in Threads, WalkEvict(t) \/ Sweep(t)
        PROVE  Store!Next \/ UNCHANGED <<Contents, Calls, answer>>
    <3>1. CASE Sweep(t) /\ PromoteHere(t)
      BY <3>1, HiddenStep
    <3>2. CASE WalkEvict(t) \/ (Sweep(t) /\ EvictHere(t))
      BY <2>1, <3>2, EvictStep DEF Store!Next
    <3> QED
      BY <2>8, <3>1, <3>2 DEF Sweep
  <2>9. ASSUME NEW t \in Threads,
               \/ GetRdlock(t) \/ GetCount(t) \/ PutWrlock(t)
               \/ WalkPromote(t) \/ WalkKeep(t) \/ LoopEnd(t)
        PROVE  UNCHANGED <<Contents, Calls, answer>>
    BY <2>9, HiddenStep
  <2> QED
    BY <2>2, <2>10, <2>3, <2>4, <2>5, <2>6, <2>7, <2>8, <2>9
    DEF Next, Get, Put, Bookkeeping
<1>3. Struct /\ Struct' /\ Locks /\ Kept /\ [Next]_vars
        => [Store!Next]_<<Contents, [t \in Threads |-> Call(t)], answer>>
  BY <1>2 DEF Calls
<1> QED
  BY <1>1, <1>3, KeptAlways, StructAlways, LocksAlways, PTL DEF Spec, ImplementsStore, Store!Spec
=============================================================================
