----------------------------- MODULE CacheStore -----------------------------
(***************************************************************************)
(* What the proxy's object cache promises its callers                      *)
(* (labs/09-proxy/cache.h): a map from uris to objects that a concurrent   *)
(* cache_get reads at one instant, whose value for a uri never changes     *)
(* while it is there, and which gives entries up only to make room.        *)
(***************************************************************************)
EXTENDS Integers, FiniteSets

CONSTANTS
  Threads,   \* the callers
  Uris,      \* the keys, host and location
  Objects,   \* the responses that can be cached
  SizeOf,    \* the length of each object in bytes
  Capacity,  \* the argument of cache_init
  NoObject   \* the answer of a cache_get that found nothing

VARIABLES
  contents,  \* the object stored under each cached uri
  call,      \* the call each thread is in
  answer     \* what the cache_get that each thread is in returns

NoCall == [op |-> "none"]
Get(u) == [op |-> "get", uri |-> u]
Done == [op |-> "done"]
Put(u, o) == [op |-> "put", uri |-> u, obj |-> o]

\* One element for every stored byte.
StoredBytes ==
  {ub \in (DOMAIN contents) \X (1..Capacity) :
     ub[2] <= SizeOf[contents[ub[1]]]}

Room == Capacity - Cardinality(StoredBytes)

Init ==
  /\ contents = [u \in {} |-> NoObject]
  /\ call = [t \in Threads |-> NoCall]
  /\ answer = [t \in Threads |-> NoObject]

Begin(t, c) ==
  /\ call[t] = NoCall
  /\ call' = [call EXCEPT ![t] = c]
  /\ UNCHANGED <<contents, answer>>

Lookup(t) ==
  /\ call[t].op = "get"
  /\ answer' = [answer EXCEPT ![t] =
       IF call[t].uri \in DOMAIN contents
       THEN contents[call[t].uri] ELSE NoObject]
  /\ call' = [call EXCEPT ![t] = Done]
  /\ UNCHANGED contents

\* An entry is given up only for a call of cache_put that lacks the room.
Evict(u) ==
  /\ u \in DOMAIN contents
  /\ \E t \in Threads : call[t].op = "put" /\ Room < SizeOf[call[t].obj]
  /\ contents' = [v \in DOMAIN contents \ {u} |-> contents[v]]
  /\ UNCHANGED <<call, answer>>

Store(t) ==
  /\ call[t].op = "put"
  /\ call[t].uri \notin DOMAIN contents
  /\ SizeOf[call[t].obj] <= Room
  /\ contents' = [v \in DOMAIN contents \cup {call[t].uri} |->
       IF v = call[t].uri THEN call[t].obj ELSE contents[v]]
  /\ call' = [call EXCEPT ![t] = Done]
  /\ UNCHANGED answer

\* The uri is cached already: the new object is dropped.
Keep(t) ==
  /\ call[t].op = "put"
  /\ call[t].uri \in DOMAIN contents
  /\ call' = [call EXCEPT ![t] = Done]
  /\ UNCHANGED <<contents, answer>>

Return(t) ==
  /\ call[t] = Done
  /\ call' = [call EXCEPT ![t] = NoCall]
  /\ answer' = [answer EXCEPT ![t] = NoObject]
  /\ UNCHANGED contents

Next ==
  \/ \E t \in Threads :
       \/ \E u \in Uris : Begin(t, Get(u))
       \/ \E u \in Uris, o \in Objects : Begin(t, Put(u, o))
       \/ Lookup(t) \/ Store(t) \/ Keep(t) \/ Return(t)
  \/ \E u \in Uris : Evict(u)

Spec == Init /\ [][Next]_<<contents, call, answer>>
=============================================================================
