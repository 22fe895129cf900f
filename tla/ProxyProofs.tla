----------------------------- MODULE ProxyProofs -----------------------------
(* Proofs about Proxy, for any connections, workers, servers and sizes.    *)
EXTENDS Proxy, TLAPS

-----------------------------------------------------------------------------
(* The inductive invariant                                                 *)

Early == {"read", "lookup", "found", "connect", "retry", "forward"}
Relaying == {"relay", "hung", "put"}
Leaving == Relaying \cup {"stalled", "close"}

Calls ==
  {Cache!NoCall, Cache!Done} \cup {Cache!Get(u) : u \in Hosts \X Locs}
    \cup {Cache!Put(u, o) : u \in Hosts \X Locs, o \in Objects}

(* An object is what a server of the host of its key sent.                 *)
Under(o, u) == HostOf[o.server] = u[1] /\ o.loc = u[2]

Typed ==
  /\ TypeOK
  /\ call \in [Workers -> Calls]

(* Each connection is open exactly while one thread or the buffer has it.  *)
Owned ==
  /\ {c \in Conns : client[c] = "open"} = ({hand} \ {NoConn}) \cup Queued \cup Served
  /\ hand \notin Queued \cup Served /\ Queued \cap Served = {}
  /\ \A i, j \in DOMAIN queue : queue[i].conn = queue[j].conn => i = j
  /\ \A v, w \in Workers : conn[v] = conn[w] /\ conn[v] # NoConn => v = w

(* What a client got, it got from the worker that serves it.               *)
Fresh ==
  \A c \in Conns : got[c] # Nothing =>
    \E w \in Workers : conn[w] = c /\ pc[w] \in Leaving

Keyed == \A u \in DOMAIN contents : Under(contents[u], u)

(* While it relays, a worker has saved what it sent, up to the first block *)
(* that is too much.                                                       *)
Saved(n) == IF n <= MaxObject THEN n ELSE MaxObject + 1
Sent(w) ==
  \/ got[conn[w]] = Nothing /\ datasz[w] = 0
  \/ \E n \in 1..MaxLen :
       /\ n <= LenOf[Origin(w)]
       /\ got[conn[w]] = Data(Origin(w), ask[conn[w]].loc, n)
       /\ datasz[w] = Saved(n)

Putting(w) ==
  /\ call[w] = Cache!Put(Uri(ask[conn[w]]), Data(Origin(w), ask[conn[w]].loc, datasz[w]))
  /\ datasz[w] <= MaxObject

(* What a worker knows of its own connection and of its call of the cache. *)
Local(w) ==
  /\ pc[w] = "deq" <=> conn[w] = NoConn
  /\ pc[w] \in (Early \ {"read"}) \cup Relaying => ask[conn[w]] # Bad
  /\ pc[w] \in Early => got[conn[w]] = Nothing
  /\ pc[w] \in Early \cup {"deq"} => datasz[w] = 0
  /\ pc[w] \in Relaying => Sent(w)
  /\ pc[w] \notin {"lookup", "found", "put"} => call[w] = Cache!NoCall
  /\ pc[w] = "lookup" => call[w] = Cache!Get(Uri(ask[conn[w]]))
  /\ pc[w] = "found" => call[w] = Cache!Done
  /\ pc[w] = "put" => call[w] = Cache!Done \/ Putting(w)
  /\ pc[w] # "found" => answer[w] = NoObject
  /\ pc[w] = "found" /\ answer[w] # NoObject => Under(answer[w], Uri(ask[conn[w]]))

IInv == Typed /\ Owned /\ Fresh /\ Keyed /\ \A w \in Workers : Local(w)

Answers == {Nothing} \cup {Status(code) : code \in {400, 502}} \cup Objects

LEMMA InitIInv == Init => IInv
<1> SUFFICES ASSUME Init
             PROVE  IInv
  OBVIOUS
<1> USE ProxyAssumption DEF Init, spawn, Cache!Init
<1>1. Typed
  BY DEF Typed, TypeOK, Calls, Places, Requests
<1>2. Owned
  BY DEF Owned, Queued, Served
<1>3. Fresh /\ Keyed
  BY DEF Fresh, Keyed
<1>4. \A w \in Workers : Local(w)
  BY DEF Local, Early, Relaying
<1> QED
  BY <1>1, <1>2, <1>3, <1>4 DEF IInv

(* A worker that a step does not move, and whose connection it leaves.     *)
LEMMA Elsewhere ==
  ASSUME NEW v \in Workers, Local(v),
         pc'[v] = pc[v], conn'[v] = conn[v], datasz'[v] = datasz[v],
         call'[v] = call[v], answer'[v] = answer[v],
         conn[v] # NoConn =>
           ask'[conn[v]] = ask[conn[v]] /\ got'[conn[v]] = got[conn[v]]
  PROVE  Local(v)'
<1>1. CASE conn[v] = NoConn
  <2>1. pc[v] = "deq"
    BY <1>1 DEF Local
  <2> QED
    BY <1>1, <2>1 DEF Local, Early, Relaying
<1>2. CASE conn[v] # NoConn
  <2>1. Sent(v)' <=> Sent(v)
    BY <1>2 DEF Sent, Origin
  <2>2. Putting(v)' <=> Putting(v)
    BY <1>2 DEF Putting, Origin
  <2> QED
    BY <1>2, <2>1, <2>2 DEF Local
<1> QED
  BY <1>1, <1>2

(* The connection of a worker that serves one is open, and nobody else's.  *)
LEMMA Mine ==
  ASSUME IInv, NEW w \in Workers, pc[w] # "deq"
  PROVE  /\ conn[w] \in Conns /\ conn[w] # NoConn /\ client[conn[w]] = "open"
         /\ \A v \in Workers \ {w} : conn[v] # conn[w]
<1>1. conn[w] # NoConn /\ conn[w] \in Conns
  BY DEF IInv, Local, Typed, TypeOK
<1>2. conn[w] \in Served
  BY <1>1 DEF Served
<1> QED
  BY <1>1, <1>2 DEF IInv, Owned

(* A step of a worker between its dequeue and the close.                   *)
LEMMA Serving ==
  ASSUME IInv, NEW w \in Workers, NEW p \in Places \ {"deq"},
         pc[w] # "deq", pc' = [pc EXCEPT ![w] = p],
         UNCHANGED <<client, ask, buffer, conn, up>>,
         got' \in [Conns -> Answers],
         \A c \in Conns \ {conn[w]} : got'[c] = got[c],
         got'[conn[w]] # Nothing => p \in Leaving,
         datasz' \in [Workers -> 0..MaxObject + 1],
         call' \in [Workers -> Calls],
         answer' \in [Workers -> Objects \cup {NoObject}],
         \A v \in Workers \ {w} : /\ datasz'[v] = datasz[v] /\ call'[v] = call[v]
                                  /\ answer'[v] = answer[v],
         DOMAIN contents' \subseteq Hosts \X Locs,
         \A u \in DOMAIN contents' : contents'[u] \in Objects /\ Under(contents'[u], u),
         Local(w)'
  PROVE  IInv'
<1>1. Typed'
  BY DEF IInv, Typed, TypeOK, buffer, Answers
<1>2. Owned'
  <2>1. Queued' = Queued /\ Served' = Served
    BY DEF Queued, Served, buffer
  <2>2. Owned
    BY DEF IInv
  <2> QED
    BY <2>1, <2>2 DEF Owned, buffer
<1>3. \A v \in Workers \ {w} : pc'[v] = pc[v] /\ conn[v] # conn[w]
  BY Mine DEF IInv, Typed, TypeOK
<1>4. pc'[w] = p
  BY DEF IInv, Typed, TypeOK
<1>5. Fresh'
  <2> SUFFICES ASSUME NEW c \in Conns, got'[c] # Nothing
               PROVE  \E v \in Workers : conn'[v] = c /\ pc'[v] \in Leaving
    BY DEF Fresh
  <2>1. CASE c = conn[w]
    BY <2>1, <1>4
  <2>2. CASE c # conn[w]
    <3>1. PICK v \in Workers : conn[v] = c /\ pc[v] \in Leaving
      BY <2>2 DEF IInv, Fresh
    <3> QED
      BY <3>1, <2>2, <1>3
  <2> QED
    BY <2>1, <2>2
<1>6. Keyed'
  BY DEF Keyed, Under
<1>7. ASSUME NEW v \in Workers \ {w}
      PROVE  Local(v)'
  <2>1. conn[v] # NoConn => conn[v] \in Conns \ {conn[w]}
    BY <1>3 DEF IInv, Typed, TypeOK
  <2> QED
    BY <2>1, <1>3, Elsewhere DEF IInv
<1> QED
  BY <1>1, <1>2, <1>5, <1>6, <1>7 DEF IInv

LEMMA Replied ==
  ASSUME IInv, NEW w \in Workers, pc[w] # "deq", NEW d \in Answers, MayReply(w, d)
  PROVE  /\ UNCHANGED <<client, ask>>
         /\ got' \in [Conns -> Answers]
         /\ got' = got \/ got' = [got EXCEPT ![conn[w]] = d]
         /\ \A c \in Conns \ {conn[w]} : got'[c] = got[c]
<1>1. got \in [Conns -> Answers]
  BY DEF IInv, Typed, TypeOK, Answers
<1>2. UNCHANGED <<client, ask>> /\ (got' = got \/ got' = [got EXCEPT ![conn[w]] = d])
  BY DEF MayReply, Reply, clients
<1> QED
  BY <1>1, <1>2

LEMMA Told == \A code \in {400, 502} : Status(code) \in Answers
BY DEF Answers

(* What a worker that serves a connection has in its variables.            *)
LEMMA Kinds ==
  ASSUME IInv, NEW w \in Workers
  PROVE  /\ got \in [Conns -> Answers] /\ call \in [Workers -> Calls]
         /\ pc \in [Workers -> Places]
         /\ datasz \in [Workers -> 0..MaxObject + 1]
         /\ answer \in [Workers -> Objects \cup {NoObject}]
         /\ Local(w)
         /\ DOMAIN contents \subseteq Hosts \X Locs
         /\ \A u \in DOMAIN contents : contents[u] \in Objects /\ Under(contents[u], u)
BY DEF IInv, Typed, TypeOK, Answers, Keyed

(* The request at hand names a server and a location.                      *)
LEMMA Asked ==
  ASSUME IInv, NEW w \in Workers, pc[w] # "deq", ask[conn[w]] # Bad
  PROVE  /\ ask[conn[w]].server \in Servers /\ ask[conn[w]].loc \in Locs
         /\ Uri(ask[conn[w]]) \in Hosts \X Locs
<1>1. ask[conn[w]] \in Requests
  BY Mine DEF IInv, Typed, TypeOK
<1>2. PICK s \in Servers, l \in Locs : ask[conn[w]] = Want(s, l)
  BY <1>1 DEF Requests
<1>3. ask[conn[w]].server = s /\ ask[conn[w]].loc = l
  BY <1>2 DEF Want
<1> QED
  BY <1>3, ProxyAssumption DEF Uri

-----------------------------------------------------------------------------
(* The steps of a worker                                                   *)

(* The steps that give up, with a status for the client or without, and    *)
(* those that wait for ever.                                               *)
LEMMA GivesUp ==
  ASSUME IInv, NEW w \in Workers, NEW p \in {"close", "stalled"},
         pc[w] \notin {"deq", "lookup", "found", "put"},
         pc' = [pc EXCEPT ![w] = p],
         UNCHANGED <<client, ask, buffer, conn, cache, up>>,
         datasz' \in [Workers -> 0..MaxObject + 1],
         \A v \in Workers \ {w} : datasz'[v] = datasz[v],
         got' \in [Conns -> Answers],
         \A c \in Conns \ {conn[w]} : got'[c] = got[c]
  PROVE  IInv'
<1>1. pc'[w] = p
  BY Kinds
<1>2. Local(w)'
  BY <1>1, Kinds, Mine DEF Local, Early, Relaying, cache
<1>3. p \in Places \ {"deq"} /\ p \in Leaving
  BY DEF Places, Leaving
<1> QED
  BY <1>2, <1>3, Kinds, Serving DEF cache

LEMMA StepReadBad ==
  ASSUME IInv, NEW w \in Workers, ReadBad(w)
  PROVE  IInv'
<1>1. /\ pc[w] \notin {"deq", "lookup", "found", "put"} /\ pc' = [pc EXCEPT ![w] = "close"]
      /\ MayReply(w, Status(400)) /\ UNCHANGED <<buffer, conn, datasz, cache, up>>
  BY DEF ReadBad, Goto
<1>2. Status(400) \in Answers
  BY Told
<1>3. /\ UNCHANGED <<client, ask>> /\ got' \in [Conns -> Answers]
      /\ \A c \in Conns \ {conn[w]} : got'[c] = got[c]
  BY <1>1, <1>2, Replied
<1>4. datasz' \in [Workers -> 0..MaxObject + 1] /\ \A v \in Workers \ {w} : datasz'[v] = datasz[v]
  BY <1>1, Kinds
<1> QED
  BY <1>1, <1>3, <1>4, GivesUp

LEMMA StepForwardFails ==
  ASSUME IInv, NEW w \in Workers, ForwardFails(w)
  PROVE  IInv'
<1>1. /\ pc[w] \notin {"deq", "lookup", "found", "put"} /\ pc' = [pc EXCEPT ![w] = "close"]
      /\ MayReply(w, Status(502)) /\ UNCHANGED <<buffer, conn, datasz, cache, up>>
  BY DEF ForwardFails, Goto
<1>2. Status(502) \in Answers
  BY Told
<1>3. /\ UNCHANGED <<client, ask>> /\ got' \in [Conns -> Answers]
      /\ \A c \in Conns \ {conn[w]} : got'[c] = got[c]
  BY <1>1, <1>2, Replied
<1>4. datasz' \in [Workers -> 0..MaxObject + 1] /\ \A v \in Workers \ {w} : datasz'[v] = datasz[v]
  BY <1>1, Kinds
<1> QED
  BY <1>1, <1>3, <1>4, GivesUp

LEMMA StepConnectFails ==
  ASSUME IInv, NEW w \in Workers, ConnectFails(w)
  PROVE  IInv'
<1>1. PICK code \in {400, 502} : MayReply(w, Status(code))
  BY DEF ConnectFails
<1>2. pc[w] = "connect" /\ Status(code) \in Answers
  BY Told DEF ConnectFails, Goto
<1>3. UNCHANGED <<client, ask>> /\ got' \in [Conns -> Answers]
        /\ \A c \in Conns \ {conn[w]} : got'[c] = got[c]
  BY <1>1, <1>2, Replied
<1> QED
  BY <1>2, <1>3, Kinds, GivesUp DEF ConnectFails, Goto

LEMMA StepRelayFails ==
  ASSUME IInv, NEW w \in Workers, RelayFails(w)
  PROVE  IInv'
BY Kinds, GivesUp DEF RelayFails, Goto, clients

(* The steps between the lookup and the relay, which only move the worker. *)
LEMMA MovesOnly ==
  ASSUME IInv, NEW w \in Workers, NEW p \in {"retry", "forward", "relay", "hung"},
         pc[w] \in {"connect", "retry", "forward", "relay"},
         p \in Early => pc[w] \in Early,
         pc' = [pc EXCEPT ![w] = p],
         UNCHANGED <<clients, buffer, conn, datasz, cache, up>>
  PROVE  IInv'
<1>1. pc'[w] = p /\ p \in Places \ {"deq"}
  BY Kinds DEF Places
<1>2. /\ ask[conn[w]] # Bad /\ (pc[w] \in Early => got[conn[w]] = Nothing /\ datasz[w] = 0)
      /\ (pc[w] \notin Early => Sent(w))
      /\ call[w] = Cache!NoCall /\ answer[w] = NoObject /\ conn[w] # NoConn
  BY Kinds DEF Local, Early, Relaying
<1>3. Sent(w)
  BY <1>2 DEF Sent
<1>4. Sent(w)'
  BY <1>3 DEF Sent, Origin, clients
<1>5. Local(w)'
  BY <1>1, <1>2, <1>4 DEF Local, Early, Relaying, clients, cache
<1>6. got'[conn[w]] # Nothing => p \in Leaving
  BY <1>2 DEF Early, Relaying, Leaving, clients
<1> QED
  BY <1>1, <1>5, <1>6, Kinds, Serving DEF clients, cache

LEMMA StepMoves ==
  ASSUME IInv, NEW w \in Workers,
         Connected(w) \/ Retry(w) \/ Forwarded(w) \/ Hang(w)
  PROVE  IInv'
<1> USE DEF Early, Goto
<1>1. CASE Connected(w)
  BY <1>1, MovesOnly DEF Connected
<1>2. CASE Retry(w)
  BY <1>2, MovesOnly DEF Retry
<1>3. CASE Forwarded(w)
  BY <1>3, MovesOnly DEF Forwarded
<1>4. CASE Hang(w)
  <2>1. /\ pc[w] \in {"forward", "relay"} /\ pc' = [pc EXCEPT ![w] = "hung"]
        /\ UNCHANGED <<clients, buffer, conn, datasz, cache, up>>
    BY <1>4 DEF Hang
  <2> QED
    BY <2>1, MovesOnly
<1> QED
  BY <1>1, <1>2, <1>3, <1>4

LEMMA StepReached ==
  ASSUME IInv, NEW w \in Workers, Reached(w)
  PROVE  IInv'
<1>1. CASE Goto(w, "retry", "forward") /\ UNCHANGED clients
  BY <1>1, MovesOnly DEF Reached, Goto, Early
<1>2. CASE Goto(w, "retry", "close") /\ MayReply(w, Status(502))
  <2>1. pc[w] = "retry" /\ Status(502) \in Answers
    BY <1>2, Told DEF Goto
  <2>2. UNCHANGED <<client, ask>> /\ got' \in [Conns -> Answers]
          /\ \A c \in Conns \ {conn[w]} : got'[c] = got[c]
    BY <1>2, <2>1, Replied
  <2> QED
    BY <1>2, <2>1, <2>2, Kinds, GivesUp DEF Reached, Goto
<1> QED
  BY <1>1, <1>2 DEF Reached

LEMMA StepReadGet ==
  ASSUME IInv, NEW w \in Workers, ReadGet(w)
  PROVE  IInv'
<1> DEFINE u == Uri(ask[conn[w]])
<1>1. /\ pc[w] = "read" /\ pc' = [pc EXCEPT ![w] = "lookup"] /\ ask[conn[w]] # Bad
      /\ call' = [call EXCEPT ![w] = Cache!Get(u)] /\ UNCHANGED <<contents, answer>>
      /\ UNCHANGED <<clients, buffer, conn, datasz, up>>
  BY DEF ReadGet, Goto, Cache!Begin
<1>2. u \in Hosts \X Locs /\ Cache!Get(u) \in Calls
  BY <1>1, Asked DEF Calls
<1>3. pc'[w] = "lookup" /\ call'[w] = Cache!Get(u) /\ call' \in [Workers -> Calls]
  BY <1>1, <1>2, Kinds
<1>4. got[conn[w]] = Nothing /\ datasz[w] = 0 /\ answer[w] = NoObject /\ conn[w] # NoConn
  BY <1>1, Kinds DEF Local, Early
<1>5. Local(w)'
  BY <1>1, <1>3, <1>4 DEF Local, Early, Relaying, clients
<1>6. "lookup" \in Places \ {"deq"}
  BY DEF Places
<1> QED
  BY <1>1, <1>3, <1>4, <1>5, <1>6, Kinds, Serving DEF clients

LEMMA StepLookup ==
  ASSUME IInv, NEW w \in Workers, Lookup(w)
  PROVE  IInv'
<1> DEFINE u == Uri(ask[conn[w]])
           o == IF u \in DOMAIN contents THEN contents[u] ELSE NoObject
<1>1. /\ pc[w] = "lookup" /\ pc' = [pc EXCEPT ![w] = "found"]
      /\ answer' = [answer EXCEPT ![w] = IF call[w].uri \in DOMAIN contents
                                         THEN contents[call[w].uri] ELSE NoObject]
      /\ call' = [call EXCEPT ![w] = Cache!Done] /\ contents' = contents
      /\ UNCHANGED <<clients, buffer, conn, datasz, up>>
  BY DEF Lookup, Goto, Cache!Lookup
<1>2. /\ call[w] = Cache!Get(u) /\ ask[conn[w]] # Bad /\ conn[w] # NoConn
      /\ got[conn[w]] = Nothing /\ datasz[w] = 0
  BY <1>1, Kinds DEF Local, Early
<1>3. call[w].uri = u
  BY <1>2 DEF Cache!Get
<1>4. o \in Objects \cup {NoObject} /\ (o # NoObject => Under(o, u))
  BY Kinds
<1>5. answer' = [answer EXCEPT ![w] = o]
  BY <1>1, <1>3
<1> HIDE DEF o
<1>6. pc'[w] = "found" /\ call'[w] = Cache!Done /\ call' \in [Workers -> Calls]
      /\ answer'[w] = o /\ answer' \in [Workers -> Objects \cup {NoObject}]
  BY <1>1, <1>4, <1>5, Kinds DEF Calls
<1>7. Under(answer'[w], Uri(ask'[conn'[w]])) <=> Under(o, u)
  BY <1>6, <1>1 DEF clients
<1>8. Local(w)'
  BY <1>1, <1>2, <1>4, <1>6, <1>7 DEF Local, Early, Relaying, clients, Under, Uri
<1>9. "found" \in Places \ {"deq"}
  BY DEF Places
<1> QED
  BY <1>1, <1>2, <1>5, <1>6, <1>8, <1>9, Kinds, Serving DEF clients

(* What was found is sent, or the client takes nothing of it.              *)
LEMMA HitEnds ==
  ASSUME IInv, NEW w \in Workers, NEW p \in {"close", "stalled"},
         pc[w] = "found", pc' = [pc EXCEPT ![w] = p], answer[w] # NoObject,
         MayReply(w, answer[w]), Cache!Return(w), UNCHANGED <<buffer, conn, datasz, up>>
  PROVE  IInv'
<1>1. /\ call' = [call EXCEPT ![w] = Cache!NoCall]
      /\ answer' = [answer EXCEPT ![w] = NoObject] /\ contents' = contents
  BY DEF Cache!Return
<1>2. answer[w] \in Answers
  BY Kinds DEF Answers
<1>3. UNCHANGED <<client, ask>> /\ got' \in [Conns -> Answers]
        /\ \A c \in Conns \ {conn[w]} : got'[c] = got[c]
  BY <1>2, Replied
<1>4. pc'[w] = p /\ call'[w] = Cache!NoCall /\ answer'[w] = NoObject
      /\ call' \in [Workers -> Calls] /\ answer' \in [Workers -> Objects \cup {NoObject}]
      /\ conn[w] # NoConn
  BY <1>1, Kinds, Mine DEF Calls
<1>5. Local(w)'
  BY <1>1, <1>4 DEF Local, Early, Relaying
<1>6. p \in Places \ {"deq"} /\ p \in Leaving
  BY DEF Places, Leaving
<1> QED
  BY <1>1, <1>3, <1>4, <1>5, <1>6, Kinds, Serving

LEMMA StepHit ==
  ASSUME IInv, NEW w \in Workers, Hit(w)
  PROVE  IInv'
BY HitEnds DEF Hit, Goto

LEMMA StepStall ==
  ASSUME IInv, NEW w \in Workers, Stall(w)
  PROVE  IInv'
<1>1. UNCHANGED <<clients, buffer, conn, datasz, up>>
  BY DEF Stall
<1>2. CASE \E from \in {"read", "forward", "relay"} :
             Goto(w, from, "stalled") /\ UNCHANGED cache
  BY <1>1, <1>2, Kinds, GivesUp DEF Goto, clients
<1>3. CASE Goto(w, "found", "stalled") /\ answer[w] # NoObject /\ Cache!Return(w)
  BY <1>1, <1>3, HitEnds DEF Goto, MayReply
<1> QED
  BY <1>2, <1>3 DEF Stall

LEMMA StepMiss ==
  ASSUME IInv, NEW w \in Workers, Miss(w)
  PROVE  IInv'
<1>1. /\ pc[w] = "found" /\ pc' = [pc EXCEPT ![w] = "connect"]
      /\ call' = [call EXCEPT ![w] = Cache!NoCall]
      /\ answer' = [answer EXCEPT ![w] = NoObject] /\ contents' = contents
      /\ UNCHANGED <<clients, buffer, conn, datasz, up>>
  BY DEF Miss, Goto, Cache!Return
<1>2. ask[conn[w]] # Bad /\ got[conn[w]] = Nothing /\ datasz[w] = 0 /\ conn[w] # NoConn
  BY <1>1, Kinds DEF Local, Early
<1>3. pc'[w] = "connect" /\ call'[w] = Cache!NoCall /\ answer'[w] = NoObject
      /\ call' \in [Workers -> Calls] /\ answer' \in [Workers -> Objects \cup {NoObject}]
  BY <1>1, Kinds DEF Calls
<1>4. Local(w)'
  BY <1>1, <1>2, <1>3 DEF Local, Early, Relaying, clients
<1>5. "connect" \in Places \ {"deq"}
  BY DEF Places
<1> QED
  BY <1>1, <1>2, <1>3, <1>4, <1>5, Kinds, Serving DEF clients

(* How far a worker has come with a response.                              *)
LEMMA Progress ==
  ASSUME IInv, NEW w \in Workers, pc[w] \in Relaying
  PROVE  \E n \in 0..MaxLen :
           /\ Relayed(w) = n /\ n <= LenOf[Origin(w)] /\ datasz[w] = Saved(n)
           /\ n = 0 => got[conn[w]] = Nothing
           /\ n > 0 => got[conn[w]] = Data(Origin(w), ask[conn[w]].loc, n)
<1>1. Sent(w) /\ ask[conn[w]] # Bad
  BY Kinds DEF Local, Relaying
<1>2. Origin(w) \in Servers
  BY <1>1, Asked DEF Origin, Relaying
<1>3. LenOf[Origin(w)] \in Nat /\ MaxLen \in Nat /\ MaxObject \in Nat
  BY <1>2, ProxyAssumption
<1>4. CASE got[conn[w]] = Nothing /\ datasz[w] = 0
  <2>1. Relayed(w) = 0
    BY <1>4 DEF Relayed, Nothing
  <2> QED
    BY <1>3, <1>4, <2>1 DEF Saved
<1>5. CASE \E n \in 1..MaxLen :
             /\ n <= LenOf[Origin(w)]
             /\ got[conn[w]] = Data(Origin(w), ask[conn[w]].loc, n)
             /\ datasz[w] = Saved(n)
  <2>1. PICK n \in 1..MaxLen :
             /\ n <= LenOf[Origin(w)]
             /\ got[conn[w]] = Data(Origin(w), ask[conn[w]].loc, n)
             /\ datasz[w] = Saved(n)
    BY <1>5
  <2>2. Relayed(w) = n
    BY <2>1 DEF Relayed, Data
  <2> QED
    BY <1>3, <2>1, <2>2
<1> QED
  BY <1>1, <1>4, <1>5 DEF Sent

(* Saving the next block keeps the account of what was saved.              *)
LEMMA SavesNext ==
  ASSUME NEW n \in Nat
  PROVE  Save(Saved(n)) = Saved(n + 1) /\ Saved(n + 1) \in 0..MaxObject + 1
BY ProxyAssumption DEF Save, Saved

LEMMA StepRelay ==
  ASSUME IInv, NEW w \in Workers, Relay(w)
  PROVE  IInv'
<1>1. /\ pc[w] = "relay" /\ Relayed(w) < LenOf[Origin(w)]
      /\ datasz' = [datasz EXCEPT ![w] = Save(datasz[w])]
      /\ UNCHANGED <<buffer, conn, cache, up>>
  BY DEF Relay
<1>2. PICK n \in 0..MaxLen :
        Relayed(w) = n /\ n <= LenOf[Origin(w)] /\ datasz[w] = Saved(n)
  BY <1>1, Progress DEF Relaying
<1>3. ask[conn[w]] # Bad /\ call[w] = Cache!NoCall /\ answer[w] = NoObject
        /\ conn[w] # NoConn /\ conn[w] \in Conns
  BY <1>1, Kinds, Mine DEF Local, Relaying
<1>4. Origin(w) \in Servers /\ ask[conn[w]].loc \in Locs
  BY <1>1, <1>3, Asked DEF Origin
<1>5. n + 1 \in 1..MaxLen /\ n + 1 <= LenOf[Origin(w)]
  <2>1. LenOf[Origin(w)] \in 0..MaxLen /\ MaxLen \in Nat
    BY <1>4, ProxyAssumption
  <2> QED
    BY <1>1, <1>2, <2>1
<1>6. datasz'[w] = Saved(n + 1) /\ datasz' \in [Workers -> 0..MaxObject + 1]
        /\ \A v \in Workers \ {w} : datasz'[v] = datasz[v]
  BY <1>1, <1>2, SavesNext, Kinds
<1>7. CASE Reply(w, Data(Origin(w), ask[conn[w]].loc, Relayed(w) + 1)) /\ pc' = pc
  <2> DEFINE d == Data(Origin(w), ask[conn[w]].loc, n + 1)
  <2>1. d \in Answers
    BY <1>4, <1>5, ProxyAssumption DEF Answers, Objects
  <2>2. got' = [got EXCEPT ![conn[w]] = d] /\ UNCHANGED <<client, ask>>
    BY <1>2, <1>7 DEF Reply
  <2>3. got' \in [Conns -> Answers] /\ got'[conn[w]] = d
          /\ \A c \in Conns \ {conn[w]} : got'[c] = got[c]
    <3> HIDE DEF d
    <3> QED
      BY <2>1, <2>2, <1>3, Kinds
  <2>4. Sent(w)'
    BY <1>1, <1>5, <1>6, <2>2, <2>3 DEF Sent, Origin
  <2>5. Local(w)'
    BY <1>1, <1>3, <1>7, <2>2, <2>4 DEF Local, Early, Relaying, cache
  <2>6. pc' = [pc EXCEPT ![w] = "relay"] /\ "relay" \in Places \ {"deq"}
    BY <1>1, <1>7, Kinds DEF Places
  <2> QED
    BY <1>1, <1>6, <2>2, <2>3, <2>5, <2>6, Kinds, Serving DEF cache, Relaying, Leaving
<1>8. CASE Goto(w, "relay", "close") /\ UNCHANGED clients
  BY <1>1, <1>6, <1>8, Kinds, GivesUp DEF Goto, clients
<1> QED
  BY <1>7, <1>8 DEF Relay

LEMMA StepRelayEnds ==
  ASSUME IInv, NEW w \in Workers, RelayEnds(w)
  PROVE  IInv'
<1>1. pc[w] = "relay" /\ UNCHANGED <<clients, buffer, conn, datasz, up>>
  BY DEF RelayEnds, Goto
<1>2. CASE datasz[w] <= MaxObject
  <2> DEFINE u == Uri(ask[conn[w]])
             o == Data(Origin(w), ask[conn[w]].loc, datasz[w])
  <2>1. /\ pc' = [pc EXCEPT ![w] = "put"]
        /\ call' = [call EXCEPT ![w] = Cache!Put(u, o)] /\ UNCHANGED <<contents, answer>>
    BY <1>2 DEF RelayEnds, Goto, Cache!Begin
  <2>2. ask[conn[w]] # Bad /\ Sent(w) /\ answer[w] = NoObject /\ conn[w] # NoConn
    BY <1>1, Kinds DEF Local, Relaying
  <2>3. PICK n \in 0..MaxLen : n <= LenOf[Origin(w)] /\ datasz[w] = Saved(n)
    BY <1>1, Progress DEF Relaying
  <2>4. datasz[w] \in 0..MaxLen
    BY <1>2, <2>3, ProxyAssumption DEF Saved
  <2>5. u \in Hosts \X Locs /\ o \in Objects
    BY <1>1, <2>2, <2>4, Asked DEF Objects, Origin
  <2>6. Cache!Put(u, o) \in Calls
    BY <2>5 DEF Calls
  <2>7. pc'[w] = "put" /\ call'[w] = Cache!Put(u, o) /\ call' \in [Workers -> Calls]
          /\ \A v \in Workers \ {w} : call'[v] = call[v]
    BY <2>1, <2>6, Kinds
  <2>8. Sent(w)' /\ Putting(w)'
    BY <1>1, <1>2, <2>2, <2>7 DEF Sent, Putting, Origin, clients
  <2>9. Local(w)'
    BY <1>1, <2>1, <2>2, <2>7, <2>8 DEF Local, Early, Relaying, clients
  <2>10. "put" \in Places \ {"deq"}
    BY DEF Places
  <2> QED
    BY <1>1, <2>1, <2>7, <2>9, <2>10, Kinds, Serving DEF clients, Relaying, Leaving
<1>3. CASE ~(datasz[w] <= MaxObject)
  <2>1. pc' = [pc EXCEPT ![w] = "close"] /\ UNCHANGED cache
    BY <1>3 DEF RelayEnds, Goto
  <2> QED
    BY <1>1, <2>1, Kinds, GivesUp DEF clients
<1> QED
  BY <1>2, <1>3

LEMMA StepPut ==
  ASSUME IInv, NEW w \in Workers, Put(w)
  PROVE  IInv'
<1> DEFINE u == Uri(ask[conn[w]])
           o == Data(Origin(w), ask[conn[w]].loc, datasz[w])
<1>1. /\ pc[w] = "put" /\ call[w].op = "put" /\ UNCHANGED <<clients, buffer, workers, up>>
      /\ call' = [call EXCEPT ![w] = Cache!Done] /\ answer' = answer
  BY DEF Put, Cache!Store, Cache!Keep
<1>2. call[w] # Cache!Done
  BY <1>1 DEF Cache!Done
<1>3. /\ ask[conn[w]] # Bad /\ Sent(w) /\ answer[w] = NoObject /\ conn[w] # NoConn
      /\ call[w] = Cache!Put(u, o)
  BY <1>1, <1>2, Kinds DEF Local, Relaying, Putting
<1>4. call[w].uri = u /\ call[w].obj = o
  BY <1>3 DEF Cache!Put
<1>5. u \in Hosts \X Locs
  BY <1>1, <1>3, Asked
<1>6. o \in Objects /\ Under(o, u)
  <2>1. PICK n \in 0..MaxLen : n <= LenOf[Origin(w)] /\ datasz[w] = Saved(n)
    BY <1>1, Progress DEF Relaying
  <2>2. datasz[w] <= MaxObject
    BY <1>1, <1>2, Kinds DEF Local, Putting
  <2>3. datasz[w] \in 0..MaxLen
    BY <2>1, <2>2, ProxyAssumption DEF Saved
  <2>4. o \in Objects
    BY <1>1, <1>3, <2>3, Asked DEF Objects, Origin
  <2>5. o.server = Origin(w) /\ o.loc = ask[conn[w]].loc
    BY DEF Data
  <2> QED
    BY <2>4, <2>5 DEF Under, Uri, Origin
<1> HIDE DEF u, o
<1>7. /\ DOMAIN contents' \subseteq Hosts \X Locs
      /\ \A v \in DOMAIN contents' : contents'[v] \in Objects /\ Under(contents'[v], v)
  <2>1. CASE Cache!Store(w)
    <3>1. contents' = [v \in DOMAIN contents \cup {u} |-> IF v = u THEN o ELSE contents[v]]
      BY <2>1, <1>4 DEF Cache!Store
    <3> QED
      BY <3>1, <1>5, <1>6, Kinds
  <2>2. CASE Cache!Keep(w)
    BY <2>2, Kinds DEF Cache!Keep
  <2> QED
    BY <2>1, <2>2 DEF Put
<1>8. call'[w] = Cache!Done /\ call' \in [Workers -> Calls]
        /\ \A v \in Workers \ {w} : call'[v] = call[v]
  BY <1>1, Kinds DEF Calls
<1>9. Sent(w)'
  BY <1>1, <1>3 DEF Sent, Origin, clients, workers
<1>10. Local(w)'
  BY <1>1, <1>3, <1>8, <1>9 DEF Local, Early, Relaying, clients, workers
<1>11. pc' = [pc EXCEPT ![w] = "put"] /\ "put" \in Places \ {"deq"}
  BY <1>1, Kinds DEF Places, workers
<1> QED
  BY <1>1, <1>7, <1>8, <1>10, <1>11, Kinds, Serving DEF clients, workers, Relaying, Leaving

LEMMA StepPutReturns ==
  ASSUME IInv, NEW w \in Workers, PutReturns(w)
  PROVE  IInv'
<1>1. /\ pc[w] = "put" /\ pc' = [pc EXCEPT ![w] = "close"]
      /\ call' = [call EXCEPT ![w] = Cache!NoCall]
      /\ answer' = [answer EXCEPT ![w] = NoObject] /\ contents' = contents
      /\ UNCHANGED <<clients, buffer, conn, datasz, up>>
  BY DEF PutReturns, Goto, Cache!Return
<1>2. pc'[w] = "close" /\ call'[w] = Cache!NoCall /\ answer'[w] = NoObject
      /\ call' \in [Workers -> Calls] /\ answer' \in [Workers -> Objects \cup {NoObject}]
      /\ conn[w] # NoConn
  BY <1>1, Kinds, Mine DEF Calls
<1>3. Local(w)'
  BY <1>1, <1>2 DEF Local, Early, Relaying
<1>4. "close" \in Places \ {"deq"} /\ "close" \in Leaving
  BY DEF Places, Leaving
<1> QED
  BY <1>1, <1>2, <1>3, <1>4, Kinds, Serving DEF clients

-----------------------------------------------------------------------------
(* The steps that pass a connection on                                     *)

Items == [conn : Conns, intact : BOOLEAN]

LEMMA QueueFacts ==
  ASSUME IInv
  PROVE  /\ queue \in Seq(Items) /\ Len(queue) \in Nat /\ DOMAIN queue = 1..Len(queue)
         /\ \A i \in DOMAIN queue : queue[i] \in Items /\ queue[i].conn \in Conns
         /\ hand \in Conns \cup {NoConn}
<1>1. queue \in Seq(Items) /\ hand \in Conns \cup {NoConn}
  BY DEF IInv, Typed, TypeOK, Items
<1>2. Len(queue) \in Nat /\ DOMAIN queue = 1..Len(queue)
        /\ \A i \in DOMAIN queue : queue[i] \in Items
  BY <1>1
<1>3. \A q \in Items : q.conn \in Conns
  BY DEF Items
<1> QED
  BY <1>1, <1>2, <1>3

(* A connection that no worker serves has got nothing.                     *)
LEMMA Unserved ==
  ASSUME IInv, NEW c \in Conns, c \notin Served
  PROVE  got[c] = Nothing
<1> SUFFICES ASSUME got[c] # Nothing
             PROVE  FALSE
  OBVIOUS
<1>1. PICK w \in Workers : conn[w] = c
  BY DEF IInv, Fresh
<1>2. c # NoConn
  BY ProxyAssumption
<1> QED
  BY <1>1, <1>2 DEF Served

(* The connections at the front of the buffer and behind it.               *)
LEMMA FrontQueue ==
  ASSUME IInv, queue # <<>>
  PROVE  /\ Head(queue) = queue[1] /\ 1 \in DOMAIN queue
         /\ Tail(queue) \in Seq(Items) /\ Len(Tail(queue)) = Len(queue) - 1
         /\ DOMAIN Tail(queue) = 1..Len(queue) - 1
         /\ \A i \in DOMAIN Tail(queue) : Tail(queue)[i] = queue[i + 1] /\ i + 1 \in DOMAIN queue
         /\ Queued = {queue[1].conn} \cup {Tail(queue)[i].conn : i \in DOMAIN Tail(queue)}
<1>1. Len(queue) \in Nat \ {0} /\ queue \in Seq(Items) /\ DOMAIN queue = 1..Len(queue)
  BY QueueFacts
<1>2. /\ Head(queue) = queue[1] /\ 1 \in DOMAIN queue
      /\ Tail(queue) \in Seq(Items) /\ Len(Tail(queue)) = Len(queue) - 1
      /\ DOMAIN Tail(queue) = 1..Len(queue) - 1
      /\ \A i \in 1..Len(queue) - 1 : Tail(queue)[i] = queue[i + 1] /\ i + 1 \in DOMAIN queue
  BY <1>1
<1>3. \A i \in DOMAIN queue : i = 1 \/ (i - 1 \in DOMAIN Tail(queue) /\ Tail(queue)[i - 1] = queue[i])
  <2> SUFFICES ASSUME NEW i \in 1..Len(queue), i # 1
               PROVE  i - 1 \in DOMAIN Tail(queue) /\ Tail(queue)[i - 1] = queue[i]
    BY <1>1
  <2>1. i - 1 \in 1..Len(queue) - 1 /\ (i - 1) + 1 = i
    BY <1>1
  <2> QED
    BY <2>1, <1>2
<1>4. Queued = {queue[1].conn} \cup {Tail(queue)[i].conn : i \in DOMAIN Tail(queue)}
  <2>1. \A i \in DOMAIN queue :
          queue[i].conn \in {queue[1].conn} \cup {Tail(queue)[j].conn : j \in DOMAIN Tail(queue)}
    BY <1>3
  <2>2. \A i \in DOMAIN Tail(queue) : Tail(queue)[i].conn \in Queued
    BY <1>2 DEF Queued
  <2> QED
    BY <1>2, <2>1, <2>2 DEF Queued
<1> QED
  BY <1>2, <1>4

LEMMA StepDeq ==
  ASSUME IInv, NEW w \in Workers, Deq(w)
  PROVE  IInv'
<1> DEFINE c == queue[1].conn
<1>1. /\ pc[w] = "deq" /\ pc' = [pc EXCEPT ![w] = "read"] /\ queue # <<>>
      /\ conn' = [conn EXCEPT ![w] = Head(queue).conn] /\ queue' = Tail(queue)
      /\ up' = Head(queue).intact
      /\ UNCHANGED <<clients, hand, datasz, cache>>
  BY DEF Deq, Goto
<1>2. /\ Head(queue) = queue[1] /\ 1 \in DOMAIN queue
      /\ Tail(queue) \in Seq(Items) /\ Len(Tail(queue)) = Len(queue) - 1
      /\ DOMAIN Tail(queue) = 1..Len(queue) - 1
      /\ \A i \in DOMAIN Tail(queue) : Tail(queue)[i] = queue[i + 1] /\ i + 1 \in DOMAIN queue
      /\ Queued = {c} \cup {Tail(queue)[i].conn : i \in DOMAIN Tail(queue)}
  BY <1>1, FrontQueue
<1>3. queue[1] \in Items /\ c \in Conns /\ c # NoConn /\ c \in Queued
  BY <1>2, QueueFacts, ProxyAssumption
<1>4. c \notin Served /\ c # hand /\ client[c] = "open" /\ got[c] = Nothing
  <2>1. c \notin Served /\ c # hand /\ client[c] = "open"
    BY <1>3 DEF IInv, Owned
  <2> QED
    BY <2>1, <1>3, Unserved
<1>5. pc'[w] = "read" /\ conn'[w] = c /\ conn[w] = NoConn
        /\ \A v \in Workers \ {w} : pc'[v] = pc[v] /\ conn'[v] = conn[v]
  BY <1>1, <1>2, Kinds DEF Local, IInv, Typed, TypeOK
<1>6. Typed'
  <2>1. Head(queue).intact \in BOOLEAN
    BY <1>2, <1>3 DEF Items
  <2>2. pc' \in [Workers -> Places] /\ conn' \in [Workers -> Conns \cup {NoConn}]
    BY <1>1, <1>2, <1>3 DEF IInv, Typed, TypeOK, Places
  <2>3. queue' \in Seq([conn : Conns, intact : BOOLEAN]) /\ Len(queue') <= N
    BY <1>1, <1>2, QueueFacts, ProxyAssumption DEF IInv, Typed, TypeOK, Items
  <2> QED
    BY <1>1, <2>1, <2>2, <2>3 DEF IInv, Typed, TypeOK, clients, cache
<1>7. Owned'
  <2>1. Queued' = {Tail(queue)[i].conn : i \in DOMAIN Tail(queue)}
    BY <1>1 DEF Queued
  <2>2. c \notin Queued'
    <3>1. \A i \in DOMAIN Tail(queue) : i + 1 # 1
      BY <1>2, QueueFacts
    <3>2. \A i \in DOMAIN Tail(queue) : Tail(queue)[i].conn # c
      BY <1>2, <3>1 DEF IInv, Owned
    <3> QED
      BY <2>1, <3>2
  <2>3. Served' = Served \cup {c}
    <3>1. \A v \in Workers : conn'[v] = IF v = w THEN c ELSE conn[v]
      BY <1>5
    <3>2. Served' \subseteq Served \cup {c}
      BY <3>1 DEF Served
    <3>3. Served \cup {c} \subseteq Served'
      BY <3>1, <1>3, <1>5 DEF Served
    <3> QED
      BY <3>2, <3>3
  <2>4. \A i, j \in DOMAIN queue' : queue'[i].conn = queue'[j].conn => i = j
    <3> SUFFICES ASSUME NEW i \in DOMAIN Tail(queue), NEW j \in DOMAIN Tail(queue),
                        Tail(queue)[i].conn = Tail(queue)[j].conn
                 PROVE  i = j
      BY <1>1
    <3>1. i + 1 = j + 1
      BY <1>2 DEF IInv, Owned
    <3> QED
      BY <3>1, <1>2, QueueFacts
  <2>5. \A u, v \in Workers : conn'[u] = conn'[v] /\ conn'[u] # NoConn => u = v
    <3>1. \A v \in Workers : conn[v] # c
      BY <1>3, <1>4 DEF Served
    <3> QED
      BY <1>5, <3>1 DEF IInv, Owned
  <2>6. Queued = {c} \cup Queued'
    BY <1>2, <2>1
  <2>7. UNCHANGED <<client, hand>> /\ Owned
    BY <1>1 DEF clients, IInv
  <2> QED
    BY <1>4, <2>2, <2>3, <2>4, <2>5, <2>6, <2>7 DEF Owned
<1>8. Fresh'
  <2> SUFFICES ASSUME NEW d \in Conns, got[d] # Nothing
               PROVE  \E v \in Workers : conn'[v] = d /\ pc'[v] \in Leaving
    BY <1>1 DEF Fresh, clients
  <2>1. PICK v \in Workers : conn[v] = d /\ pc[v] \in Leaving
    BY DEF IInv, Fresh
  <2>2. v # w
    BY <2>1, <1>1 DEF Relaying, Leaving
  <2> QED
    BY <2>1, <2>2, <1>5
<1>9. Keyed'
  BY <1>1 DEF IInv, Keyed, Under, cache
<1>10. Local(w)'
  <2>1. datasz[w] = 0 /\ call[w] = Cache!NoCall /\ answer[w] = NoObject
    BY <1>1, Kinds DEF Local
  <2> QED
    BY <1>1, <1>3, <1>4, <1>5, <2>1 DEF Local, Early, Relaying, clients, cache
<1>11. ASSUME NEW v \in Workers \ {w}
       PROVE  Local(v)'
  BY <1>1, <1>5, Kinds, Elsewhere DEF clients, cache
<1> QED
  BY <1>6, <1>7, <1>8, <1>9, <1>10, <1>11 DEF IInv

LEMMA StepClose ==
  ASSUME IInv, NEW w \in Workers, Close(w)
  PROVE  IInv'
<1> DEFINE c == conn[w]
<1>1. /\ pc[w] = "close" /\ pc' = [pc EXCEPT ![w] = "deq"]
      /\ client' = [client EXCEPT ![c] = "closed"] /\ ask' = [ask EXCEPT ![c] = Bad]
      /\ got' = [got EXCEPT ![c] = Nothing] /\ conn' = [conn EXCEPT ![w] = NoConn]
      /\ datasz' = [datasz EXCEPT ![w] = 0]
      /\ UNCHANGED <<buffer, cache, up>>
  BY DEF Close, Goto
<1>2. c \in Conns /\ c # NoConn /\ client[c] = "open" /\ \A v \in Workers \ {w} : conn[v] # c
  BY <1>1, Mine
<1>3. c \in Served
  BY <1>2 DEF Served
<1>4. Typed'
  <2>1. ask' \in [Conns -> Requests]
    <3>1. Bad \in Requests /\ ask \in [Conns -> Requests]
      BY DEF IInv, Typed, TypeOK, Requests
    <3> QED
      BY <3>1, <1>1
  <2>4. client' \in [Conns -> {"none", "connecting", "open", "abandoned", "closed"}]
    BY <1>1 DEF IInv, Typed, TypeOK
  <2>2. got' \in [Conns -> Answers]
    <3>1. got \in [Conns -> Answers]
      BY Kinds
    <3>2. Nothing \in Answers
      BY DEF Answers
    <3> QED
      BY <1>1, <3>1, <3>2
  <2>3. pc' \in [Workers -> Places] /\ conn' \in [Workers -> Conns \cup {NoConn}]
          /\ datasz' \in [Workers -> 0..MaxObject + 1]
    BY <1>1, ProxyAssumption DEF IInv, Typed, TypeOK, Places
  <2> QED
    BY <1>1, <2>1, <2>2, <2>3, <2>4 DEF IInv, Typed, TypeOK, Answers, buffer, cache
<1>5. pc'[w] = "deq" /\ conn'[w] = NoConn /\ datasz'[w] = 0
        /\ \A v \in Workers \ {w} : pc'[v] = pc[v] /\ conn'[v] = conn[v] /\ datasz'[v] = datasz[v]
  BY <1>1 DEF IInv, Typed, TypeOK
<1>6. \A d \in Conns \ {c} : client'[d] = client[d] /\ ask'[d] = ask[d] /\ got'[d] = got[d]
  BY <1>1 DEF IInv, Typed, TypeOK
<1>7. client'[c] = "closed" /\ got'[c] = Nothing
  BY <1>1, <1>2 DEF IInv, Typed, TypeOK
<1>8. Owned'
  <2>1. Queued' = Queued /\ hand' = hand /\ queue' = queue
    BY <1>1 DEF Queued, buffer
  <2>2. Served' = Served \ {c}
    <3>1. \A v \in Workers : conn'[v] = IF v = w THEN NoConn ELSE conn[v]
      BY <1>5
    <3>2. \A v \in Workers \ {w} : conn[v] # c
      BY <1>2
    <3> QED
      BY <3>1, <3>2, <1>2 DEF Served
  <2>3. {d \in Conns : client'[d] = "open"} = {d \in Conns : client[d] = "open"} \ {c}
    BY <1>6, <1>7
  <2>4. \A u, v \in Workers : conn'[u] = conn'[v] /\ conn'[u] # NoConn => u = v
    BY <1>5 DEF IInv, Owned
  <2>5. Owned
    BY DEF IInv
  <2> QED
    BY <2>1, <2>2, <2>3, <2>4, <2>5, <1>3 DEF Owned
<1>9. Fresh'
  <2> SUFFICES ASSUME NEW d \in Conns, got'[d] # Nothing
               PROVE  \E v \in Workers : conn'[v] = d /\ pc'[v] \in Leaving
    BY DEF Fresh
  <2>1. d # c /\ got[d] # Nothing
    BY <1>6, <1>7
  <2>2. PICK v \in Workers : conn[v] = d /\ pc[v] \in Leaving
    BY <2>1 DEF IInv, Fresh
  <2> QED
    BY <2>1, <2>2, <1>5
<1>10. Keyed'
  BY <1>1 DEF IInv, Keyed, Under, cache
<1>11. Local(w)'
  <2>1. call[w] = Cache!NoCall /\ answer[w] = NoObject
    BY <1>1, Kinds DEF Local
  <2> QED
    BY <1>1, <1>5, <2>1 DEF Local, Early, Relaying, cache
<1>12. ASSUME NEW v \in Workers \ {w}
       PROVE  Local(v)'
  <2>1. conn[v] # NoConn => conn[v] \in Conns \ {c}
    BY <1>2 DEF IInv, Typed, TypeOK
  <2> QED
    BY <2>1, <1>1, <1>5, <1>6, Kinds, Elsewhere DEF cache
<1> QED
  BY <1>4, <1>8, <1>9, <1>10, <1>11, <1>12 DEF IInv

(* The steps that no worker takes: those that change nothing a worker that *)
(* serves a connection looks at.                                           *)
LEMMA NoWorker ==
  ASSUME IInv, UNCHANGED <<workers, call, answer>>,
         \A c \in Served : ask'[c] = ask[c] /\ got'[c] = got[c]
  PROVE  \A w \in Workers : Local(w)'
<1> SUFFICES ASSUME NEW w \in Workers
             PROVE  Local(w)'
  OBVIOUS
<1>1. conn[w] # NoConn => conn[w] \in Served
  BY DEF Served
<1> QED
  BY <1>1, Kinds, Elsewhere DEF workers

LEMMA StepConnect ==
  ASSUME IInv, NEW c \in Conns, NEW r \in Requests, Connect(c, r)
  PROVE  IInv'
<1>1. /\ client[c] = "none" /\ client' = [client EXCEPT ![c] = "connecting"]
      /\ ask' = [ask EXCEPT ![c] = r] /\ UNCHANGED <<got, buffer, workers, cache, up>>
  BY DEF Connect
<1>2. c \notin Served
  BY <1>1 DEF IInv, Owned
<1>3. Typed'
  BY <1>1 DEF IInv, Typed, TypeOK, buffer, workers, cache
<1>4. {d \in Conns : client'[d] = "open"} = {d \in Conns : client[d] = "open"}
  BY <1>1 DEF IInv, Typed, TypeOK
<1>5. UNCHANGED <<Queued, Served, hand, queue, conn>>
  BY <1>1 DEF Queued, Served, buffer, workers
<1>6. Owned'
  BY <1>4, <1>5 DEF IInv, Owned
<1>7. Fresh' /\ Keyed'
  BY <1>1 DEF IInv, Fresh, Keyed, Under, workers, cache
<1>8. \A w \in Workers : Local(w)'
  <2>1. \A d \in Served : ask'[d] = ask[d] /\ got'[d] = got[d]
    BY <1>1, <1>2 DEF IInv, Typed, TypeOK, Served
  <2> QED
    BY <1>1, <2>1, NoWorker DEF cache
<1> QED
  BY <1>3, <1>6, <1>7, <1>8 DEF IInv

LEMMA StepAccept ==
  ASSUME IInv, NEW c \in Conns, Accept(c)
  PROVE  IInv'
<1>1. /\ hand = NoConn /\ client[c] = "connecting"
      /\ client' = [client EXCEPT ![c] = "open"] /\ hand' = c
      /\ UNCHANGED <<ask, got, queue, workers, cache, up>>
  BY DEF Accept
<1>2. c \notin Served \cup Queued
  BY <1>1 DEF IInv, Owned
<1>3. Typed'
  BY <1>1 DEF IInv, Typed, TypeOK, workers, cache
<1>4. {d \in Conns : client'[d] = "open"} = {d \in Conns : client[d] = "open"} \cup {c}
  BY <1>1 DEF IInv, Typed, TypeOK
<1>5. UNCHANGED <<Queued, Served, queue, conn>>
  BY <1>1 DEF Queued, Served, workers
<1>6. c # NoConn /\ Owned
  BY ProxyAssumption DEF IInv
<1>7. Owned'
  BY <1>1, <1>2, <1>4, <1>5, <1>6 DEF Owned
<1>8. Fresh' /\ Keyed'
  BY <1>1 DEF IInv, Fresh, Keyed, Under, workers, cache
<1>9. \A w \in Workers : Local(w)'
  BY <1>1, NoWorker DEF cache
<1> QED
  BY <1>3, <1>7, <1>8, <1>9 DEF IInv

LEMMA StepAcceptFails ==
  ASSUME IInv, NEW c \in Conns, AcceptFails(c)
  PROVE  IInv'
<1>1. /\ hand = NoConn /\ client[c] = "connecting"
      /\ client' = [client EXCEPT ![c] = "abandoned"] /\ ask' = [ask EXCEPT ![c] = Bad]
      /\ UNCHANGED <<got, buffer, workers, cache, up>>
  BY DEF AcceptFails
<1>2. c \notin Served
  BY <1>1 DEF IInv, Owned
<1>3. Typed'
  <2>1. ask' \in [Conns -> Requests]
    <3>1. Bad \in Requests /\ ask \in [Conns -> Requests]
      BY DEF IInv, Typed, TypeOK, Requests
    <3> QED
      BY <3>1, <1>1
  <2> QED
    BY <1>1, <2>1 DEF IInv, Typed, TypeOK, buffer, workers, cache
<1>4. {d \in Conns : client'[d] = "open"} = {d \in Conns : client[d] = "open"}
  BY <1>1 DEF IInv, Typed, TypeOK
<1>5. UNCHANGED <<Queued, Served, hand, queue, conn>>
  BY <1>1 DEF Queued, Served, buffer, workers
<1>6. Owned'
  BY <1>4, <1>5 DEF IInv, Owned
<1>7. Fresh' /\ Keyed'
  BY <1>1 DEF IInv, Fresh, Keyed, Under, workers, cache
<1>8. \A w \in Workers : Local(w)'
  <2>1. \A d \in Served : ask'[d] = ask[d] /\ got'[d] = got[d]
    BY <1>1, <1>2 DEF IInv, Typed, TypeOK, Served
  <2> QED
    BY <1>1, <2>1, NoWorker DEF cache
<1> QED
  BY <1>3, <1>6, <1>7, <1>8 DEF IInv

(* The main thread is interrupted, or nothing happens.                     *)
LEMMA Unchanged ==
  ASSUME IInv, UNCHANGED <<clients, buffer, workers, cache>>, up' \in BOOLEAN
  PROVE  IInv'
<1>1. Typed'
  BY DEF IInv, Typed, TypeOK, clients, buffer, workers, cache
<1>2. UNCHANGED <<Queued, Served, hand, queue, conn, client>>
  BY DEF Queued, Served, clients, buffer, workers
<1>3. Owned'
  BY <1>2 DEF IInv, Owned
<1>4. Fresh' /\ Keyed'
  BY DEF IInv, Fresh, Keyed, Under, clients, workers, cache
<1>5. \A w \in Workers : Local(w)'
  BY NoWorker DEF clients, cache
<1> QED
  BY <1>1, <1>3, <1>4, <1>5 DEF IInv

LEMMA StepEnq ==
  ASSUME IInv, Enq
  PROVE  IInv'
<1> DEFINE damaged == [i \in DOMAIN queue |-> [queue[i] EXCEPT !.intact = FALSE]]
           it == [conn |-> hand, intact |-> TRUE]
<1>1. /\ hand # NoConn /\ Len(queue) < N /\ hand' = NoConn
      /\ UNCHANGED <<clients, workers, cache, up>>
  BY DEF Enq
<1>2. PICK older \in {queue, damaged} : queue' = Append(older, it)
  BY DEF Enq
<1>3. /\ queue \in Seq(Items) /\ Len(queue) \in Nat /\ DOMAIN queue = 1..Len(queue)
      /\ \A i \in DOMAIN queue : queue[i] \in Items
      /\ hand \in Conns
  BY <1>1, QueueFacts
<1>4. it \in Items /\ it.conn = hand
  BY <1>3 DEF Items
<1>5. /\ older \in Seq(Items) /\ Len(older) = Len(queue)
      /\ \A i \in 1..Len(queue) : older[i].conn = queue[i].conn
  <2>1. CASE older = queue
    BY <2>1, <1>3
  <2>2. CASE older = damaged
    <3>1. \A i \in 1..Len(queue) : /\ [queue[i] EXCEPT !.intact = FALSE] \in Items
                                   /\ [queue[i] EXCEPT !.intact = FALSE].conn = queue[i].conn
      BY <1>3 DEF Items
    <3>2. damaged \in [1..Len(queue) -> Items]
      BY <1>3, <3>1
    <3>3. damaged \in Seq(Items) /\ Len(damaged) = Len(queue)
      BY <1>3, <3>2
    <3> QED
      BY <2>2, <1>3, <3>1, <3>3
  <2> QED
    BY <2>1, <2>2
<1> HIDE DEF it, damaged
<1>6. /\ queue' \in Seq(Items) /\ Len(queue') = Len(queue) + 1
      /\ DOMAIN queue' = 1..Len(queue) + 1
      /\ \A i \in 1..Len(queue) : queue'[i].conn = queue[i].conn
      /\ queue'[Len(queue) + 1].conn = hand
  BY <1>2, <1>3, <1>4, <1>5
<1>7. hand \notin Queued \cup Served
  BY DEF IInv, Owned
<1>8. Typed'
  <2>1. Len(queue') <= N
    BY <1>1, <1>3, <1>6, ProxyAssumption
  <2> QED
    BY <1>1, <1>6, <2>1 DEF IInv, Typed, TypeOK, Items, clients, workers, cache
<1>9. Owned'
  <2>1. Queued' = Queued \cup {hand}
    <3>1. \A i \in DOMAIN queue' : queue'[i].conn \in Queued \cup {hand}
      <4> SUFFICES ASSUME NEW i \in 1..Len(queue) + 1
                   PROVE  queue'[i].conn \in Queued \cup {hand}
        BY <1>6
      <4>1. i \in 1..Len(queue) \/ i = Len(queue) + 1
        BY <1>3
      <4> QED
        BY <4>1, <1>3, <1>6 DEF Queued
    <3>2. \A i \in DOMAIN queue : queue[i].conn \in Queued'
      <4> SUFFICES ASSUME NEW i \in 1..Len(queue)
                   PROVE  queue[i].conn \in Queued'
        BY <1>3
      <4>1. i \in DOMAIN queue' /\ queue'[i].conn = queue[i].conn
        BY <1>3, <1>6
      <4> QED
        BY <4>1 DEF Queued
    <3>3. hand \in Queued'
      <4>1. Len(queue) + 1 \in DOMAIN queue'
        BY <1>3, <1>6
      <4> QED
        BY <4>1, <1>6 DEF Queued
    <3> QED
      BY <3>1, <3>2, <3>3 DEF Queued
  <2>2. \A i, j \in DOMAIN queue' : queue'[i].conn = queue'[j].conn => i = j
    <3> SUFFICES ASSUME NEW i \in 1..Len(queue) + 1, NEW j \in 1..Len(queue) + 1,
                        queue'[i].conn = queue'[j].conn
                 PROVE  i = j
      BY <1>6
    <3>1. \A k \in 1..Len(queue) : queue'[k].conn # hand
      BY <1>3, <1>6, <1>7 DEF Queued
    <3>2. (i \in 1..Len(queue) \/ i = Len(queue) + 1) /\ (j \in 1..Len(queue) \/ j = Len(queue) + 1)
      BY <1>3
    <3> QED
      BY <3>1, <3>2, <1>3, <1>6 DEF IInv, Owned
  <2>3. UNCHANGED <<client, conn, Served>>
    BY <1>1 DEF clients, workers, Served
  <2>4. NoConn \notin Queued' \cup Served
    BY <1>3, <2>1, QueueFacts, ProxyAssumption DEF Queued, Served
  <2>5. Owned
    BY DEF IInv
  <2> QED
    BY <1>1, <1>7, <2>1, <2>2, <2>3, <2>4, <2>5 DEF Owned
<1>10. Fresh' /\ Keyed'
  BY <1>1 DEF IInv, Fresh, Keyed, Under, clients, workers, cache
<1>11. \A w \in Workers : Local(w)'
  BY <1>1, NoWorker DEF clients, cache
<1> QED
  BY <1>8, <1>9, <1>10, <1>11 DEF IInv

LEMMA StepEvict ==
  ASSUME IInv, NEW u \in Hosts \X Locs, Evict(u)
  PROVE  IInv'
<1>1. /\ contents' = [v \in DOMAIN contents \ {u} |-> contents[v]]
      /\ UNCHANGED <<call, answer>> /\ UNCHANGED <<clients, buffer, workers, up>>
  BY DEF Evict, Cache!Evict
<1>2. /\ DOMAIN contents' \subseteq DOMAIN contents
      /\ \A v \in DOMAIN contents' : contents'[v] = contents[v]
  BY <1>1
<1>3. Typed' /\ Keyed'
  BY <1>1, <1>2 DEF IInv, Typed, TypeOK, Keyed, Under, clients, buffer, workers
<1>4. UNCHANGED <<Queued, Served, hand, queue, conn, client>>
  BY <1>1 DEF Queued, Served, clients, buffer, workers
<1>5. Owned'
  BY <1>4 DEF IInv, Owned
<1>6. Fresh'
  BY <1>1 DEF IInv, Fresh, clients, workers
<1>7. \A w \in Workers : Local(w)'
  BY <1>1, NoWorker DEF clients
<1> QED
  BY <1>3, <1>5, <1>6, <1>7 DEF IInv

LEMMA StepIInv == IInv /\ [Next]_vars => IInv'
<1> SUFFICES ASSUME IInv, [Next]_vars
             PROVE  IInv'
  OBVIOUS
<1>1. ASSUME NEW c \in Conns, NEW r \in Requests, Connect(c, r)
      PROVE  IInv'
  BY <1>1, StepConnect
<1>2. ASSUME NEW c \in Conns, Accept(c) \/ AcceptFails(c)
      PROVE  IInv'
  BY <1>2, StepAccept, StepAcceptFails
<1>3. CASE AcceptInterrupted \/ UNCHANGED vars
  <2>1. UNCHANGED <<clients, buffer, workers, cache>> /\ up' \in BOOLEAN
    BY <1>3 DEF AcceptInterrupted, vars, IInv, Typed, TypeOK
  <2> QED
    BY <2>1, Unchanged
<1>4. CASE Enq
  BY <1>4, StepEnq
<1>5. ASSUME NEW w \in Workers, Deq(w) \/ Handle(w) \/ Hang(w) \/ Stall(w) \/ Retry(w) \/ Reached(w)
      PROVE  IInv'
  BY <1>5, StepDeq, StepReached, StepMoves, StepStall, StepReadBad, StepReadGet, StepLookup, StepHit,
     StepMiss, StepConnectFails, StepForwardFails, StepRelay, StepRelayFails,
     StepRelayEnds, StepPut, StepPutReturns, StepClose DEF Handle
<1>6. ASSUME NEW u \in Hosts \X Locs, Evict(u)
      PROVE  IInv'
  BY <1>6, StepEvict
<1> QED
  BY <1>1, <1>2, <1>3, <1>4, <1>5, <1>6 DEF Next

LEMMA Invariant == Spec => []IInv
BY InitIInv, StepIInv, PTL DEF Spec

-----------------------------------------------------------------------------
(* An open connection has one owner among the main thread, the buffer and  *)
(* the workers, whatever the numbers of each, and everything has its type. *)
THEOREM OwnedOnce == Spec => []OneOwner
<1>1. IInv => OneOwner
  BY DEF IInv, Typed, Owned, OneOwner
<1> QED
  BY <1>1, Invariant, PTL

(* cache_put is given what was relayed, all of it, and nothing above       *)
(* MAX_OBJECT_SIZE, for every limit and every length of response.          *)
THEOREM PutsWhole == Spec => []PutsWhatItSent
<1>1. IInv => PutsWhatItSent
  <2> SUFFICES ASSUME IInv, NEW w \in Workers, pc[w] = "put", call[w].op = "put"
               PROVE  /\ call[w].obj.len = Relayed(w)
                      /\ call[w].obj.len <= MaxObject
                      /\ Relayed(w) > 0 => call[w].obj = got[conn[w]]
    BY DEF PutsWhatItSent
  <2>1. call[w] # Cache!Done
    BY DEF Cache!Done
  <2>2. /\ call[w] = Cache!Put(Uri(ask[conn[w]]),
                               Data(Origin(w), ask[conn[w]].loc, datasz[w]))
        /\ datasz[w] <= MaxObject
    BY <2>1, Kinds DEF Local, Putting
  <2>3. call[w].obj = Data(Origin(w), ask[conn[w]].loc, datasz[w])
    BY <2>2 DEF Cache!Put
  <2>4. call[w].obj.len = datasz[w]
    BY <2>3 DEF Data
  <2>5. PICK n \in 0..MaxLen :
           /\ Relayed(w) = n /\ datasz[w] = Saved(n)
           /\ n > 0 => got[conn[w]] = Data(Origin(w), ask[conn[w]].loc, n)
    BY Progress DEF Relaying
  <2>6. datasz[w] = n
    BY <2>2, <2>5, ProxyAssumption DEF Saved
  <2> QED
    BY <2>2, <2>3, <2>4, <2>5, <2>6
<1> QED
  BY <1>1, Invariant, PTL

-----------------------------------------------------------------------------
(* The proxy implements its service                                        *)

LEMMA SameWords ==
  /\ Service!Bad = Bad /\ Service!Nothing = Nothing /\ Service!Requests = Requests
  /\ \A code : Service!Status(code) = Status(code)
  /\ \A s, l, n : Service!Data(s, l, n) = Data(s, l, n)
BY DEF Service!Bad, Bad, Service!Nothing, Nothing, Service!Requests, Requests,
       Service!Want, Want, Service!Status, Status, Service!Data, Data

(* A status goes only to a client that has got nothing yet, and 502 only   *)
(* to one that named a server.                                             *)
LEMMA Refuses ==
  ASSUME IInv, NEW w \in Workers, pc[w] # "deq", NEW code \in {400, 502},
         MayReply(w, Status(code)), got[conn[w]] = Nothing,
         code = 400 \/ ask[conn[w]] # Bad
  PROVE  [Service!Next]_<<client, ask, got>>
<1>1. conn[w] \in Conns /\ client[conn[w]] = "open"
  BY Mine
<1>2. CASE Reply(w, Status(code))
  <2>1. Service!Refuse(conn[w], code)
    BY <1>1, <1>2, SameWords DEF Service!Refuse, Reply
  <2> QED
    BY <1>1, <2>1 DEF Service!Next
<1> QED
  BY <1>2 DEF MayReply, clients

(* Data goes only to a client that has got less of the same.               *)
LEMMA Sends ==
  ASSUME IInv, NEW w \in Workers, pc[w] # "deq", ask[conn[w]] # Bad,
         NEW s \in Servers, NEW n \in 0..MaxLen,
         HostOf[s] = HostOf[ask[conn[w]].server],
         MayReply(w, Data(s, ask[conn[w]].loc, n)),
         \/ got[conn[w]] = Nothing
         \/ got[conn[w]].kind = "data" /\ got[conn[w]].server = s /\ got[conn[w]].len < n
  PROVE  [Service!Next]_<<client, ask, got>>
<1>1. conn[w] \in Conns /\ client[conn[w]] = "open"
  BY Mine
<1>2. CASE Reply(w, Data(s, ask[conn[w]].loc, n))
  <2>1. Service!Send(conn[w], s, n)
    BY <1>1, <1>2, SameWords DEF Service!Send, Reply
  <2> QED
    BY <1>1, <2>1 DEF Service!Next
<1> QED
  BY <1>2 DEF MayReply, clients

LEMMA ServiceStep == IInv /\ [Next]_vars => [Service!Next]_<<client, ask, got>>
<1> SUFFICES ASSUME IInv, [Next]_vars
             PROVE  [Service!Next]_<<client, ask, got>>
  OBVIOUS
<1>1. ASSUME NEW c \in Conns, NEW r \in Requests, Connect(c, r)
      PROVE  Service!Next
  <2>1. Service!Connect(c, r)
    BY <1>1 DEF Connect, Service!Connect
  <2> QED
    BY <2>1, SameWords DEF Service!Next
<1>2. ASSUME NEW c \in Conns, Accept(c)
      PROVE  Service!Next
  <2>1. Service!Open(c)
    BY <1>2 DEF Accept, Service!Open
  <2> QED
    BY <2>1 DEF Service!Next
<1>3. ASSUME NEW c \in Conns, AcceptFails(c)
      PROVE  Service!Next
  <2>1. client[c] = "connecting" /\ client' = [client EXCEPT ![c] = "abandoned"]
          /\ ask' = [ask EXCEPT ![c] = Bad] /\ got' = got
    BY <1>3 DEF AcceptFails
  <2>2. c \notin Served
    BY <2>1 DEF IInv, Owned
  <2>3. got[c] = Nothing
    BY <2>2, Unserved
  <2>4. got' = [got EXCEPT ![c] = Nothing]
    BY <2>1, <2>3 DEF IInv, Typed, TypeOK
  <2>5. Service!End(c, "connecting", "abandoned")
    BY <2>1, <2>4, SameWords DEF Service!End
  <2> QED
    BY <2>5 DEF Service!Next
<1>4. ASSUME NEW w \in Workers, Close(w)
      PROVE  Service!Next
  <2>1. conn[w] \in Conns /\ client[conn[w]] = "open"
    BY <1>4, Mine DEF Close, Goto
  <2>2. Service!End(conn[w], "open", "closed")
    BY <1>4, <2>1, SameWords DEF Close, Service!End
  <2> QED
    BY <2>1, <2>2 DEF Service!Next
<1>5. ASSUME NEW w \in Workers, ReadBad(w)
      PROVE  [Service!Next]_<<client, ask, got>>
  <2>1. pc[w] = "read" /\ MayReply(w, Status(400))
    BY <1>5 DEF ReadBad, Goto
  <2>2. got[conn[w]] = Nothing
    BY <2>1, Kinds DEF Local, Early
  <2> QED
    BY <2>1, <2>2, Refuses
<1>6. ASSUME NEW w \in Workers, ConnectFails(w) \/ ForwardFails(w)
      PROVE  [Service!Next]_<<client, ask, got>>
  <2>1. /\ pc[w] \in {"connect", "forward"}
        /\ \E code \in {400, 502} : MayReply(w, Status(code))
    BY <1>6 DEF ConnectFails, ForwardFails, Goto
  <2>2. got[conn[w]] = Nothing /\ ask[conn[w]] # Bad
    BY <2>1, Kinds DEF Local, Early, Relaying
  <2> QED
    BY <2>1, <2>2, Refuses
<1>7. ASSUME NEW w \in Workers, Reached(w)
      PROVE  [Service!Next]_<<client, ask, got>>
  <2>1. pc[w] = "retry" /\ (MayReply(w, Status(502)) \/ UNCHANGED clients)
    BY <1>7 DEF Reached, Goto
  <2>2. got[conn[w]] = Nothing /\ ask[conn[w]] # Bad
    BY <2>1, Kinds DEF Local, Early, Relaying
  <2>3. CASE MayReply(w, Status(502))
    BY <2>1, <2>2, <2>3, Refuses
  <2> QED
    BY <2>1, <2>3 DEF clients
<1>8. ASSUME NEW w \in Workers, Hit(w)
      PROVE  [Service!Next]_<<client, ask, got>>
  <2>1. pc[w] = "found" /\ answer[w] # NoObject /\ MayReply(w, answer[w])
    BY <1>8 DEF Hit, Goto
  <2>2. /\ got[conn[w]] = Nothing /\ ask[conn[w]] # Bad
        /\ answer[w] \in Objects /\ Under(answer[w], Uri(ask[conn[w]]))
    BY <2>1, Kinds DEF Local, Early, Relaying
  <2>3. PICK s \in Servers, l \in Locs, n \in 0..MaxLen : answer[w] = Data(s, l, n)
    BY <2>2 DEF Objects
  <2>4. answer[w].server = s /\ answer[w].loc = l
    BY <2>3 DEF Data
  <2>5. HostOf[s] = HostOf[ask[conn[w]].server] /\ l = ask[conn[w]].loc
    BY <2>2, <2>4 DEF Under, Uri
  <2> QED
    BY <2>1, <2>2, <2>3, <2>5, Sends
<1>9. ASSUME NEW w \in Workers, Relay(w)
      PROVE  [Service!Next]_<<client, ask, got>>
  <2>1. /\ pc[w] = "relay" /\ Relayed(w) < LenOf[Origin(w)]
        /\ \/ Reply(w, Data(Origin(w), ask[conn[w]].loc, Relayed(w) + 1))
           \/ UNCHANGED clients
    BY <1>9 DEF Relay
  <2>2. ask[conn[w]] # Bad
    BY <2>1, Kinds DEF Local, Relaying
  <2>3. Origin(w) \in Servers
    BY <2>1, <2>2, Asked DEF Origin
  <2>4. PICK n \in 0..MaxLen :
           /\ Relayed(w) = n /\ n <= LenOf[Origin(w)]
           /\ n = 0 => got[conn[w]] = Nothing
           /\ n > 0 => got[conn[w]] = Data(Origin(w), ask[conn[w]].loc, n)
    BY <2>1, Progress DEF Relaying
  <2>5. n + 1 \in 0..MaxLen
    <3>1. LenOf[Origin(w)] \in 0..MaxLen /\ MaxLen \in Nat
      BY <2>3, ProxyAssumption
    <3> QED
      BY <2>1, <2>4, <3>1
  <2>6. \/ got[conn[w]] = Nothing
        \/ /\ got[conn[w]].kind = "data" /\ got[conn[w]].server = Origin(w)
           /\ got[conn[w]].len < n + 1
    BY <2>4 DEF Data
  <2>7. CASE Reply(w, Data(Origin(w), ask[conn[w]].loc, n + 1))
    <3>1. MayReply(w, Data(Origin(w), ask[conn[w]].loc, n + 1))
      BY <2>7 DEF MayReply
    <3>2. HostOf[Origin(w)] = HostOf[ask[conn[w]].server]
      BY DEF Origin
    <3> QED
      BY <2>1, <2>2, <2>3, <2>5, <2>6, <3>1, <3>2, Sends
  <2> QED
    BY <2>1, <2>4, <2>7 DEF clients
<1>10. ASSUME NEW w \in Workers,
              \/ Deq(w) \/ ReadGet(w) \/ Lookup(w) \/ Miss(w) \/ Connected(w) \/ Retry(w)
              \/ Forwarded(w) \/ Hang(w) \/ Stall(w) \/ RelayFails(w) \/ RelayEnds(w)
              \/ Put(w) \/ PutReturns(w)
       PROVE  UNCHANGED clients
  BY <1>10 DEF Deq, ReadGet, Lookup, Miss, Connected, Retry, Forwarded, Hang, Stall,
               RelayFails, RelayEnds, Put, PutReturns
<1>11. CASE AcceptInterrupted \/ Enq \/ UNCHANGED vars \/ \E u \in Hosts \X Locs : Evict(u)
  BY <1>11 DEF AcceptInterrupted, Enq, vars, Evict, clients
<1> QED
  BY <1>1, <1>2, <1>3, <1>4, <1>5, <1>6, <1>7, <1>8, <1>9, <1>10, <1>11
  DEF Next, Handle, clients

(* Whatever the workers, the buffer and the cache do, each client sees one *)
(* status or growing data of one server of its host, and one end.          *)
THEOREM Serves == Spec => ImplementsService
<1>1. Init => Service!Init
  BY DEF Init, Service!Init, Service!Bad, Bad, Service!Nothing, Nothing
<1> QED
  BY <1>1, ServiceStep, Invariant, PTL DEF Spec, ImplementsService, Service!Spec

-----------------------------------------------------------------------------
(* The workers use the cache as CacheStore allows                          *)

LEMMA CacheStep == IInv /\ [Next]_vars => [Cache!Next]_cache
<1> SUFFICES ASSUME IInv, [Next]_vars
             PROVE  [Cache!Next]_cache
  OBVIOUS
<1>1. ASSUME NEW w \in Workers, ReadGet(w)
      PROVE  Cache!Next
  <2>1. pc[w] = "read" /\ ask[conn[w]] # Bad /\ Cache!Begin(w, Cache!Get(Uri(ask[conn[w]])))
    BY <1>1 DEF ReadGet, Goto
  <2>2. Uri(ask[conn[w]]) \in Hosts \X Locs
    BY <2>1, Asked
  <2> QED
    BY <2>1, <2>2 DEF Cache!Next
<1>2. ASSUME NEW w \in Workers, RelayEnds(w)
      PROVE  [Cache!Next]_cache
  <2> DEFINE u == Uri(ask[conn[w]])
             o == Data(Origin(w), ask[conn[w]].loc, datasz[w])
  <2>1. CASE ~(datasz[w] <= MaxObject)
    BY <1>2, <2>1 DEF RelayEnds
  <2>2. CASE datasz[w] <= MaxObject
    <3>1. pc[w] = "relay" /\ Cache!Begin(w, Cache!Put(u, o))
      BY <1>2, <2>2 DEF RelayEnds, Goto
    <3>2. ask[conn[w]] # Bad
      BY <3>1, Kinds DEF Local, Relaying
    <3>3. PICK n \in 0..MaxLen : datasz[w] = Saved(n)
      BY <3>1, Progress DEF Relaying
    <3>4. datasz[w] \in 0..MaxLen
      BY <2>2, <3>3, ProxyAssumption DEF Saved
    <3>5. u \in Hosts \X Locs /\ o \in Objects
      BY <3>1, <3>2, <3>4, Asked DEF Objects, Origin
    <3> QED
      BY <3>1, <3>5 DEF Cache!Next
  <2> QED
    BY <2>1, <2>2
<1>3. ASSUME NEW w \in Workers, Lookup(w) \/ Hit(w) \/ Miss(w) \/ Put(w) \/ PutReturns(w)
      PROVE  Cache!Next
  BY <1>3 DEF Lookup, Hit, Miss, Put, PutReturns, Cache!Next
<1>4. ASSUME NEW u \in Hosts \X Locs, Evict(u)
      PROVE  Cache!Next
  BY <1>4 DEF Evict, Cache!Next
<1>5. ASSUME NEW w \in Workers, Stall(w)
      PROVE  [Cache!Next]_cache
  BY <1>5 DEF Stall, Cache!Next
<1>6. ASSUME NEW w \in Workers,
             \/ Deq(w) \/ ReadBad(w) \/ ConnectFails(w) \/ Connected(w) \/ Retry(w)
             \/ Reached(w) \/ Forwarded(w) \/ ForwardFails(w) \/ Hang(w) \/ Relay(w)
             \/ RelayFails(w) \/ Close(w)
      PROVE  UNCHANGED cache
  BY <1>6 DEF Deq, ReadBad, ConnectFails, Connected, Retry, Reached, Forwarded,
              ForwardFails, Hang, Relay, RelayFails, Close
<1>7. ASSUME NEW c \in Conns, \/ Accept(c) \/ AcceptFails(c)
                              \/ \E r \in Requests : Connect(c, r)
      PROVE  UNCHANGED cache
  BY <1>7 DEF Accept, AcceptFails, Connect
<1>8. CASE AcceptInterrupted \/ Enq \/ UNCHANGED vars
  BY <1>8 DEF AcceptInterrupted, Enq, vars
<1> QED
  BY <1>1, <1>2, <1>3, <1>4, <1>5, <1>6, <1>7, <1>8 DEF Next, Handle

(* The calls the workers make are calls CacheStore speaks of, so that a    *)
(* cache that implements it (ProxyCache) can take its place.               *)
THEOREM UsesTheStore == Spec => Cache!Spec
<1>1. Init => Cache!Init
  BY DEF Init
<1> QED
  BY <1>1, CacheStep, Invariant, PTL DEF Spec, Cache!Spec, cache
=============================================================================
