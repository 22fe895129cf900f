------------------------------- MODULE Proxy --------------------------------
(***************************************************************************)
(* The proxy (labs/09-proxy/proxy.c): the main thread accepts connections  *)
(* and enqueues them, a fixed pool of workers dequeues and serves them one *)
(* at a time, each with a request to an origin server or from the cache.   *)
(*                                                                         *)
(* The cache is used through its specification CacheStore, which           *)
(* ProxyCache implements.  The connection buffer is a bounded queue of     *)
(* which every item but the newest may be damaged (SBuf).                  *)
(***************************************************************************)
EXTENDS Integers, Sequences, FiniteSets

CONSTANTS
  Workers,    \* the worker threads
  Conns,      \* the connections that clients make
  NoConn,     \* a thread holds no connection
  Hosts, Servers, HostOf, Locs,  \* the origins: a server is a host and a port
  LenOf,      \* the blocks of the longest response of each server
  MaxLen,     \* and of the longest of all
  Hanging,    \* the servers that may stop answering and stay connected
  Stalling,   \* the clients that may stop sending or reading and stay connected
  Several,    \* the servers whose host has more than one address
  N,          \* LISTENQ, the slots of the connection buffer
  MaxObject,  \* MAX_OBJECT_SIZE, in blocks
  Capacity,   \* MAX_CACHE_SIZE, in blocks
  NoObject

ASSUME ProxyAssumption ==
  /\ NoConn \notin Conns
  /\ HostOf \in [Servers -> Hosts]
  /\ MaxLen \in Nat /\ LenOf \in [Servers -> 0..MaxLen]
  /\ Hanging \subseteq Servers /\ Several \subseteq Servers /\ Stalling \subseteq Conns
  /\ N \in Nat \ {0} /\ MaxObject \in Nat /\ Capacity \in Nat
  /\ MaxObject <= Capacity

VARIABLES
  client,    \* the life of each connection
  ask,       \* what its client asks for
  got,       \* what its client has received
  hand,      \* the connection the main thread holds
  queue,     \* the connection buffer
  pc,        \* where each worker is
  conn,      \* the connection each worker serves
  datasz,    \* the blocks of the response it has saved
  contents, call, answer,  \* of CacheStore
  up         \* the process runs

clients == <<client, ask, got>>
buffer == <<hand, queue>>
workers == <<pc, conn, datasz>>
cache == <<contents, call, answer>>
vars == <<clients, buffer, workers, cache, up>>

Bad == [kind |-> "bad"]
Want(s, l) == [kind |-> "get", server |-> s, loc |-> l]
Requests == {Bad} \cup {Want(s, l) : s \in Servers, l \in Locs}

Nothing == [kind |-> "nothing"]
Status(code) == [kind |-> "status", code |-> code]
Data(s, l, n) == [kind |-> "data", server |-> s, loc |-> l, len |-> n]

Objects == {Data(s, l, n) : s \in Servers, l \in Locs, n \in 0..MaxLen}

\* The key of the cache: uri_parse cuts the host off its port.
Uri(r) == <<HostOf[r.server], r.loc>>

Cache == INSTANCE CacheStore WITH
  Threads <- Workers, Uris <- Hosts \X Locs, SizeOf <- [o \in Objects |-> o.len]

Goto(w, from, to) ==
  /\ up /\ pc[w] = from
  /\ pc' = [pc EXCEPT ![w] = to]

\* Every thread starts with a dequeue.
spawn == pc = [w \in Workers |-> "deq"] /\ conn = [w \in Workers |-> NoConn]

Init ==
  /\ client = [c \in Conns |-> "none"]
  /\ ask = [c \in Conns |-> Bad]
  /\ got = [c \in Conns |-> Nothing]
  /\ hand = NoConn /\ queue = <<>>
  /\ spawn
  /\ datasz = [w \in Workers |-> 0]
  /\ Cache!Init
  /\ up = TRUE

\* A client connects, and then sends its request.
Connect(c, r) ==
  /\ client[c] = "none"
  /\ client' = [client EXCEPT ![c] = "connecting"]
  /\ ask' = [ask EXCEPT ![c] = r]
  /\ UNCHANGED <<got, buffer, workers, cache, up>>

-----------------------------------------------------------------------------
(* server_loop                                                             *)

Accept(c) ==
  /\ up /\ hand = NoConn /\ client[c] = "connecting"
  /\ client' = [client EXCEPT ![c] = "open"]
  /\ hand' = c
  /\ UNCHANGED <<ask, got, queue, workers, cache, up>>

\* fdopen fails: the connection is neither served nor closed.
AcceptFails(c) ==
  /\ up /\ hand = NoConn /\ client[c] = "connecting"
  /\ client' = [client EXCEPT ![c] = "abandoned"]
  /\ ask' = [ask EXCEPT ![c] = Bad]
  /\ UNCHANGED <<got, buffer, workers, cache, up>>

\* EINTR ends the loop, and main returns.
AcceptInterrupted ==
  /\ up /\ hand = NoConn
  /\ up' = FALSE
  /\ UNCHANGED <<clients, buffer, workers, cache>>

\* The slots of the buffer overlap, except where its cursor wraps.
Enq ==
  /\ up /\ hand # NoConn /\ Len(queue) < N
  /\ \E older \in {queue, [i \in DOMAIN queue |-> [queue[i] EXCEPT !.intact = FALSE]]} :
       queue' = Append(older, [conn |-> hand, intact |-> TRUE])
  /\ hand' = NoConn
  /\ UNCHANGED <<clients, workers, cache, up>>

-----------------------------------------------------------------------------
(* worker_loop and handle_connection                                       *)

\* What the worker w sends to its client, unless the client is gone.
Reply(w, data) ==
  /\ got' = [got EXCEPT ![conn[w]] = data]
  /\ UNCHANGED <<client, ask>>
MayReply(w, data) == Reply(w, data) \/ UNCHANGED clients

\* A bug: a worker waits until all the others are done.
DeqAlone(w) ==
  /\ \A v \in Workers : pc[v] = "deq"
  /\ queue # <<>> /\ Head(queue).intact
  /\ Goto(w, "deq", "read")
  /\ conn' = [conn EXCEPT ![w] = Head(queue).conn]
  /\ queue' = Tail(queue)
  /\ UNCHANGED <<clients, hand, datasz, cache, up>>

\* A bug: the item stays in the buffer.
DeqKeeps(w) ==
  /\ queue # <<>> /\ Head(queue).intact
  /\ Goto(w, "deq", "read")
  /\ conn' = [conn EXCEPT ![w] = Head(queue).conn]
  /\ UNCHANGED <<clients, buffer, datasz, cache, up>>

\* A damaged FILE * ends the process.
Deq(w) ==
  /\ queue # <<>>
  /\ Goto(w, "deq", "read")
  /\ conn' = [conn EXCEPT ![w] = Head(queue).conn]
  /\ queue' = Tail(queue)
  /\ up' = Head(queue).intact
  /\ UNCHANGED <<clients, hand, datasz, cache>>

\* No request line, or one that parse_reqline rejects.
ReadBad(w) ==
  /\ Goto(w, "read", "close")
  /\ ask[conn[w]] = Bad
  /\ MayReply(w, Status(400))
  /\ UNCHANGED <<buffer, conn, datasz, cache, up>>

\* cache_get
ReadGet(w) ==
  /\ Goto(w, "read", "lookup")
  /\ ask[conn[w]] # Bad
  /\ Cache!Begin(w, Cache!Get(Uri(ask[conn[w]])))
  /\ UNCHANGED <<clients, buffer, conn, datasz, up>>

Lookup(w) ==
  /\ Goto(w, "lookup", "found")
  /\ Cache!Lookup(w)
  /\ UNCHANGED <<clients, buffer, conn, datasz, up>>

Hit(w) ==
  /\ Goto(w, "found", "close")
  /\ answer[w] # NoObject
  /\ MayReply(w, answer[w])
  /\ Cache!Return(w)
  /\ UNCHANGED <<buffer, conn, datasz, up>>

Miss(w) ==
  /\ Goto(w, "found", "connect")
  /\ answer[w] = NoObject
  /\ Cache!Return(w)
  /\ UNCHANGED <<clients, buffer, conn, datasz, up>>

\* connect_openwb: 400 for a host it cannot resolve, 502 for one it cannot
\* reach or for which fdopen fails (which leaves the socket open).
ConnectFails(w) ==
  /\ Goto(w, "connect", "close")
  /\ \E code \in {400, 502} : MayReply(w, Status(code))
  /\ UNCHANGED <<buffer, conn, datasz, cache, up>>

Connected(w) ==
  /\ Goto(w, "connect", "forward")
  /\ UNCHANGED <<clients, buffer, conn, datasz, cache, up>>

Origin(w) == ask[conn[w]].server

\* The first address refused.  wrap_socket_open goes on with the one that follows
\* the first, and does so as often as that one refuses.
Retry(w) ==
  /\ Goto(w, "connect", "retry")
  /\ Origin(w) \in Several
  /\ UNCHANGED <<clients, buffer, conn, datasz, cache, up>>

\* The second address accepts; fdopen may still fail.
Reached(w) ==
  /\ \/ Goto(w, "retry", "forward") /\ UNCHANGED clients
     \/ Goto(w, "retry", "close") /\ MayReply(w, Status(502))
  /\ UNCHANGED <<buffer, conn, datasz, cache, up>>

-----------------------------------------------------------------------------
(* forward_request and forward_response                                    *)

Forwarded(w) ==
  /\ Goto(w, "forward", "relay")
  /\ UNCHANGED <<clients, buffer, conn, datasz, cache, up>>

\* A bug: no goto after the error response.
ForwardFallsThrough(w) ==
  /\ Goto(w, "forward", "relay")
  /\ MayReply(w, Status(502))
  /\ UNCHANGED <<buffer, conn, datasz, cache, up>>

ForwardFails(w) ==
  /\ Goto(w, "forward", "close")
  /\ MayReply(w, Status(502))
  /\ UNCHANGED <<buffer, conn, datasz, cache, up>>

Relayed(w) == IF got[conn[w]].kind = "data" THEN got[conn[w]].len ELSE 0
Stuck(w) == pc[w] \in {"hung", "stalled", "retry"}

\* A bug: the size saved stops at the limit, and so passes the check for it.
SaveClipped(sz) == IF sz < MaxObject THEN sz + 1 ELSE sz
Save(sz) == IF sz <= MaxObject THEN sz + 1 ELSE sz

\* recv returned data: saved while it may still fit, and sent on.
Relay(w) ==
  /\ up /\ pc[w] = "relay"
  /\ Relayed(w) < LenOf[Origin(w)]
  /\ datasz' = [datasz EXCEPT ![w] = Save(@)]
  /\ \/ /\ Reply(w, Data(Origin(w), ask[conn[w]].loc, Relayed(w) + 1))
        /\ UNCHANGED pc
     \/ /\ Goto(w, "relay", "close")
        /\ UNCHANGED clients
  /\ UNCHANGED <<buffer, conn, cache, up>>

\* The server takes nothing more of the request, or sends nothing more: neither
\* the write nor recv has a timeout.
Hang(w) ==
  /\ Goto(w, "forward", "hung") \/ Goto(w, "relay", "hung")
  /\ Origin(w) \in Hanging
  /\ UNCHANGED <<clients, buffer, conn, datasz, cache, up>>

\* The client sends nothing more of its request or its headers, or takes
\* nothing more of the data: neither getline nor send has a timeout.
Stall(w) ==
  /\ conn[w] \in Stalling
  /\ \/ \E from \in {"read", "forward", "relay"} :
          Goto(w, from, "stalled") /\ UNCHANGED cache
     \/ Goto(w, "found", "stalled") /\ answer[w] # NoObject /\ Cache!Return(w)
  /\ UNCHANGED <<clients, buffer, conn, datasz, up>>

\* recv failed.
RelayFails(w) ==
  /\ Goto(w, "relay", "close")
  /\ UNCHANGED <<clients, buffer, conn, datasz, cache, up>>

\* The server closed the connection: the end of its response, or not.
RelayEnds(w) ==
  /\ Goto(w, "relay", IF datasz[w] <= MaxObject THEN "put" ELSE "close")
  /\ IF datasz[w] <= MaxObject
     THEN Cache!Begin(w, Cache!Put(Uri(ask[conn[w]]),
                                   Data(Origin(w), ask[conn[w]].loc, datasz[w])))
     ELSE UNCHANGED cache
  /\ UNCHANGED <<clients, buffer, conn, datasz, up>>

\* cache_put
Put(w) ==
  /\ up /\ pc[w] = "put"
  /\ Cache!Store(w) \/ Cache!Keep(w)
  /\ UNCHANGED <<clients, buffer, workers, up>>

Evict(u) ==
  /\ up
  /\ Cache!Evict(u)
  /\ UNCHANGED <<clients, buffer, workers, up>>

PutReturns(w) ==
  /\ Goto(w, "put", "close")
  /\ Cache!Return(w)
  /\ UNCHANGED <<clients, buffer, conn, datasz, up>>

\* fclose, of the connection to the server too where there is one.  What the
\* client asked for and got is forgotten here.
Close(w) ==
  /\ Goto(w, "close", "deq")
  /\ client' = [client EXCEPT ![conn[w]] = "closed"]
  /\ ask' = [ask EXCEPT ![conn[w]] = Bad]
  /\ got' = [got EXCEPT ![conn[w]] = Nothing]
  /\ conn' = [conn EXCEPT ![w] = NoConn]
  /\ datasz' = [datasz EXCEPT ![w] = 0]
  /\ UNCHANGED <<buffer, cache, up>>

-----------------------------------------------------------------------------

Handle(w) ==
  \/ ReadBad(w) \/ ReadGet(w) \/ Lookup(w) \/ Hit(w) \/ Miss(w)
  \/ ConnectFails(w) \/ Connected(w) \/ Forwarded(w) \/ ForwardFails(w)
  \/ Relay(w) \/ RelayFails(w) \/ RelayEnds(w) \/ Put(w) \/ PutReturns(w)
  \/ Close(w)

Next ==
  \/ \E c \in Conns, r \in Requests : Connect(c, r)
  \/ \E c \in Conns : Accept(c) \/ AcceptFails(c)
  \/ AcceptInterrupted \/ Enq
  \/ \E w \in Workers : Deq(w) \/ Handle(w) \/ Hang(w) \/ Stall(w) \/ Retry(w) \/ Reached(w)
  \/ \E u \in Hosts \X Locs : Evict(u)

Spec == Init /\ [][Next]_vars

\* Threads run on; cache_put makes room (WalkShrinks of ProxyCache).  A step of
\* Handle that waits for a client or a server is fair because it is the one of a
\* peer that goes on: one of Stalling or Hanging need not, and Stall or Hang then
\* takes its place.  Nobody has to connect, and a second address may refuse for
\* ever.
Fairness ==
  /\ WF_vars(\E c \in Conns : Accept(c)) /\ WF_vars(Enq)
  /\ \A w \in Workers : WF_vars(Deq(w)) /\ WF_vars(Handle(w))
  /\ WF_vars(\E u \in Hosts \X Locs : Evict(u))

FairSpec == Spec /\ Fairness

-----------------------------------------------------------------------------
(* Properties                                                              *)

Places == {"deq", "read", "lookup", "found", "connect", "retry", "forward", "relay",
           "hung", "stalled", "put", "close"}

(* Every variable has its type, and the buffer holds at most N items.      *)
TypeOK ==
  /\ client \in [Conns -> {"none", "connecting", "open", "abandoned", "closed"}]
  /\ ask \in [Conns -> Requests]
  /\ got \in [Conns -> {Nothing} \cup {Status(code) : code \in {400, 502}} \cup Objects]
  /\ hand \in Conns \cup {NoConn}
  /\ queue \in Seq([conn : Conns, intact : BOOLEAN]) /\ Len(queue) <= N
  /\ pc \in [Workers -> Places]
  /\ conn \in [Workers -> Conns \cup {NoConn}]
  /\ datasz \in [Workers -> 0..MaxObject + 1]
  /\ DOMAIN contents \subseteq Hosts \X Locs
  /\ \A u \in DOMAIN contents : contents[u] \in Objects
  /\ answer \in [Workers -> Objects \cup {NoObject}]
  /\ up \in BOOLEAN

(* An open connection is in exactly one place: with the main thread, once  *)
(* in the buffer, or with one worker.  None is served twice, none is lost  *)
(* between the threads, and none is used after it was closed.  (The        *)
(* variables have their types, too.)                                       *)
Queued == {queue[i].conn : i \in DOMAIN queue}
Served == {conn[w] : w \in Workers} \ {NoConn}
OneOwner ==
  /\ TypeOK
  /\ {c \in Conns : client[c] = "open"} = ({hand} \ {NoConn}) \cup Queued \cup Served
  /\ hand \notin Queued \cup Served /\ Queued \cap Served = {}
  /\ \A i, j \in DOMAIN queue : queue[i].conn = queue[j].conn => i = j
  /\ \A v, w \in Workers : conn[v] = conn[w] /\ conn[v] # NoConn => v = w

(* What is put into the cache is all that the origin sent, as much as the  *)
(* client got, and small enough for the cache's eviction to end.           *)
PutsWhatItSent ==
  \A w \in Workers : pc[w] = "put" /\ call[w].op = "put" =>
    /\ call[w].obj.len = Relayed(w)
    /\ call[w].obj.len <= MaxObject
    /\ Relayed(w) > 0 => call[w].obj = got[conn[w]]

(* A client sees what ProxyService promises.                               *)
Service == INSTANCE ProxyService
ImplementsService == Service!Spec

(* Every accepted connection is closed in the end, unless its own client   *)
(* or origin stops halfway, its origin refuses at its second address, all  *)
(* workers are stuck with such peers, or the process died: a peer without  *)
(* end costs one worker, and as long as one is left no other client.       *)
AllStuck == \A w \in Workers : Stuck(w)
OthersServed ==
  \A c \in Conns :
    (client[c] = "open") ~>
      \/ client[c] = "closed" \/ ~up \/ AllStuck
      \/ \E w \in Workers : conn[w] = c /\ Stuck(w)

(* Data comes from the server, host and port, that the client named:       *)
(* through the proxy a file is the same as directly from its server        *)
(* (driver.sh:231-232).                                                    *)
RightServer ==
  \A c \in Conns : got[c].kind = "data" => got[c].server = ask[c].server
=============================================================================
