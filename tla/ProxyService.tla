---------------------------- MODULE ProxyService ----------------------------
(***************************************************************************)
(* What a client of the proxy sees of its connection                       *)
(* (labs/09-proxy/proxy.c): it asks once, gets one status of the proxy's   *)
(* own or the data of one server of the host it named, never both, and     *)
(* the connection is closed once.  Connections do not affect one another.  *)
(***************************************************************************)
EXTENDS Integers

CONSTANTS
  Conns,    \* the connections
  Servers,  \* the origin servers, each a host and a port
  HostOf,   \* the host of each server
  Locs,     \* the locations on a server
  MaxLen    \* the longest response

VARIABLES
  client,   \* the life of each connection
  ask,      \* what each client asks for
  got       \* what each client has received

Bad == [kind |-> "bad"]
Want(s, l) == [kind |-> "get", server |-> s, loc |-> l]
Requests == {Bad} \cup {Want(s, l) : s \in Servers, l \in Locs}

Nothing == [kind |-> "nothing"]
Status(code) == [kind |-> "status", code |-> code]
Data(s, l, n) == [kind |-> "data", server |-> s, loc |-> l, len |-> n]

Init ==
  /\ client = [c \in Conns |-> "none"]
  /\ ask = [c \in Conns |-> Bad]
  /\ got = [c \in Conns |-> Nothing]

Connect(c, r) ==
  /\ client[c] = "none"
  /\ client' = [client EXCEPT ![c] = "connecting"]
  /\ ask' = [ask EXCEPT ![c] = r]
  /\ UNCHANGED got

Open(c) ==
  /\ client[c] = "connecting"
  /\ client' = [client EXCEPT ![c] = "open"]
  /\ UNCHANGED <<ask, got>>

\* The end of a connection, whose request and answer are then forgotten.
End(c, from, to) ==
  /\ client[c] = from
  /\ client' = [client EXCEPT ![c] = to]
  /\ ask' = [ask EXCEPT ![c] = Bad]
  /\ got' = [got EXCEPT ![c] = Nothing]

\* The proxy answers for itself: 400 to a bad request and for a host it cannot
\* resolve, 502 for one it cannot reach.
Refuse(c, code) ==
  /\ client[c] = "open" /\ got[c] = Nothing
  /\ code = 400 \/ (code = 502 /\ ask[c] # Bad)
  /\ got' = [got EXCEPT ![c] = Status(code)]
  /\ UNCHANGED <<client, ask>>

\* More of the data of one server of the host that was asked for.
Send(c, s, n) ==
  /\ client[c] = "open" /\ ask[c] # Bad
  /\ HostOf[s] = HostOf[ask[c].server]
  /\ \/ got[c] = Nothing
     \/ got[c].kind = "data" /\ got[c].server = s /\ got[c].len < n
  /\ got' = [got EXCEPT ![c] = Data(s, ask[c].loc, n)]
  /\ UNCHANGED <<client, ask>>

Next ==
  \E c \in Conns :
    \/ \E r \in Requests : Connect(c, r)
    \/ Open(c)
    \/ End(c, "connecting", "abandoned")
    \/ End(c, "open", "closed")
    \/ \E code \in {400, 502} : Refuse(c, code)
    \/ \E s \in Servers, n \in 0..MaxLen : Send(c, s, n)

Spec == Init /\ [][Next]_<<client, ask, got>>
=============================================================================
