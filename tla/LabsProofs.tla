----------------------------- MODULE LabsProofs -----------------------------
(* Proofs about the smaller parts, each a section of its own: the buffer   *)
(* of the Rio package and Tiny that reads through it, the kernels and the  *)
(* measurement of the performance lab, and the buffer of the connections   *)
(* between the proxy's threads (SBuf).                                     *)
EXTENDS SBuf, Tiny, PerfLab, SequenceTheorems, FiniteSetTheorems, TLAPS

-----------------------------------------------------------------------------
(* The buffer of rio_readlineb and rio_readnb                              *)

Char == Bytes!Byte
Text == Seq(Char)

(* What no call has returned: the bytes read for the call in progress,     *)
(* those in the buffer and those that have not been received.              *)
Rest == call.got \o rio.unread \o wire
Wanted == [kind |-> call.kind, want |-> call.want]

LEMMA Joining ==
  ASSUME NEW s \in Text, NEW t \in Text
  PROVE  /\ s \o t \in Text /\ Len(s \o t) = Len(s) + Len(t) /\ Len(s) \in Nat /\ Len(t) \in Nat
         /\ SubSeq(s \o t, 1, Len(s)) = s
         /\ SubSeq(s \o t, Len(s) + 1, Len(s \o t)) = t
         /\ s \o <<>> = s /\ <<>> \o s = s
         /\ \A i \in 1..Len(s) : (s \o t)[i] = s[i]
<1> USE DEF Text
<1>1. /\ s \o t \in Text /\ Len(s \o t) = Len(s) + Len(t) /\ Len(s) \in Nat /\ Len(t) \in Nat
      /\ s \o <<>> = s /\ <<>> \o s = s
      /\ \A i \in 1..Len(s) : (s \o t)[i] = s[i]
      /\ \A i \in 1..Len(t) : (s \o t)[Len(s) + i] = t[i]
  OBVIOUS
<1>2. SubSeq(s \o t, 1, Len(s)) = s
  <2> DEFINE u == SubSeq(s \o t, 1, Len(s))
  <2>1. \A i \in 1..Len(s) : (s \o t)[i] \in Char
    BY <1>1
  <2>2. u \in Seq(Char) /\ Len(u) = Len(s) /\ \A i \in 1..Len(s) : u[i] = s[i]
    BY <1>1, <2>1, SubSeqProperties
  <2> HIDE DEF u
  <2> QED
    BY <2>2, SeqEqual DEF u
<1>3. SubSeq(s \o t, Len(s) + 1, Len(s \o t)) = t
  <2> DEFINE u == SubSeq(s \o t, Len(s) + 1, Len(s \o t))
  <2>1. \A i \in Len(s) + 1..Len(s \o t) : (s \o t)[i] \in Char
    BY <1>1
  <2>2. u \in Seq(Char) /\ Len(u) = Len(t) /\ \A i \in 1..Len(t) : u[i] = (s \o t)[Len(s) + i]
    BY <1>1, <2>1, SubSeqProperties
  <2> HIDE DEF u
  <2> QED
    BY <1>1, <2>2, SeqEqual DEF u
<1> QED
  BY <1>1, <1>2, <1>3

LEMMA Splitting ==
  ASSUME NEW s \in Text, NEW k \in 0..Len(s)
  PROVE  /\ SubSeq(s, 1, k) \in Text /\ SubSeq(s, k + 1, Len(s)) \in Text
         /\ Len(SubSeq(s, 1, k)) = k /\ Len(SubSeq(s, k + 1, Len(s))) = Len(s) - k
         /\ SubSeq(s, 1, k) \o SubSeq(s, k + 1, Len(s)) = s
         /\ Len(s) \in Nat
<1> USE DEF Text
<1>1. Len(s) \in Nat /\ \A i \in 1..Len(s) : s[i] \in Char
  OBVIOUS
<1>2. \A i \in 1..k : s[i] \in Char
  BY <1>1
<1>3. SubSeq(s, 1, k) \in Text /\ Len(SubSeq(s, 1, k)) = k
  BY <1>1, <1>2, SubSeqProperties
<1>4. SubSeq(s, k + 1, Len(s)) \in Text /\ Len(SubSeq(s, k + 1, Len(s))) = Len(s) - k
  <2>1. \A i \in k + 1..Len(s) : s[i] \in Char
    BY <1>1
  <2> QED
    BY <1>1, <2>1, SubSeqProperties
<1>5. SubSeq(s, 1, k) \o SubSeq(s, k + 1, Len(s)) = SubSeq(s, 1, Len(s))
  <2>1. 1 \in 1..Len(s) + 1 /\ k \in 1 - 1..Len(s) /\ Len(s) \in k..Len(s)
    BY <1>1
  <2> QED
    BY <2>1, ConcatAdjacentSubSeq
<1>6. SubSeq(s, 1, Len(s)) = s
  BY SubSeqFull
<1> QED
  BY <1>1, <1>3, <1>4, <1>5, <1>6

LEMMA Regroup ==
  ASSUME NEW s \in Text, NEW t \in Text, NEW u \in Text
  PROVE  (s \o t) \o u = s \o (t \o u)
BY ConcatAssociative DEF Text

(* Where a line ends.                                                      *)
LEMMA LineEnds ==
  ASSUME NEW s \in Text, NEW max \in Nat, NEW m \in 0..Len(s), m <= max - 1,
         \A i \in 1..m - 1 : s[i] # "nl",
         m = max - 1 \/ m = Len(s) \/ (m # 0 /\ s[m] = "nl")
  PROVE  Bytes!LineLength(s, max) = m
<1> DEFINE S == {k \in 1..Len(s) : s[k] = "nl"} \cup {Len(s), max - 1}
<1>1. Len(s) \in Nat
  BY DEF Text
<1>2. m \in S
  BY <1>1
<1>3. \A x \in S : m <= x
  <2>1. ASSUME NEW x \in 1..Len(s), s[x] = "nl"
        PROVE  m <= x
    <3>1. ~(x \in 1..m - 1)
      BY <2>1
    <3> QED
      BY <1>1, <3>1
  <2> QED
    BY <1>1, <2>1
<1>4. Bytes!LineLength(s, max) = CHOOSE x \in S : \A y \in S : x <= y
  BY DEF Bytes!LineLength, Bytes!Min, Bytes!Newline
<1>5. \A x \in S : x \in Int
  BY <1>1
<1> HIDE DEF S
<1>6. \A x \in S : (\A y \in S : x <= y) => x = m
  BY <1>2, <1>3, <1>5
<1> QED
  BY <1>2, <1>3, <1>4, <1>6

LEMMA Smaller ==
  ASSUME NEW a \in Int, NEW b \in Int
  PROVE  /\ Min({a, b}) = IF a <= b THEN a ELSE b
         /\ Bytes!Min({a, b}) = IF a <= b THEN a ELSE b
<1>1. \E x \in {a, b} : \A y \in {a, b} : x <= y
  OBVIOUS
<1>2. \A x \in {a, b} : (\A y \in {a, b} : x <= y) => x = IF a <= b THEN a ELSE b
  OBVIOUS
<1>3. (CHOOSE x \in {a, b} : \A y \in {a, b} : x <= y) = IF a <= b THEN a ELSE b
  BY <1>1, <1>2
<1> QED
  BY <1>3 DEF Min, Bytes!Min

-----------------------------------------------------------------------------
(* The invariant: a call in progress has not got what would complete it.   *)

Unfinished(c) ==
  /\ c \in [kind : {"line", "bytes"}, want : Nat, got : Text]
  /\ c.kind = "line" => /\ Len(c.got) < c.want - 1
                        /\ \A i \in 1..Len(c.got) : c.got[i] # "nl"
  /\ c.kind = "bytes" => Len(c.got) < c.want

Reading ==
  /\ wire \in Text /\ rio \in [cnt : Int, unread : Text]
  /\ rio.cnt > 0 => rio.cnt = Len(rio.unread)
  /\ rio.cnt <= 0 => rio.unread = <<>>
  /\ (call = Idle /\ reply # NewConn) \/ Unfinished(call)

(* A step of the callers' reads is one of the stream, or is hidden.        *)
Streams == Bytes!Next \/ UNCHANGED <<Rest, Wanted, reply>>

LEMMA NotNew == \A s \in Text : s # NewConn
<1> SUFFICES ASSUME NEW s \in Text, s = NewConn
             PROVE  FALSE
  OBVIOUS
<1>1. Len(s) = 1 /\ s[1] = "new"
  BY DEF NewConn
<1>2. s[1] \in Char
  BY <1>1 DEF Text
<1> QED
  BY <1>1, <1>2 DEF Char, Bytes!Byte

LEMMA ErrorNotNew == Error # NewConn
<1>1. Error[1] # NewConn[1]
  BY DEF Error, NewConn
<1> QED
  BY <1>1

LEMMA NotIdle ==
  ASSUME NEW c, Unfinished(c)
  PROVE  c # Idle /\ c.kind # "none"
BY DEF Unfinished, Idle

(* A call is asked for, and returns at once if it wants no byte.           *)
LEMMA Begins ==
  ASSUME Reading, call = Idle, NEW kind \in {"line", "bytes"}, NEW n \in Nat,
         Goes(Asked(kind, n)), UNCHANGED <<wire, rio>>
  PROVE  Reading' /\ Streams
<1> DEFINE c == Asked(kind, n)
<1>1. c \in [kind : {"line", "bytes"}, want : Nat, got : Text] /\ c.got = <<>> /\ Len(c.got) = 0
      /\ c.kind = kind /\ c.want = n
  BY DEF Asked, Text
<1> HIDE DEF c
<1>2. call.got = <<>> /\ call.kind = "none" /\ call.want = 0 /\ reply # NewConn
  BY NotIdle DEF Reading, Idle
<1>3. CASE Complete(c)
  <2>1. call' = Idle /\ reply' = <<>>
    BY <1>1, <1>3 DEF Goes, Return, c
  <2>2. Rest' = Rest
    BY <2>1 DEF Rest
  <2>3. Rest \in Text /\ SubSeq(Rest, 1, 0) = <<>> /\ SubSeq(Rest, 0 + 1, Len(Rest)) = Rest
    <3>1. Rest \in Text
      <4>1. <<>> \o rio.unread \in Text
        BY Joining DEF Reading, Text
      <4> QED
        BY <1>2, <4>1, Joining DEF Rest, Reading
    <3> QED
      BY <3>1, SubSeqEmpty, SubSeqFull DEF Text
  <2>4. Bytes!Nothing
    BY <1>2, <2>1, <2>2, <2>3 DEF Bytes!Nothing, Bytes!Take, Bytes!Idle, Rest, Idle
  <2>5. reply' # NewConn
    <3>1. <<>> \in Text
      BY DEF Text
    <3> QED
      BY <2>1, <3>1, NotNew
  <2> QED
    BY <2>1, <2>4, <2>5 DEF Reading, Streams, Bytes!Next
<1>4. CASE ~Complete(c)
  <2>1. call' = c /\ reply' = reply
    BY <1>4 DEF Goes, c
  <2>2. Unfinished(c)
    BY <1>1, <1>4 DEF Unfinished, Complete
  <2>3. Rest' = Rest
    BY <1>1, <1>2, <2>1 DEF Rest
  <2>4. Bytes!Ask
    BY <1>1, <1>2, <2>1, <2>3 DEF Bytes!Ask, Bytes!Idle, Rest
  <2> QED
    BY <2>1, <2>2, <2>4 DEF Reading, Streams, Bytes!Next
<1> QED
  BY <1>3, <1>4

LEMMA Receives ==
  ASSUME Reading, Receive
  PROVE  Reading' /\ Streams
<1>1. Unfinished(call) /\ rio.unread = <<>> /\ call.got \in Text /\ wire \in Text
  BY NotIdle DEF Reading, Receive, Refilling, Unfinished
<1>2. PICK k \in 1..Min({BufSize, Len(wire)}) :
        /\ rio' = [cnt |-> k, unread |-> SubSeq(wire, 1, k)]
        /\ wire' = SubSeq(wire, k + 1, Len(wire))
  BY DEF Receive
<1>3. k \in 0..Len(wire) /\ k \in Nat /\ k > 0
  <2>1. Len(wire) \in Int /\ BufSize \in Int /\ Len(wire) \in Nat
    BY <1>1, BufSizeAssumption DEF Text
  <2>2. Min({BufSize, Len(wire)}) = IF BufSize <= Len(wire) THEN BufSize ELSE Len(wire)
    BY <2>1, Smaller
  <2>3. k \in 1..(IF BufSize <= Len(wire) THEN BufSize ELSE Len(wire))
    BY <2>2
  <2> QED
    BY <2>1, <2>3
<1>4. /\ rio'.unread \in Text /\ wire' \in Text /\ Len(rio'.unread) = k
      /\ rio'.unread \o wire' = wire /\ rio'.cnt = k
  BY <1>1, <1>2, <1>3, Splitting
<1>5. UNCHANGED <<call, reply>>
  BY DEF Receive
<1>6. Rest' = Rest
  <2>1. Rest' = call.got \o (rio'.unread \o wire')
    <3>1. Rest' = call.got \o rio'.unread \o wire'
      BY <1>5 DEF Rest
    <3>2. call.got \in Text /\ rio'.unread \in Text /\ wire' \in Text
      BY <1>1, <1>4
    <3>3. (call.got \o rio'.unread) \o wire' = call.got \o (rio'.unread \o wire')
      BY <3>2, Regroup
    <3> QED
      BY <3>1, <3>3
  <2>2. Rest = call.got \o wire
    BY <1>1, Joining DEF Rest
  <2> QED
    BY <1>4, <2>1, <2>2
<1>7. rio' \in [cnt : Int, unread : Text]
  BY <1>2, <1>3, <1>4
<1> QED
  BY <1>1, <1>3, <1>4, <1>5, <1>6, <1>7 DEF Reading, Streams, Wanted

LEMMA IsInterrupted ==
  ASSUME Reading, Interrupted
  PROVE  Reading' /\ Streams
<1>1. /\ rio' = [rio EXCEPT !.cnt = -1] /\ rio.cnt <= 0
      /\ UNCHANGED <<wire, call, reply>>
  BY DEF Interrupted, Refilling, readVars
<1>2. rio'.unread = rio.unread /\ rio'.cnt = -1 /\ rio' \in [cnt : Int, unread : Text]
  BY <1>1 DEF Reading
<1>3. Rest' = Rest /\ Wanted' = Wanted
  BY <1>1, <1>2 DEF Rest, Wanted
<1> QED
  BY <1>1, <1>2, <1>3 DEF Reading, Streams

(* The end of what was sent ends the call.                                 *)
LEMMA Ends ==
  ASSUME Reading, AtEnd
  PROVE  Reading' /\ Streams
<1> DEFINE g == call.got
<1>1. /\ Unfinished(call) /\ rio.unread = <<>> /\ g \in Text /\ wire = <<>>
      /\ call.want \in Nat /\ call.kind \in {"line", "bytes"} /\ Len(g) \in Nat
  BY NotIdle DEF Reading, AtEnd, Refilling, Unfinished, Text
<1>2. /\ rio' = [rio EXCEPT !.cnt = IF ending = "eof" THEN 0 ELSE -1]
      /\ call' = Idle /\ reply' = (IF ending = "eof" THEN g ELSE Error) /\ wire' = wire
  BY DEF AtEnd, Return
<1>3. rio'.unread = <<>> /\ rio'.cnt <= 0 /\ rio' \in [cnt : Int, unread : Text]
  BY <1>1, <1>2 DEF Reading
<1>4. reply' # NewConn
  BY <1>1, <1>2, NotNew, ErrorNotNew
<1>5. Rest = g /\ Rest' = <<>>
  <2>1. Rest = g
    BY <1>1, Joining DEF Rest
  <2>2. Rest' = <<>> \o <<>> \o <<>>
    BY <1>1, <1>2, <1>3 DEF Rest, Idle
  <2> QED
    BY <2>1, <2>2
<1>6. SubSeq(g, 1, Len(g)) = g /\ SubSeq(g, Len(g) + 1, Len(g)) = <<>>
  BY <1>1, SubSeqFull, SubSeqEmpty DEF Text
<1>7. call'.kind = "none" /\ call'.want = 0
  BY <1>2 DEF Idle
<1>8. Streams
  <2>1. CASE ending # "eof"
    <3>1. Len(g) \in 0..Len(g)
      BY <1>1
    <3>2. Bytes!Fail
      BY <1>1, <1>2, <1>5, <1>6, <1>7, <2>1, <3>1
         DEF Bytes!Fail, Bytes!Idle, Bytes!Failed, Error, Rest
    <3> QED
      BY <3>2 DEF Streams, Bytes!Next
  <2>2. CASE ending = "eof" /\ call.kind = "line"
    <3>1. Bytes!LineLength(g, call.want) = Len(g)
      BY <1>1, <2>2, LineEnds DEF Unfinished
    <3>2. Bytes!ReadLine
      BY <1>1, <1>2, <1>5, <1>6, <1>7, <2>2, <3>1
         DEF Bytes!ReadLine, Bytes!Take, Bytes!Idle, Rest
    <3> QED
      BY <3>2 DEF Streams, Bytes!Next
  <2>3. CASE ending = "eof" /\ call.kind = "bytes"
    <3>1. Bytes!Min({call.want, Len(g)}) = Len(g)
      <4>1. call.want \in Int /\ Len(g) \in Int /\ ~(call.want <= Len(g))
        BY <1>1, <2>3 DEF Unfinished
      <4> QED
        BY <4>1, Smaller
    <3>2. Bytes!ReadBytes
      BY <1>1, <1>2, <1>5, <1>6, <1>7, <2>3, <3>1
         DEF Bytes!ReadBytes, Bytes!Take, Bytes!Idle, Rest
    <3> QED
      BY <3>2 DEF Streams, Bytes!Next
  <2> QED
    BY <1>1, <2>1, <2>2, <2>3
<1> QED
  BY <1>1, <1>2, <1>3, <1>4, <1>8 DEF Reading

(* Some bytes go from the buffer to the caller.                            *)
LEMMA Copies ==
  ASSUME Reading, CopyOut
  PROVE  Reading' /\ Streams
<1> DEFINE g == call.got
           u == rio.unread
           n == IF call.kind = "line" THEN 1 ELSE Min({rio.cnt, call.want - Len(g)})
           a == SubSeq(u, 1, n)
           v == SubSeq(u, n + 1, Len(u))
           c == [call EXCEPT !.got = g \o a]
           h == g \o a
           t == v \o wire
<1>1. /\ Unfinished(call) /\ g \in Text /\ u \in Text /\ wire \in Text
      /\ rio.cnt > 0 /\ rio.cnt = Len(u) /\ Len(u) \in Nat /\ Len(g) \in Nat
      /\ call.want \in Nat /\ call.kind \in {"line", "bytes"}
      /\ call \in [kind : {"line", "bytes"}, want : Nat, got : Text]
  BY NotIdle DEF Reading, CopyOut, Unfinished, Text
<1>2. Goes(c) /\ rio' = [cnt |-> rio.cnt - n, unread |-> v] /\ UNCHANGED wire
  BY DEF CopyOut
<1>3. /\ n \in 0..Len(u) /\ n \in Nat /\ n # 0
      /\ call.kind = "line" => n = 1
      /\ call.kind = "bytes" => n <= call.want - Len(g)
  <2>1. CASE call.kind = "line"
    BY <1>1, <2>1
  <2>2. CASE call.kind = "bytes"
    <3>1. rio.cnt \in Int /\ call.want - Len(g) \in Int /\ Len(g) < call.want
      BY <1>1, <2>2 DEF Unfinished
    <3>2. n = IF rio.cnt <= call.want - Len(g) THEN rio.cnt ELSE call.want - Len(g)
      BY <2>2, <3>1, Smaller
    <3> HIDE DEF n
    <3> QED
      BY <1>1, <2>2, <3>1, <3>2
  <2> QED
    BY <1>1, <2>1, <2>2
<1> HIDE DEF n
<1>4. /\ a \in Text /\ v \in Text /\ Len(a) = n /\ Len(v) = Len(u) - n /\ a \o v = u
  BY <1>1, <1>3, Splitting
<1>5. c.got = h /\ c.kind = call.kind /\ c.want = call.want
      /\ (h \in Text => c \in [kind : {"line", "bytes"}, want : Nat, got : Text])
  BY <1>1
<1> HIDE DEF a, v, c
<1>6. /\ h \in Text /\ Len(h) = Len(g) + n /\ \A i \in 1..Len(g) : h[i] = g[i]
      /\ t \in Text
  BY <1>1, <1>4, Joining
<1>7. Rest = h \o t
  <2>1. g \o u \o wire = g \o (a \o v) \o wire
    BY <1>4
  <2>2. g \o (a \o v) = (g \o a) \o v
    BY <1>1, <1>4, Regroup
  <2>3. ((g \o a) \o v) \o wire = (g \o a) \o (v \o wire)
    <3>1. g \o a \in Text /\ v \in Text /\ wire \in Text
      BY <1>1, <1>4, <1>6
    <3> QED
      BY <3>1, Regroup
  <2> QED
    BY <2>1, <2>2, <2>3 DEF Rest
<1> HIDE DEF g, u, h, t
<1>8. /\ h \o t \in Text /\ Len(h \o t) = Len(h) + Len(t) /\ Len(h) \in Nat /\ Len(t) \in Nat
      /\ SubSeq(h \o t, 1, Len(h)) = h /\ SubSeq(h \o t, Len(h) + 1, Len(h \o t)) = t
      /\ \A i \in 1..Len(h) : (h \o t)[i] = h[i]
  BY <1>6, Joining
<1>9. /\ rio' \in [cnt : Int, unread : Text] /\ rio'.unread = v
      /\ rio'.cnt > 0 => rio'.cnt = Len(rio'.unread)
      /\ rio'.cnt <= 0 => rio'.unread = <<>>
  <2>1. rio' \in [cnt : Int, unread : Text] /\ rio'.unread = v /\ rio'.cnt = Len(v)
    BY <1>1, <1>2, <1>3, <1>4
  <2>2. Len(v) \in Nat /\ (Len(v) = 0 => v = <<>>)
    BY <1>4, EmptySeq DEF Text
  <2> QED
    BY <2>1, <2>2
<1>10. CASE Complete(c)
  <2>1. call' = Idle /\ reply' = h
    BY <1>2, <1>5, <1>10 DEF Goes, Return
  <2>2. Rest' = t
    <3>1. Rest' = <<>> \o v \o wire
      BY <1>2, <1>9, <2>1 DEF Rest, Idle
    <3> QED
      BY <1>4, <3>1, Joining DEF t
  <2>3. call'.kind = "none" /\ call'.want = 0
    BY <2>1 DEF Idle
  <2>4. ASSUME call.kind = "line"
        PROVE  Streams
    <3>1. Len(h) = Len(g) + 1 /\ Len(g) < call.want - 1 /\ Len(h) <= call.want - 1
          /\ \A i \in 1..Len(h) - 1 : h[i] # "nl"
      BY <1>1, <1>3, <1>6, <2>4 DEF Unfinished, g
    <3>2. Len(h) = call.want - 1 \/ h[Len(h)] = "nl"
      BY <1>5, <1>8, <1>1, <1>10, <2>4, <3>1 DEF Complete, Last
    <3>3. Bytes!LineLength(h \o t, call.want) = Len(h)
      <4> DEFINE s == h \o t
                 m == Len(h)
      <4>1. s \in Text /\ m \in 0..Len(s) /\ m <= call.want - 1 /\ call.want \in Nat /\ m # 0
        BY <1>1, <1>8, <3>1
      <4>2. \A i \in 1..m - 1 : s[i] # "nl"
        BY <1>8, <3>1
      <4>3. m = call.want - 1 \/ s[m] = "nl"
        BY <1>1, <1>8, <3>1, <3>2
      <4> HIDE DEF s, m
      <4>4. Bytes!LineLength(s, call.want) = m
        BY <4>1, <4>2, <4>3, LineEnds
      <4> QED
        BY <4>4 DEF s, m
    <3>4. Bytes!ReadLine
      BY <1>7, <1>8, <2>1, <2>2, <2>3, <2>4, <3>3
         DEF Bytes!ReadLine, Bytes!Take, Bytes!Idle, Rest
    <3> QED
      BY <3>4 DEF Streams, Bytes!Next
  <2>5. ASSUME call.kind = "bytes"
        PROVE  Streams
    <3>1. Len(h) = call.want
      BY <1>5, <1>10, <2>5 DEF Complete
    <3>2. Bytes!Min({call.want, Len(h \o t)}) = Len(h)
      <4>1. call.want \in Int /\ Len(h \o t) \in Int /\ call.want <= Len(h \o t)
        BY <1>1, <1>8, <3>1
      <4> QED
        BY <3>1, <4>1, Smaller
    <3>3. Bytes!ReadBytes
      BY <1>7, <1>8, <2>1, <2>2, <2>3, <2>5, <3>2
         DEF Bytes!ReadBytes, Bytes!Take, Bytes!Idle, Rest
    <3> QED
      BY <3>3 DEF Streams, Bytes!Next
  <2>6. reply' # NewConn
    BY <1>6, <2>1, NotNew
  <2> QED
    BY <1>1, <1>2, <1>9, <2>1, <2>4, <2>5, <2>6 DEF Reading, Streams
<1>11. CASE ~Complete(c)
  <2>1. call' = c /\ reply' = reply
    BY <1>2, <1>11 DEF Goes
  <2>2. Rest' = Rest
    <3>1. Rest' = h \o v \o wire
      BY <1>2, <1>5, <1>9, <2>1 DEF Rest
    <3>2. h \in Text /\ v \in Text /\ wire \in Text
      BY <1>1, <1>4, <1>6
    <3>3. (h \o v) \o wire = h \o (v \o wire)
      BY <3>2, Regroup
    <3> QED
      BY <1>7, <3>1, <3>3 DEF t
  <2>3. Wanted' = Wanted
    BY <1>5, <2>1 DEF Wanted
  <2>4. Unfinished(c)
    <3>1. c \in [kind : {"line", "bytes"}, want : Nat, got : Text]
      BY <1>5, <1>6
    <3>2. ASSUME c.kind = "line"
          PROVE  /\ Len(c.got) < c.want - 1
                 /\ \A i \in 1..Len(c.got) : c.got[i] # "nl"
      <4>1. Len(h) = Len(g) + 1 /\ \A i \in 1..Len(g) : h[i] # "nl"
        BY <1>1, <1>3, <1>5, <1>6, <3>2 DEF Unfinished, g
      <4>2. ~(Len(h) >= call.want - 1) /\ ~(h # <<>> /\ h[Len(h)] = "nl")
        BY <1>5, <1>11, <3>2 DEF Complete, Last
      <4>3. h # <<>>
        BY <1>1, <4>1
      <4>4. \A i \in 1..Len(h) : i \in 1..Len(g) \/ i = Len(h)
        BY <1>1, <4>1
      <4> QED
        BY <1>1, <1>5, <1>8, <4>1, <4>2, <4>3, <4>4
    <3>3. ASSUME c.kind = "bytes"
          PROVE  Len(c.got) < c.want
      <4>1. Len(h) # call.want
        BY <1>5, <1>11, <3>3 DEF Complete
      <4>2. Len(h) <= call.want
        BY <1>1, <1>3, <1>5, <1>6, <3>3 DEF g
      <4> QED
        BY <1>1, <1>5, <1>8, <4>1, <4>2
    <3> QED
      BY <3>1, <3>2, <3>3 DEF Unfinished
  <2> QED
    BY <1>1, <1>2, <1>9, <2>1, <2>2, <2>3, <2>4 DEF Reading, Streams
<1> QED
  BY <1>10, <1>11

(* A new connection, on which a line is asked for.                         *)
LEMMA Connects ==
  ASSUME Reading, call = Idle, NEW bytes \in Text, NEW end, NEW n \in Nat, n >= 2,
         Connect(bytes, end, Asked("line", n))
  PROVE  Reading' /\ Streams
<1>1. /\ wire' = bytes /\ rio' = Empty /\ call' = Asked("line", n) /\ reply' = NewConn
  BY DEF Connect
<1>2. /\ call'.kind = "line" /\ call'.want = n /\ call'.got = <<>>
      /\ rio'.unread = <<>> /\ rio'.cnt = 0 /\ rio' \in [cnt : Int, unread : Text]
      /\ Unfinished(call')
  <2>1. Len(<<>>) = 0 /\ <<>> \in Text
    BY DEF Text
  <2> QED
    BY <1>1, <2>1 DEF Asked, Empty, Unfinished
<1>3. Rest' = bytes
  <2>1. Rest' = <<>> \o <<>> \o bytes
    BY <1>1, <1>2 DEF Rest
  <2>2. <<>> \o <<>> = <<>>
    OBVIOUS
  <2> QED
    BY <2>1, <2>2, Joining
<1>4. reply # NewConn
  BY NotIdle DEF Reading
<1>5. Bytes!Fresh
  BY <1>1, <1>2, <1>3, <1>4 DEF Bytes!Fresh, Bytes!New, NewConn, Rest, Text, Char
<1> QED
  BY <1>1, <1>2, <1>5 DEF Reading, Streams, Bytes!Next

LEMMA Rests ==
  ASSUME Reading, UNCHANGED <<wire, rio, call, reply>>
  PROVE  Reading' /\ Streams
BY DEF Reading, Streams, Rest, Wanted

LEMMA Reads ==
  ASSUME Reading, ReadStep
  PROVE  Reading' /\ Streams
BY Receives, IsInterrupted, Ends, Copies DEF ReadStep

(* A connection whose reads have not begun.                                *)
LEMMA StartsReading ==
  ASSUME wire \in Text, rio = Empty, call = Idle, reply = <<>>
  PROVE  Reading /\ Rest \in Text /\ Wanted = Bytes!Idle
<1>1. call.got = <<>> /\ call.kind = "none" /\ call.want = 0
  BY DEF Idle
<1>2. rio.cnt = 0 /\ rio.unread = <<>> /\ <<>> \in Text
  BY DEF Empty, Text
<1>3. reply # NewConn
  BY <1>2, NotNew
<1>4. Rest \in Text
  <2>1. <<>> \o <<>> \in Text
    BY <1>2, Joining
  <2> QED
    BY <1>1, <1>2, <2>1, Joining DEF Rest
<1> QED
  BY <1>1, <1>2, <1>3, <1>4 DEF Reading, Wanted, Bytes!Idle, Empty

(* Whatever pieces the bytes come in, and however a caller mixes its calls *)
(* for lines and for bytes, the calls of the Rio package return the bytes  *)
(* of the connection in their order, each once, a line up to its end:      *)
(* rio_readlineb and rio_readnb implement ByteStream.                      *)
THEOREM CallerReads ==
  CallerInit(Seq(Bytes!Byte)) /\ [][CallerNext(Nat)]_rioVars => ImplementsStream
<1>1. CallerInit(Text) => Reading /\ Rest \in Text /\ Wanted = Bytes!Idle /\ reply = <<>>
  BY StartsReading DEF CallerInit
<1>2. Reading /\ [CallerNext(Nat)]_rioVars => Reading' /\ Streams
  <2> SUFFICES ASSUME Reading, [CallerNext(Nat)]_rioVars
               PROVE  Reading' /\ Streams
    OBVIOUS
  <2>1. ASSUME NEW n \in Nat, NEW kind \in {"line", "bytes"}, Begin(kind, n)
        PROVE  Reading' /\ Streams
    BY <2>1, Begins DEF Begin
  <2>2. CASE ReadStep
    BY <2>2, Reads
  <2>3. CASE UNCHANGED rioVars
    BY <2>3, Rests DEF rioVars, readVars
  <2> QED
    BY <2>1, <2>2, <2>3 DEF CallerNext
<1>3. Streams => [Bytes!Next]_<<Rest, Wanted, reply>>
  BY DEF Streams
<1> QED
  BY <1>1, <1>2, <1>3, PTL DEF ImplementsStream, Bytes!Spec, Bytes!vars, Rest, Wanted, Text, Char

-----------------------------------------------------------------------------
(* Tiny                                                                    *)

(* Tiny reads only for a request and its headers, and then it has nothing  *)
(* to write.                                                               *)
Serving ==
  /\ Reading
  /\ IF at \in {"request", "headers"} THEN todo = <<>> ELSE call = Idle

LEMMA Asks ==
  ASSUME MaxLine \in Nat, MaxLine >= 2, Reading, call = Idle, call' = LineCall,
         UNCHANGED <<wire, rio, reply>>
  PROVE  Reading' /\ Streams
<1>1. ~Complete(LineCall)
  BY DEF Complete, LineCall, Asked
<1>2. Goes(LineCall)
  BY <1>1 DEF Goes
<1> QED
  BY <1>2, Begins DEF LineCall

LEMMA ServingStep ==
  ASSUME Requests \subseteq Text, MaxLine \in Nat, MaxLine >= 2,
         Serving, [TinyNext]_tinyVars
  PROVE  Serving' /\ Streams
<1>1. CASE Open_listenfd \/ ReadFails \/ Hangup \/ Wait
  <2>1. UNCHANGED rioVars /\ call = Idle /\ at' \notin {"request", "headers"}
    BY <1>1 DEF Serving, Open_listenfd, ReadFails, Hangup, Wait
  <2> QED
    BY <2>1, Rests DEF Serving, rioVars, readVars
<1>2. CASE Accept
  <2>1. call = Idle
    BY <1>2 DEF Accept, Serving
  <2>2. PICK r \in Requests, end \in {"open", "eof", "reset"} : \E n \in 0..Len(r) :
          /\ sent' = SubSeq(r, 1, n)
          /\ Connect(sent', end, LineCall)
    BY <1>2, Zenon DEF Accept
  <2>3. sent' \in Text
    BY <2>2, Splitting
  <2>4. Reading' /\ Streams
    BY <2>1, <2>2, <2>3, Connects DEF LineCall, Serving
  <2>5. at' = "request" /\ todo' = <<>>
    BY <1>2, <2>2 DEF Accept, Connect
  <2> QED
    BY <2>4, <2>5 DEF Serving
<1>3. CASE TakeRequest
  <2>1. at = "request" /\ call = Idle /\ todo = <<>> /\ Reading
    BY <1>3 DEF TakeRequest, Serving
  <2>2. \/ at' = "accept" /\ UNCHANGED rioVars
        \/ at' = "answer" /\ UNCHANGED readVars
        \/ at' = "headers" /\ call' = LineCall /\ UNCHANGED <<wire, rio, reply, todo>>
    BY <1>3 DEF TakeRequest
  <2>3. CASE at' # "headers"
    <3>1. UNCHANGED <<wire, rio, call, reply>> /\ at' \notin {"request", "headers"}
      BY <2>2, <2>3 DEF rioVars, readVars
    <3> QED
      BY <2>1, <3>1, Rests DEF Serving
  <2>4. CASE at' = "headers"
    <3>1. call' = LineCall /\ UNCHANGED <<wire, rio, reply, todo>>
      BY <2>2, <2>4
    <3> QED
      BY <2>1, <2>4, <3>1, Asks DEF Serving
  <2> QED
    BY <2>3, <2>4
<1>4. CASE TakeHeader
  <2>1. at = "headers" /\ call = Idle /\ todo = <<>> /\ Reading
        /\ UNCHANGED <<wire, rio, reply>>
    BY <1>4 DEF TakeHeader, Serving
  <2>2. CASE buf' = Blank
    <3>1. UNCHANGED call /\ at' \notin {"request", "headers"}
      BY <1>4, <2>2 DEF TakeHeader, Then
    <3> QED
      BY <2>1, <3>1, Rests DEF Serving
  <2>3. CASE buf' # Blank
    <3>1. call' = LineCall /\ UNCHANGED <<todo, at>>
      BY <1>4, <2>3 DEF TakeHeader
    <3> QED
      BY <2>1, <3>1, Asks DEF Serving
  <2> QED
    BY <2>2, <2>3
<1>5. CASE SendFile \/ Fork
  <2>1. UNCHANGED readVars /\ at \notin {"request", "headers"}
        /\ at' \notin {"request", "headers"}
    BY <1>5 DEF SendFile, Fork
  <2> QED
    BY <2>1, Rests DEF Serving, readVars
<1>6. CASE BrokenPipe
  <2>1. UNCHANGED readVars /\ at \notin {"request", "headers"}
        /\ at' \notin {"request", "headers"}
    BY <1>6 DEF BrokenPipe, Serving
  <2> QED
    BY <2>1, Rests DEF Serving, readVars
<1>7. CASE IO(WriteSome) \/ ClientStops \/ UNCHANGED tinyVars
  <2>1. UNCHANGED <<wire, rio, call, reply, at>>
        /\ (at \in {"request", "headers"} => UNCHANGED todo)
    BY <1>7 DEF IO, WriteSome, ClientStops, Serving, tinyVars, rioVars, readVars, writeVars
  <2> QED
    BY <2>1, Rests DEF Serving
<1>8. CASE IO(Receive) \/ IO(AtEnd) \/ IO(CopyOut) \/ IO(Interrupted)
  <2>1. ReadStep /\ at' = at /\ todo' = todo /\ call # Idle
    BY <1>8 DEF IO, ReadStep, Receive, AtEnd, CopyOut, Interrupted, Refilling, writeVars
  <2>2. at \in {"request", "headers"}
    BY <2>1 DEF Serving
  <2> QED
    BY <2>1, <2>2, Reads DEF Serving
<1> QED
  BY <1>1, <1>2, <1>3, <1>4, <1>5, <1>6, <1>7, <1>8 DEF TinyNext, Server

(* So it is with Tiny: whatever its clients send, in whatever pieces, and  *)
(* wherever they stop, each line that doit and read_requesthdrs see is the *)
(* next line of the connection they serve.                                 *)
THEOREM TinyReads ==
  ASSUME Requests \subseteq Seq(Bytes!Byte), MaxLine \in Nat, MaxLine >= 2
  PROVE  TinyInit /\ [][TinyNext]_tinyVars => ImplementsStream
<1>1. TinyInit => Serving /\ Rest \in Text /\ Wanted = Bytes!Idle /\ reply = <<>>
  <2>1. <<>> \in Text
    BY DEF Text
  <2> QED
    BY <2>1, StartsReading DEF TinyInit, Serving
<1>2. Serving /\ [TinyNext]_tinyVars => Serving' /\ Streams
  BY ServingStep DEF Text, Char
<1>3. Streams => [Bytes!Next]_<<Rest, Wanted, reply>>
  BY DEF Streams
<1> QED
  BY <1>1, <1>2, <1>3, PTL DEF ImplementsStream, Bytes!Spec, Bytes!vars, Rest, Wanted, Text, Char

-----------------------------------------------------------------------------
(* The performance lab                                                     *)

(* A pixel has one place in its image.                                     *)
LEMMA InImage ==
  ASSUME NEW n \in Nat, NEW i \in 0..n - 1, NEW j \in 0..n - 1
  PROVE  RIDX(i, j, n) \in 0..n * n - 1 /\ n * n \in Nat
<1>1. i * n \in Nat /\ n * n \in Nat /\ (n - 1 - i) * n \in Nat
  OBVIOUS
<1>2. (n - 1 - i) * n = n * n - n - i * n
  OBVIOUS
<1> QED
  BY <1>1, <1>2 DEF RIDX

LEMMA OnePlace ==
  ASSUME NEW n \in Nat, NEW i \in 0..n - 1, NEW j \in 0..n - 1,
         NEW k \in 0..n - 1, NEW l \in 0..n - 1, RIDX(i, j, n) = RIDX(k, l, n)
  PROVE  i = k /\ j = l
<1>1. \A a, b \in 0..n - 1 : a < b => a * n + n <= b * n
  <2> SUFFICES ASSUME NEW a \in 0..n - 1, NEW b \in 0..n - 1, a < b
               PROVE  a * n + n <= b * n
    OBVIOUS
  <2>1. (b - a - 1) * n \in Nat
    OBVIOUS
  <2>2. (b - a - 1) * n = b * n - a * n - n
    OBVIOUS
  <2> QED
    BY <2>1, <2>2
<1>2. i * n \in Nat /\ k * n \in Nat /\ i * n + j = k * n + l
  BY DEF RIDX
<1>3. ~(i < k) /\ ~(k < i)
  BY <1>1, <1>2
<1>4. i = k
  BY <1>3
<1> QED
  BY <1>2, <1>4

(* What the driver made of the three images.                               *)
Laid(n, d) == DOMAIN d = 0..3 * n * n - 1 /\ check_orig(n, d)

LEMMA Creates ==
  ASSUME NEW n \in Nat, NEW image \in Images(n)
  PROVE  Laid(n, Created(n, image))
<1> DEFINE m == n * n
<1>1. m \in Nat /\ 3 * n * n = 3 * m /\ 2 * n * n = 2 * m
  OBVIOUS
<1> HIDE DEF m
<1>2. Created(n, image) = [k \in 0..3 * m - 1 |->
                             IF k < m THEN image[k] ELSE IF k < 2 * m THEN 0 ELSE image[k - 2 * m]]
  BY <1>1 DEF Created, Result, CopyOf, m
<1>3. check_orig(n, Created(n, image)) <=>
        \A k \in 0..m - 1 : Created(n, image)[0 + k] = Created(n, image)[2 * m + k]
  BY <1>1 DEF check_orig, Orig, CopyOf, m
<1> HIDE DEF m
<1>4. ASSUME NEW k \in 0..m - 1
      PROVE  Created(n, image)[0 + k] = Created(n, image)[2 * m + k]
  <2>1. k \in 0..3 * m - 1 /\ 2 * m + k \in 0..3 * m - 1 /\ k < m /\ ~(2 * m + k < m)
        /\ ~(2 * m + k < 2 * m) /\ 2 * m + k - 2 * m = k /\ 0 + k = k
    BY <1>1
  <2>2. Created(n, image)[k] = image[k]
    BY <1>2, <2>1
  <2>3. Created(n, image)[2 * m + k] = image[k]
    <3> DEFINE q == 2 * m + k
    <3>1. q \in 0..3 * m - 1 /\ ~(q < m) /\ ~(q < 2 * m) /\ q - 2 * m = k
      BY <1>1, <2>1
    <3> HIDE DEF q
    <3>2. Created(n, image)[q] = image[k]
      BY <1>2, <3>1
    <3> QED
      BY <3>2, Zenon DEF q
  <2> QED
    BY <2>1, <2>2, <2>3
<1> QED
  BY <1>1, <1>2, <1>3, <1>4 DEF Laid, m

(* What is written behind the original leaves it alone.                    *)
LEMMA Writes ==
  ASSUME NEW n \in Nat, NEW d, Laid(n, d),
         NEW w, \A k \in DOMAIN w : k \in n * n..n * n + n * n - 1,
         NEW r, r = [k \in DOMAIN w \cup DOMAIN d |-> IF k \in DOMAIN w THEN w[k] ELSE d[k]]
  PROVE  /\ Laid(n, r) /\ Source(n, r) = Source(n, d)
         /\ \A k \in 0..n * n - 1 : r[k] = Source(n, d)[k]
         /\ \A k \in DOMAIN w : r[k] = w[k]
<1> DEFINE m == n * n
<1>1. m \in Nat /\ 3 * n * n = 3 * m /\ 2 * n * n = 2 * m
  OBVIOUS
<1>2. DOMAIN d = 0..3 * m - 1 /\ \A k \in 0..m - 1 : d[k] = d[2 * m + k]
  <2>1. \A k \in 0..m - 1 : 0 + k = k
    BY <1>1
  <2> QED
    BY <1>1, <2>1 DEF Laid, check_orig, Orig, CopyOf
<1> HIDE DEF m
<1>3. \A k \in DOMAIN w : k \in m..2 * m - 1
  BY <1>1 DEF m
<1>4. DOMAIN r = 0..3 * m - 1
  <2>1. DOMAIN r = DOMAIN w \cup DOMAIN d
    OBVIOUS
  <2> QED
    BY <1>1, <1>2, <1>3, <2>1
<1>5. \A k \in 0..m - 1 : r[k] = d[k] /\ r[2 * m + k] = d[2 * m + k]
  <2> SUFFICES ASSUME NEW k \in 0..m - 1
               PROVE  r[k] = d[k] /\ r[2 * m + k] = d[2 * m + k]
    OBVIOUS
  <2>1. k \in DOMAIN d /\ 2 * m + k \in DOMAIN d
    BY <1>1, <1>2
  <2>2. k \notin DOMAIN w /\ 2 * m + k \notin DOMAIN w
    BY <1>1, <1>3
  <2> QED
    BY <2>1, <2>2
<1>6. \A k \in 0..m - 1 : 0 + k = k
  BY <1>1
<1>7. Source(n, r) = Source(n, d) /\ \A k \in 0..m - 1 : r[k] = Source(n, d)[k]
  <2> DEFINE a == Source(n, r)
             b == Source(n, d)
  <2>1. a = [k \in 0..m - 1 |-> r[0 + k]] /\ b = [k \in 0..m - 1 |-> d[0 + k]]
    BY DEF Source, Orig, m
  <2> HIDE DEF a, b
  <2>2. \A k \in 0..m - 1 : r[0 + k] = d[0 + k] /\ r[k] = d[0 + k]
    BY <1>5, <1>6
  <2>3. a = b /\ \A k \in 0..m - 1 : r[k] = b[k]
    BY <2>1, <2>2
  <2> QED
    BY <2>3 DEF a, b
<1>8. check_orig(n, r)
  <2>1. \A k \in 0..m - 1 : r[0 + k] = r[2 * m + k]
    BY <1>2, <1>5, <1>6
  <2> QED
    BY <1>1, <2>1 DEF check_orig, Orig, CopyOf, m
<1> QED
  BY <1>1, <1>4, <1>7, <1>8 DEF Laid, m

(* A kernel writes each pixel of the result from the right pixels.         *)
LEMMA Rotates ==
  ASSUME NEW n \in Nat, NEW src
  PROVE  LET w == naive_rotate(n, src)
         IN  /\ \A k \in DOMAIN w : k \in n * n..n * n + n * n - 1
             /\ \A c \in Cells(n) :
                  LET k == n * n + RIDX(n - 1 - c[2], c[1], n)
                  IN  k \in DOMAIN w /\ w[k] = src[RIDX(c[1], c[2], n)]
<1> DEFINE where(c) == n * n + RIDX(n - 1 - c[2], c[1], n)
           w == naive_rotate(n, src)
<1>1. w = [k \in {where(c) : c \in Cells(n)} |->
             LET c == CHOOSE c \in Cells(n) : where(c) = k IN src[RIDX(c[1], c[2], n)]]
  BY DEF naive_rotate, Written, Result
<1>2. ASSUME NEW c \in Cells(n)
      PROVE  /\ c[1] \in 0..n - 1 /\ c[2] \in 0..n - 1 /\ n - 1 - c[2] \in 0..n - 1
             /\ c = <<c[1], c[2]>>
  BY DEF Cells
<1>3. ASSUME NEW c \in Cells(n)
      PROVE  where(c) \in n * n..n * n + n * n - 1
  <2>1. RIDX(n - 1 - c[2], c[1], n) \in 0..n * n - 1 /\ n * n \in Nat
    BY <1>2, InImage
  <2> QED
    BY <2>1
<1>4. ASSUME NEW c \in Cells(n), NEW e \in Cells(n), where(c) = where(e)
      PROVE  c = e
  <2>1. RIDX(n - 1 - c[2], c[1], n) \in Int /\ RIDX(n - 1 - e[2], e[1], n) \in Int /\ n * n \in Int
    BY <1>2, InImage
  <2>2. RIDX(n - 1 - c[2], c[1], n) = RIDX(n - 1 - e[2], e[1], n)
    BY <1>4, <2>1
  <2>3. n - 1 - c[2] = n - 1 - e[2] /\ c[1] = e[1]
    BY <1>2, <2>2, OnePlace
  <2>4. c[1] = e[1] /\ c[2] = e[2]
    BY <1>2, <2>3
  <2> QED
    BY <1>2, <2>4
<1> HIDE DEF where, w
<1>5. ASSUME NEW c \in Cells(n)
      PROVE  where(c) \in DOMAIN w /\ w[where(c)] = src[RIDX(c[1], c[2], n)]
  <2> DEFINE e == CHOOSE e \in Cells(n) : where(e) = where(c)
  <2>1. e \in Cells(n) /\ where(e) = where(c)
    OBVIOUS
  <2> HIDE DEF e
  <2>2. e = c
    BY <1>4, <2>1
  <2>3. where(c) \in DOMAIN w /\ w[where(c)] = src[RIDX(e[1], e[2], n)]
    BY <1>1 DEF e
  <2> QED
    BY <2>2, <2>3
<1>6. \A k \in DOMAIN w : k \in n * n..n * n + n * n - 1
  BY <1>1, <1>3
<1> QED
  BY <1>5, <1>6 DEF where, w

LEMMA Smooths ==
  ASSUME NEW n \in Nat, NEW src
  PROVE  LET w == naive_smooth(n, src)
         IN  /\ \A k \in DOMAIN w : k \in n * n..n * n + n * n - 1
             /\ \A c \in Cells(n) :
                  LET k == n * n + RIDX(c[1], c[2], n)
                  IN  k \in DOMAIN w /\ w[k] = avg(n, c[1], c[2], src)
<1> DEFINE where(c) == n * n + RIDX(c[1], c[2], n)
           w == naive_smooth(n, src)
<1>1. w = [k \in {where(c) : c \in Cells(n)} |->
             LET c == CHOOSE c \in Cells(n) : where(c) = k IN avg(n, c[1], c[2], src)]
  BY DEF naive_smooth, Written, Result
<1>2. ASSUME NEW c \in Cells(n)
      PROVE  c[1] \in 0..n - 1 /\ c[2] \in 0..n - 1 /\ c = <<c[1], c[2]>>
  BY DEF Cells
<1>3. ASSUME NEW c \in Cells(n)
      PROVE  where(c) \in n * n..n * n + n * n - 1
  <2>1. RIDX(c[1], c[2], n) \in 0..n * n - 1 /\ n * n \in Nat
    BY <1>2, InImage
  <2> QED
    BY <2>1
<1>4. ASSUME NEW c \in Cells(n), NEW e \in Cells(n), where(c) = where(e)
      PROVE  c = e
  <2>1. RIDX(c[1], c[2], n) \in Int /\ RIDX(e[1], e[2], n) \in Int /\ n * n \in Int
    BY <1>2, InImage
  <2>2. RIDX(c[1], c[2], n) = RIDX(e[1], e[2], n)
    <3> DEFINE p == RIDX(c[1], c[2], n)
               q == RIDX(e[1], e[2], n)
               m == n * n
    <3>1. m + p = m + q
      BY <1>4
    <3>2. p \in Int /\ q \in Int /\ m \in Int
      BY <2>1
    <3> HIDE DEF p, q, m
    <3>3. p = q
      BY <3>1, <3>2
    <3> QED
      BY <3>3 DEF p, q
  <2>3. c[1] = e[1] /\ c[2] = e[2]
    BY <1>2, <2>2, OnePlace
  <2> QED
    BY <1>2, <2>3
<1> HIDE DEF where, w
<1>5. ASSUME NEW c \in Cells(n)
      PROVE  where(c) \in DOMAIN w /\ w[where(c)] = avg(n, c[1], c[2], src)
  <2> DEFINE e == CHOOSE e \in Cells(n) : where(e) = where(c)
  <2>1. e \in Cells(n) /\ where(e) = where(c)
    OBVIOUS
  <2> HIDE DEF e
  <2>2. e = c
    BY <1>4, <2>1
  <2>3. where(c) \in DOMAIN w /\ w[where(c)] = avg(n, e[1], e[2], src)
    BY <1>1 DEF e
  <2> QED
    BY <2>2, <2>3
<1>6. \A k \in DOMAIN w : k \in n * n..n * n + n * n - 1
  BY <1>1, <1>3
<1> QED
  BY <1>5, <1>6 DEF where, w

(* The square that smooth averages over is the one that the driver does.   *)
LEMMA SameSquare ==
  ASSUME NEW n \in Nat, NEW i \in 0..n - 1, NEW j \in 0..n - 1, NEW src
  PROVE  avg(n, i, j, src) = check_average(n, i, j, src)
<1> DEFINE around == (Max({i - 1, 0})..Min({i + 1, n - 1})) \X (Max({j - 1, 0})..Min({j + 1, n - 1}))
           near == {c \in Cells(n) : c[1] - i \in -1..1 /\ c[2] - j \in -1..1}
<1>1. ASSUME NEW a \in Int, NEW b \in Int
      PROVE  /\ Max({a, b}) = IF a <= b THEN b ELSE a
             /\ Min({a, b}) = IF a <= b THEN a ELSE b
  <2>1. \A x \in {a, b} : (\A y \in {a, b} : x >= y) => x = IF a <= b THEN b ELSE a
    OBVIOUS
  <2>2. \E x \in {a, b} : \A y \in {a, b} : x >= y
    OBVIOUS
  <2>3. \A x \in {a, b} : (\A y \in {a, b} : x <= y) => x = IF a <= b THEN a ELSE b
    OBVIOUS
  <2>4. \E x \in {a, b} : \A y \in {a, b} : x <= y
    OBVIOUS
  <2>5. Max({a, b}) = IF a <= b THEN b ELSE a
    BY <2>1, <2>2 DEF Max
  <2>6. Min({a, b}) = IF a <= b THEN a ELSE b
    BY <2>3, <2>4 DEF Min
  <2> QED
    BY <2>5, <2>6
<1>2. ASSUME NEW k \in 0..n - 1
      PROVE  Max({k - 1, 0})..Min({k + 1, n - 1}) = {x \in 0..n - 1 : x - k \in -1..1}
  <2>0. k - 1 \in Int /\ 0 \in Int /\ k + 1 \in Int /\ n - 1 \in Int
    OBVIOUS
  <2>1. Max({k - 1, 0}) = IF k - 1 <= 0 THEN 0 ELSE k - 1
    BY <1>1, <2>0
  <2>2. Min({k + 1, n - 1}) = IF k + 1 <= n - 1 THEN k + 1 ELSE n - 1
    BY <1>1, <2>0, Zenon
  <2> QED
    BY <2>1, <2>2
<1>3. around = near
  <2>1. around = {x \in 0..n - 1 : x - i \in -1..1} \X {x \in 0..n - 1 : x - j \in -1..1}
    BY <1>2
  <2> HIDE DEF around
  <2> QED
    BY <2>1 DEF Cells
<1> HIDE DEF around, near
<1> QED
  BY <1>3 DEF avg, check_average, around, near

(* Run on images that the driver laid out, a kernel passes the checks, and *)
(* can be run again.                                                       *)
LEMMA RunPasses ==
  ASSUME NEW n \in Nat, NEW d, Laid(n, d)
  PROVE  Laid(n, Run(n, d)) /\ Passes(n, Run(n, d))
<1> DEFINE w == IF bench = "rotate" THEN naive_rotate(n, Source(n, d))
                                    ELSE naive_smooth(n, Source(n, d))
           r == Run(n, d)
<1>1. r = [k \in DOMAIN w \cup DOMAIN d |-> IF k \in DOMAIN w THEN w[k] ELSE d[k]]
  BY DEF Run
<1>2. \A k \in DOMAIN w : k \in n * n..n * n + n * n - 1
  BY Rotates, Smooths
<1> HIDE DEF w, r
<1>3. /\ Laid(n, r) /\ Source(n, r) = Source(n, d)
      /\ \A k \in 0..n * n - 1 : r[k] = Source(n, d)[k]
      /\ \A k \in DOMAIN w : r[k] = w[k]
  BY <1>1, <1>2, Writes
<1>4. check_orig(n, r)
  BY <1>3 DEF Laid
<1>5. \A c \in Cells(n) : c[1] \in 0..n - 1 /\ c[2] \in 0..n - 1
  BY DEF Cells
<1>6. CASE bench = "rotate"
  <2>1. w = naive_rotate(n, Source(n, d))
    BY <1>6 DEF w
  <2>2. ASSUME NEW c \in Cells(n)
        PROVE  r[RIDX(c[1], c[2], n)] = r[n * n + RIDX(n - 1 - c[2], c[1], n)]
    <3>1. r[RIDX(c[1], c[2], n)] = Source(n, d)[RIDX(c[1], c[2], n)]
      BY <1>3, <1>5, InImage
    <3> DEFINE k == n * n + RIDX(n - 1 - c[2], c[1], n)
    <3>2. k \in DOMAIN w /\ w[k] = Source(n, d)[RIDX(c[1], c[2], n)]
      BY <2>1, Rotates
    <3> HIDE DEF k
    <3>3. r[k] = w[k]
      BY <1>3, <3>2
    <3> QED
      BY <3>1, <3>2, <3>3 DEF k
  <2> QED
    BY <1>3, <1>4, <1>6, <2>2 DEF Passes, check_rotate, Result, r
<1>7. CASE bench # "rotate"
  <2>1. w = naive_smooth(n, Source(n, d))
    BY <1>7 DEF w
  <2>2. ASSUME NEW c \in Cells(n)
        PROVE  r[n * n + RIDX(c[1], c[2], n)] = check_average(n, c[1], c[2], Source(n, r))
    <3> DEFINE k == n * n + RIDX(c[1], c[2], n)
    <3>1. k \in DOMAIN w /\ w[k] = avg(n, c[1], c[2], Source(n, d))
      BY <2>1, Smooths
    <3> HIDE DEF k
    <3>2. r[k] = w[k]
      BY <1>3, <3>1
    <3>3. avg(n, c[1], c[2], Source(n, d)) = check_average(n, c[1], c[2], Source(n, r))
      BY <1>3, <1>5, SameSquare
    <3> QED
      BY <3>1, <3>2, <3>3 DEF k
  <2> QED
    BY <1>3, <1>4, <1>7, <2>2 DEF Passes, check_smooth, Result, r
<1> QED
  BY <1>6, <1>7

(* The driver has a test to run, and its images are as it laid them out.   *)
Driving ==
  /\ stage \in {"odd", "dim", "image", "time", "done", "fatal"}
  /\ stage \notin {"done", "fatal"} => testNum \in 1..Len(TestDims)
  /\ stage \in {"image", "time"} => dim \in Nat
  /\ stage = "time" => /\ Laid(dim, pixels)
                       /\ samplecount # 0 => Passes(dim, pixels)

LEMMA Checks ==
  ASSUME NEW n \in Nat, NEW next, Check(n, next), bench' = bench
  PROVE  dim' = n /\ stage' = next
<1>1. PICK image \in Images(n) :
        /\ dim' = n /\ pixels' = Run(n, Created(n, image))
        /\ stage' = IF Passes(n, pixels') THEN next ELSE "failed"
  BY DEF Check
<1>2. Passes(n, Run(n, Created(n, image)))
  BY Creates, RunPasses
<1> QED
  BY <1>1, <1>2

LEMMA DrivingStep ==
  ASSUME Driving, [PerfNext]_perfVars
  PROVE  Driving'
<1>1. TestDims \in Seq(Nat \ {0}) /\ OddDim \in Nat /\ Len(TestDims) \in Nat
      /\ \A k \in 1..Len(TestDims) : TestDims[k] \in Nat
  BY PerfLabAssumption
<1>2. CASE CheckOdd
  <2>1. dim' = OddDim /\ stage' = "dim" /\ testNum' = testNum /\ stage = "odd"
    BY <1>1, <1>2, Checks DEF CheckOdd
  <2> QED
    BY <2>1 DEF Driving
<1>3. CASE CheckDim
  <2>1. testNum \in 1..Len(TestDims) /\ stage = "dim"
    BY <1>3 DEF CheckDim, Driving
  <2>2. dim' = TestDims[testNum] /\ stage' = "image" /\ testNum' = testNum
    BY <1>1, <1>3, <2>1, Checks DEF CheckDim
  <2> QED
    BY <1>1, <2>1, <2>2 DEF Driving
<1>4. CASE Prepare
  <2>1. /\ dim \in Nat /\ dim' = dim /\ testNum' = testNum /\ stage' = "time" /\ stage = "image"
        /\ samplecount' = 0
    BY <1>4 DEF Prepare, InitSampler, Driving
  <2>2. Laid(dim, pixels')
    BY <1>4, <2>1, Creates DEF Prepare
  <2>3. Laid(dim, pixels)'
    BY <2>1, <2>2 DEF Laid, check_orig, Orig, CopyOf
  <2> QED
    BY <2>1, <2>3 DEF Driving
<1>5. CASE Time
  <2>1. /\ dim \in Nat /\ dim' = dim /\ testNum' = testNum /\ stage' = stage /\ stage = "time"
        /\ bench' = bench /\ pixels' = Run(dim, pixels) /\ Laid(dim, pixels)
    BY <1>5 DEF Time, Driving
  <2>2. Laid(dim, pixels') /\ Passes(dim, pixels')
    BY <2>1, RunPasses
  <2>3. Laid(dim, pixels)' /\ Passes(dim, pixels)'
    BY <2>1, <2>2 DEF Laid, Passes, check_orig, Orig, CopyOf, check_rotate, check_smooth
  <2> QED
    BY <2>1, <2>3 DEF Driving
<1>6. CASE NextDim
  <2>1. /\ testNum \in 1..Len(TestDims) /\ testNum' = testNum + 1
        /\ stage' \in {"odd", "done", "fatal"}
        /\ stage' = "odd" => testNum < Len(TestDims)
    BY <1>6 DEF NextDim, Driving
  <2> QED
    BY <1>1, <2>1 DEF Driving
<1>7. CASE UNCHANGED perfVars
  BY <1>7 DEF perfVars, kbestVars, Driving, Laid, Passes, check_orig, Orig, CopyOf, check_rotate, check_smooth
<1> QED
  BY <1>2, <1>3, <1>4, <1>5, <1>6, <1>7 DEF PerfNext

(* On images of every size and colour, and however often a kernel is run   *)
(* for the measurement, the driver accepts it: naive_rotate and            *)
(* naive_smooth write each pixel of the result from the right pixels and   *)
(* nothing else.                                                           *)
THEOREM AcceptsKernels == PerfInit /\ [][PerfNext]_perfVars => []KernelsAccepted
<1>1. PerfInit => Driving
  <2>1. Len(TestDims) \in Nat /\ Len(TestDims) # 0
    BY PerfLabAssumption, EmptySeq
  <2> QED
    BY <2>1 DEF PerfInit, Driving
<1>2. Driving /\ [PerfNext]_perfVars => Driving'
  BY DrivingStep
<1>3. Driving => KernelsAccepted
  BY DEF Driving, KernelsAccepted
<1> QED
  BY <1>1, <1>2, <1>3, PTL

-----------------------------------------------------------------------------
(* The measurement: the counter in two words                               *)

(* A word has more than one value.                                         *)
LEMMA WordSize == W \in Nat \ {0, 1}
<1> DEFINE S == 1..CtrBits
<1>1. CtrBits \in Nat \ {0}
  BY KBestAssumption
<1>2. IsFiniteSet(S) /\ Cardinality(S) = CtrBits /\ 1 \in S
  BY <1>1, FS_Interval
<1> HIDE DEF S
<1>3. IsFiniteSet(SUBSET S) /\ Cardinality(SUBSET S) = 2^CtrBits
  BY <1>1, <1>2, FS_SUBSET
<1>4. {{}} \subseteq SUBSET S /\ {{}} # SUBSET S
  BY <1>2
<1>5. Cardinality({{}}) = 1
  BY FS_Singleton
<1>6. Cardinality({{}}) < Cardinality(SUBSET S)
  <2>1. Cardinality({{}}) <= Cardinality(SUBSET S) /\ Cardinality({{}}) # Cardinality(SUBSET S)
    BY <1>3, <1>4, FS_Subset
  <2> QED
    BY <1>3, <1>5, <2>1, FS_CardinalityType
<1> QED
  BY <1>3, <1>5, <1>6, FS_CardinalityType DEF W

LEMMA Divides ==
  ASSUME NEW b \in Nat \ {0}, NEW q \in Int, NEW r \in 0..b - 1, NEW a \in Int, a = q * b + r
  PROVE  a % b = r /\ a \div b = q
<1>1. a % b \in 0..b - 1 /\ a \div b \in Int /\ a = b * (a \div b) + (a % b)
  OBVIOUS
<1> DEFINE k == a \div b
           m == a % b
<1>2. m \in 0..b - 1 /\ k \in Int /\ q * b + r = b * k + m
  BY <1>1
<1> HIDE DEF k, m
<1>3. (q - k) * b = m - r
  BY <1>2
<1>4. ~(q - k >= 1)
  <2> SUFFICES ASSUME q - k >= 1
               PROVE  FALSE
    OBVIOUS
  <2>1. (q - k - 1) * b \in Nat
    BY <1>2
  <2> QED
    BY <1>2, <1>3, <2>1
<1>5. ~(k - q >= 1)
  <2> SUFFICES ASSUME k - q >= 1
               PROVE  FALSE
    OBVIOUS
  <2>1. (k - q - 1) * b \in Nat
    BY <1>2
  <2> QED
    BY <1>2, <1>3, <2>1
<1>6. q = k
  BY <1>2, <1>4, <1>5
<1>7. r = m
  BY <1>2, <1>6
<1> QED
  BY <1>6, <1>7 DEF k, m

Digits == 0..W - 1

(* The difference of two readings is what lies between them.               *)
LEMMA Counts ==
  ASSUME NEW c \in Digits \X Digits, NEW n \in Nat, n < W * W
  PROVE  Advance(c, n) \in Digits \X Digits /\ GetCounter(c, Advance(c, n)) = n
<1> DEFINE c1 == c[1]
           c2 == c[2]
           n0 == n % W
           n1 == n \div W
           carry == IF c2 + n0 >= W THEN 1 ELSE 0
           l == c2 + n0 - carry * W
           u == c1 + n1 + carry
           over == IF u >= W THEN 1 ELSE 0
           h == u - over * W
           t == h * W + l
<1>1. W \in Nat \ {0} /\ c1 \in 0..W - 1 /\ c2 \in 0..W - 1
  BY WordSize DEF Digits
<1>2. n0 \in 0..W - 1 /\ n1 \in 0..W - 1 /\ n = n1 * W + n0
  <2>1. n0 \in 0..W - 1 /\ n1 \in Nat /\ n = W * n1 + n0
    BY <1>1
  <2> HIDE DEF n0, n1
  <2>2. ~(n1 >= W)
    <3> SUFFICES ASSUME n1 >= W
                 PROVE  FALSE
      OBVIOUS
    <3>1. (n1 - W) * W \in Nat
      BY <1>1, <2>1
    <3> QED
      BY <1>1, <2>1, <3>1
  <2> QED
    BY <1>1, <2>1, <2>2
<1> HIDE DEF c1, c2, n0, n1
<1>3. carry \in {0, 1} /\ l \in 0..W - 1 /\ u \in 0..2 * W - 1 /\ l = c2 + n0 - carry * W
      /\ u = c1 + n1 + carry /\ (n0 > l <=> carry = 1)
  BY <1>1, <1>2
<1> HIDE DEF carry, l, u
<1>4. over \in {0, 1} /\ h \in 0..W - 1 /\ h = u - over * W
  BY <1>1, <1>3
<1> HIDE DEF over, h
<1>5. t \in 0..W * W - 1 /\ W * W \in Nat \ {0}
  <2>1. h * W \in Nat /\ (W - 1 - h) * W \in Nat /\ W * W \in Nat
    BY <1>1, <1>4
  <2>2. (W - 1 - h) * W = W * W - W - h * W
    BY <1>1, <1>4
  <2> QED
    BY <1>1, <1>3, <2>1, <2>2
<1>6. c1 * W + c2 + n = over * (W * W) + t
  BY <1>1, <1>2, <1>3, <1>4
<1>7. (c1 * W + c2 + n) % (W * W) = t
  <2> DEFINE b == W * W
             sum == c1 * W + c2 + n
  <2>1. sum \in Int
    BY <1>1
  <2>2. b \in Nat \ {0} /\ over \in Int /\ t \in 0..b - 1 /\ sum = over * b + t
    BY <1>4, <1>5, <1>6
  <2> HIDE DEF t, b, sum
  <2>3. sum % b = t
    BY <2>1, <2>2, Divides
  <2> QED
    BY <2>3 DEF sum, b
<1>8. t % W = l /\ t \div W = h
  <2>1. t \in Int /\ h \in Int /\ t = h * W + l /\ l \in 0..W - 1 /\ W \in Nat \ {0}
    BY <1>1, <1>3, <1>4, <1>5
  <2> HIDE DEF t
  <2> QED
    BY <2>1, Divides
<1>9. Advance(c, n) = <<h, l>>
  BY <1>7, <1>8 DEF Advance, c1, c2
<1>10. (l - c2) % W = n0
  <2>1. l - c2 = (-carry) * W + n0 /\ -carry \in Int /\ l - c2 \in Int
    BY <1>1, <1>2, <1>3
  <2> QED
    BY <1>1, <1>2, <2>1, Divides
<1>11. (h - c1 - carry) % W = n1
  <2>1. h - c1 - carry = (-over) * W + n1 /\ -over \in Int /\ h - c1 - carry \in Int
    BY <1>1, <1>2, <1>3, <1>4
  <2> QED
    BY <1>1, <1>2, <2>1, Divides
<1>12. GetCounter(c, <<h, l>>) = n1 * W + n0
  <2>1. (IF n0 > l THEN 1 ELSE 0) = carry
    BY <1>3
  <2> QED
    BY <1>10, <1>11, <2>1 DEF GetCounter, c1, c2
<1> QED
  BY <1>2, <1>3, <1>4, <1>9, <1>12 DEF Digits

LEMMA Measured ==
  ASSUME counter \in Digits \X Digits, NEW elapsed \in Elapsed, NEW ticks \in Ticks
  PROVE  /\ CompCounter(elapsed, ticks) = Corrected(elapsed, ticks)
         /\ Corrected(elapsed, ticks) \in Int
         /\ Advance(counter, elapsed) \in Digits \X Digits
<1>1. elapsed \in Nat /\ ticks \in Nat /\ CycPerTick \in Nat /\ elapsed < W * W
  BY KBestAssumption
<1>2. /\ Advance(counter, elapsed) \in Digits \X Digits
      /\ GetCounter(counter, Advance(counter, elapsed)) = elapsed
  BY <1>1, Counts
<1>3. ticks * CycPerTick \in Nat
  BY <1>1
<1> QED
  BY <1>1, <1>2, <1>3 DEF CompCounter, Corrected

-----------------------------------------------------------------------------
(* The measurement: the shortest times                                     *)

(* The first n places of v hold the shortest times of t, that of the run   *)
(* run[p] in the place p.                                                  *)
Shortest(run, n, v, t) ==
  /\ run \in [1..n -> DOMAIN t]
  /\ \A p \in 1..n : v[p] = t[run[p]]
  /\ \A p, q \in 1..n : p < q => run[p] # run[q] /\ v[p] <= v[q]
  /\ \A k \in DOMAIN t, p \in 1..n : v[p] <= t[k] \/ \E q \in 1..n : run[q] = k

Filled(n) == IF n < K THEN n ELSE K

(* The sampler; until the places are filled, they hold all the times.      *)
Sampled ==
  /\ counter \in Digits \X Digits
  /\ values \in [1..K -> Int] /\ samplecount \in Nat
  /\ taken \in Seq(Int) /\ Len(taken) = samplecount
  /\ \E run : /\ Shortest(run, Filled(samplecount), values, taken)
              /\ samplecount < K =>
                   \A k \in 1..samplecount : \E p \in 1..samplecount : run[p] = k

LEMMA BestKept ==
  ASSUME Sampled
  PROVE  KeepsTheBest
<1>1. Min({K, samplecount}) = Filled(samplecount)
  <2>1. K \in Nat /\ samplecount \in Nat
    BY KBestAssumption DEF Sampled
  <2>2. \E x \in {K, samplecount} : \A y \in {K, samplecount} : x <= y
    BY <2>1
  <2>3. \A x \in {K, samplecount} :
          (\A y \in {K, samplecount} : x <= y) => x = Filled(samplecount)
    BY <2>1 DEF Filled
  <2> QED
    BY <2>2, <2>3 DEF Min
<1> DEFINE places == 1..Min({K, samplecount})
<1>2. PICK run : Shortest(run, Filled(samplecount), values, taken)
  BY DEF Sampled
<1>3. /\ run \in [places -> DOMAIN taken]
      /\ \A p \in places : values[p] = taken[run[p]]
      /\ \A p, q \in places : p < q => run[p] # run[q] /\ values[p] <= values[q]
      /\ \A k \in DOMAIN taken, p \in places :
           values[p] <= taken[k] \/ \E q \in places : run[q] = k
  BY <1>1, <1>2 DEF Shortest
<1> HIDE DEF places
<1> QED
  BY <1>3 DEF KeepsTheBest, places

LEMMA Largest ==
  ASSUME NEW n \in Nat, NEW S \in SUBSET (1..n), S # {}
  PROVE  \E k \in S : \A m \in S : m <= k
<1> DEFINE T == {k..n : k \in S}
<1>1. IsFiniteSet(1..n)
  BY FS_Interval
<1>2. IsWellFoundedOn(StrictSubsetOrdering(1..n), FiniteSubsetsOf(1..n))
  BY FS_StrictSubsetOrderingWellFounded
<1>3. \A U \in T : U \in SUBSET (1..n)
  OBVIOUS
<1>4. T \subseteq FiniteSubsetsOf(1..n) /\ T # {}
  <2>1. \A U \in SUBSET (1..n) : IsFiniteSet(U)
    BY <1>1, FS_Subset
  <2>2. T # {}
    OBVIOUS
  <2> HIDE DEF T
  <2>3. \A U \in T : U \in FiniteSubsetsOf(1..n)
    BY <1>3, <2>1 DEF FiniteSubsetsOf
  <2> QED
    BY <2>2, <2>3
<1>5. PICK U \in T : \A V \in T : <<V, U>> \notin StrictSubsetOrdering(1..n)
  <2> HIDE DEF T
  <2> QED
    BY <1>2, <1>4, WFMin
<1>6. PICK k \in S : U = k..n
  OBVIOUS
<1>7. ASSUME NEW m \in S, k < m
      PROVE  FALSE
  <2>1. m..n \in T /\ m..n \in SUBSET (1..n) /\ U \in SUBSET (1..n)
    BY <1>3
  <2>2. m..n \subseteq U /\ m..n # U
    BY <1>6, <1>7
  <2> QED
    BY <1>5, <2>1, <2>2 DEF StrictSubsetOrdering
<1> QED
  BY <1>7

(* The place of a new time: behind those that are not longer.              *)
LEMMA Place ==
  ASSUME NEW last \in 1..K, NEW v \in [1..K -> Int], NEW x \in Int,
         \A p, q \in 1..last - 1 : p < q => v[p] <= v[q]
  PROVE  LET pos == Max({p \in 1..last : \A q \in 1..p - 1 : v[q] <= x})
         IN  /\ pos \in 1..last
             /\ \A q \in 1..pos - 1 : v[q] <= x
             /\ \A q \in pos..last - 1 : x < v[q]
<1> DEFINE S == {p \in 1..last : \A q \in 1..p - 1 : v[q] <= x}
           pos == Max(S)
<1>1. K \in Nat /\ last \in Nat /\ last <= K
  BY KBestAssumption
<1>2. 1 \in S /\ S \in SUBSET (1..last)
  BY <1>1
<1>3. pos = CHOOSE p \in S : \A q \in S : p >= q
  BY DEF Max
<1> HIDE DEF pos, S
<1>4. PICK k \in S : \A m \in S : m <= k
  BY <1>1, <1>2, Largest
<1>5. \A m \in S : m \in Int
  BY <1>2
<1>6. pos \in S /\ \A m \in S : m <= pos
  <2>1. \E p \in S : \A q \in S : p >= q
    BY <1>4, <1>5
  <2>2. pos \in S /\ \A q \in S : pos >= q
    BY <1>3, <2>1
  <2> QED
    BY <1>5, <2>2
<1>7. pos \in 1..last /\ \A q \in 1..pos - 1 : v[q] <= x
  BY <1>6 DEF S
<1>8. ASSUME NEW q \in pos..last - 1
      PROVE  x < v[q]
  <2>1. pos + 1 \in 1..last /\ pos + 1 \notin S /\ pos \in 1..last - 1 /\ q \in 1..last - 1
    BY <1>1, <1>5, <1>6, <1>7
  <2>2. PICK e \in 1..pos : ~(v[e] <= x)
    BY <1>7, <2>1 DEF S
  <2>3. e = pos
    BY <1>7, <2>2
  <2>4. v[pos] <= v[q]
    BY <1>1, <2>1
  <2>5. v[pos] \in Int /\ v[q] \in Int
    BY <1>1, <2>1
  <2> QED
    BY <2>2, <2>3, <2>4, <2>5
<1> QED
  BY <1>7, <1>8 DEF pos, S

(* A time that is not better than the K best changes nothing.              *)
LEMMA TooLong ==
  ASSUME NEW m \in Nat \ {0}, NEW v \in [1..m -> Int], NEW t \in Seq(Int), NEW x \in Int,
         NEW run, Shortest(run, m, v, t), ~(x < v[m])
  PROVE  Shortest(run, m, v, Append(t, x))
<1> DEFINE s == Len(t)
           u == Append(t, x)
<1>1. /\ s \in Nat /\ DOMAIN t = 1..s /\ DOMAIN u = 1..s + 1 /\ u[s + 1] = x
      /\ \A k \in 1..s : u[k] = t[k] /\ k \in 1..s + 1
  OBVIOUS
<1> HIDE DEF s, u
<1>2. /\ run \in [1..m -> 1..s]
      /\ \A p \in 1..m : v[p] = t[run[p]]
      /\ \A p, q \in 1..m : p < q => run[p] # run[q] /\ v[p] <= v[q]
      /\ \A k \in 1..s, p \in 1..m : v[p] <= t[k] \/ \E q \in 1..m : run[q] = k
  BY <1>1 DEF Shortest
<1>3. ASSUME NEW p \in 1..m
      PROVE  v[p] <= x
  <2>1. m \in 1..m /\ v[p] \in Int /\ v[m] \in Int /\ (p < m \/ p = m)
    OBVIOUS
  <2>2. v[p] <= v[m]
    BY <1>2, <2>1
  <2> QED
    BY <2>1, <2>2
<1>4. ASSUME NEW k \in 1..s + 1, NEW p \in 1..m
      PROVE  v[p] <= u[k] \/ \E q \in 1..m : run[q] = k
  <2>1. k \in 1..s \/ k = s + 1
    BY <1>1
  <2>2. CASE k \in 1..s
    BY <1>1, <1>2, <2>2
  <2>3. CASE k = s + 1
    BY <1>1, <1>3, <2>3
  <2> QED
    BY <2>1, <2>2, <2>3
<1>5. run \in [1..m -> 1..s + 1]
  BY <1>1, <1>2
<1>6. \A p \in 1..m : v[p] = u[run[p]]
  BY <1>1, <1>2
<1>7. Shortest(run, m, v, u)
  BY <1>1, <1>2, <1>4, <1>5, <1>6 DEF Shortest
<1> QED
  BY <1>7 DEF u

(* w is v with x in its place pos, and those behind it moved on by one.    *)
Sunk(w, v, x, pos, last) ==
  /\ \A q \in 1..pos - 1 : w[q] = v[q]
  /\ w[pos] = x
  /\ \A q \in pos + 1..last : w[q] = v[q - 1]
  /\ \A q \in 1..pos - 1 : v[q] <= x
  /\ \A q \in pos..last - 1 : x < v[q]

(* The m places before x comes: they hold all the times of t and the last  *)
(* is free, or x is better than what the last one holds.                   *)
Held(run, m, last, v, t, x) ==
  /\ Shortest(run, m, v, t)
  /\ \A q \in 1..m : v[q] \in Int
  /\ \/ last = m + 1 /\ \A k \in 1..Len(t) : \E p \in 1..m : run[p] = k
     \/ last = m /\ x < v[m]

Longer(u, t, x) == u = Append(t, x)

HeldNow(m, last, w, t, u) ==
  \E r : /\ Shortest(r, last, w, u)
         /\ last = m + 1 => \A k \in 1..Len(t) + 1 : \E p \in 1..last : r[p] = k

(* A better time finds its place, and of m places that are all taken only  *)
(* the longest time goes.                                                  *)
LEMMA Sinks ==
  ASSUME NEW m \in Nat, NEW last \in Nat, NEW pos \in 1..last,
         NEW v, NEW w, NEW t \in Seq(Int), NEW u, NEW x \in Int, NEW run, Longer(u, t, x),
         Held(run, m, last, v, t, x), Sunk(w, v, x, pos, last)
  PROVE  HeldNow(m, last, w, t, u)
<1> SUFFICES ASSUME Shortest(run, m, v, t), last = m + 1 \/ last = m,
                    \A q \in 1..m : v[q] \in Int,
                    \A q \in 1..pos - 1 : w[q] = v[q], w[pos] = x,
                    \A q \in pos + 1..last : w[q] = v[q - 1],
                    \A q \in 1..pos - 1 : v[q] <= x, \A q \in pos..last - 1 : x < v[q],
                    last = m + 1 => \A k \in 1..Len(t) : \E p \in 1..m : run[p] = k,
                    last = m => x < v[m]
             PROVE  \E r : /\ Shortest(r, last, w, u)
                           /\ last = m + 1 => \A k \in 1..Len(t) + 1 : \E p \in 1..last : r[p] = k
  <2>1. m # m + 1
    OBVIOUS
  <2> QED
    BY <2>1 DEF Held, Sunk, HeldNow
<1> DEFINE s == Len(t)
           new == [q \in 1..last |-> IF q < pos THEN run[q] ELSE IF q = pos THEN s + 1 ELSE run[q - 1]]
<1>1. /\ s \in Nat /\ DOMAIN t = 1..s /\ DOMAIN u = 1..s + 1 /\ u[s + 1] = x
      /\ \A k \in 1..s : u[k] = t[k] /\ k \in 1..s + 1 /\ t[k] \in Int
  BY DEF Longer
<1>2. /\ run \in [1..m -> 1..s]
      /\ \A p \in 1..m : v[p] = t[run[p]]
      /\ \A p, q \in 1..m : p < q => run[p] # run[q] /\ v[p] <= v[q]
      /\ \A k \in 1..s, p \in 1..m : v[p] <= t[k] \/ \E q \in 1..m : run[q] = k
  BY <1>1 DEF Shortest
<1>3. /\ \A q \in 1..pos - 1 : q \in 1..last /\ q \in 1..m
      /\ \A q \in pos + 1..last : q \in 1..last /\ q - 1 \in 1..m /\ q - 1 \in pos..last - 1
      /\ \A q \in 1..last : q \in 1..pos - 1 \/ q = pos \/ q \in pos + 1..last
  OBVIOUS
<1>4. /\ \A q \in 1..pos - 1 : new[q] = run[q]
      /\ new[pos] = s + 1
      /\ \A q \in pos + 1..last : new[q] = run[q - 1]
  <2>1. \A q \in 1..pos - 1 : q < pos
    OBVIOUS
  <2>2. \A q \in pos + 1..last : ~(q < pos) /\ q # pos
    OBVIOUS
  <2> QED
    BY <1>3, <2>1, <2>2
<1>5. DOMAIN new = 1..last /\ new = [q \in 1..last |-> new[q]]
  OBVIOUS
<1> HIDE DEF s, new
<1>6. ASSUME NEW q \in 1..last
      PROVE  new[q] \in 1..s + 1 /\ w[q] = u[new[q]]
  <2>1. CASE q \in 1..pos - 1
    <3>1. new[q] = run[q] /\ w[q] = v[q] /\ q \in 1..m
      BY <1>3, <1>4, <2>1
    <3>2. run[q] \in 1..s /\ v[q] = t[run[q]]
      BY <1>2, <3>1
    <3> QED
      BY <1>1, <3>1, <3>2
  <2>2. CASE q = pos
    BY <1>1, <1>4, <2>2
  <2>3. CASE q \in pos + 1..last
    <3>1. new[q] = run[q - 1] /\ w[q] = v[q - 1] /\ q - 1 \in 1..m
      BY <1>3, <1>4, <2>3
    <3>2. run[q - 1] \in 1..s /\ v[q - 1] = t[run[q - 1]]
      BY <1>2, <3>1
    <3> QED
      BY <1>1, <3>1, <3>2
  <2> QED
    BY <1>3, <2>1, <2>2, <2>3
<1>7. new \in [1..last -> 1..s + 1]
  BY <1>5, <1>6
<1>8. \A q \in 1..m : run[q] # s + 1
  BY <1>1, <1>2
<1>9. ASSUME NEW p \in 1..last, NEW q \in 1..last, p < q
      PROVE  new[p] # new[q] /\ w[p] <= w[q]
  <2>1. CASE q \in 1..pos - 1
    <3>1. p \in 1..pos - 1
      BY <1>9, <2>1
    <3>2. p \in 1..m /\ q \in 1..m /\ new[p] = run[p] /\ new[q] = run[q]
          /\ w[p] = v[p] /\ w[q] = v[q]
      BY <1>3, <1>4, <2>1, <3>1
    <3> QED
      BY <1>2, <1>9, <3>2
  <2>2. CASE q = pos
    <3>1. p \in 1..pos - 1
      BY <1>9, <2>2
    <3>2. p \in 1..m /\ new[p] = run[p] /\ new[q] = s + 1 /\ w[p] = v[p] /\ w[q] = x /\ v[p] <= x
      BY <1>3, <1>4, <2>2, <3>1
    <3> QED
      BY <1>8, <3>2
  <2>3. CASE q \in pos + 1..last
    <3>1. q - 1 \in 1..m /\ q - 1 \in pos..last - 1 /\ new[q] = run[q - 1] /\ w[q] = v[q - 1]
          /\ x < v[q - 1] /\ v[q - 1] \in Int
      BY <1>3, <1>4, <2>3
    <3>2. CASE p \in 1..pos - 1
      <4>1. p \in 1..m /\ new[p] = run[p] /\ w[p] = v[p]
        BY <1>3, <1>4, <3>2
      <4>2. p < q - 1
        BY <2>3, <3>2
      <4> QED
        BY <1>2, <3>1, <4>1, <4>2
    <3>3. CASE p = pos
      <4>1. new[p] = s + 1 /\ w[p] = x
        BY <1>4, <3>3
      <4> QED
        BY <1>8, <3>1, <4>1
    <3>4. CASE p \in pos + 1..last
      <4>1. p - 1 \in 1..m /\ new[p] = run[p - 1] /\ w[p] = v[p - 1]
        BY <1>3, <1>4, <3>4
      <4>2. p - 1 < q - 1
        BY <1>9
      <4> QED
        BY <1>2, <3>1, <4>1, <4>2
    <3> QED
      BY <1>3, <3>2, <3>3, <3>4
  <2> QED
    BY <1>3, <2>1, <2>2, <2>3
(* A run stays unless it had the last of the m places.                     *)
<1>10. ASSUME NEW e \in 1..m, e <= last - 1
       PROVE  \E q \in 1..last : new[q] = run[e]
  <2>1. e \in 1..pos - 1 \/ e + 1 \in pos + 1..last
    BY <1>10
  <2>2. CASE e \in 1..pos - 1
    BY <1>3, <1>4, <2>2
  <2>3. CASE e + 1 \in pos + 1..last
    <3>1. e + 1 \in 1..last /\ e + 1 - 1 = e
      BY <1>3, <2>3
    <3>2. new[e + 1] = run[e]
      BY <1>4, <2>3, <3>1
    <3> QED
      BY <3>1, <3>2
  <2> QED
    BY <2>1, <2>2, <2>3
<1>11. ASSUME last = m + 1, NEW k \in 1..s + 1
       PROVE  \E q \in 1..last : new[q] = k
  <2>1. k = s + 1 \/ k \in 1..s
    BY <1>1
  <2>2. CASE k = s + 1
    BY <1>4, <2>2
  <2>3. CASE k \in 1..s
    <3>1. PICK e \in 1..m : run[e] = k
      BY <1>11, <2>3 DEF s
    <3>2. e <= last - 1
      BY <1>11
    <3> QED
      BY <1>10, <3>1, <3>2
  <2> QED
    BY <2>1, <2>2, <2>3
(* Of m places, none has got a longer time, and none but the new one had.  *)
<1>12. ASSUME last = m, NEW p \in 1..last
       PROVE  w[p] \in Int /\ w[p] <= v[p] /\ v[p] \in Int /\ v[p] <= v[m]
  <2>1. p \in 1..m /\ m \in 1..m /\ v[p] \in Int /\ v[m] \in Int /\ (p < m \/ p = m)
    BY <1>12
  <2>2. v[p] <= v[m]
    BY <1>2, <2>1
  <2>3. CASE p \in 1..pos - 1
    BY <2>1, <2>2, <2>3
  <2>4. CASE p = pos
    <3>1. p = m \/ p \in pos..last - 1
      BY <1>12, <2>4
    <3>2. x < v[p]
      BY <1>12, <3>1
    <3> QED
      BY <2>1, <2>2, <2>4, <3>2
  <2>5. CASE p \in pos + 1..last
    <3>1. p - 1 \in 1..m /\ w[p] = v[p - 1] /\ p - 1 < p /\ v[p - 1] \in Int
      BY <1>3, <2>5
    <3>2. v[p - 1] <= v[p]
      BY <1>2, <2>1, <3>1
    <3> QED
      BY <2>1, <2>2, <3>1, <3>2
  <2> QED
    BY <1>3, <2>3, <2>4, <2>5
<1>13. ASSUME NEW k \in 1..s + 1, NEW p \in 1..last
       PROVE  w[p] <= u[k] \/ \E q \in 1..last : new[q] = k
  <2>1. CASE last = m + 1
    BY <1>11, <2>1
  <2>2. CASE last = m
    <3>1. k = s + 1 \/ k \in 1..s
      BY <1>1
    <3>2. CASE k = s + 1
      BY <1>4, <3>2
    <3>3. CASE k \in 1..s
      <4>1. w[p] \in Int /\ w[p] <= v[p] /\ v[p] \in Int /\ v[p] <= v[m] /\ v[m] \in Int
        <5>1. m \in 1..m
          BY <2>2
        <5> QED
          BY <1>12, <2>2, <5>1
      <4>2. u[k] = t[k] /\ t[k] \in Int /\ p \in 1..m
        BY <1>1, <2>2, <3>3
      <4>3. v[p] <= t[k] \/ \E e \in 1..m : run[e] = k
        BY <1>2, <3>3, <4>2
      <4>4. CASE v[p] <= t[k]
        BY <4>1, <4>2, <4>4
      <4>5. ASSUME NEW e \in 1..m, run[e] = k
            PROVE  w[p] <= u[k] \/ \E q \in 1..last : new[q] = k
        <5>1. e <= last - 1 \/ e = m
          BY <2>2
        <5>2. CASE e <= last - 1
          BY <1>10, <4>5, <5>2
        <5>3. CASE e = m
          <6>1. v[m] = t[k]
            BY <1>2, <4>5, <5>3
          <6> QED
            BY <4>1, <4>2, <6>1
        <5> QED
          BY <5>1, <5>2, <5>3
      <4> QED
        BY <4>3, <4>4, <4>5
    <3> QED
      BY <3>1, <3>2, <3>3
  <2> QED
    BY <2>1, <2>2
<1>14. Shortest(new, last, w, u)
  BY <1>1, <1>6, <1>7, <1>9, <1>13 DEF Shortest
<1>15. /\ Shortest(new, last, w, u)
       /\ last = m + 1 => \A k \in 1..s + 1 : \E p \in 1..last : new[p] = k
  BY <1>11, <1>14
<1> QED
  BY <1>15 DEF s

(* add_sample keeps the shortest times.                                    *)
LEMMA SampleAdded ==
  ASSUME Sampled, NEW x \in Int
  PROVE  LET n == Filled(samplecount + 1)
         IN  /\ AddSample(x) \in [1..K -> Int]
             /\ \E r : /\ Shortest(r, n, AddSample(x), Append(taken, x))
                       /\ samplecount + 1 < K =>
                            \A k \in 1..samplecount + 1 : \E p \in 1..samplecount + 1 : r[p] = k
<1> DEFINE s == samplecount
           m == Filled(s)
           last == IF s < K THEN s + 1 ELSE K
           pos == Max({p \in 1..last : \A q \in 1..p - 1 : values[q] <= x})
           sunk == [q \in 1..K |-> IF q < pos \/ q > last THEN values[q]
                                   ELSE IF q = pos THEN x ELSE values[q - 1]]
<1>1. /\ K \in Nat \ {0} /\ s \in Nat /\ taken \in Seq(Int) /\ Len(taken) = s
      /\ values \in [1..K -> Int]
  BY KBestAssumption DEF Sampled
<1>2. /\ Filled(s + 1) = last /\ m \in Nat /\ last \in 1..K /\ m <= K /\ m \in 0..K
      /\ (s < K => m = s /\ last = m + 1) /\ (~(s < K) => m = K /\ last = m /\ m \in Nat \ {0})
      /\ last \in Nat
  BY <1>1 DEF Filled
<1>3. PICK run : /\ Shortest(run, m, values, taken)
                 /\ s < K => \A k \in 1..s : \E p \in 1..s : run[p] = k
  BY DEF Sampled
<1>4. AddSample(x) = IF s < K \/ (~(s < K) /\ x < values[K]) THEN sunk ELSE values
  BY DEF AddSample
<1> HIDE DEF s, m, last, pos, sunk
<1>5. \A q \in 1..m : values[q] \in Int
  BY <1>1, <1>2
<1>6. CASE s < K \/ x < values[K]
  <2>1. \A p, q \in 1..last - 1 : p < q => values[p] <= values[q]
    <3>1. \A q \in 1..last - 1 : q \in 1..m
      BY <1>2
    <3> QED
      BY <1>3, <3>1 DEF Shortest
  <2>2. /\ pos \in 1..last
        /\ \A q \in 1..pos - 1 : values[q] <= x
        /\ \A q \in pos..last - 1 : x < values[q]
    <3>1. x \in Int
      OBVIOUS
    <3>2. LET p0 == Max({p \in 1..last : \A q \in 1..p - 1 : values[q] <= x})
          IN  /\ p0 \in 1..last
              /\ \A q \in 1..p0 - 1 : values[q] <= x
              /\ \A q \in p0..last - 1 : x < values[q]
      <4>1. last \in 1..K /\ values \in [1..K -> Int]
        BY <1>1, <1>2
      <4> QED
        BY <2>1, <3>1, <4>1, Place, Zenon
    <3> QED
      BY <3>2 DEF pos
  <2>3. /\ pos \in Nat /\ K \in Nat /\ last <= K
        /\ \A q \in 1..pos - 1 : q \in 1..K /\ q < pos
        /\ pos \in 1..K /\ ~(pos < pos) /\ ~(pos > last)
        /\ \A q \in pos + 1..last : q \in 1..K /\ ~(q < pos) /\ q # pos /\ ~(q > last)
        /\ \A q \in 1..K : q < pos \/ q > last \/ q = pos \/ q - 1 \in 1..K
    BY <1>1, <1>2, <2>2
  <2>4. /\ \A q \in 1..pos - 1 : sunk[q] = values[q]
        /\ sunk[pos] = x
        /\ \A q \in pos + 1..last : sunk[q] = values[q - 1]
    BY <2>3 DEF sunk
  <2>5. sunk \in [1..K -> Int]
    <3>1. \A q \in 1..K : (IF q < pos \/ q > last THEN values[q]
                           ELSE IF q = pos THEN x ELSE values[q - 1]) \in Int
      BY <1>1, <2>3
    <3> QED
      BY <3>1 DEF sunk
  <2>6. Held(run, m, last, values, taken, x)
    <3>1. CASE s < K
      <4>1. Len(taken) = s /\ m = s /\ last = m + 1
        BY <1>1, <1>2, <3>1
      <4>2. \A k \in 1..Len(taken) : \E p \in 1..m : run[p] = k
        BY <1>3, <3>1, <4>1
      <4> QED
        BY <1>3, <1>5, <4>1, <4>2, Zenon DEF Held
    <3>2. CASE ~(s < K)
      <4>1. last = m /\ m = K /\ x < values[m]
        BY <1>2, <1>6, <3>2
      <4> QED
        BY <1>3, <1>5, <4>1, Zenon DEF Held
    <3> QED
      BY <3>1, <3>2
  <2>7. Sunk(sunk, values, x, pos, last)
    BY <2>2, <2>4, Zenon DEF Sunk
  <2>8. \E r : /\ Shortest(r, last, sunk, Append(taken, x))
               /\ last = m + 1 => \A k \in 1..Len(taken) + 1 : \E p \in 1..last : r[p] = k
    <3>1. m \in Nat /\ last \in Nat /\ taken \in Seq(Int)
      BY <1>1, <1>2
    <3>2. pos \in 1..last
      BY <2>2
    <3> DEFINE u == Append(taken, x)
    <3>3. Longer(u, taken, x)
      BY DEF Longer
    <3> HIDE DEF u
    <3>4. HeldNow(m, last, sunk, taken, u)
      BY <2>6, <2>7, <3>1, <3>2, <3>3, Sinks
    <3> QED
      BY <3>4 DEF HeldNow, u
  <2>9. s + 1 < K => last = m + 1 /\ last = s + 1
    BY <1>1, <1>2
  <2>10. AddSample(x) = sunk
    BY <1>4, <1>6
  <2>11. PICK r : /\ Shortest(r, last, sunk, Append(taken, x))
                  /\ last = m + 1 => \A k \in 1..Len(taken) + 1 : \E p \in 1..last : r[p] = k
    BY <2>8
  <2>12. s + 1 < K => \A k \in 1..s + 1 : \E p \in 1..s + 1 : r[p] = k
    <3>1. Len(taken) = s
      BY <1>1
    <3> QED
      BY <2>9, <2>11, <3>1, Zenon
  <2>13. Filled(s + 1) = last
    BY <1>2
  <2> QED
    BY <2>5, <2>10, <2>11, <2>12, <2>13, Zenon DEF s
<1>7. CASE ~(s < K) /\ ~(x < values[K])
  <2>1. m = K /\ last = m /\ m \in Nat \ {0} /\ AddSample(x) = values /\ ~(s + 1 < K)
    BY <1>1, <1>2, <1>4, <1>7
  <2>2. Shortest(run, m, values, Append(taken, x))
    BY <1>1, <1>3, <1>7, <2>1, TooLong
  <2> QED
    BY <1>1, <1>2, <2>1, <2>2 DEF s
<1> QED
  BY <1>6, <1>7

(* With no run yet, no place counts.                                       *)
LEMMA Starts ==
  ASSUME NEW v
  PROVE  \E run : /\ Shortest(run, Filled(0), v, <<>>)
                  /\ 0 < K => \A k \in 1..0 : \E p \in 1..0 : run[p] = k
<1>1. Filled(0) = 0 /\ 1..0 = {} /\ DOMAIN <<>> = {}
  BY KBestAssumption DEF Filled
<1> DEFINE run == [p \in {} |-> 0]
<1>2. run \in [{} -> {}]
  OBVIOUS
<1>3. Shortest(run, 0, v, <<>>)
  BY <1>1, <1>2 DEF Shortest
<1> QED
  BY <1>1, <1>3

LEMMA StartsSampled ==
  ASSUME counter \in Digits \X Digits, values = [q \in 1..K |-> 0],
         samplecount = 0, taken = <<>>
  PROVE  Sampled
<1>1. values \in [1..K -> Int] /\ taken \in Seq(Int) /\ Len(taken) = 0
  OBVIOUS
<1> QED
  BY <1>1, Starts DEF Sampled

LEMMA SamplingStep ==
  ASSUME Sampled, PerfNext \/ UNCHANGED perfVars
  PROVE  Sampled'
<1>0. Sampled' <=>
        /\ counter' \in Digits \X Digits
        /\ values' \in [1..K -> Int] /\ samplecount' \in Nat
        /\ taken' \in Seq(Int) /\ Len(taken') = samplecount'
        /\ \E r : /\ Shortest(r, Filled(samplecount'), values', taken')
                  /\ samplecount' < K =>
                       \A k \in 1..samplecount' : \E p \in 1..samplecount' : r[p] = k
  BY DEF Sampled, Shortest, Filled
<1>1. CASE UNCHANGED kbestVars
  <2>1. counter' = counter /\ values' = values /\ samplecount' = samplecount /\ taken' = taken
    BY <1>1 DEF kbestVars
  <2>2. /\ counter \in Digits \X Digits
        /\ values \in [1..K -> Int] /\ samplecount \in Nat
        /\ taken \in Seq(Int) /\ Len(taken) = samplecount
    BY DEF Sampled
  <2>3. PICK r : /\ Shortest(r, Filled(samplecount), values, taken)
                 /\ samplecount < K =>
                      \A k \in 1..samplecount : \E p \in 1..samplecount : r[p] = k
    BY DEF Sampled
  <2>4. /\ Shortest(r, Filled(samplecount'), values', taken')
        /\ samplecount' < K =>
             \A k \in 1..samplecount' : \E p \in 1..samplecount' : r[p] = k
    BY <2>1, <2>3
  <2>5. /\ counter' \in Digits \X Digits
        /\ values' \in [1..K -> Int] /\ samplecount' \in Nat
        /\ taken' \in Seq(Int) /\ Len(taken') = samplecount'
    BY <2>1, <2>2
  <2> HIDE <1>1
  <2> QED
    BY <1>0, <2>4, <2>5
<1>2. ASSUME InitSampler, UNCHANGED counter
      PROVE  Sampled'
  <2>1. values' \in [1..K -> Int] /\ taken' \in Seq(Int) /\ Len(taken') = 0
        /\ samplecount' = 0 /\ taken' = <<>>
    BY <1>2 DEF InitSampler
  <2>2. \E run : /\ Shortest(run, Filled(0), values', <<>>)
                 /\ 0 < K => \A k \in 1..0 : \E p \in 1..0 : run[p] = k
    BY <2>1, Starts
  <2>3. counter' \in Digits \X Digits /\ samplecount' \in Nat
    BY <1>2, <2>1 DEF Sampled
  <2> QED
    BY <1>0, <2>1, <2>2, <2>3
<1>3. CASE Time
  <2>1. PICK elapsed \in Elapsed, ticks \in Ticks : Measure(elapsed, ticks)
    BY <1>3 DEF Time
  <2> DEFINE d == Corrected(elapsed, ticks)
  <2>2. /\ CompCounter(elapsed, ticks) = d /\ d \in Int
        /\ Advance(counter, elapsed) \in Digits \X Digits
    BY Measured DEF Sampled
  <2>3. /\ values' = AddSample(d) /\ counter' \in Digits \X Digits
        /\ samplecount' = samplecount + 1 /\ taken' = Append(taken, d)
    BY <2>1, <2>2 DEF Measure
  <2> HIDE DEF d
  <2>4. values' \in [1..K -> Int]
        /\ \E r : /\ Shortest(r, Filled(samplecount'), values', taken')
                  /\ samplecount' < K =>
                       \A k \in 1..samplecount' : \E p \in 1..samplecount' : r[p] = k
    <3>1. LET n == Filled(samplecount + 1)
          IN  /\ AddSample(d) \in [1..K -> Int]
              /\ \E r : /\ Shortest(r, n, AddSample(d), Append(taken, d))
                        /\ samplecount + 1 < K =>
                             \A k \in 1..samplecount + 1 : \E p \in 1..samplecount + 1 : r[p] = k
      BY <2>2, SampleAdded, Zenon
    <3> QED
      BY <2>3, <3>1, Zenon
  <2>5. samplecount' \in Nat /\ taken' \in Seq(Int) /\ Len(taken') = samplecount'
    BY <2>2, <2>3 DEF Sampled
  <2> QED
    BY <1>0, <2>3, <2>4, <2>5
<1> QED
  BY <1>1, <1>2, <1>3 DEF PerfNext, CheckOdd, CheckDim, Prepare, NextDim, perfVars

(* Of all the runs on an image, the sampler of fcyc.c holds the corrected  *)
(* times that are the shortest, in order, and what is corrected is the     *)
(* cycles between the two readings, wherever a word of the counter wrapped *)
(* around.  The correction itself is what the code subtracts, no more.     *)
THEOREM MeasuresBest == PerfInit /\ [][PerfNext]_perfVars => []KeepsTheBest
<1>1. PerfInit => Sampled
  <2> SUFFICES ASSUME PerfInit
               PROVE  Sampled
    OBVIOUS
  <2>1. W - 1 \in Digits /\ W - 2 \in Digits
    BY WordSize DEF Digits
  <2> QED
    BY <2>1, StartsSampled DEF PerfInit
<1>2. Sampled /\ [PerfNext]_perfVars => Sampled'
  BY SamplingStep
<1>3. Sampled => KeepsTheBest
  BY BestKept
<1> QED
  BY <1>1, <1>2, <1>3, PTL

-----------------------------------------------------------------------------
(* SBuf, for every number of threads, slots and bytes                      *)

(* The arithmetic part of the assumption, for the leaves that need no more. *)
LEMMA Sizes ==
  N \in Nat \ {0} /\ Sz \in Nat \ {0} /\ SizeMax \in Nat /\ N <= SizeMax
BY SBufAssumption

USE Sizes

-----------------------------------------------------------------------------
(* The byte array                                                          *)

(* A copy at any cursor stays inside the n * sz bytes of the array, even   *)
(* though the slot number is not scaled.                                   *)
LEMMA CopyInBounds ==
  ASSUME NEW c \in 0..SizeMax, NEW k \in 0..Sz - 1
  PROVE  /\ Offset(c) \in 0..N - 1
         /\ Offset(c) + k \in 0..N * Sz - 1
<1>1. Offset(c) \in 0..N - 1
  BY DEF Offset
<1>2. (N - 1) * (Sz - 1) >= 0 /\ (N - 1) * (Sz - 1) = N * Sz - N - Sz + 1
  OBVIOUS
<1>3. N * Sz \in Int
  OBVIOUS
<1> QED
  BY <1>1, <1>2, <1>3

(* What a copy reads is an item.                                           *)
LEMMA ReadAtType ==
  ASSUME NEW d \in [0..N * Sz - 1 -> Byte], NEW c \in 0..SizeMax
  PROVE  ReadAt(d, c) \in [0..Sz - 1 -> Byte]
BY CopyInBounds DEF ReadAt

(* Writing an item leaves an array of bytes.                               *)
LEMMA WriteAtType ==
  ASSUME NEW d \in [0..N * Sz - 1 -> Byte], NEW c \in 0..SizeMax,
         NEW x \in [0..Sz - 1 -> Byte]
  PROVE  WriteAt(d, c, x) \in [0..N * Sz - 1 -> Byte]
<1> SUFFICES ASSUME NEW b \in 0..N * Sz - 1,
                    b \in Offset(c)..Offset(c) + Sz - 1
             PROVE  x[b - Offset(c)] \in Byte
  BY DEF WriteAt
<1> Offset(c) \in Int
  BY DEF Offset
<1> QED
  OBVIOUS

(* The array after a copy of x to c holds x at c.                          *)
LEMMA ReadAfterWrite ==
  ASSUME NEW d \in [0..N * Sz - 1 -> Byte], NEW c \in 0..SizeMax,
         NEW x \in [0..Sz - 1 -> Byte]
  PROVE  ReadAt(WriteAt(d, c, x), c) = x
<1> DEFINE y == ReadAt(WriteAt(d, c, x), c)
<1>1. y \in [0..Sz - 1 -> Byte]
  BY ReadAtType, WriteAtType
<1>2. ASSUME NEW k \in 0..Sz - 1
      PROVE  y[k] = x[k]
  <2>1. Offset(c) + k \in 0..N * Sz - 1 /\ Offset(c) \in Int
    BY CopyInBounds
  <2>2. Offset(c) + k \in Offset(c)..Offset(c) + Sz - 1
    BY <2>1
  <2>3. Offset(c) + k - Offset(c) = k
    BY <2>1
  <2> QED
    BY <2>1, <2>2, <2>3 DEF ReadAt, WriteAt
<1> QED
  BY <1>1, <1>2

(* The two cursor steps undo each other and stay in range.                 *)
LEMMA CursorSteps ==
  ASSUME NEW c \in 0..SizeMax
  PROVE  /\ Incr(c) \in 0..SizeMax
         /\ Decr(c) \in 0..SizeMax
         /\ Decr(Incr(c)) = c
BY DEF Incr, Decr

-----------------------------------------------------------------------------
(* Counting threads                                                        *)

Gain(places, p) == IF p \in places THEN 1 ELSE 0

LEMMA CountType ==
  ASSUME NEW p, NEW S
  PROVE  IsFiniteSet(At(p, S)) /\ CountAt(p, S) \in Nat
<1>1. IsFiniteSet(Threads)
  BY SBufAssumption, FS_Union DEF Threads
<1> QED
  BY <1>1, FS_Subset, FS_CardinalityType DEF At, CountAt

(* When one thread moves from one place to another, the number of threads  *)
(* at a set of places changes by at most that thread.                      *)
LEMMA CountMove ==
  ASSUME pc \in [Threads -> Places],
         NEW t \in Threads, NEW from, NEW to, Goto(t, from, to), NEW S
  PROVE  CountAt(pc', S) = CountAt(pc, S) + Gain(S, to) - Gain(S, from)
<1> USE CountType DEF Gain
<1>1. ASSUME from \notin S, to \in S
      PROVE  CountAt(pc', S) = CountAt(pc, S) + 1
  <2>1. At(pc', S) = At(pc, S) \cup {t} /\ t \notin At(pc, S)
    BY <1>1 DEF At, Goto
  <2> QED
    BY <2>1, FS_AddElement DEF CountAt
<1>2. ASSUME from \in S, to \notin S
      PROVE  CountAt(pc', S) = CountAt(pc, S) - 1
  <2>1. At(pc', S) = At(pc, S) \ {t} /\ t \in At(pc, S)
    BY <1>2 DEF At, Goto
  <2>2. IsFiniteSet(At(pc, S))
    OBVIOUS
  <2>3. Cardinality(At(pc, S) \ {t}) = Cardinality(At(pc, S)) - 1
    BY <2>1, <2>2, FS_RemoveElement
  <2> QED
    BY <2>1, <2>3 DEF CountAt
<1>3. ASSUME from \in S <=> to \in S
      PROVE  CountAt(pc', S) = CountAt(pc, S)
  <2>1. At(pc', S) = At(pc, S)
    BY <1>3 DEF At, Goto
  <2> QED
    BY <2>1 DEF CountAt
<1> QED
  BY <1>1, <1>2, <1>3

-----------------------------------------------------------------------------
(* The inductive invariant                                                 *)

(* The calls whose token stands for an item that is in the array.          *)
ToRead == {"deq_lock", "deq_copy"}
Copied == {"enq_unlock", "enq_post"}

(* What is in the queue was announced by the semaphore items, or is about  *)
(* to be: this ties the history to the semaphores, and is what makes the   *)
(* other conjuncts inductive.                                              *)
Size(q) == Len(q)

ItemsInQueue ==
  Size(queue) = items + CountAt(pc, ToRead) + CountAt(pc, Copied)

IInv ==
  /\ TypeOK
  /\ LockDiscipline
  /\ TokensConserved
  /\ ItemsInQueue
  /\ CursorsBracketQueue
  /\ NewestIntact

(* A move that changes the semaphores and the queue as much as the places  *)
(* of the moving thread keeps the account of the slots and of the items.   *)
Balanced(from, to) ==
  /\ slots' + items' + Gain(EnqHeld, to) + Gain(DeqHeld, to)
       = slots + items + Gain(EnqHeld, from) + Gain(DeqHeld, from)
  /\ Size(queue') - items' - Gain(ToRead, to) - Gain(Copied, to)
       = Size(queue) - items - Gain(ToRead, from) - Gain(Copied, from)

LEMMA AccountKept ==
  ASSUME TypeOK, TokensConserved, ItemsInQueue,
         NEW t \in Threads, NEW from, NEW to, Goto(t, from, to),
         slots' \in Nat, items' \in Nat, Size(queue') \in Nat,
         Balanced(from, to)
  PROVE  TokensConserved' /\ ItemsInQueue'
<1> DEFINE count(S) == CountAt(pc, S)
           after(S) == CountAt(pc', S)
           moved(S) == Gain(S, to) - Gain(S, from)
<1>1. ASSUME NEW S
      PROVE  /\ count(S) \in Int /\ after(S) \in Int /\ moved(S) \in Int
             /\ after(S) = count(S) + moved(S)
             /\ Gain(S, to) \in Int /\ Gain(S, from) \in Int
  <2>1. after(S) = CountAt(pc, S) + Gain(S, to) - Gain(S, from)
    BY CountMove DEF TypeOK
  <2>2. count(S) \in Int /\ after(S) \in Int
    BY CountType
  <2> QED
    BY <2>1, <2>2 DEF Gain
<1>2. /\ Size(queue) \in Int /\ N \in Int /\ slots \in Int /\ items \in Int
      /\ slots' \in Int /\ items' \in Int /\ Size(queue') \in Int
  BY DEF TypeOK, Size
<1>3. slots' + items' + after(EnqHeld) + after(DeqHeld) = N
  <2>1. /\ Gain(EnqHeld, to) \in Int /\ Gain(EnqHeld, from) \in Int
        /\ Gain(DeqHeld, to) \in Int /\ Gain(DeqHeld, from) \in Int
    BY <1>1
  <2>2. /\ moved(EnqHeld) = Gain(EnqHeld, to) - Gain(EnqHeld, from)
        /\ moved(DeqHeld) = Gain(DeqHeld, to) - Gain(DeqHeld, from)
    OBVIOUS
  <2>3. /\ count(EnqHeld) \in Int /\ after(EnqHeld) \in Int /\ moved(EnqHeld) \in Int
        /\ count(DeqHeld) \in Int /\ after(DeqHeld) \in Int /\ moved(DeqHeld) \in Int
    BY <1>1
  <2>4. /\ after(EnqHeld) = count(EnqHeld) + moved(EnqHeld)
        /\ after(DeqHeld) = count(DeqHeld) + moved(DeqHeld)
    BY <1>1
  <2> HIDE DEF count, after, moved
  <2>5. slots' + items' + moved(EnqHeld) + moved(DeqHeld) = slots + items
    BY <1>2, <2>1, <2>2 DEF Balanced
  <2>6. slots + items + count(EnqHeld) + count(DeqHeld) = N
    BY DEF TokensConserved, count
  <2> QED
    BY <1>2, <2>3, <2>4, <2>5, <2>6
<1>4. Size(queue') = items' + after(ToRead) + after(Copied)
  <2>1. /\ Gain(ToRead, to) \in Int /\ Gain(ToRead, from) \in Int
        /\ Gain(Copied, to) \in Int /\ Gain(Copied, from) \in Int
    BY <1>1
  <2>2. /\ moved(ToRead) = Gain(ToRead, to) - Gain(ToRead, from)
        /\ moved(Copied) = Gain(Copied, to) - Gain(Copied, from)
    OBVIOUS
  <2>3. /\ count(ToRead) \in Int /\ after(ToRead) \in Int /\ moved(ToRead) \in Int
        /\ count(Copied) \in Int /\ after(Copied) \in Int /\ moved(Copied) \in Int
    BY <1>1
  <2>4. /\ after(ToRead) = count(ToRead) + moved(ToRead)
        /\ after(Copied) = count(Copied) + moved(Copied)
    BY <1>1
  <2> HIDE DEF count, after, moved
  <2>5. Size(queue') - items' - moved(ToRead) - moved(Copied)
          = Size(queue) - items
    BY <1>2, <2>1, <2>2 DEF Balanced
  <2>6. Size(queue) = items + count(ToRead) + count(Copied)
    BY DEF ItemsInQueue, count
  <2> QED
    BY <1>2, <2>3, <2>4, <2>5, <2>6
<1> QED
  BY <1>3, <1>4 DEF TokensConserved, ItemsInQueue

(* The semaphores keep the cursors apart.                                  *)
LEMMA RoomFromTokens == IInv => CopyHasRoom
<1> SUFFICES ASSUME IInv
             PROVE  CopyHasRoom
  OBVIOUS
<1> USE CountType DEF IInv, TypeOK, TokensConserved, ItemsInQueue, Size
<1>1. ASSUME NEW t \in At(pc, {"enq_copy"})
      PROVE  Len(queue) < N
  <2> DEFINE E == At(pc, EnqHeld)
  <2>1. t \in E /\ At(pc, Copied) \subseteq E \ {t}
    BY <1>1 DEF At, EnqHeld, Copied
  <2>2. Cardinality(E \ {t}) = Cardinality(E) - 1 /\ IsFiniteSet(E \ {t})
    BY <2>1, FS_RemoveElement
  <2>3. CountAt(pc, Copied) <= CountAt(pc, EnqHeld) - 1
    <3>1. Cardinality(At(pc, Copied)) <= Cardinality(E \ {t})
      BY <2>1, <2>2, FS_Subset
    <3> QED
      BY <2>2, <3>1 DEF CountAt
  <2>4. CountAt(pc, ToRead) <= CountAt(pc, DeqHeld)
    <3>1. At(pc, ToRead) \subseteq At(pc, DeqHeld)
      BY DEF At, ToRead, DeqHeld
    <3> QED
      BY <3>1, FS_Subset DEF CountAt
  <2> QED
    BY <2>3, <2>4
<1>2. ASSUME NEW t \in At(pc, {"deq_copy"})
      PROVE  queue # <<>>
  <2>1. t \in At(pc, ToRead)
    BY <1>2 DEF At, ToRead
  <2>2. CountAt(pc, ToRead) # 0
    BY <2>1, FS_EmptySet DEF CountAt
  <2>3. Len(queue) > 0
    BY <2>2
  <2> QED
    BY <2>3
<1> QED
  BY <1>1, <1>2 DEF CopyHasRoom

(* A step that moves one thread leaves the four counts as the places say.  *)
(* The steps that copy nothing only have to keep the counts and the lock.  *)
LEMMA QuietStep ==
  ASSUME IInv, NEW t \in Threads, NEW from, NEW to, Goto(t, from, to),
         to \in Places,
         UNCHANGED <<data, front, rear, queue>>,
         item' \in [Threads -> [0..Sz - 1 -> Byte]],
         slots' \in Nat, items' \in Nat, mutex' \in Threads \cup {Free},
         LockDiscipline', TokensConserved', ItemsInQueue'
  PROVE  IInv'
<1>1. TypeOK'
  BY DEF IInv, TypeOK, Goto
<1>2. CursorsBracketQueue'
  BY DEF IInv, CursorsBracketQueue
<1>3. NewestIntact'
  BY DEF IInv, NewestIntact, ReadAt, Offset, Decr
<1> QED
  BY <1>1, <1>2, <1>3 DEF IInv

THEOREM InvariantStep == IInv /\ [Next]_vars => IInv'
<1> SUFFICES ASSUME IInv, [Next]_vars
             PROVE  IInv'
  OBVIOUS
<1>0. /\ Producers \subseteq Threads /\ Consumers \subseteq Threads
      /\ TypeOK /\ LockDiscipline /\ TokensConserved /\ ItemsInQueue
      /\ Items \subseteq [0..Sz - 1 -> Byte]
      /\ Free \notin Threads
  BY SBufAssumption DEF Threads, IInv
<1>1. ASSUME NEW t \in Producers, NEW x \in Items, EnqCall(t, x)
      PROVE  IInv'
  <2>1. t \in Threads /\ Goto(t, "idle", "enq_wait")
    BY <1>0, <1>1 DEF EnqCall
  <2>2. LockDiscipline'
    BY <1>0, <1>1, <2>1 DEF EnqCall, bufvars, LockDiscipline, TypeOK, Goto
  <2>3. Balanced("idle", "enq_wait")
    BY <1>0, <1>1
    DEF EnqCall, bufvars, TypeOK, Balanced, Size, Gain, EnqHeld, DeqHeld, ToRead, Copied
  <2>4. slots' \in Nat /\ items' \in Nat /\ Size(queue') \in Nat
    BY <1>0, <1>1 DEF EnqCall, bufvars, TypeOK, Size
  <2>5. TokensConserved' /\ ItemsInQueue'
    BY <1>0, <2>1, <2>3, <2>4, AccountKept
  <2> QED
    BY <1>0, <1>1, <2>1, <2>2, <2>4, <2>5, QuietStep
    DEF EnqCall, bufvars, TypeOK, Places, EnqHeld, DeqHeld
<1>2. ASSUME NEW t \in Producers, EnqWait(t)
      PROVE  IInv'
  <2>1. t \in Threads /\ Goto(t, "enq_wait", "enq_lock")
    BY <1>0, <1>2 DEF EnqWait
  <2>2. LockDiscipline'
    BY <1>0, <1>2, <2>1 DEF EnqWait, LockDiscipline, TypeOK, Goto
  <2>3. Balanced("enq_wait", "enq_lock")
    BY <1>0, <1>2
    DEF EnqWait, TypeOK, Balanced, Size, Gain, EnqHeld, DeqHeld, ToRead, Copied
  <2>4. slots' \in Nat /\ items' \in Nat /\ Size(queue') \in Nat
    BY <1>0, <1>2 DEF EnqWait, TypeOK, Size
  <2>5. TokensConserved' /\ ItemsInQueue'
    BY <1>0, <2>1, <2>3, <2>4, AccountKept
  <2> QED
    BY <1>0, <1>2, <2>1, <2>2, <2>4, <2>5, QuietStep
    DEF EnqWait, TypeOK, Places, EnqHeld, DeqHeld
<1>3. ASSUME NEW t \in Producers, EnqLock(t)
      PROVE  IInv'
  <2>1. t \in Threads /\ Goto(t, "enq_lock", "enq_copy")
    BY <1>0, <1>3 DEF EnqLock
  <2>2. LockDiscipline'
    BY <1>0, <1>3, <2>1 DEF EnqLock, LockDiscipline, TypeOK, Goto
  <2>3. Balanced("enq_lock", "enq_copy")
    BY <1>0, <1>3
    DEF EnqLock, TypeOK, Balanced, Size, Gain, EnqHeld, DeqHeld, ToRead, Copied
  <2>4. slots' \in Nat /\ items' \in Nat /\ Size(queue') \in Nat
    BY <1>0, <1>3 DEF EnqLock, TypeOK, Size
  <2>5. TokensConserved' /\ ItemsInQueue'
    BY <1>0, <2>1, <2>3, <2>4, AccountKept
  <2> QED
    BY <1>0, <1>3, <2>1, <2>2, <2>4, <2>5, QuietStep
    DEF EnqLock, TypeOK, Places, EnqHeld, DeqHeld
<1>4. ASSUME NEW t \in Producers, EnqCopy(t)
      PROVE  IInv'
  <2>1. t \in Threads /\ Goto(t, "enq_copy", "enq_unlock")
    BY <1>0, <1>4 DEF EnqCopy
  <2>2. Len(queue) < N
    BY <1>4, <2>1, RoomFromTokens DEF CopyHasRoom, At, Goto
  <2>3. TypeOK'
    <3>1. data' \in [0..N * Sz - 1 -> Byte]
      BY <1>0, <1>4, WriteAtType DEF EnqCopy, TypeOK
    <3>2. rear' \in 0..SizeMax
      BY <1>0, <1>4, CursorSteps DEF EnqCopy, TypeOK
    <3>3. queue' \in Seq([0..Sz - 1 -> Byte])
      BY <1>0, <1>4, <2>1 DEF EnqCopy, TypeOK
    <3>4. pc' \in [Threads -> Places]
      BY <1>0, <2>1 DEF TypeOK, Goto, Places, EnqHeld
    <3> QED
      BY <1>0, <1>4, <3>1, <3>2, <3>3, <3>4 DEF EnqCopy, TypeOK
  <2>4. LockDiscipline'
    BY <1>0, <1>4, <2>1 DEF EnqCopy, LockDiscipline, TypeOK, Goto
  <2>5. Len(queue') = Len(queue) + 1 /\ Len(queue) \in Nat
    BY <1>0, <1>4, <2>2 DEF EnqCopy, TypeOK
  <2>6. Balanced("enq_copy", "enq_unlock")
    BY <1>0, <1>4, <2>5
    DEF EnqCopy, TypeOK, Balanced, Size, Gain, EnqHeld, DeqHeld, ToRead, Copied
  <2>7. TokensConserved' /\ ItemsInQueue'
    BY <1>0, <1>4, <2>1, <2>3, <2>5, <2>6, AccountKept DEF EnqCopy, TypeOK, Size
  <2>8. CursorsBracketQueue'
    BY <1>0, <1>4, <2>2, <2>5
    DEF EnqCopy, IInv, CursorsBracketQueue, TypeOK, Incr
  <2>9. NewestIntact'
    <3>0. /\ rear \in 0..SizeMax /\ data \in [0..N * Sz - 1 -> Byte]
          /\ item[t] \in [0..Sz - 1 -> Byte]
      BY <1>0, <2>1 DEF TypeOK
    <3>1. ReadAt(data', rear) = item[t] /\ Decr(rear') = rear
      BY <1>4, <3>0, ReadAfterWrite, CursorSteps DEF EnqCopy
    <3>2. queue'[Len(queue')] = item[t]
      BY <1>0, <1>4, <2>1, <2>5 DEF EnqCopy, TypeOK
    <3> QED
      BY <3>1, <3>2 DEF NewestIntact
  <2> QED
    BY <2>3, <2>4, <2>7, <2>8, <2>9 DEF IInv
<1>5. ASSUME NEW t \in Producers, EnqUnlock(t)
      PROVE  IInv'
  <2>1. t \in Threads /\ Goto(t, "enq_unlock", "enq_post")
    BY <1>0, <1>5 DEF EnqUnlock
  <2>2. LockDiscipline'
    BY <1>0, <1>5, <2>1 DEF EnqUnlock, LockDiscipline, TypeOK, Goto
  <2>3. Balanced("enq_unlock", "enq_post")
    BY <1>0, <1>5
    DEF EnqUnlock, TypeOK, Balanced, Size, Gain, EnqHeld, DeqHeld, ToRead, Copied
  <2>4. slots' \in Nat /\ items' \in Nat /\ Size(queue') \in Nat
    BY <1>0, <1>5 DEF EnqUnlock, TypeOK, Size
  <2>5. TokensConserved' /\ ItemsInQueue'
    BY <1>0, <2>1, <2>3, <2>4, AccountKept
  <2> QED
    BY <1>0, <1>5, <2>1, <2>2, <2>4, <2>5, QuietStep
    DEF EnqUnlock, TypeOK, Places, EnqHeld, DeqHeld
<1>6. ASSUME NEW t \in Producers, EnqPost(t)
      PROVE  IInv'
  <2>1. t \in Threads /\ Goto(t, "enq_post", "idle")
    BY <1>0, <1>6 DEF EnqPost
  <2>2. LockDiscipline'
    BY <1>0, <1>6, <2>1 DEF EnqPost, LockDiscipline, TypeOK, Goto
  <2>3. Balanced("enq_post", "idle")
    BY <1>0, <1>6
    DEF EnqPost, TypeOK, Balanced, Size, Gain, EnqHeld, DeqHeld, ToRead, Copied
  <2>4. slots' \in Nat /\ items' \in Nat /\ Size(queue') \in Nat
    BY <1>0, <1>6 DEF EnqPost, TypeOK, Size
  <2>5. TokensConserved' /\ ItemsInQueue'
    BY <1>0, <2>1, <2>3, <2>4, AccountKept
  <2> QED
    BY <1>0, <1>6, <2>1, <2>2, <2>4, <2>5, QuietStep
    DEF EnqPost, TypeOK, Places, EnqHeld, DeqHeld
<1>7. ASSUME NEW t \in Consumers, DeqCall(t)
      PROVE  IInv'
  <2>1. t \in Threads /\ Goto(t, "idle", "deq_wait")
    BY <1>0, <1>7 DEF DeqCall
  <2>2. LockDiscipline'
    BY <1>0, <1>7, <2>1 DEF DeqCall, LockDiscipline, TypeOK, Goto
  <2>3. Balanced("idle", "deq_wait")
    BY <1>0, <1>7
    DEF DeqCall, TypeOK, Balanced, Size, Gain, EnqHeld, DeqHeld, ToRead, Copied
  <2>4. slots' \in Nat /\ items' \in Nat /\ Size(queue') \in Nat
    BY <1>0, <1>7 DEF DeqCall, TypeOK, Size
  <2>5. TokensConserved' /\ ItemsInQueue'
    BY <1>0, <2>1, <2>3, <2>4, AccountKept
  <2> QED
    BY <1>0, <1>7, <2>1, <2>2, <2>4, <2>5, QuietStep
    DEF DeqCall, TypeOK, Places, EnqHeld, DeqHeld
<1>8. ASSUME NEW t \in Consumers, DeqWait(t)
      PROVE  IInv'
  <2>1. t \in Threads /\ Goto(t, "deq_wait", "deq_lock")
    BY <1>0, <1>8 DEF DeqWait
  <2>2. LockDiscipline'
    BY <1>0, <1>8, <2>1 DEF DeqWait, LockDiscipline, TypeOK, Goto
  <2>3. Balanced("deq_wait", "deq_lock")
    BY <1>0, <1>8
    DEF DeqWait, TypeOK, Balanced, Size, Gain, EnqHeld, DeqHeld, ToRead, Copied
  <2>4. slots' \in Nat /\ items' \in Nat /\ Size(queue') \in Nat
    BY <1>0, <1>8 DEF DeqWait, TypeOK, Size
  <2>5. TokensConserved' /\ ItemsInQueue'
    BY <1>0, <2>1, <2>3, <2>4, AccountKept
  <2> QED
    BY <1>0, <1>8, <2>1, <2>2, <2>4, <2>5, QuietStep
    DEF DeqWait, TypeOK, Places, EnqHeld, DeqHeld
<1>9. ASSUME NEW t \in Consumers, DeqLock(t)
      PROVE  IInv'
  <2>1. t \in Threads /\ Goto(t, "deq_lock", "deq_copy")
    BY <1>0, <1>9 DEF DeqLock
  <2>2. LockDiscipline'
    BY <1>0, <1>9, <2>1 DEF DeqLock, LockDiscipline, TypeOK, Goto
  <2>3. Balanced("deq_lock", "deq_copy")
    BY <1>0, <1>9
    DEF DeqLock, TypeOK, Balanced, Size, Gain, EnqHeld, DeqHeld, ToRead, Copied
  <2>4. slots' \in Nat /\ items' \in Nat /\ Size(queue') \in Nat
    BY <1>0, <1>9 DEF DeqLock, TypeOK, Size
  <2>5. TokensConserved' /\ ItemsInQueue'
    BY <1>0, <2>1, <2>3, <2>4, AccountKept
  <2> QED
    BY <1>0, <1>9, <2>1, <2>2, <2>4, <2>5, QuietStep
    DEF DeqLock, TypeOK, Places, EnqHeld, DeqHeld
<1>10. ASSUME NEW t \in Consumers, DeqCopy(t)
      PROVE  IInv'
  <2>1. t \in Threads /\ Goto(t, "deq_copy", "deq_unlock")
    BY <1>0, <1>10 DEF DeqCopy
  <2>2. queue # <<>>
    BY <1>10, <2>1, RoomFromTokens DEF CopyHasRoom, At, Goto
  <2>3. TypeOK'
    <3>1. item' \in [Threads -> [0..Sz - 1 -> Byte]]
      BY <1>0, <1>10, ReadAtType DEF DeqCopy, TypeOK
    <3>2. front' \in 0..SizeMax
      BY <1>0, <1>10, CursorSteps DEF DeqCopy, TypeOK
    <3>3. queue' \in Seq([0..Sz - 1 -> Byte])
      BY <1>0, <1>10, <2>2 DEF DeqCopy, TypeOK
    <3>4. pc' \in [Threads -> Places]
      BY <1>0, <2>1 DEF TypeOK, Goto, Places, DeqHeld
    <3> QED
      BY <1>0, <1>10, <3>1, <3>2, <3>3, <3>4 DEF DeqCopy, TypeOK
  <2>4. LockDiscipline'
    BY <1>0, <1>10, <2>1 DEF DeqCopy, LockDiscipline, TypeOK, Goto
  <2>5. Len(queue') = Len(queue) - 1 /\ Len(queue) \in Nat
    BY <1>0, <1>10, <2>2 DEF DeqCopy, TypeOK
  <2>6. Balanced("deq_copy", "deq_unlock")
    BY <1>0, <1>10, <2>5
    DEF DeqCopy, TypeOK, Balanced, Size, Gain, EnqHeld, DeqHeld, ToRead, Copied
  <2>7. TokensConserved' /\ ItemsInQueue'
    BY <1>0, <1>10, <2>1, <2>3, <2>5, <2>6, AccountKept DEF DeqCopy, TypeOK, Size
  <2>8. CursorsBracketQueue'
    BY <1>0, <1>10, <2>2, <2>5
    DEF DeqCopy, IInv, CursorsBracketQueue, TypeOK, Incr
  <2>9. NewestIntact'
    <3>1. ASSUME queue' # <<>>
          PROVE  queue'[Len(queue')] = queue[Len(queue)]
      BY <1>0, <1>10, <2>2, <2>5, <3>1 DEF DeqCopy, TypeOK
    <3>2. ReadAt(data', Decr(rear')) = ReadAt(data, Decr(rear))
      BY <1>10 DEF DeqCopy
    <3> QED
      BY <2>2, <3>1, <3>2 DEF IInv, NewestIntact
  <2> QED
    BY <2>3, <2>4, <2>7, <2>8, <2>9 DEF IInv
<1>11. ASSUME NEW t \in Consumers, DeqUnlock(t)
      PROVE  IInv'
  <2>1. t \in Threads /\ Goto(t, "deq_unlock", "deq_post")
    BY <1>0, <1>11 DEF DeqUnlock
  <2>2. LockDiscipline'
    BY <1>0, <1>11, <2>1 DEF DeqUnlock, LockDiscipline, TypeOK, Goto
  <2>3. Balanced("deq_unlock", "deq_post")
    BY <1>0, <1>11
    DEF DeqUnlock, TypeOK, Balanced, Size, Gain, EnqHeld, DeqHeld, ToRead, Copied
  <2>4. slots' \in Nat /\ items' \in Nat /\ Size(queue') \in Nat
    BY <1>0, <1>11 DEF DeqUnlock, TypeOK, Size
  <2>5. TokensConserved' /\ ItemsInQueue'
    BY <1>0, <2>1, <2>3, <2>4, AccountKept
  <2> QED
    BY <1>0, <1>11, <2>1, <2>2, <2>4, <2>5, QuietStep
    DEF DeqUnlock, TypeOK, Places, EnqHeld, DeqHeld
<1>12. ASSUME NEW t \in Consumers, DeqPost(t)
      PROVE  IInv'
  <2>1. t \in Threads /\ Goto(t, "deq_post", "idle")
    BY <1>0, <1>12 DEF DeqPost
  <2>2. LockDiscipline'
    BY <1>0, <1>12, <2>1 DEF DeqPost, LockDiscipline, TypeOK, Goto
  <2>3. Balanced("deq_post", "idle")
    BY <1>0, <1>12
    DEF DeqPost, TypeOK, Balanced, Size, Gain, EnqHeld, DeqHeld, ToRead, Copied
  <2>4. slots' \in Nat /\ items' \in Nat /\ Size(queue') \in Nat
    BY <1>0, <1>12 DEF DeqPost, TypeOK, Size
  <2>5. TokensConserved' /\ ItemsInQueue'
    BY <1>0, <2>1, <2>3, <2>4, AccountKept
  <2> QED
    BY <1>0, <1>12, <2>1, <2>2, <2>4, <2>5, QuietStep
    DEF DeqPost, TypeOK, Places, EnqHeld, DeqHeld
<1>13. CASE UNCHANGED vars
  BY <1>13
  DEF vars, IInv, TypeOK, LockDiscipline, TokensConserved, ItemsInQueue,
      CursorsBracketQueue, NewestIntact
<1> QED
  BY <1>1, <1>2, <1>3, <1>4, <1>5, <1>6, <1>7, <1>8, <1>9, <1>10, <1>11, <1>12, <1>13
  DEF Next, Enq, Deq

LEMMA InvariantInit == Init => IInv
<1> SUFFICES ASSUME Init
             PROVE  IInv
  OBVIOUS
<1>1. ASSUME NEW S, "idle" \notin S
      PROVE  CountAt(pc, S) = 0
  <2>1. At(pc, S) = {}
    BY <1>1 DEF Init, At
  <2> QED
    BY <2>1, FS_EmptySet DEF CountAt
<1>2. /\ CountAt(pc, EnqHeld) = 0 /\ CountAt(pc, DeqHeld) = 0
      /\ CountAt(pc, ToRead) = 0 /\ CountAt(pc, Copied) = 0
  BY <1>1 DEF ToRead, Copied, EnqHeld, DeqHeld
<1>3. TypeOK
  BY SBufAssumption DEF Init, TypeOK, Places
<1>4. LockDiscipline
  BY SBufAssumption DEF Init, LockDiscipline, Threads
<1>5. TokensConserved /\ ItemsInQueue
  BY <1>2 DEF Init, TokensConserved, ItemsInQueue, Size
<1>6. CursorsBracketQueue /\ NewestIntact
  BY DEF Init, CursorsBracketQueue, NewestIntact
<1> QED
  BY <1>3, <1>4, <1>5, <1>6 DEF IInv

-----------------------------------------------------------------------------
(* Theorems                                                                *)

LEMMA Invariant == Spec => []IInv
BY InvariantInit, InvariantStep, PTL DEF Spec

(* Every reachable state of the buffer is well typed; in particular no     *)
(* semaphore is decremented below zero and no cursor leaves size_t.        *)
THEOREM TypeCorrect == Spec => []TypeOK
BY Invariant, PTL DEF IInv

(* Between a lock and its unlock there is only the owner of the mutex.     *)
THEOREM MutualExclusion == Spec => []LockDiscipline
BY Invariant, PTL DEF IInv

(* The semaphores never lose or invent a slot.                             *)
THEOREM Conservation == Spec => []TokensConserved
BY Invariant, PTL DEF IInv

(* No enqueue overruns a full buffer and no dequeue reads an empty one,    *)
(* whatever the interleaving of producers and consumers.                   *)
THEOREM NoOverrun == Spec => [](CopyHasRoom /\ CursorsBracketQueue)
<1>1. IInv => CopyHasRoom /\ CursorsBracketQueue
  BY RoomFromTokens DEF IInv
<1> QED
  BY <1>1, Invariant, PTL

(* However items overlap, the newest one in the buffer is intact.          *)
THEOREM NewestDelivered == Spec => []NewestIntact
BY Invariant, PTL DEF IInv
=============================================================================
