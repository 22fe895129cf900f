-------------------------------- MODULE Rio --------------------------------
(* The Rio package of csapp.c: reads through a buffer and writes that cope *)
(* with short counts and with signals.  A step is one system call, or one  *)
(* copy out of the buffer.  A byte is a string, "nl" the newline.          *)
EXTENDS Integers, Sequences, FiniteSetsExt, SequencesExt

CONSTANT BufSize        \* RIO_BUFSIZE

ASSUME BufSizeAssumption == BufSize \in Nat \ {0}

VARIABLES wire,         \* what the peer has sent and read() has not returned
          ending,       \* what follows it: open (nothing yet), eof, reset
          rio,          \* [cnt, unread]: rio_cnt, the bytes at rio_bufptr
          call,         \* [kind, want, got], the read in progress
          reply,        \* what the last read returned
          todo,         \* pieces that rio_writen has to write, in order
          out,          \* what the peer has been sent
          reading       \* the peer still reads

readVars  == <<wire, ending, rio, call, reply>>
writeVars == <<todo, out, reading>>
rioVars   == <<readVars, writeVars>>

Idle    == [kind |-> "none", want |-> 0, got |-> <<>>]
Error   == <<"error">>
NewConn == <<"new">>
Empty   == [cnt |-> 0, unread |-> <<>>]

(* rio_readinitb on a new connection, and the first call. *)
Connect(bytes, end, first) ==
  /\ wire' = bytes /\ ending' = end /\ rio' = Empty
  /\ call' = first /\ reply' = NewConn
  /\ todo' = <<>> /\ out' = <<>> /\ reading' = TRUE

Return(r) == call' = Idle /\ reply' = r

\* Mutant: maxlen bytes stored before the end mark.
CompleteLate(c) == \/ c.kind = "line" /\ Len(c.got) >= c.want
                   \/ c.kind = "line" /\ c.got # <<>> /\ Last(c.got) = "nl"
                   \/ c.kind = "bytes" /\ Len(c.got) = c.want

(* rio_readlineb stops before maxlen, rio_readnb at n. *)
Complete(c) == \/ c.kind = "line" /\ Len(c.got) >= c.want - 1
               \/ c.kind = "line" /\ c.got # <<>> /\ Last(c.got) = "nl"
               \/ c.kind = "bytes" /\ Len(c.got) = c.want

Goes(c) == IF Complete(c) THEN Return(c.got) ELSE call' = c /\ UNCHANGED reply

Asked(kind, n) == [kind |-> kind, want |-> n, got |-> <<>>]

Begin(kind, n) == /\ call = Idle
                  /\ Goes(Asked(kind, n))
                  /\ UNCHANGED <<wire, ending, rio, writeVars>>

(* rio_read refills an empty buffer. *)
Refilling == call # Idle /\ rio.cnt <= 0

Receive == /\ Refilling
           /\ \E k \in 1 .. Min({BufSize, Len(wire)}) :
                /\ rio' = [cnt |-> k, unread |-> SubSeq(wire, 1, k)]
                /\ wire' = SubSeq(wire, k + 1, Len(wire))
           /\ UNCHANGED <<ending, call, reply, writeVars>>

Interrupted == /\ Refilling
               /\ rio' = [rio EXCEPT !.cnt = -1]         \* EINTR: try again
               /\ UNCHANGED <<wire, ending, call, reply, writeVars>>

AtEnd == /\ Refilling
         /\ wire = <<>> /\ ending # "open"
         /\ rio' = [rio EXCEPT !.cnt = IF ending = "eof" THEN 0 ELSE -1]
         /\ Return(IF ending = "eof" THEN call.got ELSE Error)
         /\ UNCHANGED <<wire, ending, writeVars>>

(* Copy min(n, rio_cnt) bytes; a line asks for them one by one. *)
CopyOut == /\ call # Idle /\ rio.cnt > 0
           /\ LET n == IF call.kind = "line" THEN 1
                       ELSE Min({rio.cnt, call.want - Len(call.got)})
              IN /\ Goes([call EXCEPT !.got = @ \o SubSeq(rio.unread, 1, n)])
                 /\ rio' = [cnt |-> rio.cnt - n,
                            unread |-> SubSeq(rio.unread, n + 1, Len(rio.unread))]
           /\ UNCHANGED <<wire, ending, writeVars>>

\* Mutant: a short count taken for a whole write.
WroteOnce(k) == out' = out \o SubSeq(Head(todo), 1, k) /\ todo' = Tail(todo)

(* What k bytes written change: a piece is left with its rest. *)
Wrote(k) ==
  LET piece == Head(todo)
      left  == SubSeq(piece, k + 1, Len(piece))
  IN /\ out' = out \o SubSeq(piece, 1, k)
     /\ todo' = IF left = <<>> THEN Tail(todo) ELSE <<left>> \o Tail(todo)

(* One write() of rio_writen; some of the piece may be left. *)
WriteSome == /\ todo # <<>> /\ reading
             /\ \E k \in 1 .. Len(Head(todo)) : Wrote(k)
             /\ UNCHANGED <<readVars, reading>>

ReadStep == Receive \/ Interrupted \/ AtEnd \/ CopyOut

(* A caller of rio_readlineb and rio_readnb on one connection, in any order. *)
CallerInit(streams) ==
  /\ wire \in streams /\ ending \in {"open", "eof", "reset"}
  /\ rio = Empty /\ call = Idle /\ reply = <<>>
  /\ todo = <<>> /\ out = <<>> /\ reading = TRUE

CallerNext(sizes) == (\E n \in sizes : Begin("line", n) \/ Begin("bytes", n)) \/ ReadStep

-----------------------------------------------------------------------------
Bytes == INSTANCE ByteStream WITH
  rest  <- call.got \o rio.unread \o wire,
  asked <- [kind |-> call.kind, want |-> call.want],
  reply <- reply

(* No byte is lost, repeated or put in another place between the socket    *)
(* and the callers, and a line ends where it should, although a refill may *)
(* end anywhere and be interrupted, and calls for lines and for bytes      *)
(* share the buffer.                                                       *)
ImplementsStream == Bytes!Spec
=============================================================================
