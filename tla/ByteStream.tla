---------------------------- MODULE ByteStream ----------------------------
(* What the buffered reads of the Rio package promise: each call takes the *)
(* next line, or the next n bytes, off the bytes the peer sends, whatever  *)
(* pieces they arrive in and whatever signals come in between.             *)
EXTENDS Naturals, Sequences, FiniteSetsExt

VARIABLES rest,         \* bytes that no call has returned
          asked,        \* [kind, want], what the call in progress asks for
          reply         \* what the last call returned

vars == <<rest, asked, reply>>

Idle   == [kind |-> "none", want |-> 0]
Failed == <<"error">>
New    == <<"new">>
Newline == "nl"
Byte    == STRING \ {"error", "new"}

(* The length of the line at the front of s, if at most max - 1 may be     *)
(* stored: up to the newline, or as much as there is or fits.              *)
LineLength(s, max) ==
  Min({k \in 1 .. Len(s) : s[k] = Newline} \cup {Len(s), max - 1})

Ask == /\ asked = Idle
       /\ asked' \in [kind: {"line", "bytes"}, want: Nat]
       /\ UNCHANGED <<rest, reply>>

Take(k) == /\ reply' = SubSeq(rest, 1, k)
           /\ rest' = SubSeq(rest, k + 1, Len(rest))
           /\ asked' = Idle

ReadLine  == asked.kind = "line" /\ Take(LineLength(rest, asked.want))
ReadBytes == asked.kind = "bytes" /\ Take(Min({asked.want, Len(rest)}))

(* A call that asks for no byte returns at once. *)
Nothing == asked = Idle /\ Take(0)

(* After an error what was read for the call is lost. *)
Fail == /\ asked # Idle
        /\ \E k \in 0 .. Len(rest) : rest' = SubSeq(rest, k + 1, Len(rest))
        /\ reply' = Failed
        /\ asked' = Idle

(* A new connection, after a call on the one before returned. *)
Fresh == /\ reply # New /\ reply' = New
         /\ rest' \in Seq(Byte)
         /\ asked' \in [kind: {"line"}, want: Nat]

Next == Ask \/ ReadLine \/ ReadBytes \/ Nothing \/ Fail \/ Fresh

Spec == rest \in Seq(Byte) /\ asked = Idle /\ reply = <<>> /\ [][Next]_vars
=============================================================================
