------------------------------ MODULE Allocator ------------------------------
(***************************************************************************)
(* What malloc, realloc and free promise (labs/08-malloc), as the driver   *)
(* checks it (mdriver.c, add_range and eval_mm_valid): payloads are        *)
(* aligned, inside the heap and disjoint, nobody but its owner changes     *)
(* one, and realloc keeps its contents up to the smaller of the two sizes. *)
(* A call that fails changes nothing.                                      *)
(***************************************************************************)
EXTENDS Integers

CONSTANTS
  Ids,        \* the blocks of the driver's trace
  NoId,
  Requests,   \* the sizes it asks for, in words
  Blank       \* what a word holds that the driver has not written

VARIABLES
  live,       \* address and length of the payload of each block
  holds,      \* the words of that payload
  end,        \* the end of the heap
  unwritten   \* the block that the driver has yet to fill

None == [ptr |-> 0, len |-> 0]
Words(b) == b.ptr..b.ptr + b.len - 1

Valid(i, b) ==
  /\ b.ptr % 2 = 0
  /\ Words(b) \subseteq 0..end' - 1
  /\ \A j \in Ids \ {i} : Words(b) \cap Words(live[j]) = {}

Init ==
  /\ live = [i \in Ids |-> None]
  /\ holds = [i \in Ids |-> <<>>]
  /\ end \in Nat
  /\ unwritten = NoId

\* The block i, also one that has no payload yet, gets one of n words.
Place(i, n) ==
  /\ unwritten = NoId
  /\ end' >= end
  /\ \E p \in 0..end' - 1 : live' = [live EXCEPT ![i] = [ptr |-> p, len |-> n]]
  /\ Valid(i, live'[i])
  /\ DOMAIN holds'[i] = 0..n - 1
  /\ \A k \in DOMAIN holds[i] : k < n => holds'[i][k] = holds[i][k]
  /\ holds' = [holds EXCEPT ![i] = holds'[i]]
  /\ unwritten' = i

Drop(i) ==
  /\ unwritten = NoId
  /\ live[i] # None
  /\ live' = [live EXCEPT ![i] = None]
  /\ holds' = [holds EXCEPT ![i] = <<>>]
  /\ UNCHANGED <<end, unwritten>>

Write(i) ==
  /\ unwritten = i
  /\ holds' = [holds EXCEPT ![i] = [k \in 0..live[i].len - 1 |-> i]]
  /\ unwritten' = NoId
  /\ UNCHANGED <<live, end>>

Next ==
  \E i \in Ids : Drop(i) \/ Write(i) \/ \E n \in Requests : Place(i, n)

Spec == Init /\ [][Next]_<<live, holds, end, unwritten>>
=============================================================================
