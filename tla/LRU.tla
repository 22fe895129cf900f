-------------------------------- MODULE LRU --------------------------------
(* What a cache simulator promises: a memory block is in its set, or it    *)
(* takes the place of the block of that set that was used least recently.  *)
(* Each set is a list of blocks, the latest first.  cache.c keeps lines in *)
(* fixed places with time stamps instead; CacheSim shows that it agrees.   *)
EXTENDS Integers, Sequences, SequencesExt

VARIABLES geometry,   \* [sets, ways]: how many sets, how many blocks in each
          used,       \* the number of the block that was used last
          stacks,     \* set number -> its blocks, the latest first
          tally       \* [hit, miss, eviction]

vars == <<geometry, used, stacks, tally>>

Init == /\ geometry \in [sets: Nat \ {0}, ways: Nat \ {0}]
        /\ used \in Nat
        /\ stacks = [k \in 0 .. geometry.sets - 1 |-> <<>>]
        /\ tally = [hit |-> 0, miss |-> 0, eviction |-> 0]

(* One use of block x in a state c of stacks and tally. *)
Used(c, x) ==
  LET k    == x % geometry.sets
      old  == c.stacks[k]
      hit  == Contains(old, x)
      full == ~hit /\ Len(old) = geometry.ways
      rest == IF hit THEN SelectSeq(old, LAMBDA y : y # x)
              ELSE IF full THEN Front(old) ELSE old
      Plus(n, b) == IF b THEN n + 1 ELSE n
  IN [stacks |-> [c.stacks EXCEPT ![k] = <<x>> \o rest],
      tally  |-> [hit      |-> Plus(c.tally.hit, hit),
                  miss     |-> Plus(c.tally.miss, ~hit),
                  eviction |-> Plus(c.tally.eviction, full)]]

Now == [stacks |-> stacks, tally |-> tally]

(* A load or a store uses a block once, a modification twice in a row. *)
Use(x) == \E c \in {Used(Now, x), Used(Used(Now, x), x)} :
            stacks' = c.stacks /\ tally' = c.tally /\ UNCHANGED geometry

Next == used' \in Nat /\ Use(used')

Spec == Init /\ [][Next]_vars
=============================================================================
