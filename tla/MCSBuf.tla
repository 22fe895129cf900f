------------------------------- MODULE MCSBuf -------------------------------
(* Model-checking instance of SBuf.  An item stands for a FILE * of the    *)
(* proxy: two pointers differ in their low byte and share their high ones. *)
EXTENDS SBuf, TLC

MCItems == {[k \in 0..Sz - 1 |-> IF k = 0 THEN low ELSE 9] : low \in 1..2}

MCByte == 0..2 \cup {9}

MCSymmetry == Permutations(Consumers)
=============================================================================
