------------------------------- MODULE Words -------------------------------
(***************************************************************************)
(* Two's complement words of WordBits bits, as the C code computes with    *)
(* them (64-bit word_t of the simulators, 32-bit int of the puzzles): a    *)
(* word is the integer it stands for, and arithmetic wraps around.         *)
(* Bound: WordBits is small in the runs.                                   *)
(***************************************************************************)
EXTENDS Integers, FiniteSetsExt

CONSTANT WordBits
ASSUME WordBitsAssumption == WordBits \in Nat /\ WordBits >= 2

Half == 2^(WordBits - 1)
TMin == -Half
TMax == Half - 1
Word == TMin .. TMax

\* The word congruent to the integer x: what is left when a result overflows.
Wrap(x) == ((x + Half) % (2 * Half)) - Half

\* The value of a word read as an unsigned one.
Unsigned(x) == x % (2 * Half)

Bit(x, i) == (x \div 2^i) % 2

\* The word whose bit i is Digit(i).
FromBits(Digit(_)) ==
  Wrap(MapThenSumSet(LAMBDA i : Digit(i) * 2^i, 0 .. WordBits - 1))

And(a, b) == FromBits(LAMBDA i : Bit(a, i) * Bit(b, i))
Or(a, b)  == FromBits(LAMBDA i : IF Bit(a, i) + Bit(b, i) = 0 THEN 0 ELSE 1)
Xor(a, b) == FromBits(LAMBDA i : (Bit(a, i) + Bit(b, i)) % 2)
Not(a)    == -a - 1
Shl(a, k) == Wrap(a * 2^k)
Shr(a, k) == a \div 2^k      \* >> of a negative int keeps its sign
=============================================================================
