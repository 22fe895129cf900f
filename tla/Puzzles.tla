------------------------------ MODULE Puzzles ------------------------------
(* The data lab: each puzzle of bits.c as the expression it returns, and   *)
(* the answer that tests.c expects.  int and unsigned have WordBits bits   *)
(* (a power of two, at least 8), and a float has a sign, ExpBits bits of   *)
(* exponent and the rest as its fraction; the constants of the code are    *)
(* written by what they stand for in those widths.                         *)
EXTENDS Words

CONSTANT ExpBits

FracBits == WordBits - 1 - ExpBits         \* 23
Bias     == 2 ^ (ExpBits - 1) - 1          \* 127
Top      == 2 ^ (WordBits - 1)             \* sign_bit, 0x80000000
ExpOne   == 2 ^ FracBits                   \* exp_one,  0x00800000
Inf      == Top - ExpOne                   \* exp_bits, 0x7f800000

Bool(b)  == IF b THEN 1 ELSE 0
LNot(x)  == Bool(x = 0)                    \* !x
Add(a, b) == Wrap(a + b)
Sign(x)  == Shr(x, WordBits - 1)           \* x >> 31: 0 or -1

(* A pattern of k bits repeated over a word: 0x55 + (0x55 << 8) + ...      *)
Repeat(bits, k) == FromBits(LAMBDA i : Bit(bits, i % k))

(* A value doubled up: f = (f << k) + f for the k of the list.             *)
Smeared(f) == LET s[k \in {2 ^ n : n \in 0 .. WordBits}] ==
                    IF k = 1 THEN f ELSE Add(Shl(s[k \div 2], k \div 2), s[k \div 2])
              IN s[WordBits]

bitXor(x, y) == And(Not(And(x, y)), Not(And(Not(x), Not(y))))
tmin         == Shl(1, WordBits - 1)

\* Mutant: -1, which is its own successor's complement too, not ruled out.
isTmaxOnly(x) == LNot(Not(Xor(x, Add(x, 1))))

isTmax(x)    == And(LNot(LNot(Not(x))), LNot(Not(Xor(x, Add(x, 1)))))
allOddBits(x) == LNot(Not(Or(Repeat(1, 2), x)))
negate(x)    == Add(Not(x), 1)

isAsciiDigit(x) ==
  LET isunder == Add(57, Add(Not(x), 1))         \* 0x39 - x
      isupper == Add(x, Add(Not(48), 1))         \* x - 0x30
  IN LNot(Or(Sign(isunder), Sign(isupper)))

conditional(x, y, z) == LET filter == Smeared(LNot(x))
                        IN Add(And(filter, z), And(Not(filter), y))

isLessOrEqual(x, y) ==
  LET xpos == LNot(Sign(x))
      ypos == LNot(Sign(y))
      negx == negate(x)
      sgn  == Sign(Add(y, negx))
      x_intmin  == And(LNot(LNot(x)), LNot(Xor(negx, x)))
      x_onlyneg == And(LNot(xpos), ypos)
      same_sgn  == And(LNot(Xor(xpos, ypos)), LNot(sgn))
  IN Or(Or(x_intmin, x_onlyneg), same_sgn)

logicalNeg(x) ==
  LET posx == Add(And(Not(Sign(x)), x), And(Sign(x), tmin))
  IN And(Sign(Add(-1, posx)), 1)

(* Everything under the highest bit is set, and then the bits are added up *)
(* in fields of 1, 2, 4 ... bits.                                          *)
howManyBits(x) ==
  LET Widths == {2 ^ n : n \in 0 .. WordBits}
      posx   == Add(And(Not(x), Sign(x)), And(x, Not(Sign(x))))
      under[k \in Widths] == LET u == IF k = 1 THEN posx ELSE under[k \div 2]
                             IN Or(u, Shr(u, k))
      sum[k \in Widths] ==
        LET mask == FromBits(LAMBDA i : Bool(i % k < k \div 2))
            p    == sum[k \div 2]
        IN IF k = 1 THEN under[WordBits \div 2]
           ELSE Add(And(p, mask), And(Shr(p, k \div 2), mask))
  IN sum[WordBits] + 1

-----------------------------------------------------------------------------
(* Floats; uf is a natural number, the pattern of bits. *)

SignOf(uf)  == IF uf >= Top THEN Top ELSE 0
ExpOf(uf)   == ((uf % Top) \div ExpOne) * ExpOne
FracOf(uf)  == uf % ExpOne

(* A fraction whose shift reaches the exponent field becomes exponent 1.   *)
(* The branch for an overflow there cannot be taken.                       *)
floatScale2(uf) ==
  LET shifted == 2 * FracOf(uf)
  IN IF ExpOf(uf) = Inf THEN uf
     ELSE IF ExpOf(uf) # 0 THEN SignOf(uf) + ExpOf(uf) + ExpOne + FracOf(uf)
     ELSE SignOf(uf) + ExpOf(shifted) + FracOf(shifted)

(* A shift takes its count modulo the width, as the processor does it; the *)
(* count 23 - exponent is negative above 2^24.                             *)
floatFloat2Int(uf) ==
  LET imax_p1  == (Bias + WordBits - 1) * ExpOne     \* 0x4f000000
      puf      == uf - SignOf(uf)
      exponent == (ExpOf(uf) \div ExpOne) - Bias
      fraction == (FracOf(uf) + ExpOne) \div 2 ^ ((FracBits - exponent) % WordBits)
  IN IF uf > Top + imax_p1 \/ puf >= imax_p1 THEN TMin
     ELSE IF puf < Bias * ExpOne THEN 0
     ELSE IF SignOf(uf) # 0 THEN Wrap(-fraction) ELSE fraction

\* Mutant: the least denormalised power taken for zero.
PowerTooLow(x) == x < 2 - Bias - FracBits

PowerTooSmall(x) == x < 1 - Bias - FracBits

floatPower2(x) ==
  LET exponent == x + Bias
  IN IF x > Bias THEN Inf
     ELSE IF PowerTooSmall(x) THEN 0
     ELSE IF exponent < 0 THEN 2 ^ (FracBits - 1 + exponent)
     ELSE exponent * ExpOne

-----------------------------------------------------------------------------
(* tests.c.  The size of a float is <<m, e>>, m * 2^e with an odd m.       *)

UnitExp == 1 - Bias - FracBits             \* -149, of the least denorm
Odd(m, e) == IF m = 0 THEN <<0, 0>>
             ELSE LET k == CHOOSE k \in 0 .. WordBits : (m \div 2 ^ k) % 2 = 1
                                                       /\ m % 2 ^ k = 0
                  IN <<m \div 2 ^ k, e + k>>
u2f(uf) == LET field == uf \div ExpOne
           IN IF field = 0 THEN Odd(uf, UnitExp)
              ELSE Odd(ExpOne + FracOf(uf), UnitExp + field - 1)

(* Too large a size becomes infinite; the others here need no rounding.    *)
f2u(size) == IF \E p \in 0 .. Inf - 1 : u2f(p) = size
             THEN CHOOSE p \in 0 .. Inf - 1 : u2f(p) = size ELSE Inf

test_howManyBits(x) ==
  LET a == IF x < 0 THEN -x - 1 ELSE x
  IN 1 + CHOOSE n \in 0 .. WordBits : /\ a < 2 ^ n
                                      /\ \A m \in 0 .. n - 1 : a >= 2 ^ m
test_floatScale2(uf) ==
  LET size == u2f(uf % Top)
  IN IF ExpOf(uf) = Inf THEN uf
     ELSE SignOf(uf) + f2u(IF size[1] = 0 THEN size ELSE <<size[1], size[2] + 1>>)

(* A conversion that does not fit gives the least int on this processor.   *)
test_floatFloat2Int(uf) ==
  LET m     == u2f(uf % Top)[1]
      e     == u2f(uf % Top)[2]
      whole == IF e < 0 THEN m \div 2 ^ (-e) ELSE m * 2 ^ Min({e, WordBits})
      n     == IF SignOf(uf) # 0 THEN -whole ELSE whole
  IN IF ExpOf(uf) = Inf \/ n \notin Word THEN TMin ELSE n

test_floatPower2(x) == IF x < UnitExp THEN 0 ELSE f2u(<<1, x>>)
=============================================================================
