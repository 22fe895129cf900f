------------------------------- MODULE Btest -------------------------------
(* The test harness of the data lab (btest.c, and the table of decl.c):    *)
(* puzzle after puzzle, on the values that gen_vals makes up, until one    *)
(* answer differs from the one of tests.c.  Floats are asked for by the    *)
(* range {1, 1}.  The values of a list are tried in rising order, the time *)
(* limit is not reached, and rand() draws the numbers of Draws.            *)
EXTENDS Puzzles, Sequences

CONSTANTS TestRange,      \* TEST_RANGE, 500000
          MaxTestVals,    \* MAX_TEST_VALS
          Draws           \* what random_val returns in a run, words

VARIABLES test,       \* number of the puzzle in test_set
          arg,        \* the first argument that is tried next, or Done
          failed      \* the puzzles that got no points

btestVars == <<test, arg, failed>>

IntTest(name, args)  == [name |-> name, args |-> args, float |-> FALSE]
FloatTest(name)      == [name |-> name, args |-> 1, float |-> TRUE]
test_set ==
  <<IntTest("bitXor", 2), IntTest("tmin", 0), IntTest("isTmax", 1), IntTest("allOddBits", 1),
    IntTest("negate", 1), IntTest("isAsciiDigit", 1), IntTest("conditional", 3),
    IntTest("isLessOrEqual", 2), IntTest("logicalNeg", 1), IntTest("howManyBits", 1),
    FloatTest("floatScale2"), FloatTest("floatFloat2Int"), FloatTest("floatPower2")>>

Solution(name, x, y, z) ==
  CASE name = "bitXor"        -> bitXor(x, y)
    [] name = "tmin"          -> tmin
    [] name = "isTmax"        -> isTmax(x)
    [] name = "allOddBits"    -> allOddBits(x)
    [] name = "negate"        -> negate(x)
    [] name = "isAsciiDigit"  -> isAsciiDigit(x)
    [] name = "conditional"   -> conditional(x, y, z)
    [] name = "isLessOrEqual" -> isLessOrEqual(x, y)
    [] name = "logicalNeg"    -> logicalNeg(x)
    [] name = "howManyBits"   -> howManyBits(x)
    [] name = "floatScale2"    -> floatScale2(Unsigned(x))
    [] name = "floatFloat2Int" -> floatFloat2Int(Unsigned(x))
    [] name = "floatPower2"    -> floatPower2(x)

Expected(name, x, y, z) ==
  CASE name = "bitXor"        -> Xor(x, y)
    [] name = "tmin"          -> TMin
    [] name = "isTmax"        -> Bool(x = TMax)
    [] name = "allOddBits"    -> Bool(\A i \in 0 .. WordBits - 1 :
                                        i % 2 = 1 => Bit(x, i) = 1)
    [] name = "negate"        -> Wrap(-x)
    [] name = "isAsciiDigit"  -> Bool(48 <= x /\ x <= 57)
    [] name = "conditional"   -> IF x # 0 THEN y ELSE z
    [] name = "isLessOrEqual" -> Bool(x <= y)
    [] name = "logicalNeg"    -> LNot(x)
    [] name = "howManyBits"   -> test_howManyBits(x)
    [] name = "floatScale2"    -> test_floatScale2(Unsigned(x))
    [] name = "floatFloat2Int" -> test_floatFloat2Int(Unsigned(x))
    [] name = "floatPower2"    -> test_floatPower2(x)

(* The range for one argument of args: the root, at least 1. *)
ArgRange(args) == CHOOSE r \in 1 .. TestRange :
                    r ^ Max({args, 1}) <= TestRange /\ (r + 1) ^ Max({args, 1}) > TestRange

(* gen_vals for floats: around zero, where the normalised ones begin, and  *)
(* one, below the largest power of two, and the infinities and NaNs; each  *)
(* with both signs.                                                        *)
FloatVals ==
  LET is    == 0 .. Min({TestRange, ExpOne}) - 1
      near  == UNION {{i, ExpOne + i, ExpOne - i, Bias * ExpOne + i,
                       Bias * ExpOne - i, Inf - ExpOne - i} : i \in is}
      plain == near \cup {Inf, Inf + ExpOne \div 2}
  IN {Wrap(p) : p \in plain} \cup {Wrap(Top + p) : p \in plain}

gen_vals(t, range) ==
  IF t.float THEN FloatVals
  ELSE IF TMax - MaxTestVals <= TMin THEN Word
  ELSE LET is == 0 .. range - 1
       IN ({TMin + i : i \in is} \cup {TMax - i : i \in is}
           \cup is \cup {-i : i \in is} \cup Draws) \cap Word

Vals(n, k) ==
  LET t == test_set[n]
  IN IF k > t.args THEN {0} ELSE gen_vals(t, ArgRange(t.args))

Done == TMax + 1
After(n, x) == Min({v \in Vals(n, 1) : v > x} \cup {Done})

(* test_0_arg ... test_3_arg under one first argument. *)
Differs(n, x) ==
  \E y \in Vals(n, 2), z \in Vals(n, 3) :
    Solution(test_set[n].name, x, y, z) # Expected(test_set[n].name, x, y, z)

(* The loops of test_function, which stop at the first error. *)
TestValue ==
  /\ test <= Len(test_set)
  /\ arg # Done
  /\ IF Differs(test, arg) THEN arg' = Done /\ failed' = failed \cup {test}
     ELSE arg' = After(test, arg) /\ UNCHANGED failed
  /\ UNCHANGED test

(* The loop of run_tests. *)
NextTest ==
  /\ test <= Len(test_set)
  /\ arg = Done
  /\ test' = test + 1
  /\ arg' = IF test' <= Len(test_set) THEN After(test', TMin - 1) ELSE Done
  /\ UNCHANGED failed

BtestInit == test = 1 /\ arg = After(1, TMin - 1) /\ failed = {}
BtestNext == TestValue \/ NextTest

-----------------------------------------------------------------------------
(* Every puzzle gets its points: no value that the harness tries tells a   *)
(* solution and its reference apart, whichever way the intermediate sums   *)
(* and shifts of the solution wrap around.                                 *)
AllPointsScored == failed = {}

(* The float puzzles on every pattern, tried or not: where they differ     *)
(* from their references (a value doubled past the largest finite one,     *)
(* which becomes a NaN; a float of 2^24 or more, whose shift count is      *)
(* negative; the power one below the least normalised one) is where btest  *)
(* never looks, and they are right on all other patterns.                  *)
Overflowing(uf)  == ExpOf(uf) = Inf - ExpOne /\ FracOf(uf) # 0
Whole(uf)        == uf % Top >= (Bias + FracBits + 1) * ExpOne
LargestDenorm(x) == x = -Bias
FloatsElsewhere ==
  test \in {n \in DOMAIN test_set : test_set[n].float} =>
    LET name   == test_set[test].name
        wrong  == {x \in Word : Solution(name, x, 0, 0) # Expected(name, x, 0, 0)}
        gap(x) == CASE name = "floatScale2"    -> Overflowing(Unsigned(x))
                    [] name = "floatFloat2Int" -> Whole(Unsigned(x))
                    [] name = "floatPower2"    -> LargestDenorm(x)
    IN /\ wrong # {} /\ \A x \in wrong : gap(x)
       /\ wrong \cap Vals(test, 1) = {}
=============================================================================
