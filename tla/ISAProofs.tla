------------------------------ MODULE ISAProofs -----------------------------
(* Lemmas about the instruction set and its words, for any size of a word, *)
(* any registers and any memory; PipeProofs and SeqProofs rest on them.    *)
EXTENDS ISA, FiniteSetTheorems, TLAPS

-----------------------------------------------------------------------------
(* Words                                                                   *)

(* There is no arithmetic of powers in the provers: the number of subsets  *)
(* of a set with n elements shows that 2^n is positive.                    *)
LEMMA PowerPositive ==
  ASSUME NEW n \in Nat
  PROVE  2^n \in Nat \ {0}
<1> DEFINE S == 1..n
<1>1. IsFiniteSet(S) /\ Cardinality(S) = n
  BY FS_Interval
<1> HIDE DEF S
<1>2. IsFiniteSet(SUBSET S) /\ Cardinality(SUBSET S) = 2^n
  BY <1>1, FS_SUBSET
<1>3. SUBSET S # {}
  OBVIOUS
<1>4. Cardinality(SUBSET S) \in Nat /\ Cardinality(SUBSET S) # 0
  BY <1>2, <1>3, FS_CardinalityType, FS_EmptySet
<1> QED
  BY <1>2, <1>4

LEMMA HalfPositive == Half \in Nat \ {0}
<1>1. WordBits - 1 \in Nat
  BY WordBitsAssumption
<1> QED
  BY <1>1, PowerPositive DEF Half

LEMMA WordsInt == Word \subseteq Int /\ 0 \in Word
BY HalfPositive DEF Word, TMin, TMax

(* Wrapping gives a word, and leaves a word as it is.                      *)
LEMMA WrapWord ==
  ASSUME NEW x \in Int
  PROVE  Wrap(x) \in Word
BY HalfPositive DEF Wrap, Word, TMin, TMax

LEMMA WrapSame ==
  ASSUME NEW x \in Word
  PROVE  Wrap(x) = x
BY HalfPositive DEF Wrap, Word, TMin, TMax

(* The sums over the digits of a word.                                     *)
Adds(g, D, S) ==
  g = [s \in SUBSET S |->
         IF s = {} THEN 0 ELSE D[CHOOSE x \in s : TRUE] + g[s \ {CHOOSE x \in s : TRUE}]]

LEMMA Smallest ==
  ASSUME NEW S, IsFiniteSet(S), NEW T \in SUBSET SUBSET S, T # {}
  PROVE  \E U \in T : \A V \in T : V \subseteq U => V = U
<1>1. IsWellFoundedOn(StrictSubsetOrdering(S), FiniteSubsetsOf(S))
  BY FS_StrictSubsetOrderingWellFounded
<1>2. T \subseteq FiniteSubsetsOf(S)
  BY FS_Subset DEF FiniteSubsetsOf
<1>3. PICK U \in T : \A V \in T : <<V, U>> \notin StrictSubsetOrdering(S)
  BY <1>1, <1>2, WFMin
<1> QED
  BY <1>3 DEF StrictSubsetOrdering

LEMMA SumsAgree ==
  ASSUME NEW S, IsFiniteSet(S), NEW D, NEW T \in SUBSET S, NEW U \in SUBSET T,
         NEW g, NEW h, Adds(g, D, T), Adds(h, D, U)
  PROVE  g[U] = h[U]
<1> DEFINE Bad == {s \in SUBSET U : g[s] # h[s]}
<1> SUFFICES ASSUME Bad # {}
             PROVE  FALSE
  OBVIOUS
<1>1. PICK s \in Bad : \A t \in Bad : t \subseteq s => t = s
  <2>1. IsFiniteSet(U) /\ Bad \in SUBSET SUBSET U
    BY FS_Subset
  <2> HIDE DEF Bad
  <2> QED
    BY <2>1, Smallest
<1> DEFINE x == CHOOSE x \in s : TRUE
<1>2. s # {}
  BY <1>1 DEF Adds
<1>3. x \in s
  BY <1>2
<1>4. s \ {x} \in SUBSET U /\ s \ {x} \notin Bad
  BY <1>1, <1>3
<1>5. g[s \ {x}] = h[s \ {x}]
  BY <1>4
<1>6. g[s] = D[x] + g[s \ {x}] /\ h[s] = D[x] + h[s \ {x}]
  BY <1>1, <1>2 DEF Adds
<1> QED
  BY <1>1, <1>5, <1>6

LEMMA SumsExist ==
  ASSUME NEW S, IsFiniteSet(S), NEW D
  PROVE  \E g : Adds(g, D, S)
<1> DEFINE Bad == {t \in SUBSET S : ~\E g : Adds(g, D, t)}
<1> SUFFICES ASSUME Bad # {}
             PROVE  FALSE
  OBVIOUS
<1>1. PICK T \in Bad : \A t \in Bad : t \subseteq T => t = T
  <2>1. Bad \in SUBSET SUBSET S
    OBVIOUS
  <2> HIDE DEF Bad
  <2> QED
    BY <2>1, Smallest
<1> DEFINE F(t) == CHOOSE g : Adds(g, D, t)
<1> DEFINE Rest(s) == s \ {CHOOSE x \in s : TRUE}
<1> DEFINE G == [s \in SUBSET T |->
                   IF s = {} THEN 0 ELSE D[CHOOSE x \in s : TRUE] + F(Rest(s))[Rest(s)]]
<1>2. \A s \in SUBSET T : s # {} => Rest(s) \in SUBSET T /\ Rest(s) # s
  OBVIOUS
<1>3. \A s \in SUBSET T : s # T => Adds(F(s), D, s)
  <2> TAKE s \in SUBSET T
  <2> HAVE s # T
  <2>1. s \notin Bad
    BY <1>1
  <2> QED
    BY <2>1
<1>4. ASSUME NEW s \in SUBSET T, s # T
      PROVE  G[s] = F(s)[s]
  <2>1. Adds(F(s), D, s)
    BY <1>3, <1>4
  <2>2. CASE s = {}
    <3>1. F(s)[s] = 0
      <4> HIDE DEF F
      <4> QED
        BY <2>1, <2>2 DEF Adds
    <3>2. G[s] = 0
      BY <2>2
    <3> QED
      BY <3>1, <3>2
  <2>3. CASE s # {}
    <3>1. F(s)[s] = D[CHOOSE x \in s : TRUE] + F(s)[Rest(s)]
      <4> HIDE DEF F
      <4> QED
        BY <2>1, <2>3 DEF Adds
    <3>2. Adds(F(Rest(s)), D, Rest(s))
      <4>1. Rest(s) # T /\ Rest(s) \in SUBSET T
        BY <1>2, <1>4, <2>3
      <4> HIDE DEF F, Rest
      <4> QED
        BY <4>1, <1>3
    <3>3. F(s)[Rest(s)] = F(Rest(s))[Rest(s)]
      <4>1. Rest(s) \in SUBSET s /\ s \in SUBSET S
        OBVIOUS
      <4> HIDE DEF F, Rest
      <4> QED
        BY <2>1, <3>2, <4>1, SumsAgree
    <3>4. G[s] = D[CHOOSE x \in s : TRUE] + F(Rest(s))[Rest(s)]
      <4> HIDE DEF F, Rest
      <4> QED
        BY <2>3
    <3> QED
      BY <3>1, <3>3, <3>4
  <2> QED
    BY <2>2, <2>3
<1>5. Adds(G, D, T)
  <2>1. \A s \in SUBSET T : s # {} => G[Rest(s)] = F(Rest(s))[Rest(s)]
    <3> TAKE s \in SUBSET T
    <3> HAVE s # {}
    <3>1. Rest(s) \in SUBSET T /\ Rest(s) # T
      BY <1>2
    <3> HIDE DEF F, Rest, G
    <3> QED
      BY <3>1, <1>4
  <2>2. \A s \in SUBSET T :
          G[s] = IF s = {} THEN 0 ELSE D[CHOOSE x \in s : TRUE] + G[Rest(s)]
    <3> TAKE s \in SUBSET T
    <3>1. CASE s = {}
      BY <3>1
    <3>2. CASE s # {}
      <4>1. G[s] = D[CHOOSE x \in s : TRUE] + F(Rest(s))[Rest(s)]
        <5> HIDE DEF F, Rest
        <5> QED
          BY <3>2
      <4> HIDE DEF G, F, Rest
      <4> QED
        BY <2>1, <3>2, <4>1
    <3> QED
      BY <3>1, <3>2
  <2> HIDE DEF F
  <2> QED
    BY <2>2 DEF Adds
<1> QED
  BY <1>1, <1>5

LEMMA SumsInt ==
  ASSUME NEW S, IsFiniteSet(S), NEW D \in [S -> Int]
  PROVE  (CHOOSE g : Adds(g, D, S))[S] \in Int
<1> DEFINE h == CHOOSE g : Adds(g, D, S)
<1>1. Adds(h, D, S)
  BY SumsExist
<1> HIDE DEF h
<1> DEFINE Bad == {s \in SUBSET S : h[s] \notin Int}
<1> SUFFICES ASSUME Bad # {}
             PROVE  FALSE
  BY DEF h
<1>2. PICK s \in Bad : \A t \in Bad : t \subseteq s => t = s
  <2>1. Bad \in SUBSET SUBSET S
    OBVIOUS
  <2> HIDE DEF Bad
  <2> QED
    BY <2>1, Smallest
<1> DEFINE x == CHOOSE x \in s : TRUE
<1>3. s # {}
  BY <1>1, <1>2 DEF Adds
<1>4. x \in s
  BY <1>3
<1>5. h[s \ {x}] \in Int
  BY <1>2, <1>4
<1>6. h[s] = D[x] + h[s \ {x}]
  BY <1>1, <1>2, <1>3 DEF Adds
<1>7. D[x] \in Int
  BY <1>2, <1>4
<1> QED
  BY <1>2, <1>5, <1>6, <1>7
LEMMA BitInt ==
  ASSUME NEW x \in Int, NEW i \in Nat
  PROVE  Bit(x, i) \in {0, 1} /\ 2^i \in Int
BY PowerPositive DEF Bit

(* What the arithmetic unit computes is a word.                            *)
LEMMA AluWord ==
  ASSUME NEW op \in AluOps, NEW a \in Int, NEW b \in Int
  PROVE  ComputeAlu(op, a, b) \in Word
<1> DEFINE S == 0..WordBits - 1
<1>1. a \in Int /\ b \in Int
  OBVIOUS
<1>2. IsFiniteSet(S) /\ S \subseteq Nat
  <2>1. 0 \in Int /\ WordBits - 1 \in Int
    BY WordBitsAssumption
  <2> QED
    BY <2>1, FS_Interval
<1>3. And(a, b) \in Word
  <2> DEFINE D == [i \in S |-> (Bit(a, i) * Bit(b, i)) * 2^i]
  <2>1. D \in [S -> Int]
    BY <1>1, <1>2, BitInt
  <2>2. And(a, b) = Wrap((CHOOSE g : Adds(g, D, S))[S])
    BY DEF And, FromBits, MapThenSumSet, MapThenFoldSet, Adds
  <2> HIDE DEF D, S
  <2> QED
    BY <1>2, <2>1, <2>2, SumsInt, WrapWord
<1>4. Xor(a, b) \in Word
  <2> DEFINE D == [i \in S |-> ((Bit(a, i) + Bit(b, i)) % 2) * 2^i]
  <2>1. D \in [S -> Int]
    BY <1>1, <1>2, BitInt
  <2>2. Xor(a, b) = Wrap((CHOOSE g : Adds(g, D, S))[S])
    BY DEF Xor, FromBits, MapThenSumSet, MapThenFoldSet, Adds
  <2> HIDE DEF D, S
  <2> QED
    BY <1>2, <2>1, <2>2, SumsInt, WrapWord
<1>5. Wrap(a + b) \in Word /\ Wrap(b - a) \in Word
  BY <1>1, WrapWord
<1> QED
  BY <1>3, <1>4, <1>5 DEF ComputeAlu, AluOps
-----------------------------------------------------------------------------
(* States and programs                                                     *)

CCs == [zf : BOOLEAN, sf : BOOLEAN, of : BOOLEAN]
Stats == {"AOK", "ADR", "INS", "HLT"}
\* The states of a machine with the data addresses A.
States(A) == [pc : Word, reg : [Regs -> Word], mem : [A -> Word], cc : CCs, stat : Stats]

\* What the assembler makes of a line: a function code that the instruction has,
\* and a register wherever it takes one, but for the base of an address.
WellFormed(i) ==
  /\ i \in [icode : Icodes, ifun : Conditions \cup AluOps,
            rA : Regs \cup {"none"}, rB : Regs \cup {"none"}, valC : Word]
  /\ IF i.icode = "OPq" THEN i.ifun \in AluOps ELSE i.ifun \in Conditions
  /\ i.icode \in {"rrmovq", "rmmovq", "mrmovq", "OPq", "pushq", "popq"} => i.rA \in Regs
  /\ i.icode \in {"rrmovq", "irmovq", "OPq", "iaddq"} => i.rB \in Regs

\* A program in the memory of the simulator, and the words of its data.
Loadable(code, mem, A) ==
  /\ \A a \in DOMAIN code : Readable(a) /\ WellFormed(code[a])
  /\ mem \in [A -> Word]

LEMMA FetchedWellFormed ==
  ASSUME NEW code, NEW a, \A b \in DOMAIN code : WellFormed(code[b])
  PROVE  WellFormed(InstrAt(code, a)) /\ WellFormed(NoArg("nop"))
BY WordsInt DEF InstrAt, NoArg, Instr, WellFormed, Icodes, Conditions

-----------------------------------------------------------------------------
(* The data path of an instruction i in a state s: what both processors    *)
(* compute, each in its own way.                                           *)

SrcA(i) == CASE i.icode \in {"rrmovq", "rmmovq", "OPq", "pushq"} -> i.rA
             [] i.icode \in {"popq", "ret"}                      -> "rsp"
             [] OTHER                                            -> "none"
SrcB(i) == CASE i.icode \in {"OPq", "iaddq", "rmmovq", "mrmovq"} -> i.rB
             [] i.icode \in {"pushq", "popq", "call", "ret"}     -> "rsp"
             [] OTHER                                            -> "none"
DstE(i) == CASE i.icode \in {"rrmovq", "irmovq", "OPq", "iaddq"} -> i.rB
             [] i.icode \in {"pushq", "popq", "call", "ret"}     -> "rsp"
             [] OTHER                                            -> "none"
DstM(i) == IF i.icode \in {"mrmovq", "popq"} THEN i.rA ELSE "none"

AluA(i, a) == CASE i.icode \in {"rrmovq", "OPq"}                       -> a
                [] i.icode \in {"irmovq", "rmmovq", "mrmovq", "iaddq"} -> i.valC
                [] i.icode \in {"call", "pushq"}                       -> -8
                [] i.icode \in {"ret", "popq"}                         -> 8
                [] OTHER                                               -> 0
AluB(i, b) ==
  IF i.icode \in {"rmmovq", "mrmovq", "OPq", "iaddq", "call", "pushq", "ret", "popq"}
  THEN b ELSE 0
AluFun(i) == IF i.icode = "OPq" THEN i.ifun ELSE "add"
Result(i, a, b) == ComputeAlu(AluFun(i), AluA(i, a), AluB(i, b))
Codes(i, a, b, cc) ==
  IF i.icode \in {"OPq", "iaddq"} THEN ComputeCC(AluFun(i), AluA(i, a), AluB(i, b)) ELSE cc
Taken(i, cc) == i.icode = "OPq" \/ CondHolds(cc, i.ifun)
Dest(i, cc) == IF i.icode = "rrmovq" /\ ~Taken(i, cc) THEN "none" ELSE DstE(i)

Reads(i) == i.icode \in {"mrmovq", "popq", "ret"}
Writes(i) == i.icode \in {"rmmovq", "pushq", "call"}
Place(i, e, a) == CASE i.icode \in {"rmmovq", "pushq", "call", "mrmovq"} -> e
                    [] i.icode \in {"popq", "ret"}                       -> a
                    [] OTHER                                             -> 0
Faults(i, at, mem) == (Reads(i) \/ Writes(i)) /\ at \notin DOMAIN mem
Loaded(i, at, mem) == IF Reads(i) /\ ~Faults(i, at, mem) THEN mem[at] ELSE 0

ValA(s, i) == GetReg(s.reg, SrcA(i))
ValB(s, i) == GetReg(s.reg, SrcB(i))
ValE(s, i) == Result(i, ValA(s, i), ValB(s, i))
At(s, i) == Place(i, ValE(s, i), ValA(s, i))
ValM(s, i) == Loaded(i, At(s, i), s.mem)
Datum(s, i) == IF i.icode = "call" THEN NextPC(s, i) ELSE ValA(s, i)
NewPC(s, i) == CASE i.icode = "call"                    -> i.valC
                 [] i.icode = "jXX" /\ Taken(i, s.cc)   -> i.valC
                 [] i.icode = "ret"                     -> ValM(s, i)
                 [] OTHER                               -> NextPC(s, i)

Fault(s, i) ==
  [pc   |-> s.pc,
   reg  |-> IF i.icode \in {"pushq", "call", "popq"}
            THEN SetReg(s.reg, "rsp", ValE(s, i)) ELSE s.reg,
   mem  |-> s.mem, cc |-> s.cc, stat |-> "ADR"]

Effect(s, i) ==
  [pc   |-> NewPC(s, i),
   reg  |-> SetReg(SetReg(s.reg, Dest(i, s.cc), ValE(s, i)), DstM(i), ValM(s, i)),
   mem  |-> IF Writes(i) THEN [s.mem EXCEPT ![At(s, i)] = Datum(s, i)] ELSE s.mem,
   cc   |-> Codes(i, ValA(s, i), ValB(s, i), s.cc),
   stat |-> s.stat]

LEMMA DatapathTyped ==
  ASSUME NEW A, NEW s \in States(A), NEW i, WellFormed(i)
  PROVE  /\ ValA(s, i) \in Word /\ ValB(s, i) \in Word
         /\ DstE(i) \in Regs \cup {"none"} /\ DstM(i) \in Regs \cup {"none"}
         /\ SrcA(i) \in Regs \cup {"none"} /\ SrcB(i) \in Regs \cup {"none"}
         /\ AluFun(i) \in AluOps
         /\ i.icode \in Icodes /\ i.valC \in Word
<1>1. /\ i.rA \in Regs \cup {"none"} /\ i.rB \in Regs \cup {"none"} /\ i.icode \in Icodes
      /\ i.valC \in Word
  BY DEF WellFormed
<1>2. /\ SrcA(i) \in Regs \cup {"none"} /\ SrcB(i) \in Regs \cup {"none"}
      /\ DstE(i) \in Regs \cup {"none"} /\ DstM(i) \in Regs \cup {"none"}
  BY <1>1, ISAAssumption DEF SrcA, SrcB, DstE, DstM
<1>3. ValA(s, i) \in Word /\ ValB(s, i) \in Word
  BY <1>2, WordsInt DEF ValA, ValB, GetReg, RegValid, States
<1>4. AluFun(i) \in AluOps
  BY DEF AluFun, WellFormed, AluOps
<1> QED
  BY <1>1, <1>2, <1>3, <1>4
LEMMA ResultWord ==
  ASSUME NEW i, WellFormed(i), NEW a \in Word, NEW b \in Word
  PROVE  Result(i, a, b) \in Word
<1>1. AluA(i, a) \in Int /\ AluB(i, b) \in Int
  BY WordsInt DEF AluA, AluB, WellFormed
<1>2. AluFun(i) \in AluOps
  BY DEF AluFun, WellFormed, AluOps
<1> QED
  BY <1>1, <1>2, AluWord DEF Result

(* What the three ways of leaving an instruction make of a state.            *)
LEMMA Shaped ==
  ASSUME NEW p, NEW g, NEW m, NEW c, NEW x, NEW s,
         s = [pc |-> p, reg |-> g, mem |-> m, cc |-> c, stat |-> x], NEW r, NEW v, NEW a
  PROVE  /\ With(s, r, v) = [pc |-> p, reg |-> SetReg(g, r, v), mem |-> m, cc |-> c, stat |-> x]
         /\ Goto(s, a) = [pc |-> a, reg |-> g, mem |-> m, cc |-> c, stat |-> x]
         /\ Stop(s, a) = [pc |-> p, reg |-> g, mem |-> m, cc |-> c, stat |-> a]
<1>1. With(s, r, v) = [pc |-> p, reg |-> SetReg(g, r, v), mem |-> m, cc |-> c, stat |-> x]
  BY DEF With
<1>2. Goto(s, a) = [pc |-> a, reg |-> g, mem |-> m, cc |-> c, stat |-> x]
  BY DEF Goto
<1>3. Stop(s, a) = [pc |-> p, reg |-> g, mem |-> m, cc |-> c, stat |-> a]
  BY DEF Stop
<1> QED
  BY <1>1, <1>2, <1>3

(* step_state does to a state what the data path computes.                 *)
LEMMA Executed ==
  ASSUME NEW A, NEW s \in States(A), NEW i, WellFormed(i), i.icode \notin {"halt", "bad"}
  PROVE  Execute(s, i) = IF Faults(i, At(s, i), s.mem) THEN Fault(s, i) ELSE Effect(s, i)
<1> DEFINE R == IF Faults(i, At(s, i), s.mem) THEN Fault(s, i) ELSE Effect(s, i)
<1>1. /\ s.reg \in [Regs -> Word] /\ s.mem \in [A -> Word] /\ DOMAIN s.mem = A
      /\ s = [pc |-> s.pc, reg |-> s.reg, mem |-> s.mem, cc |-> s.cc, stat |-> s.stat]
  BY DEF States
<1>2. /\ "rsp" \in Regs /\ "none" \notin Regs
      /\ \A r \in Regs : GetReg(s.reg, r) = s.reg[r] /\ s.reg[r] \in Word
      /\ \A v : SetReg(s.reg, "none", v) = s.reg
  BY <1>1, ISAAssumption DEF GetReg, SetReg, RegValid
<1>3. \A v \in Word : Wrap(v + 0) = v
  BY WrapSame, WordsInt
<1>15. s.reg["rsp"] - 8 = -8 + s.reg["rsp"] /\ s.reg["rsp"] + 8 = 8 + s.reg["rsp"]
  <2>1. s.reg["rsp"] \in Int
    BY <1>2, WordsInt
  <2>2. \A x \in Int : x - 8 = -8 + x /\ x + 8 = 8 + x
    OBVIOUS
  <2> QED
    BY <2>1, <2>2
<1>16. [s EXCEPT !.stat = "ADR"]
       = [pc |-> s.pc, reg |-> s.reg, mem |-> s.mem, cc |-> s.cc, stat |-> "ADR"]
  BY <1>1
<1>4. CASE i.icode = "nop"
  BY <1>1, <1>2, <1>4 DEF Execute, Goto, Effect, Faults, Reads, Writes, NewPC, Dest, DstE, DstM,
     SetReg, RegValid, Codes
<1>5. CASE i.icode = "rrmovq"
  <2>1. i.rA \in Regs /\ i.rB \in Regs
    BY <1>5 DEF WellFormed
  <2>2. ValE(s, i) = s.reg[i.rA]
    BY <1>2, <1>3, <1>5, <2>1 DEF ValE, Result, AluFun, AluA, AluB, ComputeAlu, ValA, SrcA
  <2>3. Execute(s, i) = Goto(IF CondHolds(s.cc, i.ifun) THEN With(s, i.rB, s.reg[i.rA]) ELSE s, NextPC(s, i))
    BY <1>2, <1>5, <2>1 DEF Execute, Rrmovq
  <2>4. Effect(s, i) = [pc |-> NextPC(s, i),
                        reg |-> IF CondHolds(s.cc, i.ifun) THEN SetReg(s.reg, i.rB, s.reg[i.rA]) ELSE s.reg,
                        mem |-> s.mem, cc |-> s.cc, stat |-> s.stat]
    BY <1>2, <1>5, <2>1, <2>2 DEF Effect, NewPC, Dest, DstE, DstM, SetReg, RegValid, Codes, Writes, Taken
  <2>5. ~Faults(i, At(s, i), s.mem)
    BY <1>5 DEF Faults, Reads, Writes
  <2> QED
    BY <1>1, <2>3, <2>4, <2>5 DEF Goto, With
<1>6. CASE i.icode = "irmovq"
  <2>1. i.rB \in Regs /\ i.valC \in Word
    BY <1>6 DEF WellFormed
  <2>2. ValE(s, i) = i.valC
    BY <1>3, <1>6, <2>1 DEF ValE, Result, AluFun, AluA, AluB, ComputeAlu
  <2>3. Execute(s, i) = Goto(With(s, i.rB, i.valC), NextPC(s, i))
    BY <1>6 DEF Execute, Irmovq
  <2>4. Effect(s, i) = [pc |-> NextPC(s, i), reg |-> SetReg(s.reg, i.rB, i.valC),
                        mem |-> s.mem, cc |-> s.cc, stat |-> s.stat]
    BY <1>2, <1>6, <2>1, <2>2 DEF Effect, NewPC, Dest, DstE, DstM, SetReg, RegValid, Codes, Writes
  <2>5. ~Faults(i, At(s, i), s.mem)
    BY <1>6 DEF Faults, Reads, Writes
  <2> QED
    BY <1>1, <2>3, <2>4, <2>5 DEF Goto, With
<1>7. CASE i.icode = "rmmovq"
  <2>1. i.rA \in Regs /\ i.valC \in Word
    BY <1>7 DEF WellFormed
  <2>2. ValE(s, i) = Address(s, i) /\ At(s, i) = Address(s, i)
    BY <1>2, <1>7, <2>1 DEF ValE, Result, AluFun, AluA, AluB, ComputeAlu, ValB, SrcB, Address, At, Place
  <2>3. Datum(s, i) = s.reg[i.rA]
    BY <1>2, <1>7, <2>1 DEF Datum, ValA, SrcA
  <2>4. Execute(s, i) = Store(s, Address(s, i), s.reg[i.rA], NextPC(s, i))
    BY <1>2, <1>7, <2>1 DEF Execute, Rmmovq
  <2>5. Effect(s, i) = [pc |-> NextPC(s, i), reg |-> s.reg,
                        mem |-> [s.mem EXCEPT ![Address(s, i)] = s.reg[i.rA]], cc |-> s.cc, stat |-> s.stat]
    BY <1>2, <1>7, <2>1, <2>2, <2>3 DEF Effect, NewPC, Dest, DstE, DstM, SetReg, RegValid, Codes, Writes
  <2>6. Fault(s, i) = [s EXCEPT !.stat = "ADR"]
    BY <1>16, <1>7 DEF Fault
  <2>7. Faults(i, At(s, i), s.mem) <=> Address(s, i) \notin DOMAIN s.mem
    BY <1>7, <2>2 DEF Faults, Writes
  <2> QED
    BY <1>1, <2>4, <2>5, <2>6, <2>7 DEF Store, Stop, Goto
<1>8. CASE i.icode = "mrmovq"
  <2>1. i.rA \in Regs /\ i.valC \in Word
    BY <1>8 DEF WellFormed
  <2>2. ValE(s, i) = Address(s, i) /\ At(s, i) = Address(s, i)
    BY <1>2, <1>8, <2>1 DEF ValE, Result, AluFun, AluA, AluB, ComputeAlu, ValB, SrcB, Address, At, Place
  <2>3. Execute(s, i) = IF Address(s, i) \in DOMAIN s.mem
                        THEN Goto(With(s, i.rA, s.mem[Address(s, i)]), NextPC(s, i))
                        ELSE Stop(s, "ADR")
    BY <1>8 DEF Execute, Mrmovq
  <2>4. Faults(i, At(s, i), s.mem) <=> Address(s, i) \notin DOMAIN s.mem
    BY <1>8, <2>2 DEF Faults, Reads
  <2>5. Address(s, i) \in DOMAIN s.mem => ValM(s, i) = s.mem[Address(s, i)]
    BY <1>8, <2>2, <2>4 DEF ValM, Loaded, Reads
  <2>6. Effect(s, i) = [pc |-> NextPC(s, i), reg |-> SetReg(s.reg, i.rA, ValM(s, i)),
                        mem |-> s.mem, cc |-> s.cc, stat |-> s.stat]
    BY <1>2, <1>8, <2>1 DEF Effect, NewPC, Dest, DstE, DstM, SetReg, RegValid, Codes, Writes
  <2>7. Fault(s, i) = Stop(s, "ADR")
    BY <1>16, <1>8 DEF Fault, Stop
  <2>8. ASSUME NEW v PROVE Goto(With(s, i.rA, v), NextPC(s, i))
           = [pc |-> NextPC(s, i), reg |-> SetReg(s.reg, i.rA, v), mem |-> s.mem, cc |-> s.cc, stat |-> s.stat]
    BY <1>1, Shaped
  <2>9. CASE Address(s, i) \in DOMAIN s.mem
    <3>1. Effect(s, i) = Goto(With(s, i.rA, s.mem[Address(s, i)]), NextPC(s, i))
      BY <2>5, <2>6, <2>8, <2>9
    <3> QED
      BY <2>3, <2>4, <2>9, <3>1
  <2>10. CASE Address(s, i) \notin DOMAIN s.mem
    BY <2>3, <2>4, <2>7, <2>10
  <2> QED
    BY <2>9, <2>10
<1>9. CASE i.icode \in {"OPq", "iaddq"}
  <2>1. i.rB \in Regs /\ (i.icode = "OPq" => i.rA \in Regs)
    BY <1>9 DEF WellFormed
  <2>2. /\ AluA(i, ValA(s, i)) = IF i.icode = "OPq" THEN GetReg(s.reg, i.rA) ELSE i.valC
        /\ AluB(i, ValB(s, i)) = GetReg(s.reg, i.rB)
    BY <1>9 DEF AluA, AluB, ValA, ValB, SrcA, SrcB
  <2>3. Execute(s, i) = Alu(s, i, AluFun(i), AluA(i, ValA(s, i)))
    BY <1>9, <2>2 DEF Execute, OPq, Iaddq, AluFun
  <2>4. Effect(s, i) = [pc |-> NextPC(s, i), reg |-> SetReg(s.reg, i.rB, ValE(s, i)), mem |-> s.mem,
                        cc |-> ComputeCC(AluFun(i), AluA(i, ValA(s, i)), AluB(i, ValB(s, i))),
                        stat |-> s.stat]
    BY <1>2, <1>9, <2>1 DEF Effect, NewPC, Dest, DstE, DstM, SetReg, RegValid, Codes, Writes
  <2>5. ~Faults(i, At(s, i), s.mem)
    BY <1>9 DEF Faults, Reads, Writes
  <2>6. ValE(s, i) = ComputeAlu(AluFun(i), AluA(i, ValA(s, i)), GetReg(s.reg, i.rB))
    BY <2>2 DEF ValE, Result
  <2> QED
    BY <1>1, <2>2, <2>3, <2>4, <2>5, <2>6 DEF Alu, Goto, With
<1>10. CASE i.icode = "jXX"
  <2>1. Execute(s, i) = Goto(s, IF CondHolds(s.cc, i.ifun) THEN i.valC ELSE NextPC(s, i))
    BY <1>10 DEF Execute, JXX
  <2>2. Effect(s, i) = [pc |-> IF CondHolds(s.cc, i.ifun) THEN i.valC ELSE NextPC(s, i), reg |-> s.reg,
                        mem |-> s.mem, cc |-> s.cc, stat |-> s.stat]
    BY <1>2, <1>10 DEF Effect, NewPC, Dest, DstE, DstM, SetReg, RegValid, Codes, Writes, Taken
  <2>3. ~Faults(i, At(s, i), s.mem)
    BY <1>10 DEF Faults, Reads, Writes
  <2> QED
    BY <1>1, <2>1, <2>2, <2>3 DEF Goto
<1>11. CASE i.icode \in {"call", "pushq"}
  <2> DEFINE rsp == Wrap(s.reg["rsp"] - 8)
             v == IF i.icode = "call" THEN NextPC(s, i) ELSE s.reg[i.rA]
             next == IF i.icode = "call" THEN i.valC ELSE NextPC(s, i)
  <2>1. i.icode = "pushq" => i.rA \in Regs
    BY DEF WellFormed
  <2>2. s.reg["rsp"] - 8 = -8 + s.reg["rsp"]
    BY <1>15
  <2>3. ValE(s, i) = rsp /\ At(s, i) = rsp
    BY <1>2, <1>11, <2>2 DEF ValE, Result, AluFun, AluA, AluB, ComputeAlu, ValB, SrcB, At, Place
  <2>4. Datum(s, i) = v
    BY <1>2, <1>11, <2>1 DEF Datum, ValA, SrcA
  <2>5. Execute(s, i) = Store(With(s, "rsp", rsp), rsp, v, next)
    BY <1>11 DEF Execute, Call, Pushq, Push
  <2>6. With(s, "rsp", rsp) = [pc |-> s.pc, reg |-> SetReg(s.reg, "rsp", rsp), mem |-> s.mem,
                               cc |-> s.cc, stat |-> s.stat]
    BY <1>1 DEF With
  <2>7. Effect(s, i) = [pc |-> next, reg |-> SetReg(s.reg, "rsp", rsp),
                        mem |-> [s.mem EXCEPT ![rsp] = v], cc |-> s.cc, stat |-> s.stat]
    BY <1>2, <1>11, <2>3, <2>4 DEF Effect, NewPC, Dest, DstE, DstM, SetReg, RegValid, Codes, Writes
  <2>8. Fault(s, i) = [pc |-> s.pc, reg |-> SetReg(s.reg, "rsp", rsp), mem |-> s.mem,
                       cc |-> s.cc, stat |-> "ADR"]
    BY <1>11, <2>3 DEF Fault
  <2>9. Faults(i, At(s, i), s.mem) <=> rsp \notin DOMAIN s.mem
    BY <1>11, <2>3 DEF Faults, Writes
  <2> HIDE DEF rsp, v, next
  <2>10. ASSUME NEW t, t = With(s, "rsp", rsp)
         PROVE  Store(t, rsp, v, next) = IF rsp \in DOMAIN s.mem THEN Effect(s, i) ELSE Fault(s, i)
    <3>1. t = [pc |-> s.pc, reg |-> SetReg(s.reg, "rsp", rsp), mem |-> s.mem,
               cc |-> s.cc, stat |-> s.stat]
      BY <2>6, <2>10
    <3>2. t.mem = s.mem
      BY <3>1
    <3>3. [t EXCEPT !.mem[rsp] = v] = [pc |-> s.pc, reg |-> SetReg(s.reg, "rsp", rsp),
             mem |-> [s.mem EXCEPT ![rsp] = v], cc |-> s.cc, stat |-> s.stat]
      BY <3>1
    <3>4. Goto([t EXCEPT !.mem[rsp] = v], next) = Effect(s, i)
      <4> DEFINE u == [t EXCEPT !.mem[rsp] = v]
      <4>1. u = [pc |-> s.pc, reg |-> SetReg(s.reg, "rsp", rsp),
                 mem |-> [s.mem EXCEPT ![rsp] = v], cc |-> s.cc, stat |-> s.stat]
        BY <3>3
      <4> HIDE DEF u
      <4>2. Goto(u, next) = Effect(s, i)
        BY <2>7, <4>1 DEF Goto
      <4> QED
        BY <4>2 DEF u
    <3>5. Stop(t, "ADR") = Fault(s, i)
      BY <2>8, <3>1 DEF Stop
    <3> QED
      BY <3>2, <3>4, <3>5 DEF Store
  <2> QED
    BY <2>5, <2>9, <2>10
<1>12. CASE i.icode = "ret"
  <2> DEFINE rsp == s.reg["rsp"]
  <2>1. Wrap(rsp + 8) = Wrap(8 + rsp)
    BY <1>15
  <2>2. ValE(s, i) = Wrap(rsp + 8) /\ At(s, i) = rsp
    BY <1>2, <1>12, <2>1 DEF ValE, Result, AluFun, AluA, AluB, ComputeAlu, ValA, ValB, SrcA, SrcB, At, Place
  <2>3. Execute(s, i) = IF rsp \in DOMAIN s.mem
                        THEN Goto(With(s, "rsp", Wrap(rsp + 8)), s.mem[rsp]) ELSE Stop(s, "ADR")
    BY <1>12 DEF Execute, Ret
  <2>4. Faults(i, At(s, i), s.mem) <=> rsp \notin DOMAIN s.mem
    BY <1>12, <2>2 DEF Faults, Reads
  <2>5. rsp \in DOMAIN s.mem => ValM(s, i) = s.mem[rsp]
    BY <1>12, <2>2, <2>4 DEF ValM, Loaded, Reads
  <2>6. Effect(s, i) = [pc |-> ValM(s, i), reg |-> SetReg(s.reg, "rsp", Wrap(rsp + 8)),
                        mem |-> s.mem, cc |-> s.cc, stat |-> s.stat]
    BY <1>2, <1>12, <2>2 DEF Effect, NewPC, Dest, DstE, DstM, SetReg, RegValid, Codes, Writes
  <2>7. Fault(s, i) = Stop(s, "ADR")
    BY <1>16, <1>12 DEF Fault, Stop
  <2> HIDE DEF rsp
  <2>8. ASSUME NEW a PROVE Goto(With(s, "rsp", Wrap(rsp + 8)), a)
           = [pc |-> a, reg |-> SetReg(s.reg, "rsp", Wrap(rsp + 8)), mem |-> s.mem, cc |-> s.cc, stat |-> s.stat]
    BY <1>1, Shaped
  <2>9. CASE rsp \in DOMAIN s.mem
    <3>1. Effect(s, i) = Goto(With(s, "rsp", Wrap(rsp + 8)), s.mem[rsp])
      BY <2>5, <2>6, <2>8, <2>9
    <3> QED
      BY <2>3, <2>4, <2>9, <3>1
  <2>10. CASE rsp \notin DOMAIN s.mem
    BY <2>3, <2>4, <2>7, <2>10
  <2> QED
    BY <2>9, <2>10
<1>13. CASE i.icode = "popq"
  <2> DEFINE rsp == s.reg["rsp"]
  <2>1. i.rA \in Regs /\ Wrap(rsp + 8) = Wrap(8 + rsp)
    BY <1>13, <1>15 DEF WellFormed
  <2>2. ValE(s, i) = Wrap(rsp + 8) /\ At(s, i) = rsp
    BY <1>2, <1>13, <2>1 DEF ValE, Result, AluFun, AluA, AluB, ComputeAlu, ValA, ValB, SrcA, SrcB, At, Place
  <2>3. Execute(s, i) = IF rsp \in DOMAIN s.mem
                        THEN Goto(With(With(s, "rsp", Wrap(rsp + 8)), i.rA, s.mem[rsp]), NextPC(s, i))
                        ELSE Stop(With(s, "rsp", Wrap(rsp + 8)), "ADR")
    BY <1>13 DEF Execute, Popq
  <2>4. Faults(i, At(s, i), s.mem) <=> rsp \notin DOMAIN s.mem
    BY <1>13, <2>2 DEF Faults, Reads
  <2>5. rsp \in DOMAIN s.mem => ValM(s, i) = s.mem[rsp]
    BY <1>13, <2>2, <2>4 DEF ValM, Loaded, Reads
  <2>6. Effect(s, i) = [pc |-> NextPC(s, i),
                        reg |-> SetReg(SetReg(s.reg, "rsp", Wrap(rsp + 8)), i.rA, ValM(s, i)),
                        mem |-> s.mem, cc |-> s.cc, stat |-> s.stat]
    BY <1>13, <2>2 DEF Effect, NewPC, Dest, DstE, DstM, Codes, Writes
  <2>7. Fault(s, i) = [pc |-> s.pc, reg |-> SetReg(s.reg, "rsp", Wrap(rsp + 8)), mem |-> s.mem,
                       cc |-> s.cc, stat |-> "ADR"]
    BY <1>13, <2>2 DEF Fault
  <2>8. With(s, "rsp", Wrap(rsp + 8)) = [pc |-> s.pc, reg |-> SetReg(s.reg, "rsp", Wrap(rsp + 8)),
                                         mem |-> s.mem, cc |-> s.cc, stat |-> s.stat]
    BY <1>1, Shaped
  <2> HIDE DEF rsp
  <2>9. ASSUME NEW v PROVE Goto(With(With(s, "rsp", Wrap(rsp + 8)), i.rA, v), NextPC(s, i))
           = [pc |-> NextPC(s, i), reg |-> SetReg(SetReg(s.reg, "rsp", Wrap(rsp + 8)), i.rA, v),
              mem |-> s.mem, cc |-> s.cc, stat |-> s.stat]
    BY <2>8, Shaped
  <2>10. CASE rsp \in DOMAIN s.mem
    <3>1. Effect(s, i) = Goto(With(With(s, "rsp", Wrap(rsp + 8)), i.rA, s.mem[rsp]), NextPC(s, i))
      BY <2>5, <2>6, <2>9, <2>10
    <3> QED
      BY <2>3, <2>4, <2>10, <3>1
  <2>11. CASE rsp \notin DOMAIN s.mem
    <3>1. Fault(s, i) = Stop(With(s, "rsp", Wrap(rsp + 8)), "ADR")
      BY <2>7, <2>8, Shaped
    <3> QED
      BY <2>3, <2>4, <2>11, <3>1
  <2> QED
    BY <2>10, <2>11
<1>14. i.icode \in Icodes
  BY DEF WellFormed
<1> QED
  BY <1>4, <1>5, <1>6, <1>7, <1>8, <1>9, <1>10, <1>11, <1>12, <1>13, <1>14 DEF Icodes
-----------------------------------------------------------------------------
(* One step of the instruction set.                                        *)

LEMMA SizeNat == \A icode : Size(icode) \in Nat
BY DEF Size, NeedRegids, NeedImm

LEMMA Stepped ==
  ASSUME NEW A, NEW s \in States(A), NEW code, NEW i, i = InstrAt(code, s.pc), WellFormed(i)
  PROVE  StepState(code, s) =
           IF ~Readable(s.pc) THEN Stop(s, "ADR")
           ELSE IF i.icode = "halt" THEN Stop(s, "HLT")
           ELSE IF i.icode = "bad" THEN Stop(s, "INS")
           ELSE IF Faults(i, At(s, i), s.mem) THEN Fault(s, i)
           ELSE Effect(s, i)
<1>1. StepState(code, s) = IF ~Readable(s.pc) THEN Stop(s, "ADR")
                           ELSE IF BadRegister(i) THEN Stop(s, "INS") ELSE Execute(s, i)
  BY DEF StepState
<1>2. ~BadRegister(i)
  BY DEF BadRegister, WellFormed, RegValid
<1>3. CASE i.icode = "halt"
  BY <1>1, <1>2, <1>3 DEF Execute
<1>4. CASE i.icode = "bad"
  BY <1>1, <1>2, <1>4 DEF Execute
<1>5. CASE i.icode \notin {"halt", "bad"}
  BY <1>1, <1>2, <1>5, Executed
<1> QED
  BY <1>3, <1>4, <1>5

LEMMA CodesTyped ==
  ASSUME NEW op \in AluOps, NEW a \in Int, NEW b \in Int
  PROVE  ComputeCC(op, a, b) \in CCs
<1> DEFINE v == ComputeAlu(op, a, b)
<1>1. v \in Int
  BY AluWord, WordsInt
<1> HIDE DEF v
<1>2. (v = 0) \in BOOLEAN /\ (v < 0) \in BOOLEAN
  BY <1>1
<1>3. (CASE op = "add" -> (a < 0) = (b < 0) /\ (v < 0) # (a < 0)
         [] op = "sub" -> (a > 0) = (b < 0) /\ (v < 0) # (b < 0)
         [] OTHER -> FALSE) \in BOOLEAN
  OBVIOUS
<1> QED
  BY <1>2, <1>3 DEF ComputeCC, CCs, v

LEMMA EffectTyped ==
  ASSUME NEW A, NEW s \in States(A), NEW i, WellFormed(i),
         ~Faults(i, At(s, i), s.mem)
  PROVE  /\ Effect(s, i) \in States(A) /\ ValE(s, i) \in Word /\ ValM(s, i) \in Word
         /\ NewPC(s, i) \in Word /\ NextPC(s, i) \in Word /\ Datum(s, i) \in Word
<1>1. /\ s.pc \in Word /\ s.reg \in [Regs -> Word] /\ s.mem \in [A -> Word]
      /\ DOMAIN s.mem = A /\ s.cc \in CCs /\ s.stat \in Stats
  BY DEF States
<1>2. ValA(s, i) \in Word /\ ValB(s, i) \in Word /\ i.valC \in Word
  BY DatapathTyped
<1>3. ValE(s, i) \in Word
  BY <1>2, ResultWord DEF ValE
<1>4. ValM(s, i) \in Word
  BY <1>1, WordsInt DEF ValM, Loaded, Faults
<1>5. NextPC(s, i) \in Word
  <2>1. s.pc + Size(i.icode) \in Int
    BY <1>1, WordsInt, SizeNat
  <2> QED
    BY <2>1, WrapWord DEF NextPC
<1>6. NewPC(s, i) \in Word /\ Datum(s, i) \in Word
  BY <1>2, <1>4, <1>5 DEF NewPC, Datum
<1>7. \A g \in [Regs -> Word], v \in Word : \A r : SetReg(g, r, v) \in [Regs -> Word]
  BY DEF SetReg
<1>8. Codes(i, ValA(s, i), ValB(s, i), s.cc) \in CCs
  <2>1. CASE i.icode \in {"OPq", "iaddq"}
    <3>1. AluA(i, ValA(s, i)) \in Int /\ AluB(i, ValB(s, i)) \in Int
      BY <1>2, WordsInt DEF AluA, AluB
    <3>2. AluFun(i) \in AluOps
      BY DEF AluFun, WellFormed, AluOps
    <3> QED
      BY <2>1, <3>1, <3>2, CodesTyped DEF Codes
  <2> QED
    BY <1>1, <2>1 DEF Codes
<1>9. Effect(s, i).reg \in [Regs -> Word]
  <2>1. SetReg(s.reg, Dest(i, s.cc), ValE(s, i)) \in [Regs -> Word]
    BY <1>1, <1>3, <1>7
  <2>2. SetReg(SetReg(s.reg, Dest(i, s.cc), ValE(s, i)), DstM(i), ValM(s, i)) \in [Regs -> Word]
    BY <1>4, <1>7, <2>1
  <2> QED
    BY <2>2 DEF Effect
<1>10. Effect(s, i).mem \in [A -> Word]
  BY <1>1, <1>6 DEF Effect
<1>11. Effect(s, i).pc \in Word /\ Effect(s, i).cc \in CCs /\ Effect(s, i).stat \in Stats
  BY <1>1, <1>6, <1>8 DEF Effect
<1>12. Effect(s, i) = [pc |-> Effect(s, i).pc, reg |-> Effect(s, i).reg, mem |-> Effect(s, i).mem,
                       cc |-> Effect(s, i).cc, stat |-> Effect(s, i).stat]
  BY DEF Effect
<1>13. Effect(s, i) \in States(A)
  <2> DEFINE e == Effect(s, i)
  <2> HIDE DEF e
  <2>1. e = [pc |-> e.pc, reg |-> e.reg, mem |-> e.mem, cc |-> e.cc, stat |-> e.stat]
    BY <1>12 DEF e
  <2>2. e.pc \in Word /\ e.reg \in [Regs -> Word] /\ e.mem \in [A -> Word] /\ e.cc \in CCs /\ e.stat \in Stats
    BY <1>9, <1>10, <1>11 DEF e
  <2>3. e \in States(A)
    BY <2>1, <2>2 DEF States
  <2> QED
    BY <2>3 DEF e
<1> QED
  BY <1>3, <1>4, <1>5, <1>6, <1>13
(* step_state takes every machine state to a machine state: words in the   *)
(* registers, the memory and the program counter, flags in the condition   *)
(* codes, whatever instruction is executed, also one that fails.           *)
THEOREM StepTyped ==
  ASSUME NEW A, NEW s \in States(A), NEW code, \A a \in DOMAIN code : WellFormed(code[a])
  PROVE  StepState(code, s) \in States(A)
<1>1. PICK i : i = InstrAt(code, s.pc)
  OBVIOUS
<1>2. WellFormed(i)
  BY <1>1, FetchedWellFormed
<1>3. \A why \in Stats : Stop(s, why) \in States(A)
  BY DEF Stop, States
<1>4. Fault(s, i) \in States(A)
  <2>1. ValE(s, i) \in Word
    BY <1>2, DatapathTyped, ResultWord DEF ValE
  <2>2. s.reg \in [Regs -> Word]
    BY DEF States
  <2>3. SetReg(s.reg, "rsp", ValE(s, i)) \in [Regs -> Word]
    BY <2>1, <2>2 DEF SetReg
  <2> DEFINE g == IF i.icode \in {"pushq", "call", "popq"} THEN SetReg(s.reg, "rsp", ValE(s, i)) ELSE s.reg
  <2>4. g \in [Regs -> Word]
    BY <2>2, <2>3
  <2>5. Fault(s, i) = [pc |-> s.pc, reg |-> g, mem |-> s.mem, cc |-> s.cc, stat |-> "ADR"]
    BY DEF Fault
  <2> HIDE DEF g
  <2> QED
    BY <2>4, <2>5 DEF States, Stats
<1>5. CASE Faults(i, At(s, i), s.mem)
  BY <1>1, <1>2, <1>3, <1>4, <1>5, Stepped DEF Stats
<1>6. CASE ~Faults(i, At(s, i), s.mem)
  BY <1>1, <1>2, <1>3, <1>6, EffectTyped, Stepped DEF Stats
<1> QED
  BY <1>5, <1>6
=============================================================================
