-------------------------------- MODULE ISA --------------------------------
(***************************************************************************)
(* The Y86-64 instruction set (04-architecture/sim/misc/isa.c): the        *)
(* function step_state, which the two processor simulators are tested      *)
(* against with -t, and the functions it shares with them.                 *)
(*                                                                         *)
(* Abstractions.  Code and data are kept apart: code maps the address of   *)
(* an instruction to its record, mem maps the address of a data word to    *)
(* its value; a program neither writes its code nor reads it as data, and  *)
(* an address between the two holds the zero byte, which is halt.  A whole *)
(* instruction is readable when its first byte is.  The registers are      *)
(* those of Regs.                                                          *)
(***************************************************************************)
EXTENDS Words

CONSTANTS
  Regs,       \* the registers a program uses, "rsp" among them
  MemLen      \* bytes of memory

ASSUME ISAAssumption == "rsp" \in Regs /\ "none" \notin Regs /\ MemLen \in Nat

Icodes == {"halt", "nop", "rrmovq", "irmovq", "rmmovq", "mrmovq", "OPq", "jXX",
           "call", "ret", "pushq", "popq", "iaddq", "bad"}
Conditions == {"yes", "le", "l", "e", "ne", "ge", "g"}
AluOps == {"add", "sub", "and", "xor"}

\* F_NONE, the function code of the other instructions, is the number of C_YES.
Instr(icode, ifun, rA, rB, c) ==
  [icode |-> icode, ifun |-> ifun, rA |-> rA, rB |-> rB, valC |-> c]
NoArg(icode) == Instr(icode, "yes", "none", "none", 0)

NeedRegids(icode) ==
  icode \in {"rrmovq", "OPq", "pushq", "popq", "irmovq", "rmmovq", "mrmovq", "iaddq"}
NeedImm(icode) == icode \in {"irmovq", "rmmovq", "mrmovq", "jXX", "call", "iaddq"}
Size(icode) == 1 + (IF NeedRegids(icode) THEN 1 ELSE 0) + (IF NeedImm(icode) THEN 8 ELSE 0)

Readable(a) == a \in 0 .. MemLen - 1
InstrAt(code, a) == IF a \in DOMAIN code THEN code[a] ELSE NoArg("halt")

RegValid(r) == r \in Regs
GetReg(regs, r) == IF RegValid(r) THEN regs[r] ELSE 0
SetReg(regs, r, v) == IF RegValid(r) THEN [regs EXCEPT ![r] = v] ELSE regs

DefaultCC == [zf |-> TRUE, sf |-> FALSE, of |-> FALSE]

ComputeAlu(op, argA, argB) ==
  CASE op = "add" -> Wrap(argA + argB)
    [] op = "sub" -> Wrap(argB - argA)
    [] op = "and" -> And(argA, argB)
    [] op = "xor" -> Xor(argA, argB)

ComputeCC(op, argA, argB) ==
  LET val == ComputeAlu(op, argA, argB)
  IN  [zf |-> val = 0, sf |-> val < 0,
       of |-> CASE op = "add" -> (argA < 0) = (argB < 0) /\ (val < 0) # (argA < 0)
                [] op = "sub" -> (argA > 0) = (argB < 0) /\ (val < 0) # (argB < 0)
                [] OTHER -> FALSE]

CondHolds(cc, cond) ==
  CASE cond = "yes" -> TRUE
    [] cond = "le"  -> cc.sf # cc.of \/ cc.zf
    [] cond = "l"   -> cc.sf # cc.of
    [] cond = "e"   -> cc.zf
    [] cond = "ne"  -> ~cc.zf
    [] cond = "ge"  -> cc.sf = cc.of
    [] cond = "g"   -> cc.sf = cc.of /\ ~cc.zf

\* A machine state: what the programmer sees, and how the last step ended.
Boot(memory) ==
  [pc |-> 0, reg |-> [r \in Regs |-> 0], mem |-> memory, cc |-> DefaultCC, stat |-> "AOK"]

Stop(s, why) == [s EXCEPT !.stat = why]
Goto(s, a) == [s EXCEPT !.pc = a]
With(s, r, v) == [s EXCEPT !.reg = SetReg(s.reg, r, v)]
Store(s, a, v, next) ==
  IF a \in DOMAIN s.mem THEN Goto([s EXCEPT !.mem[a] = v], next) ELSE Stop(s, "ADR")

\* The operands whose register must be a real one.
BadRegister(i) ==
  \/ i.icode \in {"rrmovq", "rmmovq", "mrmovq", "pushq", "popq"} /\ ~RegValid(i.rA)
  \/ i.icode \in {"rrmovq", "irmovq", "iaddq"} /\ ~RegValid(i.rB)

\* What each instruction does to a state (the cases of step_state).
NextPC(s, i) == Wrap(s.pc + Size(i.icode))
Address(s, i) == Wrap(i.valC + GetReg(s.reg, i.rB))

Rrmovq(s, i) ==
  Goto(IF CondHolds(s.cc, i.ifun) THEN With(s, i.rB, GetReg(s.reg, i.rA)) ELSE s, NextPC(s, i))

Irmovq(s, i) == Goto(With(s, i.rB, i.valC), NextPC(s, i))

Rmmovq(s, i) == Store(s, Address(s, i), GetReg(s.reg, i.rA), NextPC(s, i))

Mrmovq(s, i) ==
  IF Address(s, i) \in DOMAIN s.mem
  THEN Goto(With(s, i.rA, s.mem[Address(s, i)]), NextPC(s, i))
  ELSE Stop(s, "ADR")

Alu(s, i, op, argA) ==
  LET argB == GetReg(s.reg, i.rB)
      t == With(s, i.rB, ComputeAlu(op, argA, argB))
  IN  Goto([t EXCEPT !.cc = ComputeCC(op, argA, argB)], NextPC(s, i))

OPq(s, i) == Alu(s, i, i.ifun, GetReg(s.reg, i.rA))
Iaddq(s, i) == Alu(s, i, "add", i.valC)

JXX(s, i) == Goto(s, IF CondHolds(s.cc, i.ifun) THEN i.valC ELSE NextPC(s, i))

\* call, pushq and popq move rsp before the access to memory that may fail.
Push(s, v, next) ==
  LET rsp == Wrap(s.reg["rsp"] - 8)
  IN  Store(With(s, "rsp", rsp), rsp, v, next)

Call(s, i) == Push(s, NextPC(s, i), i.valC)
Pushq(s, i) == Push(s, s.reg[i.rA], NextPC(s, i))

Ret(s) ==
  LET rsp == s.reg["rsp"]
  IN  IF rsp \in DOMAIN s.mem THEN Goto(With(s, "rsp", Wrap(rsp + 8)), s.mem[rsp])
                              ELSE Stop(s, "ADR")

\* The destination is written last: popq %rsp leaves what was popped.
Popq(s, i) ==
  LET rsp == s.reg["rsp"]
      t == With(s, "rsp", Wrap(rsp + 8))
  IN  IF rsp \in DOMAIN s.mem THEN Goto(With(t, i.rA, s.mem[rsp]), NextPC(s, i))
                              ELSE Stop(t, "ADR")

Execute(s, i) ==
  CASE i.icode = "nop"    -> Goto(s, NextPC(s, i))
    [] i.icode = "halt"   -> Stop(s, "HLT")
    [] i.icode = "rrmovq" -> Rrmovq(s, i)
    [] i.icode = "irmovq" -> Irmovq(s, i)
    [] i.icode = "rmmovq" -> Rmmovq(s, i)
    [] i.icode = "mrmovq" -> Mrmovq(s, i)
    [] i.icode = "OPq"    -> OPq(s, i)
    [] i.icode = "iaddq"  -> Iaddq(s, i)
    [] i.icode = "jXX"    -> JXX(s, i)
    [] i.icode = "call"   -> Call(s, i)
    [] i.icode = "ret"    -> Ret(s)
    [] i.icode = "pushq"  -> Pushq(s, i)
    [] i.icode = "popq"   -> Popq(s, i)
    [] OTHER              -> Stop(s, "INS")

StepState(code, s) ==
  IF ~Readable(s.pc) THEN Stop(s, "ADR")
  ELSE LET i == InstrAt(code, s.pc)
       IN  IF BadRegister(i) THEN Stop(s, "INS") ELSE Execute(s, i)

\* The states of the loop in run_tty_sim that steps the instruction set for
\* the comparison of -t: at most limit steps, and none after a failure.
IsaRun(code, memory, limit) ==
  LET run[k \in 0 .. limit] ==
        IF k = 0 THEN Boot(memory)
        ELSE LET s == run[k - 1]
             IN  IF s.stat = "AOK" THEN StepState(code, s) ELSE s
  IN  run[limit]
=============================================================================
