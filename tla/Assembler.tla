----------------------------- MODULE Assembler -----------------------------
(***************************************************************************)
(* The two-pass assembler yas (04-architecture/sim/misc/yas.c) and the     *)
(* loader load_mem (isa.c) behind it: the memory image that a sequence of  *)
(* source lines becomes.                                                   *)
(*                                                                         *)
(* A line is a record of a label (or NoLabel), a mnemonic op (or "", for a *)
(* line with a label alone) and its operands a1 and a2, which are          *)
(*   Reg(r), Num(n), Sym(label) or Mem(offset, base), base "none" for none *)
(* The characters of the .ys and .yo files are left out: a line is what    *)
(* the lexer makes of it, and the image is what load_mem reads back.       *)
(***************************************************************************)
EXTENDS ISA, SequencesExt

CONSTANTS
  Data,       \* the addresses of the data words (multiples of 8)
  NoLabel

Reg(r) == [kind |-> "reg", r |-> r]
Num(n) == [kind |-> "num", n |-> n]
Sym(l) == [kind |-> "sym", l |-> l]
Mem(offset, base) == [kind |-> "mem", offset |-> offset, base |-> base]
NoOperand == [kind |-> "none"]

Line(op, a1, a2) == [label |-> NoLabel, op |-> op, a1 |-> a1, a2 |-> a2]

\* The table instruction_set: code, function, and the kinds of the operands.
Entry(icode, ifun, k1, k2) == [icode |-> icode, ifun |-> ifun, k1 |-> k1, k2 |-> k2]
Imm == {"num", "sym"}
MemArg == {"num", "sym", "mem"}
InstructionSet ==
  [nop    |-> Entry("nop", "yes", {}, {}),       halt   |-> Entry("halt", "yes", {}, {}),
   ret    |-> Entry("ret", "yes", {}, {}),
   rrmovq |-> Entry("rrmovq", "yes", {"reg"}, {"reg"}),
   cmovle |-> Entry("rrmovq", "le", {"reg"}, {"reg"}),
   cmovl  |-> Entry("rrmovq", "l", {"reg"}, {"reg"}),
   cmove  |-> Entry("rrmovq", "e", {"reg"}, {"reg"}),
   cmovne |-> Entry("rrmovq", "ne", {"reg"}, {"reg"}),
   cmovge |-> Entry("rrmovq", "ge", {"reg"}, {"reg"}),
   cmovg  |-> Entry("rrmovq", "g", {"reg"}, {"reg"}),
   irmovq |-> Entry("irmovq", "yes", Imm, {"reg"}),
   rmmovq |-> Entry("rmmovq", "yes", {"reg"}, MemArg),
   mrmovq |-> Entry("mrmovq", "yes", MemArg, {"reg"}),
   addq   |-> Entry("OPq", "add", {"reg"}, {"reg"}),
   subq   |-> Entry("OPq", "sub", {"reg"}, {"reg"}),
   andq   |-> Entry("OPq", "and", {"reg"}, {"reg"}),
   xorq   |-> Entry("OPq", "xor", {"reg"}, {"reg"}),
   iaddq  |-> Entry("iaddq", "yes", Imm, {"reg"}),
   jmp    |-> Entry("jXX", "yes", Imm, {}),      jle    |-> Entry("jXX", "le", Imm, {}),
   jl     |-> Entry("jXX", "l", Imm, {}),        je     |-> Entry("jXX", "e", Imm, {}),
   jne    |-> Entry("jXX", "ne", Imm, {}),       jge    |-> Entry("jXX", "ge", Imm, {}),
   jg     |-> Entry("jXX", "g", Imm, {}),        call   |-> Entry("call", "yes", Imm, {}),
   pushq  |-> Entry("pushq", "yes", {"reg"}, {}), popq  |-> Entry("popq", "yes", {"reg"}, {})]

IsInstr(line) == line.op \in DOMAIN InstructionSet

Bytes(line) ==
  CASE IsInstr(line)      -> Size(InstructionSet[line.op].icode)
    [] line.op = ".byte"  -> 1      \* .byte stands for an instruction that is not one
    [] line.op = ".quad"  -> 8
    [] OTHER              -> 0

\* A line that finish_line reports in the first pass.
BadLine(line) ==
  CASE line.op = ".pos"   -> line.a1.kind # "num"
    [] line.op = ".align" -> line.a1.kind # "num" \/ line.a1.n <= 0
    [] line.op \in {"", ".byte", ".quad"} -> FALSE
    [] OTHER              -> ~IsInstr(line)

\* The address of a line's bytes, and that of the next line, pos being the
\* address after the line before it.
Here(line, pos) ==
  CASE line.op = ".pos"   -> line.a1.n
    [] line.op = ".align" -> ((pos + line.a1.n - 1) \div line.a1.n) * line.a1.n
    [] OTHER              -> pos
After(line, pos) == IF BadLine(line) THEN pos ELSE Here(line, pos) + Bytes(line)

\* The address at which each line starts: the value of bytepos, in both passes.
Positions(lines) ==
  FoldLeft(LAMBDA ps, line : Append(ps, After(line, Last(ps))), <<0>>, lines)

\* First pass: the labels.  add_symbol appends, find_symbol takes the first.
Labels(lines) == {lines[k].label : k \in DOMAIN lines} \ {NoLabel}
FindSymbol(lines) ==
  LET at == Positions(lines)
  IN  [l \in Labels(lines) |->
         at[CHOOSE k \in DOMAIN lines :
              lines[k].label = l /\ \A j \in 1 .. k - 1 : lines[j].label # l]]

\* Second pass: the operands of an instruction (get_reg, get_num, get_mem).
BadOperands(line, labels) ==
  LET Bad(a, kinds) ==
        \/ kinds # {} /\ a.kind \notin kinds
        \/ a.kind = "sym" /\ a.l \notin labels
  IN  IsInstr(line) /\ \/ Bad(line.a1, InstructionSet[line.op].k1)
                       \/ Bad(line.a2, InstructionSet[line.op].k2)

Value(a, symbols) ==
  CASE a.kind = "num" -> a.n
    [] a.kind = "sym" -> symbols[a.l]
    [] a.kind = "mem" -> a.offset
    [] OTHER          -> 0

\* Registers of the two operands go to the high and the low half of the
\* register byte, the base of a memory operand to the low half.
Encode(line, symbols) ==
  LET e == InstructionSet[line.op]
      r1 == IF line.a1.kind = "reg" THEN line.a1.r ELSE "none"
      r2 == IF line.a2.kind = "reg" THEN line.a2.r ELSE "none"
      base == CASE line.a1.kind = "mem" -> line.a1.base
                [] line.a2.kind = "mem" -> line.a2.base
                [] OTHER -> "none"
      c == IF e.k1 \in {Imm, MemArg} THEN Value(line.a1, symbols) ELSE Value(line.a2, symbols)
  IN  CASE e.icode = "irmovq" \/ e.icode = "iaddq" -> Instr(e.icode, e.ifun, "none", r2, c)
        [] e.icode = "rmmovq" -> Instr(e.icode, e.ifun, r1, base, c)
        [] e.icode = "mrmovq" -> Instr(e.icode, e.ifun, r2, base, c)
        [] OTHER              -> Instr(e.icode, e.ifun, r1, r2, c)

Assembles(lines) ==
  /\ \A k \in DOMAIN lines : ~BadLine(lines[k])
  /\ \A k \in DOMAIN lines : ~BadOperands(lines[k], Labels(lines))

\* The image of a program that assembles; of two lines at the same address,
\* load_mem keeps the later one, and memory no line fills is zero.
Assemble(lines) ==
  LET at == Positions(lines)
      symbols == FindSymbol(lines)
      Latest(S) == CHOOSE k \in S : \A j \in S : j <= k
      coded == {k \in DOMAIN lines : IsInstr(lines[k]) \/ lines[k].op = ".byte"}
      quads(a) == {k \in DOMAIN lines : lines[k].op = ".quad" /\ at[k] = a}
  IN  [code |-> [a \in {at[k] : k \in coded} |->
                   LET line == lines[Latest({k \in coded : at[k] = a})]
                   IN  IF IsInstr(line) THEN Encode(line, symbols) ELSE NoArg("bad")],
       mem |-> [a \in Data |->
                  IF quads(a) = {} THEN 0
                  ELSE Wrap(Value(lines[Latest(quads(a))].a1, symbols))]]
=============================================================================
