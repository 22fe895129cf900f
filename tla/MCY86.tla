------------------------------- MODULE MCY86 -------------------------------
(* The pipelined and the sequential processor side by side, on the images  *)
(* of all short programs over a set of lines.  Line k has the label k, and *)
(* jumps and calls go to the line after the next.                          *)
EXTENDS Pipe, Sequences

CONSTANTS NoLabel, Data, Sources

A == INSTANCE Assembler

VARIABLES spc, sreg, smem, scc, spending, sstatus
S == INSTANCE Seq WITH pc <- spc, reg <- sreg, mem <- smem, cc <- scc,
                       pending <- spending, status <- sstatus

svars == <<spc, sreg, smem, scc, spending, sstatus>>

MCInit == Init /\ smem = mem /\ S!Reset
MCNext == \/ Cycle /\ S!Step
          \/ Cycle /\ sstatus # "AOK" /\ UNCHANGED svars
MCSpec == MCInit /\ [][MCNext]_<<vars, svars>> /\ WF_<<vars, svars>>(MCNext)

-----------------------------------------------------------------------------
MCRegs == {"rax", "rdx", "rsp"}
MCData == {80, 88, 96, 104, 112}

I0(op) == A!Line(op, A!NoOperand, A!NoOperand)
I1(op, a) == A!Line(op, a, A!NoOperand)
I2(op, a, b) == A!Line(op, a, b)
rax == A!Reg("rax")
rdx == A!Reg("rdx")
rsp == A!Reg("rsp")
Skip == "skip"

\* Every kind of instruction, with the operands that make hazards.
Wide == {I0("nop"), I0("halt"), I0(".byte"), I0("ret"),
         I2("cmove", rax, rdx), I2("cmovne", rax, rdx),
         I2("rmmovq", rdx, A!Mem(0, "rax")), I2("mrmovq", A!Mem(0, "rax"), rdx),
         I2("mrmovq", A!Mem(0, "rdx"), rax),
         I2("subq", rax, rdx), I2("xorq", rdx, rdx), I2("iaddq", A!Num(8), rax),
         I1("jne", A!Sym(Skip)), I1("je", A!Sym(Skip)), I1("call", A!Sym(Skip)),
         I1("pushq", rsp), I1("popq", rdx), I1("popq", rsp)}
\* The instructions whose effects are late, and those that use them.
Late == {I0("nop"), I0("ret"), I2("mrmovq", A!Mem(0, "rax"), rdx), I2("subq", rdx, rax),
         I1("jne", A!Sym(Skip)), I1("call", A!Sym(Skip)), I1("popq", rsp)}

Prologue == <<I2("irmovq", A!Num(96), rsp), I2("irmovq", A!Num(88), rax)>>

Labelled(p) ==
  [k \in DOMAIN p |->
     LET line == [p[k] EXCEPT !.label = k]
     IN  IF line.a1 = A!Sym(Skip) THEN [line EXCEPT !.a1 = A!Sym(k + 2)] ELSE line]

\* After the program: two halts, the first of which a return without a call
\* goes to, and the data.
Epilogue(n) ==
  <<[I0("halt") EXCEPT !.label = n + 1], [I0("halt") EXCEPT !.label = n + 2],
    I1(".pos", A!Num(88)), I1(".quad", A!Num(5)), I1(".quad", A!Sym(n + 1)),
    I1(".quad", A!Num(104))>>

Program(p) == Prologue \o Labelled(p) \o Epilogue(Len(p))

MCSources == {Program(p) : p \in [1 .. 3 -> Wide] \cup [1 .. 4 -> Late]}
MCImages == {A!Assemble(lines) : lines \in {q \in Sources : A!Assembles(q)}}

\* Two accesses to memory by an address alone, without a base register.
BareSources == {Program(<<I2("mrmovq", A!Num(88), rdx), I2("mrmovq", A!Num(88), rax)>>)}

SeqImplementsISA == S!SeqImplementsISA
=============================================================================
