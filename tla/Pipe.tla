-------------------------------- MODULE Pipe --------------------------------
(***************************************************************************)
(* The five-stage pipelined processor: the simulator core of               *)
(* 04-architecture/sim/pipe/psim.c with the control logic of pipe-full.hcl.*)
(*                                                                         *)
(* Cycle is one turn of the loop of sim_run_pipe: the stages compute their *)
(* signals from the pipeline registers (do_if_stage, do_mem_stage,         *)
(* do_ex_stage, do_id_wb_stages, do_stall_check), and update_state and     *)
(* update_pipes, which sim_step_pipe calls at the top of the next turn,    *)
(* store them.  The names of the signals are those of the HCL file.        *)
(* The graphical interface and the performance counters are left out.      *)
(***************************************************************************)
EXTENDS ISA

CONSTANTS
  Images,        \* the programs loaded: records of a code and a memory
  InstrLimit     \* instr_limit of -l; Unlimited: the limit is never reached

Unlimited == 0
ASSUME PipeAssumption == InstrLimit \in Nat

VARIABLES
  code,          \* the program in memory
  reg, mem, cc,  \* the state the programmer sees
  F,             \* predPC
  D, E, M, W,    \* the pipeline registers
  icount         \* sim_run_pipe's count of instructions, when there is a limit

state == <<reg, mem, cc>>
pipes == <<F, D, E, M, W>>
vars == <<code, state, pipes, icount>>

Exceptional == {"ADR", "INS", "HLT"}

BubbleD == [icode |-> "nop", ifun |-> "yes", rA |-> "none", rB |-> "none",
            valC |-> 0, valP |-> 0, stat |-> "BUB", pc |-> 0]
BubbleE == [icode |-> "nop", ifun |-> "yes", valC |-> 0, valA |-> 0, valB |-> 0,
            dstE |-> "none", dstM |-> "none", stat |-> "BUB", pc |-> 0]
BubbleM == [icode |-> "nop", cnd |-> FALSE, valE |-> 0, valA |-> 0,
            dstE |-> "none", dstM |-> "none", stat |-> "BUB", pc |-> 0]
BubbleW == [icode |-> "nop", valE |-> 0, valM |-> 0,
            dstE |-> "none", dstM |-> "none", stat |-> "BUB", pc |-> 0]

Init ==
  /\ \E image \in Images : code = image.code /\ mem = image.mem
  /\ reg = [r \in Regs |-> 0] /\ cc = DefaultCC
  /\ F = 0 /\ D = BubbleD /\ E = BubbleE /\ M = BubbleM /\ W = BubbleW
  /\ icount = 0

-----------------------------------------------------------------------------
(* Fetch.  The simulator wants five bytes after the first readable too.    *)

f_pc == IF M.icode = "jXX" /\ ~M.cnd THEN M.valA
        ELSE IF W.icode = "ret" THEN W.valM ELSE F

imem_error == ~(Readable(f_pc) /\ Readable(f_pc + 5))
f_instr == IF imem_error THEN NoArg("nop") ELSE InstrAt(code, f_pc)
f_valP == Wrap(f_pc + Size(f_instr.icode))
f_predPC == IF f_instr.icode \in {"jXX", "call"} THEN f_instr.valC ELSE f_valP
f_stat == CASE imem_error               -> "ADR"
            [] f_instr.icode = "bad"    -> "INS"
            [] f_instr.icode = "halt"   -> "HLT"
            [] OTHER                    -> "AOK"

NextD == [icode |-> f_instr.icode, ifun |-> f_instr.ifun, rA |-> f_instr.rA,
          rB |-> f_instr.rB, valC |-> f_instr.valC, valP |-> f_valP,
          stat |-> f_stat, pc |-> f_pc]

-----------------------------------------------------------------------------
(* Memory.  The address of a write is checked by a read.                   *)

mem_read == M.icode \in {"mrmovq", "popq", "ret"}
mem_write == M.icode \in {"rmmovq", "pushq", "call"}
mem_addr == CASE M.icode \in {"rmmovq", "pushq", "call", "mrmovq"} -> M.valE
              [] M.icode \in {"popq", "ret"}                       -> M.valA
              [] OTHER                                             -> 0
dmem_error == (mem_read \/ mem_write) /\ mem_addr \notin DOMAIN mem
m_valM == IF mem_read /\ ~dmem_error THEN mem[mem_addr] ELSE 0
m_stat == IF dmem_error THEN "ADR" ELSE M.stat

NextW == [icode |-> M.icode, valE |-> M.valE, valM |-> m_valM,
          dstE |-> M.dstE, dstM |-> M.dstM, stat |-> m_stat, pc |-> M.pc]

-----------------------------------------------------------------------------
(* Execute.  A signal that no case of the HCL file sets is 0.              *)

aluA == CASE E.icode \in {"rrmovq", "OPq"}                        -> E.valA
          [] E.icode \in {"irmovq", "rmmovq", "mrmovq", "iaddq"}  -> E.valC
          [] E.icode \in {"call", "pushq"}                        -> -8
          [] E.icode \in {"ret", "popq"}                          -> 8
          [] OTHER                                                -> 0
aluB == IF E.icode \in {"rmmovq", "mrmovq", "OPq", "iaddq", "call", "pushq", "ret", "popq"}
        THEN E.valB ELSE 0
alufun == IF E.icode = "OPq" THEN E.ifun ELSE "add"
set_cc == /\ E.icode \in {"OPq", "iaddq"}
          /\ m_stat \notin Exceptional
          /\ W.stat \notin Exceptional

e_valE == ComputeAlu(alufun, aluA, aluB)
e_Cnd == E.icode = "OPq" \/ CondHolds(cc, E.ifun)   \* of use to moves and jumps only
e_dstE == IF E.icode = "rrmovq" /\ ~e_Cnd THEN "none" ELSE E.dstE

NextM == [icode |-> E.icode, cnd |-> e_Cnd, valE |-> e_valE, valA |-> E.valA,
          dstE |-> e_dstE, dstM |-> E.dstM, stat |-> E.stat, pc |-> E.pc]

-----------------------------------------------------------------------------
(* Decode, with forwarding: the youngest older instruction that writes the *)
(* register supplies it before it is in the register file.                 *)

d_srcA == CASE D.icode \in {"rrmovq", "rmmovq", "OPq", "pushq"} -> D.rA
            [] D.icode \in {"popq", "ret"}                      -> "rsp"
            [] OTHER                                            -> "none"
d_srcB == CASE D.icode \in {"OPq", "iaddq", "rmmovq", "mrmovq"} -> D.rB
            [] D.icode \in {"pushq", "popq", "call", "ret"}     -> "rsp"
            [] OTHER                                            -> "none"
d_dstE == CASE D.icode \in {"rrmovq", "irmovq", "OPq", "iaddq"} -> D.rB
            [] D.icode \in {"pushq", "popq", "call", "ret"}     -> "rsp"
            [] OTHER                                            -> "none"
d_dstM == IF D.icode \in {"mrmovq", "popq"} THEN D.rA ELSE "none"

\* Mutant: the execute stage asked after the memory stage.
ForwardMemFirst(src) ==
  IF src = M.dstM THEN m_valM
  ELSE IF src = M.dstE THEN M.valE
  ELSE IF src = e_dstE THEN e_valE
  ELSE IF src = W.dstM THEN W.valM
  ELSE IF src = W.dstE THEN W.valE
  ELSE GetReg(reg, src)

Forward(src) ==
  IF src = e_dstE THEN e_valE
  ELSE IF src = M.dstM THEN m_valM
  ELSE IF src = M.dstE THEN M.valE
  ELSE IF src = W.dstM THEN W.valM
  ELSE IF src = W.dstE THEN W.valE
  ELSE GetReg(reg, src)
d_valA == IF D.icode \in {"call", "jXX"} THEN D.valP ELSE Forward(d_srcA)
d_valB == Forward(d_srcB)

NextE == [icode |-> D.icode, ifun |-> D.ifun, valC |-> D.valC, valA |-> d_valA,
          valB |-> d_valB, dstE |-> d_dstE, dstM |-> d_dstM, stat |-> D.stat, pc |-> D.pc]

-----------------------------------------------------------------------------
(* Control: which registers stall and which take a bubble.                 *)

\* Mutant: no register compares equal to no register.
LoadUseOfNone == E.dstM \in {d_srcA, d_srcB}

LoadUse == E.icode \in {"mrmovq", "popq"} /\ E.dstM \in {d_srcA, d_srcB}
Returning == "ret" \in {D.icode, E.icode, M.icode}
Mispredicted == E.icode = "jXX" /\ ~e_Cnd

\* Mutant: a bubble for every return.
BubbleOnAnyReturn == Mispredicted \/ Returning

F_stall == LoadUse \/ Returning
D_stall == LoadUse
D_bubble == Mispredicted \/ (~LoadUse /\ Returning)
E_bubble == Mispredicted \/ LoadUse
M_bubble == m_stat \in Exceptional \/ W.stat \in Exceptional
W_stall == W.stat \in Exceptional

\* A register told to stall and to take a bubble at once is in error.
PipeCntl(stall, bubble) ==
  CASE stall /\ bubble  -> "ERROR"
    [] stall /\ ~bubble -> "STALL"
    [] ~stall /\ bubble -> "BUBBLE"
    [] OTHER            -> "LOAD"

Update(op, current, next, empty) ==
  CASE op = "LOAD"   -> next
    [] op = "STALL"  -> current
    [] op = "BUBBLE" -> empty
    [] op = "ERROR"  -> [empty EXCEPT !.stat = "PIP"]

-----------------------------------------------------------------------------

Running == /\ W.stat \in {"AOK", "BUB"}
           /\ InstrLimit # Unlimited => icount + 1 < InstrLimit

\* The stores of update_state are cut off near the limit: the instruction in
\* the memory stage stores if fewer instructions than are left are ahead of
\* it, and so does the one in the execute stage.  The HCL signal Stat turns
\* the status of a bubble into AOK, so sim_run_pipe counts every cycle.
Left == InstrLimit - (icount + 1)
Ahead(stats) == Cardinality({k \in DOMAIN stats : stats[k] # "BUB"})
UpdateMem == InstrLimit # Unlimited => Ahead(<<W.stat>>) < Left
UpdateCC == InstrLimit # Unlimited => Ahead(<<W.stat, m_stat>>) < Left

\* update_state; of its two register writes the one of valM is the last.
Written == SetReg(SetReg(reg, W.dstE, W.valE), W.dstM, W.valM)
StoredMem == IF mem_write /\ UpdateMem /\ ~dmem_error
             THEN [mem EXCEPT ![mem_addr] = M.valA] ELSE mem
NewCC == IF set_cc /\ UpdateCC THEN ComputeCC(alufun, aluA, aluB) ELSE cc

Cycle ==
  /\ Running
  /\ icount' = IF InstrLimit = Unlimited THEN 0 ELSE icount + 1
  /\ reg' = Written /\ mem' = StoredMem /\ cc' = NewCC
  /\ F' = IF F_stall THEN F ELSE f_predPC
  /\ D' = Update(PipeCntl(D_stall, D_bubble), D, NextD, BubbleD)
  /\ E' = Update(PipeCntl(FALSE, E_bubble), E, NextE, BubbleE)
  /\ M' = Update(PipeCntl(FALSE, M_bubble), M, NextM, BubbleM)
  /\ W' = Update(PipeCntl(W_stall, FALSE), W, NextW, BubbleW)
  /\ UNCHANGED code

Next == Cycle
Spec == Init /\ [][Next]_vars

\* The loop of sim_run_pipe only ends by one of its conditions.
FairSpec == Spec /\ WF_vars(Cycle)

-----------------------------------------------------------------------------
(* The state of the instruction set that the pipeline stands for.  An      *)
(* instruction takes effect when it leaves the execute stage: what the     *)
(* memory and write-back stages still hold is flushed into the registers   *)
(* and the memory, unless the instruction failed; the condition codes are  *)
(* there already.  The next instruction is the oldest one in execute,      *)
(* decode or fetch.                                                        *)
(* One difference is mapped away: a push, call or pop at a bad address     *)
(* stops both, but step_state has moved rsp by then and the pipeline not.  *)

OldestPC == IF E.stat # "BUB" THEN E.pc
            ELSE IF D.stat # "BUB" THEN D.pc
            ELSE IF M.icode = "ret" THEN m_valM ELSE f_pc

Failed(stage, regs, why) ==
  [pc   |-> stage.pc,
   reg  |-> IF stage.icode \in {"pushq", "call", "popq"} /\ why = "ADR"
            THEN SetReg(regs, "rsp", stage.valE) ELSE regs,
   mem  |-> mem, cc |-> cc, stat |-> why]

Visible ==
  IF W.stat \in Exceptional THEN Failed(W, reg, W.stat)
  ELSE IF m_stat \in Exceptional THEN Failed(M, Written, m_stat)
  ELSE [pc   |-> OldestPC,
        reg  |-> SetReg(SetReg(Written, M.dstE, M.valE), M.dstM, m_valM),
        mem  |-> IF mem_write THEN [mem EXCEPT ![mem_addr] = M.valA] ELSE mem,
        cc   |-> cc,
        stat |-> "AOK"]

ISAMachine == INSTANCE Y86 WITH st <- Visible

\* Every cycle either completes the next instruction of the program, with the
\* registers, memory, condition codes, program counter and status that
\* step_state gives it, or changes nothing the programmer sees: forwarding,
\* stalls and squashed instructions never show.  This is what psim -t compares,
\* there only in the last state.
PipeImplementsISA == ISAMachine!Spec

\* No pipeline register is told to stall and to take a bubble at once
\* (pipe_cntl's error): the combinations of a load/use hazard, a return and a
\* mispredicted branch are told apart.
NoConflict == PipeCntl(D_stall, D_bubble) # "ERROR"

\* Stalls and bubbles end: an instruction reaches the write-back stage again
\* and again, until one of them stops the processor.
KeepsRetiring == []<>(W.stat # "BUB")

\* The comparison of run_tty_sim, against a state of the instruction set.
Matches(s) == reg = s.reg /\ mem = s.mem /\ cc = s.cc

\* What psim -t checks when the loop has ended ("Test result against ISA
\* simulator", psim.c:291): the processor's state is that of instr_limit steps
\* of the instruction set.
IsaCheck ==
  ~Running => \E image \in Images :
                 code = image.code /\ Matches(IsaRun(code, image.mem, InstrLimit))
=============================================================================
