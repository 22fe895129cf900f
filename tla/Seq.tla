-------------------------------- MODULE Seq --------------------------------
(***************************************************************************)
(* The sequential processor: the simulator core of                         *)
(* 04-architecture/sim/seq/ssim.c with the control logic of seq-full.hcl,  *)
(* one instruction per cycle.  sim_step computes what the instruction will *)
(* do and stores it at the top of the next call, so the last instruction   *)
(* of a run, the failing one included, is never stored.                    *)
(***************************************************************************)
EXTENDS ISA

CONSTANT Images

VARIABLES
  code,
  pc, reg, mem, cc,
  pending,       \* pc_in, cc_in, destE, vale, destM, valm, mem_write, mem_addr, mem_data
  status

vars == <<code, pc, reg, mem, cc, pending, status>>

Nothing == [pc |-> 0, cc |-> DefaultCC, dstE |-> "none", valE |-> 0, dstM |-> "none",
            valM |-> 0, write |-> FALSE, addr |-> 0, data |-> 0]

Reset ==
  /\ pc = 0 /\ reg = [r \in Regs |-> 0] /\ cc = DefaultCC
  /\ pending = Nothing
  /\ status = "AOK"

Init == /\ \E image \in Images : code = image.code /\ mem = image.mem
        /\ Reset

\* Mutant: the two writes of update_state swapped.
WrittenMFirst == SetReg(SetReg(reg, pending.dstM, pending.valM), pending.dstE, pending.valE)

\* update_state: destM is written after destE, so popq %rsp keeps what it read.
Written == SetReg(SetReg(reg, pending.dstE, pending.valE), pending.dstM, pending.valM)
Stored == [pc   |-> pending.pc,
           reg  |-> Written,
           mem  |-> IF pending.write THEN [mem EXCEPT ![pending.addr] = pending.data] ELSE mem,
           cc   |-> pending.cc,
           stat |-> "AOK"]

\* The signals of one cycle, from the state s that update_state left.
Signals(s) ==
  LET imem_error == ~Readable(s.pc)
      i     == IF imem_error THEN NoArg("nop") ELSE InstrAt(code, s.pc)
      icode == i.icode
      valP  == Wrap(s.pc + Size(icode))
      srcA  == CASE icode \in {"rrmovq", "rmmovq", "OPq", "pushq"} -> i.rA
                 [] icode \in {"popq", "ret"}                      -> "rsp"
                 [] OTHER                                          -> "none"
      srcB  == CASE icode \in {"OPq", "iaddq", "rmmovq", "mrmovq"} -> i.rB
                 [] icode \in {"pushq", "popq", "call", "ret"}     -> "rsp"
                 [] OTHER                                          -> "none"
      valA  == GetReg(s.reg, srcA)
      valB  == GetReg(s.reg, srcB)
      Cnd   == icode = "OPq" \/ CondHolds(s.cc, i.ifun)
      dstE  == CASE icode = "rrmovq" /\ Cnd                        -> i.rB
                 [] icode \in {"irmovq", "OPq", "iaddq"}           -> i.rB
                 [] icode \in {"pushq", "popq", "call", "ret"}     -> "rsp"
                 [] OTHER                                          -> "none"
      dstM  == IF icode \in {"mrmovq", "popq"} THEN i.rA ELSE "none"
      aluA  == CASE icode \in {"rrmovq", "OPq"}                    -> valA
                 [] icode \in {"irmovq", "rmmovq", "mrmovq", "iaddq"} -> i.valC
                 [] icode \in {"call", "pushq"}                    -> -8
                 [] icode \in {"ret", "popq"}                      -> 8
                 [] OTHER                                          -> 0
      aluB  == IF icode \in {"rrmovq", "irmovq"} THEN 0 ELSE valB
      alufun == IF icode = "OPq" THEN i.ifun ELSE "add"
      valE  == ComputeAlu(alufun, aluA, aluB)
      read  == icode \in {"mrmovq", "popq", "ret"}
      write == icode \in {"rmmovq", "pushq", "call"}
      addr  == IF icode \in {"popq", "ret"} THEN valA ELSE valE
      dmem_error == (read \/ write) /\ addr \notin DOMAIN s.mem
      valM  == IF read /\ ~dmem_error THEN s.mem[addr] ELSE 0
      new_pc == CASE icode = "call"          -> i.valC
                  [] icode = "jXX" /\ Cnd    -> i.valC
                  [] icode = "ret"           -> valM
                  [] OTHER                   -> valP
  IN  [next |-> [pc |-> new_pc,
                 cc |-> IF icode \in {"OPq", "iaddq"} THEN ComputeCC(alufun, aluA, aluB) ELSE s.cc,
                 dstE |-> dstE, valE |-> valE, dstM |-> dstM, valM |-> valM,
                 write |-> write, addr |-> addr,
                 data |-> IF icode = "call" THEN valP ELSE valA],
       stat |-> CASE imem_error \/ dmem_error -> "ADR"
                  [] ~imem_error /\ icode = "bad"  -> "INS"
                  [] ~imem_error /\ icode = "halt" -> "HLT"
                  [] OTHER                         -> "AOK"]

Step ==
  /\ status = "AOK"
  /\ pc' = Stored.pc /\ reg' = Stored.reg /\ mem' = Stored.mem /\ cc' = Stored.cc
  /\ LET signals == Signals(Stored)
     IN  pending' = signals.next /\ status' = signals.stat
  /\ UNCHANGED code

Spec == Init /\ [][Step]_vars

\* The state of the instruction set that the processor stands for: what is
\* pending counts as done, unless the instruction failed (a push, call or pop
\* that fails has moved rsp in step_state, and not here).
Visible ==
  IF status = "AOK" THEN Stored
  ELSE [pc |-> pc,
        reg |-> IF status = "ADR" /\ InstrAt(code, pc).icode \in {"pushq", "call", "popq"}
                THEN [reg EXCEPT !["rsp"] = pending.valE] ELSE reg,
        mem |-> mem, cc |-> cc, stat |-> status]

ISAMachine == INSTANCE Y86 WITH st <- Visible

\* Each cycle does what step_state does to the registers, memory, condition
\* codes, program counter and status (ssim -t compares the last state).
SeqImplementsISA == ISAMachine!Spec
=============================================================================
