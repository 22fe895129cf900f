----------------------------- MODULE PipeProofs -----------------------------
(* The pipelined processor implements the instruction set.                 *)
EXTENDS Pipe, ISAProofs

\* Programs whose addresses all have a base register, run without a limit.
Based(i) == i.icode \in {"rmmovq", "mrmovq"} => i.rB \in Regs
Programs ==
  /\ InstrLimit = Unlimited
  /\ \A image \in Images : /\ Loadable(image.code, image.mem, DOMAIN image.mem)
                           /\ \A a \in DOMAIN image.code : Based(image.code[a])

-----------------------------------------------------------------------------
(* What the fetch stage makes of the address p.                            *)

Whole(p) == Readable(p) /\ Readable(p + 5)
Fetched(c, p) == IF Whole(p) THEN InstrAt(c, p) ELSE NoArg("nop")
Fate(c, p) == CASE ~Whole(p)                       -> "ADR"
                [] Fetched(c, p).icode = "bad"     -> "INS"
                [] Fetched(c, p).icode = "halt"    -> "HLT"
                [] OTHER                           -> "AOK"
After(c, p) == Wrap(p + Size(Fetched(c, p).icode))
Pred(c, p) == IF Fetched(c, p).icode \in {"jXX", "call"} THEN Fetched(c, p).valC ELSE After(c, p)

InDecode(c, p) ==
  [icode |-> Fetched(c, p).icode, ifun |-> Fetched(c, p).ifun, rA |-> Fetched(c, p).rA,
   rB |-> Fetched(c, p).rB, valC |-> Fetched(c, p).valC, valP |-> After(c, p),
   stat |-> Fate(c, p), pc |-> p]

\* The register file when the write-back and memory stages are done.
Flushed == SetReg(SetReg(Written, M.dstE, M.valE), M.dstM, m_valM)

\* The inductive invariant, while no instruction has stopped the processor.
Code == \A a \in DOMAIN code : Readable(a) /\ WellFormed(code[a]) /\ Based(code[a])
Typed == /\ DOMAIN reg = Regs
         /\ m_stat \notin Exceptional => Visible \in States(DOMAIN mem)
Decoding == IF D.stat = "BUB" THEN D = BubbleD ELSE D = InDecode(code, D.pc)
Bubbles == E.stat = "BUB" => E.icode = "nop" /\ E.dstE = "none" /\ E.dstM = "none"
Executing ==
  E.stat # "BUB" =>
    /\ E.icode = Fetched(code, E.pc).icode /\ E.ifun = Fetched(code, E.pc).ifun
    /\ E.valC = Fetched(code, E.pc).valC /\ E.stat = Fate(code, E.pc)
    /\ E.dstE = DstE(Fetched(code, E.pc)) /\ E.dstM = DstM(Fetched(code, E.pc))
\* The operands are those of the instruction's turn, however they came.
Operands ==
  E.stat # "BUB" =>
    /\ E.icode \in {"call", "jXX"} => E.valA = After(code, E.pc)
    /\ SrcA(Fetched(code, E.pc)) \in Regs => E.valA = Flushed[SrcA(Fetched(code, E.pc))]
    /\ SrcB(Fetched(code, E.pc)) \in Regs => E.valB = Flushed[SrcB(Fetched(code, E.pc))]
Ending == M.stat \in Exceptional => M.icode \in {"nop", "halt", "bad"}
\* The stages hold a path of the program: each instruction is the predicted
\* successor of the one before; nothing follows a return or a wrong prediction.
Path ==
  /\ E.stat # "BUB" /\ D.stat = "BUB" => E.icode = "ret"
  /\ E.stat # "BUB" /\ E.icode = "ret" => D.stat = "BUB"
  /\ M.icode = "ret" \/ (M.icode = "jXX" /\ ~M.cnd) => D.stat = "BUB" /\ E.stat = "BUB"
  /\ W.icode = "ret" => D.stat = "BUB" /\ E.stat = "BUB" /\ M.icode = "nop"
  /\ E.stat # "BUB" /\ D.stat # "BUB" => D.pc = Pred(code, E.pc)
  /\ D.stat # "BUB" => F = Pred(code, D.pc)
Live == Typed /\ Decoding /\ Bubbles /\ Executing /\ Operands /\ Ending /\ Path
Inv == Code /\ (W.stat \notin Exceptional => Live)
\* No instruction is fetched for good from the last five bytes, where the
\* simulator's fetch fails and step_state's does not.
Clear == Visible.pc \notin MemLen - 5 .. MemLen - 1

-----------------------------------------------------------------------------
(* The shape of a cycle.                                                   *)

LEMMA Conflictless == NoConflict
BY DEF NoConflict, PipeCntl, D_stall, D_bubble, LoadUse, Mispredicted

LEMMA Halts ==
  ASSUME Inv, Cycle, m_stat \in Exceptional
  PROVE  Inv' /\ Visible' = Visible
<1>1. W.stat \notin Exceptional /\ Live
  BY DEF Inv, Cycle, Running, Exceptional
<1>2. W' = NextW
  BY <1>1 DEF Cycle, W_stall, PipeCntl, Update
<1>3. /\ W'.stat = m_stat /\ W'.icode = M.icode /\ W'.valE = M.valE /\ W'.pc = M.pc
      /\ reg' = Written /\ code' = code
  <2>1. reg' = Written /\ code' = code
    BY DEF Cycle
  <2> QED
    BY <1>2, <2>1 DEF NextW
<1>4. mem' = mem
  BY <1>1 DEF Cycle, StoredMem, mem_write, m_stat, Live, Ending
<1>5. cc' = cc
  BY DEF Cycle, NewCC, set_cc
<1>6. Visible = Failed(M, Written, m_stat)
  BY <1>1 DEF Visible
<1>7. Visible' = [pc  |-> W'.pc,
                  reg |-> IF W'.icode \in {"pushq", "call", "popq"} /\ W'.stat = "ADR"
                          THEN SetReg(reg', "rsp", W'.valE) ELSE reg',
                  mem |-> mem', cc |-> cc', stat |-> W'.stat]
  BY <1>3 DEF Visible, Failed
<1>8. Visible' = Visible
  BY <1>3, <1>4, <1>5, <1>6, <1>7 DEF Failed
<1> QED
  BY <1>3, <1>8 DEF Inv, Code

LEMMA Flows ==
  ASSUME InstrLimit = Unlimited, Inv, Cycle, m_stat \notin Exceptional
  PROVE  /\ W.stat \notin Exceptional /\ Live /\ code' = code /\ reg' = Written
         /\ W' = NextW /\ M' = NextM
         /\ E' = IF E_bubble THEN BubbleE ELSE NextE
         /\ D' = IF D_stall THEN D ELSE IF D_bubble THEN BubbleD ELSE NextD
         /\ F' = IF F_stall THEN F ELSE f_predPC
         /\ Visible = [pc |-> OldestPC, reg |-> Flushed, mem |-> mem', cc |-> cc, stat |-> "AOK"]
         /\ cc' = IF E.icode \in {"OPq", "iaddq"} THEN ComputeCC(alufun, aluA, aluB) ELSE cc
<1>1. W.stat \notin Exceptional /\ Live
  BY DEF Inv, Cycle, Running, Exceptional
<1>2. W' = NextW
  BY <1>1 DEF Cycle, W_stall, PipeCntl, Update
<1>3. M' = NextM
  BY <1>1 DEF Cycle, M_bubble, PipeCntl, Update
<1>4. E' = IF E_bubble THEN BubbleE ELSE NextE
  <2>1. E' = Update(PipeCntl(FALSE, E_bubble), E, NextE, BubbleE) /\ E_bubble \in BOOLEAN
    BY DEF Cycle, E_bubble, Mispredicted, LoadUse
  <2> QED
    BY <2>1 DEF PipeCntl, Update
<1>5. D' = IF D_stall THEN D ELSE IF D_bubble THEN BubbleD ELSE NextD
  <2>1. /\ D' = Update(PipeCntl(D_stall, D_bubble), D, NextD, BubbleD)
        /\ D_stall \in BOOLEAN /\ D_bubble \in BOOLEAN
    BY DEF Cycle, D_bubble, D_stall, Mispredicted, LoadUse, Returning
  <2>2. PipeCntl(D_stall, D_bubble) # "ERROR"
    BY Conflictless DEF NoConflict
  <2> QED
    BY <2>1, <2>2 DEF PipeCntl, Update
<1>6. F' = IF F_stall THEN F ELSE f_predPC
  BY DEF Cycle
<1>7. ~dmem_error /\ m_stat = M.stat
  BY DEF m_stat, Exceptional
<1>8. mem' = IF mem_write THEN [mem EXCEPT ![mem_addr] = M.valA] ELSE mem
  BY <1>7 DEF Cycle, StoredMem, UpdateMem
<1>9. Visible = [pc |-> OldestPC, reg |-> Flushed, mem |-> mem', cc |-> cc, stat |-> "AOK"]
  BY <1>1, <1>8 DEF Visible, Flushed
<1>10. cc' = IF E.icode \in {"OPq", "iaddq"} THEN ComputeCC(alufun, aluA, aluB) ELSE cc
  BY <1>1 DEF Cycle, NewCC, set_cc, UpdateCC
<1>11. code' = code /\ reg' = Written
  BY DEF Cycle
<1> QED
  BY <1>1, <1>2, <1>3, <1>4, <1>5, <1>6, <1>9, <1>10, <1>11

(* The register file of the next cycle, when the execute stage is done.    *)
LEMMA Flushes ==
  ASSUME InstrLimit = Unlimited, Inv, Cycle, m_stat \notin Exceptional
  PROVE  /\ Written' = Flushed
         /\ Flushed' = SetReg(SetReg(Flushed, e_dstE, e_valE), E.dstM, m_valM')
<1>1. /\ W'.dstE = M.dstE /\ W'.valE = M.valE /\ W'.dstM = M.dstM /\ W'.valM = m_valM
      /\ M'.dstE = e_dstE /\ M'.valE = e_valE /\ M'.dstM = E.dstM /\ reg' = Written
  BY Flows DEF NextW, NextM
<1>2. Written' = Flushed
  BY <1>1 DEF Written, Flushed
<1> QED
  BY <1>1, <1>2 DEF Flushed

(* Forwarding finds what the older instructions leave in a register.       *)
LEMMA SetGet ==
  ASSUME NEW g, DOMAIN g = Regs, NEW d, NEW v
  PROVE  /\ DOMAIN SetReg(g, d, v) = Regs
         /\ \A r \in Regs : SetReg(g, d, v)[r] = IF d = r THEN v ELSE g[r]
BY DEF SetReg, RegValid

LEMMA Forwards ==
  ASSUME DOMAIN reg = Regs, NEW r \in Regs
  PROVE  Forward(r) = SetReg(Flushed, e_dstE, e_valE)[r]
<1>1. /\ DOMAIN SetReg(reg, W.dstE, W.valE) = Regs
      /\ SetReg(reg, W.dstE, W.valE)[r] = IF W.dstE = r THEN W.valE ELSE reg[r]
  BY SetGet
<1>2. DOMAIN Written = Regs /\ Written[r] = IF W.dstM = r THEN W.valM ELSE SetReg(reg, W.dstE, W.valE)[r]
  BY <1>1, SetGet DEF Written
<1>3. /\ DOMAIN SetReg(Written, M.dstE, M.valE) = Regs
      /\ SetReg(Written, M.dstE, M.valE)[r] = IF M.dstE = r THEN M.valE ELSE Written[r]
  BY <1>2, SetGet
<1>4. /\ DOMAIN Flushed = Regs
      /\ Flushed[r] = IF M.dstM = r THEN m_valM ELSE SetReg(Written, M.dstE, M.valE)[r]
  BY <1>3, SetGet DEF Flushed
<1>5. SetReg(Flushed, e_dstE, e_valE)[r] = IF e_dstE = r THEN e_valE ELSE Flushed[r]
  BY <1>4, SetGet
<1>6. GetReg(reg, r) = reg[r]
  BY DEF GetReg, RegValid
<1> QED
  BY <1>1, <1>2, <1>3, <1>4, <1>5, <1>6 DEF Forward

LEMMA FlushedDomain ==
  ASSUME DOMAIN reg = Regs
  PROVE  DOMAIN Written = Regs /\ DOMAIN Flushed = Regs
BY SetGet DEF Written, Flushed

-----------------------------------------------------------------------------
(* The instruction in the execute stage.                                   *)

LEMMA FetchedOk ==
  ASSUME Code, NEW p
  PROVE  WellFormed(Fetched(code, p)) /\ Based(Fetched(code, p))
<1>1. WellFormed(InstrAt(code, p)) /\ WellFormed(NoArg("nop"))
  BY FetchedWellFormed DEF Code
<1>2. Based(InstrAt(code, p)) /\ Based(NoArg("nop"))
  BY DEF Code, Based, InstrAt, NoArg, Instr
<1> QED
  BY <1>1, <1>2 DEF Fetched

\* An operand that is no register of the file is not used.
LEMMA Used ==
  ASSUME NEW A, NEW s \in States(A), NEW i, WellFormed(i), Based(i), NEW a, NEW b,
         SrcA(i) \in Regs => a = s.reg[SrcA(i)],
         SrcB(i) \in Regs => b = s.reg[SrcB(i)]
  PROVE  /\ AluA(i, a) = AluA(i, ValA(s, i)) /\ AluB(i, b) = AluB(i, ValB(s, i))
         /\ \A e : Place(i, e, a) = Place(i, e, ValA(s, i))
         /\ i.icode \in {"rmmovq", "pushq"} => a = ValA(s, i)
<1>1. "rsp" \in Regs
  BY ISAAssumption
<1>2. i.icode \in {"rrmovq", "rmmovq", "OPq", "pushq", "popq", "ret"} => a = ValA(s, i)
  BY <1>1 DEF WellFormed, SrcA, ValA, GetReg, RegValid
<1>3. i.icode \in {"OPq", "iaddq", "rmmovq", "mrmovq", "pushq", "popq", "call", "ret"}
        => b = ValB(s, i)
  BY <1>1 DEF WellFormed, Based, SrcB, ValB, GetReg, RegValid
<1> QED
  BY <1>2, <1>3 DEF AluA, AluB, Place

LEMMA Executes ==
  ASSUME InstrLimit = Unlimited, Inv, Cycle, m_stat \notin Exceptional, E.stat # "BUB",
         NEW i, i = Fetched(code, E.pc), NEW v, v = Visible
  PROVE  /\ v \in States(DOMAIN mem) /\ v.pc = E.pc /\ v.reg = Flushed /\ v.stat = "AOK"
         /\ WellFormed(i)
         /\ e_valE = ValE(v, i) /\ e_dstE = Dest(i, v.cc)
         /\ e_Cnd = Taken(i, v.cc)
         /\ m_valM' = ValM(v, i)
         /\ dmem_error' <=> Faults(i, At(v, i), v.mem)
         /\ mem_write' = Writes(i)
         /\ Writes(i) => mem_addr' = At(v, i) /\ M'.valA = Datum(v, i)
         /\ mem' = v.mem
         /\ cc' = Codes(i, ValA(v, i), ValB(v, i), v.cc)
<1>1. /\ Live /\ M' = NextM
      /\ v = [pc |-> OldestPC, reg |-> Flushed, mem |-> mem', cc |-> cc, stat |-> "AOK"]
      /\ cc' = IF E.icode \in {"OPq", "iaddq"} THEN ComputeCC(alufun, aluA, aluB) ELSE cc
  BY Flows
<1>2. v \in States(DOMAIN mem)
  BY <1>1 DEF Live, Typed
<1>3. WellFormed(i) /\ Based(i)
  BY FetchedOk DEF Inv
<1>4. /\ E.icode = i.icode /\ E.ifun = i.ifun /\ E.valC = i.valC
      /\ E.dstE = DstE(i) /\ E.dstM = DstM(i)
  BY <1>1 DEF Live, Executing
<1>5. /\ i.icode \in {"call", "jXX"} => E.valA = After(code, E.pc)
      /\ SrcA(i) \in Regs => E.valA = v.reg[SrcA(i)]
      /\ SrcB(i) \in Regs => E.valB = v.reg[SrcB(i)]
  BY <1>1, <1>4 DEF Live, Operands
<1>6. /\ AluA(i, E.valA) = AluA(i, ValA(v, i)) /\ AluB(i, E.valB) = AluB(i, ValB(v, i))
      /\ \A e : Place(i, e, E.valA) = Place(i, e, ValA(v, i))
      /\ i.icode \in {"rmmovq", "pushq"} => E.valA = ValA(v, i)
  <2>1. PICK a, b : a = E.valA /\ b = E.valB
    OBVIOUS
  <2>2. (SrcA(i) \in Regs => a = v.reg[SrcA(i)]) /\ (SrcB(i) \in Regs => b = v.reg[SrcB(i)])
    BY <1>5, <2>1
  <2>3. /\ AluA(i, a) = AluA(i, ValA(v, i)) /\ AluB(i, b) = AluB(i, ValB(v, i))
        /\ \A e : Place(i, e, a) = Place(i, e, ValA(v, i))
        /\ i.icode \in {"rmmovq", "pushq"} => a = ValA(v, i)
    BY <1>2, <1>3, <2>2, Used
  <2> QED
    BY <2>1, <2>3
<1>7. aluA = AluA(i, E.valA) /\ aluB = AluB(i, E.valB) /\ alufun = AluFun(i)
  BY <1>4 DEF aluA, aluB, alufun, AluA, AluB, AluFun
<1>8. e_valE = ValE(v, i)
  BY <1>6, <1>7 DEF e_valE, ValE, Result
<1>9. v.pc = E.pc /\ v.cc = cc /\ v.reg = Flushed /\ v.mem = mem' /\ v.stat = "AOK"
  BY <1>1 DEF OldestPC
<1>10. e_Cnd = Taken(i, v.cc)
  BY <1>4, <1>9 DEF e_Cnd, Taken
<1>11. e_dstE = Dest(i, v.cc)
  BY <1>4, <1>10 DEF e_dstE, Dest
<1>12. cc' = Codes(i, ValA(v, i), ValB(v, i), v.cc)
  BY <1>1, <1>4, <1>6, <1>7, <1>9 DEF Codes
<1>13. M'.icode = i.icode /\ M'.valE = e_valE /\ M'.valA = E.valA
  BY <1>1, <1>4 DEF NextM
<1>14. mem_write' = Writes(i) /\ mem_read' = Reads(i)
  BY <1>13 DEF mem_write, mem_read, Writes, Reads
<1>15. mem_addr' = At(v, i)
  <2>1. mem_addr' = Place(i, e_valE, E.valA)
    BY <1>13 DEF mem_addr, Place
  <2> QED
    BY <1>6, <1>8, <2>1 DEF At
<1>16. dmem_error' <=> Faults(i, At(v, i), v.mem)
  BY <1>9, <1>14, <1>15 DEF dmem_error, Faults
<1>17. m_valM' = ValM(v, i)
  BY <1>9, <1>14, <1>15, <1>16 DEF m_valM, ValM, Loaded
<1>18. Writes(i) => M'.valA = Datum(v, i)
  <2>1. i.icode = "call" => E.valA = NextPC(v, i)
    BY <1>5, <1>9 DEF After, NextPC
  <2> QED
    BY <1>6, <1>13, <2>1 DEF Writes, Datum
<1> QED
  BY <1>2, <1>3, <1>8, <1>9, <1>10, <1>11, <1>12, <1>14, <1>15, <1>16, <1>17, <1>18

\* The next instruction of the program is the oldest one that is left.
LEMMA NextOldest ==
  ASSUME InstrLimit = Unlimited, Inv, Cycle, m_stat \notin Exceptional, E.stat # "BUB",
         NEW i, i = Fetched(code, E.pc), NEW v, v = Visible
  PROVE  OldestPC' = NewPC(v, i)
<1>1. /\ Live /\ M' = NextM
      /\ E' = IF E_bubble THEN BubbleE ELSE NextE
      /\ D' = IF D_stall THEN D ELSE IF D_bubble THEN BubbleD ELSE NextD
  BY Flows
<1>2. /\ v.pc = E.pc /\ e_Cnd = Taken(i, v.cc) /\ m_valM' = ValM(v, i)
  BY Executes
<1>3. /\ E.icode = i.icode /\ E.valC = i.valC
      /\ E.icode \in {"call", "jXX"} => E.valA = After(code, E.pc)
  BY <1>1 DEF Live, Executing, Operands
<1>4. After(code, E.pc) = NextPC(v, i)
  BY <1>2 DEF After, NextPC
<1>5. M'.icode = E.icode /\ M'.cnd = e_Cnd /\ M'.valA = E.valA
  BY <1>1 DEF NextM
<1>6. CASE Mispredicted
  <2>1. E_bubble /\ ~D_stall /\ D_bubble
    BY <1>6 DEF E_bubble, D_stall, D_bubble, LoadUse, Mispredicted
  <2>2. E'.stat = "BUB" /\ D'.stat = "BUB"
    BY <1>1, <2>1 DEF BubbleE, BubbleD
  <2>3. E.icode = "jXX" /\ ~e_Cnd
    BY <1>6 DEF Mispredicted
  <2>4. OldestPC' = M'.valA
    BY <1>5, <2>2, <2>3 DEF OldestPC, f_pc
  <2> QED
    BY <1>2, <1>3, <1>4, <1>5, <2>3, <2>4 DEF NewPC
<1>7. CASE E.icode = "ret"
  <2>1. D.stat = "BUB"
    BY <1>1, <1>7 DEF Live, Path
  <2>2. ~E_bubble /\ ~D_stall /\ D_bubble
    BY <1>7 DEF E_bubble, D_stall, D_bubble, LoadUse, Mispredicted, Returning
  <2>3. E'.stat = "BUB" /\ D'.stat = "BUB"
    BY <1>1, <2>1, <2>2 DEF NextE, BubbleD
  <2>4. OldestPC' = m_valM'
    BY <1>5, <1>7, <2>3 DEF OldestPC
  <2> QED
    BY <1>2, <1>3, <1>7, <2>4 DEF NewPC
<1>8. CASE ~Mispredicted /\ E.icode # "ret"
  <2>1. D.stat # "BUB" /\ D.pc = Pred(code, E.pc)
    BY <1>1, <1>8 DEF Live, Path
  <2>2. i.icode = "jXX" => Taken(i, v.cc)
    BY <1>2, <1>3, <1>8 DEF Mispredicted
  <2>3. Pred(code, E.pc) = NewPC(v, i)
    BY <1>3, <1>4, <1>8, <2>2 DEF Pred, NewPC
  <2>4. CASE LoadUse
    <3>1. E'.stat = "BUB" /\ D' = D
      BY <1>1, <2>4 DEF E_bubble, D_stall, BubbleE
    <3> QED
      BY <2>1, <2>3, <3>1 DEF OldestPC
  <2>5. CASE ~LoadUse
    <3>1. E'.stat = D.stat /\ E'.pc = D.pc
      BY <1>1, <1>8, <2>5 DEF E_bubble, NextE
    <3> QED
      BY <2>1, <2>3, <3>1 DEF OldestPC
  <2> QED
    BY <2>4, <2>5
<1> QED
  BY <1>6, <1>7, <1>8

\* It does to the visible state what step_state does.
LEMMA Completes ==
  ASSUME InstrLimit = Unlimited, Inv, Clear, Cycle, m_stat \notin Exceptional, E.stat # "BUB"
  PROVE  /\ Visible.stat = "AOK" /\ Visible' = StepState(code, Visible)
         /\ m_stat' \notin Exceptional => Visible' \in States(DOMAIN mem')
<1>1. PICK v : v = Visible
  OBVIOUS
<1>2. PICK i : i = Fetched(code, E.pc)
  OBVIOUS
<1>3. /\ v \in States(DOMAIN mem) /\ v.pc = E.pc /\ v.reg = Flushed /\ v.stat = "AOK"
      /\ WellFormed(i)
      /\ e_valE = ValE(v, i) /\ e_dstE = Dest(i, v.cc)
      /\ m_valM' = ValM(v, i)
      /\ dmem_error' <=> Faults(i, At(v, i), v.mem)
      /\ mem_write' = Writes(i)
      /\ Writes(i) => mem_addr' = At(v, i) /\ M'.valA = Datum(v, i)
      /\ mem' = v.mem
      /\ cc' = Codes(i, ValA(v, i), ValB(v, i), v.cc)
  BY <1>1, <1>2, Executes
<1>4. /\ Live /\ W.stat \notin Exceptional /\ W' = NextW /\ M' = NextM
  BY Flows
<1>5. /\ E.icode = i.icode /\ E.stat = Fate(code, E.pc) /\ E.dstM = DstM(i)
  BY <1>2, <1>4 DEF Live, Executing
<1>6. /\ M'.icode = i.icode /\ M'.valE = ValE(v, i) /\ M'.stat = E.stat /\ M'.pc = E.pc
      /\ W'.stat \notin Exceptional
  <2>1. W'.stat = m_stat
    BY <1>4 DEF NextW
  <2> QED
    BY <1>3, <1>4, <1>5, <2>1 DEF NextM
<1>7. Written' = v.reg /\ Flushed' = SetReg(SetReg(v.reg, Dest(i, v.cc), ValE(v, i)), DstM(i), ValM(v, i))
  BY <1>3, <1>5, Flushes
<1>8. OldestPC' = NewPC(v, i)
  BY <1>1, <1>2, NextOldest
<1>9. Whole(v.pc) <=> Readable(v.pc)
  <2>1. v.pc \in Int /\ v.pc \notin MemLen - 5 .. MemLen - 1 /\ MemLen \in Nat
    <3>1. v.pc \in Word
      BY <1>3 DEF States
    <3> QED
      BY <1>1, <3>1, WordsInt, ISAAssumption DEF Clear
  <2> QED
    BY <2>1 DEF Whole, Readable
<1>10. Readable(v.pc) => i = InstrAt(code, v.pc)
  BY <1>2, <1>3, <1>9 DEF Fetched
<1>11. v = [pc |-> v.pc, reg |-> v.reg, mem |-> v.mem, cc |-> v.cc, stat |-> v.stat]
  BY <1>3 DEF States
<1>12. \A why : Stop(v, why) = [pc |-> v.pc, reg |-> v.reg, mem |-> v.mem, cc |-> v.cc, stat |-> why]
  BY <1>11 DEF Stop
<1>13. m_stat' = IF Faults(i, At(v, i), v.mem) THEN "ADR" ELSE E.stat
  BY <1>3, <1>6 DEF m_stat
<1>14. ASSUME m_stat' \in Exceptional
       PROVE  Visible' = [pc |-> v.pc,
                          reg |-> IF i.icode \in {"pushq", "call", "popq"} /\ m_stat' = "ADR"
                                  THEN SetReg(v.reg, "rsp", ValE(v, i)) ELSE v.reg,
                          mem |-> v.mem, cc |-> cc', stat |-> m_stat']
  BY <1>3, <1>6, <1>7, <1>14 DEF Visible, Failed
<1>15. ASSUME m_stat' \notin Exceptional
       PROVE  Visible' = [pc |-> NewPC(v, i), reg |-> Flushed',
                          mem |-> IF Writes(i) THEN [v.mem EXCEPT ![At(v, i)] = Datum(v, i)] ELSE v.mem,
                          cc |-> cc', stat |-> "AOK"]
  BY <1>3, <1>6, <1>8, <1>15 DEF Visible, Flushed
<1>16. CASE ~Readable(v.pc)
  <2>1. i.icode = "nop" /\ E.stat = "ADR"
    BY <1>2, <1>3, <1>5, <1>9, <1>16 DEF Fetched, NoArg, Instr, Fate
  <2>2. m_stat' = "ADR" /\ cc' = v.cc
    BY <1>3, <1>13, <2>1 DEF Codes
  <2>3. Visible' = Stop(v, "ADR")
    BY <1>12, <1>14, <2>1, <2>2 DEF Exceptional
  <2>4. StepState(code, v) = Stop(v, "ADR")
    BY <1>16 DEF StepState
  <2> QED
    BY <1>1, <1>3, <2>2, <2>3, <2>4 DEF Exceptional
<1>17. CASE Readable(v.pc) /\ i.icode \in {"halt", "bad"}
  <2>1. E.stat = IF i.icode = "halt" THEN "HLT" ELSE "INS"
    BY <1>2, <1>3, <1>5, <1>9, <1>17 DEF Fate
  <2>2. m_stat' = E.stat /\ cc' = v.cc
    BY <1>3, <1>13, <1>17 DEF Codes, Faults, Reads, Writes
  <2>3. Visible' = Stop(v, E.stat)
    BY <1>12, <1>14, <1>17, <2>1, <2>2 DEF Exceptional
  <2>4. StepState(code, v) = Stop(v, E.stat)
    BY <1>3, <1>10, <1>17, <2>1, Stepped
  <2> QED
    BY <1>1, <1>3, <2>1, <2>2, <2>3, <2>4 DEF Exceptional
<1>18. CASE Readable(v.pc) /\ i.icode \notin {"halt", "bad"} /\ Faults(i, At(v, i), v.mem)
  <2>1. m_stat' = "ADR"
    BY <1>13, <1>18
  <2>2. cc' = v.cc
    BY <1>3, <1>18 DEF Codes, Faults, Reads, Writes
  <2>3. Visible' = Fault(v, i)
    BY <1>14, <2>1, <2>2 DEF Fault, Exceptional
  <2>4. StepState(code, v) = Fault(v, i)
    BY <1>3, <1>10, <1>18, Stepped
  <2> QED
    BY <1>1, <1>3, <2>1, <2>3, <2>4 DEF Exceptional
<1>19. CASE Readable(v.pc) /\ i.icode \notin {"halt", "bad"} /\ ~Faults(i, At(v, i), v.mem)
  <2>1. E.stat = "AOK"
    BY <1>2, <1>3, <1>5, <1>9, <1>19 DEF Fate
  <2>2. m_stat' \notin Exceptional
    BY <1>13, <1>19, <2>1 DEF Exceptional
  <2>3. Visible' = Effect(v, i)
    BY <1>3, <1>7, <1>15, <2>2 DEF Effect
  <2>4. StepState(code, v) = Effect(v, i)
    BY <1>3, <1>10, <1>19, Stepped
  <2>5. Effect(v, i) \in States(DOMAIN mem) /\ DOMAIN mem' = DOMAIN mem
    <3>1. Effect(v, i) \in States(DOMAIN mem)
      BY <1>3, <1>19, EffectTyped
    <3> QED
      BY <1>3, <3>1 DEF States
  <2> QED
    BY <1>1, <1>3, <2>3, <2>4, <2>5
<1> QED
  BY <1>16, <1>17, <1>18, <1>19

\* A cycle with nothing to execute does not show.
LEMMA Waits ==
  ASSUME InstrLimit = Unlimited, Inv, Cycle, m_stat \notin Exceptional, E.stat = "BUB"
  PROVE  /\ Visible' = Visible /\ Visible' \in States(DOMAIN mem')
<1>1. /\ W.stat \notin Exceptional /\ Live /\ W' = NextW /\ M' = NextM
      /\ E' = IF E_bubble THEN BubbleE ELSE NextE
      /\ D' = IF D_stall THEN D ELSE IF D_bubble THEN BubbleD ELSE NextD
      /\ Visible = [pc |-> OldestPC, reg |-> Flushed, mem |-> mem', cc |-> cc, stat |-> "AOK"]
      /\ cc' = IF E.icode \in {"OPq", "iaddq"} THEN ComputeCC(alufun, aluA, aluB) ELSE cc
  BY Flows
<1>2. E.icode = "nop" /\ E.dstE = "none" /\ E.dstM = "none"
  BY <1>1 DEF Live, Bubbles
<1>3. cc' = cc
  BY <1>1, <1>2
<1>4. /\ M'.icode = "nop" /\ M'.stat = "BUB" /\ W'.icode = M.icode /\ W'.valM = m_valM
      /\ W'.stat = m_stat
  BY <1>1, <1>2 DEF NextM, NextW
<1>5. Flushed' = Flushed
  <2>1. Flushed' = SetReg(SetReg(Flushed, e_dstE, e_valE), E.dstM, m_valM')
    BY Flushes
  <2>2. e_dstE = "none"
    BY <1>2 DEF e_dstE
  <2> QED
    BY <1>2, <2>1, <2>2, ISAAssumption DEF SetReg, RegValid
<1>6. ~LoadUse /\ ~Mispredicted
  BY <1>2 DEF LoadUse, Mispredicted
<1>7. OldestPC' = OldestPC
  <2>1. CASE D.stat # "BUB"
    <3>1. E'.stat = D.stat /\ E'.pc = D.pc
      BY <1>1, <1>6 DEF E_bubble, NextE
    <3> QED
      BY <2>1, <3>1 DEF OldestPC
  <2>2. CASE D.stat = "BUB" /\ M.icode = "ret"
    <3>1. E'.stat = "BUB" /\ D'.stat = "BUB"
      BY <1>1, <1>6, <2>2 DEF E_bubble, NextE, D_stall, D_bubble, Returning, BubbleD
    <3>2. OldestPC' = W'.valM
      BY <1>4, <2>2, <3>1 DEF OldestPC, f_pc
    <3> QED
      BY <1>4, <2>2, <3>2 DEF OldestPC
  <2>3. CASE D.stat = "BUB" /\ M.icode # "ret"
    <3>1. D.icode = "nop"
      BY <1>1, <2>3 DEF Live, Decoding, BubbleD
    <3>2. ~Returning
      BY <1>2, <2>3, <3>1 DEF Returning
    <3>3. E'.stat = "BUB" /\ D' = NextD
      BY <1>1, <1>6, <2>3, <3>2 DEF E_bubble, NextE, D_stall, D_bubble
    <3>4. D'.pc = f_pc /\ D'.stat # "BUB"
      BY <3>3 DEF NextD, f_stat
    <3> QED
      BY <2>3, <3>3, <3>4 DEF OldestPC
  <2> QED
    BY <2>1, <2>2, <2>3
<1>8. m_stat' \notin Exceptional /\ ~mem_write'
  BY <1>4 DEF m_stat, dmem_error, mem_read, mem_write, Exceptional
<1>9. Visible' = [pc |-> OldestPC', reg |-> Flushed', mem |-> mem', cc |-> cc', stat |-> "AOK"]
  BY <1>4, <1>8 DEF Visible, Flushed
<1>10. Visible' = Visible
  BY <1>1, <1>3, <1>5, <1>7, <1>9
<1>11. DOMAIN mem' = DOMAIN mem /\ Visible \in States(DOMAIN mem)
  <2>1. Visible \in States(DOMAIN mem)
    BY <1>1 DEF Live, Typed
  <2>2. Visible.mem = mem'
    BY <1>1
  <2>3. DOMAIN Visible.mem = DOMAIN mem
    BY <2>1 DEF States
  <2> QED
    BY <2>1, <2>2, <2>3
<1> QED
  BY <1>10, <1>11

-----------------------------------------------------------------------------
(* The stages keep their parts of the invariant.                           *)

LEMMA DecodingKept ==
  ASSUME InstrLimit = Unlimited, Inv, Cycle, m_stat \notin Exceptional
  PROVE  Decoding' /\ NextD = InDecode(code, f_pc) /\ f_stat # "BUB"
                   /\ f_predPC = Pred(code, f_pc)
<1>1. PICK p : p = f_pc
  OBVIOUS
<1>2. f_instr = Fetched(code, p) /\ f_valP = After(code, p) /\ f_stat = Fate(code, p)
  BY <1>1 DEF f_instr, imem_error, Fetched, Whole, f_valP, After, f_stat, Fate
<1>3. NextD = InDecode(code, p) /\ f_stat # "BUB" /\ f_predPC = Pred(code, p)
  BY <1>1, <1>2 DEF NextD, InDecode, f_stat, f_predPC, Pred
<1>4. NextD.pc = p /\ NextD.stat # "BUB"
  BY <1>1, <1>3 DEF NextD
<1>5. /\ Live /\ code' = code
      /\ D' = IF D_stall THEN D ELSE IF D_bubble THEN BubbleD ELSE NextD
  BY Flows
<1>6. CASE D' = D
  BY <1>5, <1>6, <1>1, <1>3 DEF Live, Decoding
<1>7. CASE D' = BubbleD
  <2>1. Decoding'
    BY <1>7 DEF Decoding, BubbleD
  <2> QED
    BY <1>1, <1>3, <2>1
<1>8. CASE D' = NextD
  <2>1. Decoding'
    BY <1>3, <1>4, <1>5, <1>8 DEF Decoding
  <2> QED
    BY <1>1, <1>3, <2>1
<1> QED
  BY <1>5, <1>6, <1>7, <1>8

LEMMA ExecutingKept ==
  ASSUME InstrLimit = Unlimited, Inv, Cycle, m_stat \notin Exceptional
  PROVE  Bubbles' /\ Executing' /\ Ending'
<1>1. /\ Live /\ code' = code /\ M' = NextM
      /\ E' = IF E_bubble THEN BubbleE ELSE NextE
  BY Flows
<1>2. Bubbles' /\ Executing'
  <2>1. CASE E' = BubbleE
    BY <2>1 DEF BubbleE, Bubbles, Executing
  <2>2. CASE E' = NextE /\ D.stat = "BUB"
    <3>1. D.icode = "nop" /\ D.rA = "none" /\ D.rB = "none"
      BY <1>1, <2>2 DEF Live, Decoding, BubbleD
    <3>2. E'.stat = "BUB" /\ E'.icode = "nop" /\ E'.dstE = "none" /\ E'.dstM = "none"
      BY <2>2, <3>1 DEF NextE, d_dstE, d_dstM
    <3> QED
      BY <3>2 DEF Bubbles, Executing
  <2>3. CASE E' = NextE /\ D.stat # "BUB"
    <3>1. PICK p : p = D.pc
      OBVIOUS
    <3>2. D = InDecode(code, p)
      BY <1>1, <2>3, <3>1 DEF Live, Decoding
    <3>3. /\ D.icode = Fetched(code, p).icode /\ D.ifun = Fetched(code, p).ifun
          /\ D.rA = Fetched(code, p).rA /\ D.rB = Fetched(code, p).rB
          /\ D.valC = Fetched(code, p).valC /\ D.stat = Fate(code, p)
      BY <3>2 DEF InDecode
    <3>4. d_dstE = DstE(Fetched(code, p)) /\ d_dstM = DstM(Fetched(code, p))
      BY <3>3 DEF d_dstE, d_dstM, DstE, DstM
    <3>5. /\ E'.icode = D.icode /\ E'.ifun = D.ifun /\ E'.valC = D.valC /\ E'.pc = p
          /\ E'.stat = D.stat /\ E'.dstE = d_dstE /\ E'.dstM = d_dstM
      BY <2>3, <3>1 DEF NextE
    <3> QED
      BY <1>1, <2>3, <3>3, <3>4, <3>5 DEF Bubbles, Executing
  <2> QED
    BY <1>1, <2>1, <2>2, <2>3
<1>3. Ending'
  <2>1. M'.stat = E.stat /\ M'.icode = E.icode
    BY <1>1 DEF NextM
  <2>2. CASE E.stat = "BUB"
    BY <2>1, <2>2 DEF Ending, Exceptional
  <2>3. CASE E.stat # "BUB"
    <3>1. E.icode = Fetched(code, E.pc).icode /\ E.stat = Fate(code, E.pc)
      BY <1>1, <2>3 DEF Live, Executing
    <3>2. E.stat \in Exceptional => E.icode \in {"nop", "halt", "bad"}
      BY <3>1 DEF Fate, Fetched, NoArg, Instr, Exceptional
    <3> QED
      BY <2>1, <3>2 DEF Ending
  <2> QED
    BY <2>2, <2>3
<1> QED
  BY <1>2, <1>3

LEMMA OperandsKept ==
  ASSUME InstrLimit = Unlimited, Inv, Cycle, m_stat \notin Exceptional
  PROVE  Operands'
<1>1. /\ Live /\ code' = code
      /\ E' = IF E_bubble THEN BubbleE ELSE NextE
  BY Flows
<1>2. DOMAIN reg = Regs
  BY <1>1 DEF Live, Typed
<1>3. CASE E' = BubbleE \/ D.stat = "BUB"
  <2>1. E'.stat = "BUB"
    BY <1>1, <1>3 DEF BubbleE, NextE
  <2> QED
    BY <2>1 DEF Operands
<1>4. CASE ~E_bubble /\ D.stat # "BUB"
  <2>1. PICK i : i = Fetched(code, D.pc)
    OBVIOUS
  <2>2. D = InDecode(code, D.pc)
    BY <1>1, <1>4 DEF Live, Decoding
  <2>3. /\ D.icode = i.icode /\ D.rA = i.rA /\ D.rB = i.rB /\ D.valP = After(code, D.pc)
    BY <2>1, <2>2 DEF InDecode
  <2>4. d_srcA = SrcA(i) /\ d_srcB = SrcB(i)
    BY <2>3 DEF d_srcA, d_srcB, SrcA, SrcB
  <2>5. /\ E'.valA = d_valA /\ E'.valB = d_valB /\ E'.icode = i.icode /\ E'.pc = D.pc
    BY <1>1, <1>4, <2>3 DEF NextE
  <2>6. \A r \in Regs : r \in {d_srcA, d_srcB} => E.dstM # r
    <3>1. CASE E.icode \in {"mrmovq", "popq"}
      BY <1>4, <3>1 DEF E_bubble, LoadUse
    <3>2. CASE E.icode \notin {"mrmovq", "popq"}
      <4>1. E.dstM = "none"
        BY <1>1, <3>2 DEF Live, Bubbles, Executing, DstM
      <4> QED
        BY <4>1, ISAAssumption
    <3> QED
      BY <3>1, <3>2
  <2>7. ASSUME NEW r \in Regs, r \in {d_srcA, d_srcB}
        PROVE  Forward(r) = Flushed'[r]
    <3>1. PICK g : g = SetReg(Flushed, e_dstE, e_valE)
      OBVIOUS
    <3>2. DOMAIN g = Regs
      BY <1>2, <3>1, FlushedDomain, SetGet
    <3>3. PICK v : v = m_valM'
      OBVIOUS
    <3>4. Flushed' = SetReg(g, E.dstM, v)
      BY <3>1, <3>3, Flushes
    <3>5. SetReg(g, E.dstM, v)[r] = g[r]
      BY <2>6, <2>7, <3>2, SetGet
    <3> QED
      BY <1>2, <3>1, <3>4, <3>5, Forwards
  <2>8. i.icode \in {"call", "jXX"} => E'.valA = After(code, D.pc)
    BY <2>3, <2>5 DEF d_valA
  <2>9. SrcA(i) \in Regs => E'.valA = Flushed'[SrcA(i)]
    <3>1. SrcA(i) \in Regs => i.icode \notin {"call", "jXX"}
      BY ISAAssumption DEF SrcA
    <3> QED
      BY <2>3, <2>4, <2>5, <2>7, <3>1 DEF d_valA
  <2>10. SrcB(i) \in Regs => E'.valB = Flushed'[SrcB(i)]
    BY <2>4, <2>5, <2>7 DEF d_valB
  <2>11. Fetched(code', E'.pc) = i /\ After(code', E'.pc) = After(code, D.pc)
    BY <1>1, <2>1, <2>5
  <2> QED
    BY <2>5, <2>8, <2>9, <2>10, <2>11 DEF Operands
<1> QED
  BY <1>1, <1>3, <1>4

LEMMA PathKept ==
  ASSUME InstrLimit = Unlimited, Inv, Cycle, m_stat \notin Exceptional
  PROVE  Path'
<1>1. /\ Live /\ code' = code /\ M' = NextM /\ W' = NextW
      /\ E' = IF E_bubble THEN BubbleE ELSE NextE
      /\ D' = IF D_stall THEN D ELSE IF D_bubble THEN BubbleD ELSE NextD
      /\ F' = IF F_stall THEN F ELSE f_predPC
  BY Flows
<1>2. /\ NextD = InDecode(code, f_pc) /\ f_stat # "BUB" /\ f_predPC = Pred(code, f_pc)
      /\ NextD.pc = f_pc /\ NextD.stat = f_stat
  BY DecodingKept DEF NextD
<1>3. Path /\ (E.stat = "BUB" => E.icode = "nop") /\ (D.stat = "BUB" => D.icode = "nop")
  BY <1>1 DEF Live, Bubbles, Decoding, BubbleD
<1>4. /\ W'.icode = M.icode /\ M'.icode = E.icode /\ M'.cnd = e_Cnd
      /\ BubbleE.stat = "BUB" /\ BubbleD.stat = "BUB"
      /\ NextE.stat = D.stat /\ NextE.icode = D.icode /\ NextE.pc = D.pc
  BY <1>1 DEF NextW, NextM, NextE, BubbleE, BubbleD
<1>5. ASSUME E'.stat # "BUB"
      PROVE  /\ ~LoadUse /\ ~Mispredicted /\ D.stat # "BUB"
             /\ E'.icode = D.icode /\ E'.pc = D.pc /\ f_pc = F
             /\ (Returning <=> D.icode = "ret")
             /\ D' = IF D.icode = "ret" THEN BubbleD ELSE NextD
  <2>1. ~E_bubble /\ E' = NextE
    BY <1>1, <1>4, <1>5
  <2>2. ~LoadUse /\ ~Mispredicted /\ D.stat # "BUB" /\ E'.icode = D.icode /\ E'.pc = D.pc
    BY <1>4, <1>5, <2>1 DEF E_bubble
  <2>3. f_pc = F /\ M.icode # "ret" /\ E.icode # "ret"
    BY <1>3, <2>2 DEF Path, f_pc
  <2>4. Returning <=> D.icode = "ret"
    BY <2>3 DEF Returning
  <2>5. D' = IF D.icode = "ret" THEN BubbleD ELSE NextD
    BY <1>1, <2>2, <2>4 DEF D_stall, D_bubble
  <2> QED
    BY <2>2, <2>3, <2>4, <2>5
<1>6. E'.stat # "BUB" /\ D'.stat = "BUB" => E'.icode = "ret"
  BY <1>2, <1>5
<1>7. E'.stat # "BUB" /\ E'.icode = "ret" => D'.stat = "BUB"
  BY <1>4, <1>5
<1>8. M'.icode = "ret" \/ (M'.icode = "jXX" /\ ~M'.cnd) => D'.stat = "BUB" /\ E'.stat = "BUB"
  <2>1. CASE E.icode = "ret"
    <3>1. D.stat = "BUB" /\ ~LoadUse /\ Returning
      BY <1>3, <2>1 DEF Path, LoadUse, Returning
    <3> QED
      BY <1>1, <1>4, <3>1 DEF D_stall, D_bubble
  <2>2. CASE E.icode = "jXX" /\ ~e_Cnd
    <3>1. Mispredicted /\ ~LoadUse
      BY <2>2 DEF Mispredicted, LoadUse
    <3> QED
      BY <1>1, <1>4, <3>1 DEF D_stall, D_bubble, E_bubble
  <2> QED
    BY <1>4, <2>1, <2>2
<1>9. W'.icode = "ret" => D'.stat = "BUB" /\ E'.stat = "BUB" /\ M'.icode = "nop"
  <2> SUFFICES ASSUME M.icode = "ret"
               PROVE  D'.stat = "BUB" /\ E'.stat = "BUB" /\ M'.icode = "nop"
    BY <1>4
  <2>1. D.stat = "BUB" /\ E.stat = "BUB" /\ E.icode = "nop" /\ Returning
    BY <1>3 DEF Path, Returning
  <2>2. ~LoadUse
    BY <2>1 DEF LoadUse
  <2> QED
    BY <1>1, <1>4, <2>1, <2>2 DEF D_stall, D_bubble
<1>10. E'.stat # "BUB" /\ D'.stat # "BUB" => D'.pc = Pred(code', E'.pc)
  BY <1>1, <1>2, <1>3, <1>4, <1>5 DEF Path
<1>11. D'.stat # "BUB" => F' = Pred(code', D'.pc)
  <2> SUFFICES ASSUME D'.stat # "BUB"
               PROVE  F' = Pred(code, D'.pc)
    BY <1>1
  <2>1. CASE LoadUse
    BY <1>1, <1>3, <2>1 DEF D_stall, F_stall, Path
  <2>2. CASE ~LoadUse
    <3>1. ~D_bubble /\ D' = NextD
      BY <1>1, <1>4, <2>2 DEF D_stall
    <3>2. ~F_stall
      BY <2>2, <3>1 DEF D_bubble, F_stall
    <3> QED
      BY <1>1, <1>2, <3>1, <3>2
  <2> QED
    BY <2>1, <2>2
<1> QED
  BY <1>6, <1>7, <1>8, <1>9, <1>10, <1>11 DEF Path

-----------------------------------------------------------------------------
(* The step of the machine in module Y86 is that of module ISA.            *)
LEMMA SameStep ==
  ASSUME NEW c, NEW s
  PROVE  ISAMachine!StepState(c, s) = StepState(c, s)
BY DEF Stop, Goto, With, Store, BadRegister, NextPC, Address, Rrmovq, Irmovq, Rmmovq, Mrmovq,
   Alu, OPq, Iaddq, JXX, Push, Call, Pushq, Ret, Popq, Execute, StepState, Readable, InstrAt,
   NoArg, Instr, RegValid, GetReg, SetReg, Size, NeedRegids, NeedImm, ComputeAlu, ComputeCC,
   CondHolds, Wrap, Half, And, Xor, FromBits, Bit, MapThenSumSet, MapThenFoldSet,
   ISAMachine!Stop, ISAMachine!Goto, ISAMachine!With, ISAMachine!Store,
   ISAMachine!BadRegister, ISAMachine!NextPC, ISAMachine!Address, ISAMachine!Rrmovq,
   ISAMachine!Irmovq, ISAMachine!Rmmovq, ISAMachine!Mrmovq, ISAMachine!Alu, ISAMachine!OPq,
   ISAMachine!Iaddq, ISAMachine!JXX, ISAMachine!Push, ISAMachine!Call, ISAMachine!Pushq,
   ISAMachine!Ret, ISAMachine!Popq, ISAMachine!Execute, ISAMachine!StepState,
   ISAMachine!Readable, ISAMachine!InstrAt, ISAMachine!NoArg, ISAMachine!Instr,
   ISAMachine!RegValid, ISAMachine!GetReg, ISAMachine!SetReg, ISAMachine!Size,
   ISAMachine!NeedRegids, ISAMachine!NeedImm, ISAMachine!ComputeAlu, ISAMachine!ComputeCC,
   ISAMachine!CondHolds, ISAMachine!Wrap, ISAMachine!Half, ISAMachine!And, ISAMachine!Xor,
   ISAMachine!FromBits, ISAMachine!Bit, ISAMachine!MapThenSumSet, ISAMachine!MapThenFoldSet


LEMMA Starts ==
  ASSUME Programs, Init
  PROVE  Inv /\ ISAMachine!Init
<1>1. /\ Code /\ mem \in [DOMAIN mem -> Word]
  BY DEF Init, Programs, Loadable, Code
<1>2. /\ reg = [r \in Regs |-> 0] /\ cc = DefaultCC /\ F = 0
      /\ D = BubbleD /\ D.stat = "BUB"
      /\ E.icode = "nop" /\ E.stat = "BUB" /\ E.dstE = "none" /\ E.dstM = "none"
      /\ M.icode = "nop" /\ M.stat = "BUB" /\ M.dstE = "none" /\ M.dstM = "none"
      /\ W.icode = "nop" /\ W.stat = "BUB" /\ W.dstE = "none" /\ W.dstM = "none"
  BY DEF Init, BubbleD, BubbleE, BubbleM, BubbleW
<1>3. m_stat = "BUB" /\ ~mem_write
  BY <1>2 DEF m_stat, dmem_error, mem_read, mem_write
<1>4. OldestPC = 0
  BY <1>2 DEF OldestPC, f_pc
<1>5. Written = reg /\ Flushed = reg
  BY <1>2, ISAAssumption DEF Written, Flushed, SetReg, RegValid
<1>6. Visible = Boot(mem)
  BY <1>2, <1>3, <1>4, <1>5 DEF Visible, Flushed, Boot, Exceptional
<1>7. Boot(mem) \in States(DOMAIN mem)
  BY <1>1, WordsInt DEF Boot, States, DefaultCC, CCs, Stats
<1>8. Typed
  BY <1>2, <1>6, <1>7 DEF Typed
<1>9. Decoding /\ Bubbles /\ Executing /\ Operands /\ Ending /\ Path
  BY <1>2 DEF Decoding, Bubbles, Executing, Operands, Ending, Path, Exceptional
<1>10. Boot(mem) = ISAMachine!Boot(mem) /\ Boot(mem).mem = mem
  BY DEF Boot, ISAMachine!Boot, DefaultCC, ISAMachine!DefaultCC
<1> QED
  BY <1>1, <1>6, <1>8, <1>9, <1>10 DEF Inv, Live, ISAMachine!Init

LEMMA Steps ==
  ASSUME InstrLimit = Unlimited, Inv, Clear, Cycle
  PROVE  /\ Inv'
         /\ \/ Visible' = Visible
            \/ Visible.stat = "AOK" /\ Visible' = StepState(code, Visible)
<1>1. CASE m_stat \in Exceptional
  BY <1>1, Halts
<1>2. CASE m_stat \notin Exceptional
  <2>1. code' = code /\ reg' = Written /\ DOMAIN reg = Regs
    BY <1>2, Flows DEF Live, Typed
  <2>2. DOMAIN reg' = Regs /\ Code'
    BY <2>1, FlushedDomain DEF Inv, Code
  <2>3. /\ m_stat' \notin Exceptional => Visible' \in States(DOMAIN mem')
        /\ \/ Visible' = Visible
           \/ Visible.stat = "AOK" /\ Visible' = StepState(code, Visible)
    BY <1>2, Waits, Completes
  <2>4. Typed'
    BY <2>2, <2>3 DEF Typed
  <2>5. Live'
    BY <1>2, <2>4, DecodingKept, ExecutingKept, OperandsKept, PathKept DEF Live
  <2> QED
    BY <2>2, <2>3, <2>5 DEF Inv
<1> QED
  BY <1>1, <1>2

(* The pipelined processor (psim.c with pipe-full.hcl) does in every cycle *)
(* what step_state does to the registers, the memory, the condition codes, *)
(* the program counter and the status, or nothing that shows: for any size *)
(* of the word and of the memory and any programs of Programs, as long as  *)
(* the last five bytes are not executed.                                   *)
THEOREM PipeCorrect ==
  ASSUME Programs
  PROVE  Spec /\ []Clear => PipeImplementsISA
<1>1. Init => Inv /\ ISAMachine!Init
  BY Starts
<1>2. Inv /\ Clear /\ [Next]_vars => Inv' /\ [ISAMachine!Step]_(ISAMachine!vars)
  <2> SUFFICES ASSUME Inv, Clear, [Next]_vars
               PROVE  Inv' /\ [ISAMachine!Step]_(ISAMachine!vars)
    OBVIOUS
  <2>1. CASE Cycle
    <3>1. /\ Inv' /\ code' = code
          /\ \/ Visible' = Visible
             \/ Visible.stat = "AOK" /\ Visible' = StepState(code, Visible)
      BY <2>1, Steps DEF Programs, Cycle
    <3>2. CASE Visible' = Visible
      BY <3>1, <3>2 DEF ISAMachine!vars
    <3>3. CASE Visible.stat = "AOK" /\ Visible' = StepState(code, Visible)
      <4>1. Visible' = ISAMachine!StepState(code, Visible)
        BY <3>3, SameStep
      <4> QED
        BY <3>1, <3>3, <4>1 DEF ISAMachine!Step
    <3> QED
      BY <3>1, <3>2, <3>3
  <2>2. CASE UNCHANGED vars
    <3>1. /\ code' = code /\ reg' = reg /\ mem' = mem /\ cc' = cc
          /\ F' = F /\ D' = D /\ E' = E /\ M' = M /\ W' = W
      BY <2>2 DEF vars, state, pipes
    <3>2. m_stat' = m_stat /\ m_valM' = m_valM /\ mem_write' = mem_write
          /\ mem_addr' = mem_addr /\ Written' = Written /\ f_pc' = f_pc
      BY <3>1 DEF m_stat, m_valM, mem_write, mem_read, mem_addr, dmem_error, Written, f_pc
    <3>3. Visible' = Visible /\ Flushed' = Flushed
      BY <3>1, <3>2 DEF Visible, Failed, OldestPC, Flushed
    <3>4. Inv'
      BY <3>1, <3>2, <3>3 DEF Inv, Code, Live, Typed, Decoding, Bubbles, Executing, Operands,
         Ending, Path
    <3> QED
      BY <3>1, <3>3, <3>4 DEF ISAMachine!vars
  <2> QED
    BY <2>1, <2>2 DEF Next
<1> QED
  BY <1>1, <1>2, PTL DEF Spec, PipeImplementsISA, ISAMachine!Spec

(* The control logic of pipe-full.hcl never tells a pipeline register to   *)
(* stall and to take a bubble at once (pipe_cntl's error), in any program. *)
THEOREM NeverBoth == Spec => []NoConflict
BY Conflictless, PTL
=============================================================================
