------------------------------ MODULE SeqProofs -----------------------------
(* The sequential processor implements the instruction set.                *)
EXTENDS Seq, ISAProofs

Programs == \A image \in Images : Loadable(image.code, image.mem, DOMAIN image.mem)

-----------------------------------------------------------------------------
(* The signals of a cycle are those of the data path.                      *)

LEMMA SignalsAre ==
  ASSUME NEW A, NEW s \in States(A), NEW i, WellFormed(i),
         i = IF ~Readable(s.pc) THEN NoArg("nop") ELSE InstrAt(code, s.pc)
  PROVE  /\ Signals(s).next.pc = NewPC(s, i)
         /\ Signals(s).next.cc = Codes(i, ValA(s, i), ValB(s, i), s.cc)
         /\ Signals(s).next.dstE = Dest(i, s.cc)
         /\ Signals(s).next.valE = ValE(s, i)
         /\ Signals(s).next.dstM = DstM(i)
         /\ Signals(s).next.valM = ValM(s, i)
         /\ Signals(s).next.write = Writes(i)
         /\ Writes(i) => Signals(s).next.addr = At(s, i)
         /\ Signals(s).next.data = Datum(s, i)
         /\ Signals(s).stat = CASE ~Readable(s.pc) \/ Faults(i, At(s, i), s.mem) -> "ADR"
                                [] Readable(s.pc) /\ i.icode = "bad"  -> "INS"
                                [] Readable(s.pc) /\ i.icode = "halt" -> "HLT"
                                [] OTHER -> "AOK"
<1>1. Signals(s).next.write = Writes(i)
  BY DEF Signals, Writes
<1>2. Signals(s).next.dstM = DstM(i)
  BY DEF Signals, DstM
<1>3. Signals(s).next.dstE = Dest(i, s.cc)
  BY DEF Signals, Dest, DstE, Taken
<1>4. Signals(s).next.data = Datum(s, i)
  BY DEF Signals, Datum, ValA, SrcA, NextPC
<1>5. Signals(s).next.valE = ValE(s, i)
  <2> DEFINE b == IF i.icode \in {"rrmovq", "irmovq"} THEN 0 ELSE ValB(s, i)
  <2>1. Signals(s).next.valE = ComputeAlu(AluFun(i), AluA(i, ValA(s, i)), b)
    BY DEF Signals, ValA, SrcA, ValB, SrcB, AluA, AluFun
  <2>2. b = AluB(i, ValB(s, i))
    <3>1. i.icode \in Icodes
      BY DEF WellFormed
    <3>2. GetReg(s.reg, "none") = 0
      BY ISAAssumption DEF GetReg, RegValid
    <3> QED
      BY <3>1, <3>2 DEF AluB, ValB, SrcB, Icodes
  <2> QED
    BY <2>1, <2>2 DEF ValE, Result
<1>6. Signals(s).next.cc = Codes(i, ValA(s, i), ValB(s, i), s.cc)
  BY DEF Signals, Codes, ValA, SrcA, ValB, SrcB, AluA, AluB, AluFun
<1>7. Signals(s).next.addr = IF i.icode \in {"popq", "ret"} THEN ValA(s, i) ELSE Signals(s).next.valE
  BY DEF Signals, ValA, SrcA
<1>8. Reads(i) \/ Writes(i) => Signals(s).next.addr = At(s, i)
  BY <1>5, <1>7 DEF Reads, Writes, At, Place
<1> DEFINE addr == Signals(s).next.addr
           fault == (Reads(i) \/ Writes(i)) /\ addr \notin DOMAIN s.mem
<1>9. fault <=> Faults(i, At(s, i), s.mem)
  BY <1>8 DEF Faults
<1>10. Signals(s).next.valM = IF Reads(i) /\ ~fault THEN s.mem[addr] ELSE 0
  BY DEF Signals, Reads, Writes
<1>11. Signals(s).next.valM = ValM(s, i)
  BY <1>8, <1>9, <1>10 DEF ValM, Loaded
<1>12. Signals(s).next.pc = NewPC(s, i)
  <2>1. Signals(s).next.pc = CASE i.icode = "call"                          -> i.valC
                               [] i.icode = "jXX" /\ Taken(i, s.cc)         -> i.valC
                               [] i.icode = "ret"   -> Signals(s).next.valM
                               [] OTHER             -> NextPC(s, i)
    BY DEF Signals, Taken, NextPC
  <2> QED
    BY <1>11, <2>1 DEF NewPC
<1>13. Signals(s).stat = CASE ~Readable(s.pc) \/ fault -> "ADR"
                           [] Readable(s.pc) /\ i.icode = "bad"  -> "INS"
                           [] Readable(s.pc) /\ i.icode = "halt" -> "HLT"
                           [] OTHER -> "AOK"
  BY DEF Signals, Reads, Writes
<1> QED
  BY <1>1, <1>2, <1>3, <1>4, <1>5, <1>6, <1>8, <1>9, <1>11, <1>12, <1>13

(* The step of the machine in module Y86 is that of module ISA.            *)
LEMMA SameStep ==
  ASSUME NEW c, NEW s
  PROVE  ISAMachine!StepState(c, s) = StepState(c, s)
BY DEF Stop, Goto, With, Store, BadRegister, NextPC, Address, Rrmovq, Irmovq, Rmmovq, Mrmovq,
   Alu, OPq, Iaddq, JXX, Push, Call, Pushq, Ret, Popq, Execute, StepState, Readable, InstrAt,
   NoArg, Instr, RegValid, GetReg, SetReg, Size, NeedRegids, NeedImm, ComputeAlu, ComputeCC,
   CondHolds, Wrap, Half, And, Xor, FromBits, Bit, MapThenSumSet, MapThenFoldSet,
   ISAMachine!Stop, ISAMachine!Goto, ISAMachine!With, ISAMachine!Store,
   ISAMachine!BadRegister, ISAMachine!NextPC, ISAMachine!Address, ISAMachine!Rrmovq,
   ISAMachine!Irmovq, ISAMachine!Rmmovq, ISAMachine!Mrmovq, ISAMachine!Alu, ISAMachine!OPq,
   ISAMachine!Iaddq, ISAMachine!JXX, ISAMachine!Push, ISAMachine!Call, ISAMachine!Pushq,
   ISAMachine!Ret, ISAMachine!Popq, ISAMachine!Execute, ISAMachine!StepState,
   ISAMachine!Readable, ISAMachine!InstrAt, ISAMachine!NoArg, ISAMachine!Instr,
   ISAMachine!RegValid, ISAMachine!GetReg, ISAMachine!SetReg, ISAMachine!Size,
   ISAMachine!NeedRegids, ISAMachine!NeedImm, ISAMachine!ComputeAlu, ISAMachine!ComputeCC,
   ISAMachine!CondHolds, ISAMachine!Wrap, ISAMachine!Half, ISAMachine!And, ISAMachine!Xor,
   ISAMachine!FromBits, ISAMachine!Bit, ISAMachine!MapThenSumSet, ISAMachine!MapThenFoldSet

-----------------------------------------------------------------------------
(* What is pending is a state of the machine while nothing has failed.     *)
Inv ==
  /\ \A a \in DOMAIN code : Readable(a) /\ WellFormed(code[a])
  /\ status \in Stats
  /\ status = "AOK" => Stored \in States(DOMAIN mem)

LEMMA Starts ==
  ASSUME Programs, Init
  PROVE  Inv /\ ISAMachine!Init
<1>1. /\ \A a \in DOMAIN code : Readable(a) /\ WellFormed(code[a])
      /\ mem \in [DOMAIN mem -> Word]
  BY DEF Init, Programs, Loadable
<1>2. Stored = Boot(mem)
  <2>1. /\ pending.pc = 0 /\ pending.cc = DefaultCC /\ pending.write = FALSE
        /\ pending.dstE = "none" /\ pending.dstM = "none"
        /\ reg = [r \in Regs |-> 0]
    BY DEF Init, Reset, Nothing
  <2>2. Written = reg
    BY <2>1, ISAAssumption DEF Written, SetReg, RegValid
  <2> QED
    BY <2>1, <2>2 DEF Stored, Boot
<1>3. Boot(mem) \in States(DOMAIN mem)
  BY <1>1, WordsInt DEF Boot, States, DefaultCC, CCs, Stats
<1>4. status = "AOK"
  BY DEF Init, Reset
<1>5. Visible = Boot(mem)
  BY <1>2, <1>4 DEF Visible
<1>6. Boot(mem) = ISAMachine!Boot(mem) /\ Boot(mem).mem = mem
  BY DEF Boot, ISAMachine!Boot, DefaultCC, ISAMachine!DefaultCC
<1> QED
  BY <1>1, <1>2, <1>3, <1>4, <1>5, <1>6 DEF Inv, Stats, ISAMachine!Init

LEMMA Steps ==
  ASSUME Inv, Step
  PROVE  Inv' /\ Visible.stat = "AOK" /\ Visible' = StepState(code, Visible)
<1> DEFINE A == DOMAIN mem
<1>1. PICK s : s = Stored
  OBVIOUS
<1>2. s \in States(A) /\ s.stat = "AOK" /\ Visible = s
  BY <1>1 DEF Inv, Step, Stored, Visible
<1>3. /\ pc' = s.pc /\ reg' = s.reg /\ mem' = s.mem /\ cc' = s.cc /\ code' = code
      /\ pending' = Signals(s).next /\ status' = Signals(s).stat
  BY <1>1 DEF Step
<1>4. PICK i : i = IF ~Readable(s.pc) THEN NoArg("nop") ELSE InstrAt(code, s.pc)
  OBVIOUS
<1>5. WellFormed(i) /\ WellFormed(InstrAt(code, s.pc))
  BY <1>4, FetchedWellFormed DEF Inv
<1>6. PICK n : n = Signals(s).next
  OBVIOUS
<1>7. /\ n.pc = NewPC(s, i) /\ n.cc = Codes(i, ValA(s, i), ValB(s, i), s.cc)
      /\ n.dstE = Dest(i, s.cc) /\ n.valE = ValE(s, i) /\ n.dstM = DstM(i) /\ n.valM = ValM(s, i)
      /\ n.write = Writes(i) /\ (Writes(i) => n.addr = At(s, i)) /\ n.data = Datum(s, i)
  BY <1>2, <1>4, <1>5, <1>6, SignalsAre
<1>8. status' = CASE ~Readable(s.pc) \/ Faults(i, At(s, i), s.mem) -> "ADR"
                  [] Readable(s.pc) /\ i.icode = "bad"  -> "INS"
                  [] Readable(s.pc) /\ i.icode = "halt" -> "HLT"
                  [] OTHER -> "AOK"
  BY <1>2, <1>3, <1>4, <1>5, SignalsAre
<1>9. (\A a \in DOMAIN code : Readable(a) /\ WellFormed(code[a]))'
  BY <1>3 DEF Inv
<1>10. DOMAIN s.mem = A /\ A' = A
  BY <1>2, <1>3 DEF States
<1>11. CASE status' = "AOK"
  <2>1. /\ Readable(s.pc) /\ ~Faults(i, At(s, i), s.mem) /\ i.icode \notin {"bad", "halt"}
        /\ i = InstrAt(code, s.pc)
    BY <1>4, <1>8, <1>11
  <2>2. Stored' = Effect(s, i)
    BY <1>2, <1>3, <1>6, <1>7 DEF Stored, Written, Effect
  <2>3. StepState(code, s) = Effect(s, i)
    BY <1>2, <1>5, <2>1, Stepped
  <2>4. Effect(s, i) \in States(A)
    BY <1>2, <1>5, <2>1, EffectTyped
  <2>5. Visible' = Stored'
    BY <1>11 DEF Visible
  <2>6. Inv'
    BY <1>9, <1>10, <1>11, <2>2, <2>4 DEF Inv, Stats
  <2> QED
    BY <1>2, <2>2, <2>3, <2>5, <2>6
<1>12. CASE status' # "AOK"
  <2>1. Visible' = [pc |-> s.pc,
                    reg |-> IF status' = "ADR" /\ InstrAt(code, s.pc).icode \in {"pushq", "call", "popq"}
                            THEN [s.reg EXCEPT !["rsp"] = ValE(s, i)] ELSE s.reg,
                    mem |-> s.mem, cc |-> s.cc, stat |-> status']
    BY <1>3, <1>6, <1>7, <1>12 DEF Visible
  <2>2. Inv'
    BY <1>8, <1>9, <1>12 DEF Inv, Stats
  <2>3. s = [pc |-> s.pc, reg |-> s.reg, mem |-> s.mem, cc |-> s.cc, stat |-> s.stat]
    BY <1>2 DEF States
  <2>4. \A why : Stop(s, why) = [pc |-> s.pc, reg |-> s.reg, mem |-> s.mem, cc |-> s.cc, stat |-> why]
    BY <2>3 DEF Stop
  <2>5. Visible' = StepState(code, s)
    <3>1. CASE ~Readable(s.pc)
      <4>1. InstrAt(code, s.pc) = NoArg("halt")
        BY <3>1 DEF Inv, InstrAt
      <4>2. Visible' = Stop(s, "ADR")
        BY <1>8, <2>1, <2>4, <3>1, <4>1 DEF NoArg, Instr
      <4> QED
        BY <1>2, <1>5, <3>1, <4>2, Stepped
    <3>2. CASE Readable(s.pc) /\ Faults(i, At(s, i), s.mem)
      <4>1. status' = "ADR" /\ i = InstrAt(code, s.pc) /\ i.icode \notin {"bad", "halt"}
        BY <1>4, <1>8, <3>2 DEF Faults, Reads, Writes
      <4>2. Visible' = Fault(s, i)
        BY <2>1, <4>1, ISAAssumption DEF Fault, SetReg, RegValid
      <4> QED
        BY <1>2, <1>5, <3>2, <4>1, <4>2, Stepped
    <3>3. CASE Readable(s.pc) /\ ~Faults(i, At(s, i), s.mem)
      <4>1. /\ i = InstrAt(code, s.pc) /\ i.icode \in {"bad", "halt"}
            /\ status' = IF i.icode = "bad" THEN "INS" ELSE "HLT"
        BY <1>4, <1>8, <1>12, <3>3
      <4>2. Visible' = Stop(s, status')
        BY <2>1, <2>4, <4>1
      <4> QED
        BY <1>2, <1>5, <3>3, <4>1, <4>2, Stepped
    <3> QED
      BY <3>1, <3>2, <3>3
  <2> QED
    BY <1>2, <2>2, <2>5
<1> QED
  BY <1>11, <1>12

(* The sequential processor (ssim.c with seq-full.hcl) does in every cycle *)
(* what step_state does, to the registers, the memory, the condition       *)
(* codes, the program counter and the status: for any size of the word and *)
(* of the memory and any programs in which every instruction that takes a  *)
(* register names one.                                                     *)
THEOREM SeqCorrect ==
  ASSUME Programs
  PROVE  Spec => SeqImplementsISA
<1>1. Init => Inv /\ ISAMachine!Init
  BY Starts
<1>2. Inv /\ [Step]_vars => Inv' /\ [ISAMachine!Step]_(ISAMachine!vars)
  <2> SUFFICES ASSUME Inv, [Step]_vars
               PROVE  Inv' /\ [ISAMachine!Step]_(ISAMachine!vars)
    OBVIOUS
  <2>1. CASE Step
    <3>1. Inv' /\ Visible.stat = "AOK" /\ Visible' = StepState(code, Visible)
      BY <2>1, Steps
    <3>2. Visible' = ISAMachine!StepState(code, Visible) /\ code' = code
      BY <2>1, <3>1, SameStep DEF Step
    <3> QED
      BY <3>1, <3>2 DEF ISAMachine!Step
  <2>2. CASE UNCHANGED vars
    <3>1. Visible' = Visible /\ code' = code
      BY <2>2 DEF vars, Visible, Stored, Written
    <3>2. Inv'
      BY <2>2 DEF vars, Inv, Stored, Written
    <3> QED
      BY <3>1, <3>2 DEF ISAMachine!vars
  <2> QED
    BY <2>1, <2>2
<1> QED
  BY <1>1, <1>2, PTL DEF Spec, SeqImplementsISA, ISAMachine!Spec
=============================================================================
