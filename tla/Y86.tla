-------------------------------- MODULE Y86 --------------------------------
(***************************************************************************)
(* The instruction set as a machine: one instruction at a time until one   *)
(* of them stops it.  This is the specification that the pipelined and the *)
(* sequential processor implement (modules Pipe and Seq).                  *)
(***************************************************************************)
EXTENDS ISA

VARIABLES
  code,    \* the loaded program
  st       \* the machine state, a record of pc, reg, mem, cc and stat

vars == <<code, st>>

\* Any program may be loaded, with any contents of the memory.
Init == st = Boot(st.mem)

Step == /\ st.stat = "AOK"
        /\ st' = StepState(code, st)
        /\ UNCHANGED code

Spec == Init /\ [][Step]_vars
=============================================================================
