------------------------------- MODULE KBest -------------------------------
(* The measurement of the performance lab: the cycle counter in two words  *)
(* and its correction for timer interrupts (clock.c), and the K-best       *)
(* scheme (fcyc.c), which runs a function until the K shortest times are   *)
(* close together or MaxSamples runs were made.                            *)
EXTENDS Integers, Sequences, FiniteSetsExt, SequencesExt

CONSTANTS K, MaxSamples,
          Epsilon,        \* in percent
          CtrBits,        \* bits of a word of the counter, 32
          Elapsed,        \* the cycles between the two readings of a run
          Ticks,          \* the timer ticks that times may count for it
          CycPerTick      \* cycles per tick: the least that callibrate saw, or 0

W == 2 ^ CtrBits

(* The counter does not come round within one run. *)
ASSUME KBestAssumption ==
  /\ K \in Nat \ {0} /\ MaxSamples \in Nat /\ MaxSamples >= K
  /\ CtrBits \in Nat \ {0}
  /\ Elapsed \subseteq Nat /\ Ticks \subseteq Nat /\ CycPerTick \in Nat
  /\ \A elapsed \in Elapsed : elapsed < W * W

VARIABLES counter,        \* the hardware's: <<hi, lo>>
          values,         \* the K best times, calloc'ed
          samplecount,
          taken           \* history: the corrected time of every run so far

kbestVars == <<counter, values, samplecount, taken>>

Advance(c, n) == LET t == (c[1] * W + c[2] + n) % (W * W)
                 IN <<t \div W, t % W>>

\* Mutant: no borrow from the high word.
GetCounterWords(cyc, ncyc) ==
  ((ncyc[1] - cyc[1]) % W) * W + ((ncyc[2] - cyc[2]) % W)

(* get_counter: the difference of two readings, word by word. *)
GetCounter(cyc, ncyc) ==
  LET lo     == (ncyc[2] - cyc[2]) % W
      borrow == IF lo > ncyc[2] THEN 1 ELSE 0
      hi     == (ncyc[1] - cyc[1] - borrow) % W
  IN hi * W + lo

(* The correction is an estimate: an interrupt takes what it takes, and    *)
(* times is called outside the two readings.                               *)
Corrected(elapsed, ticks) == elapsed - ticks * CycPerTick

(* get_comp_counter, elapsed cycles after the first reading. *)
CompCounter(elapsed, ticks) ==
  Corrected(GetCounter(counter, Advance(counter, elapsed)), ticks)

(* add_sample: the new value takes the next place, or the last one if it   *)
(* is better, and sinks down to where it belongs.                          *)
AddSample(val) ==
  LET free   == samplecount < K
      better == ~free /\ val < values[K]
      last   == IF free THEN samplecount + 1 ELSE K
      pos    == Max({p \in 1 .. last : \A q \in 1 .. p - 1 : values[q] <= val})
      sunk   == [q \in 1 .. K |-> IF q < pos \/ q > last THEN values[q]
                                  ELSE IF q = pos THEN val ELSE values[q - 1]]
  IN IF free \/ better THEN sunk ELSE values

InitSampler == values' = [q \in 1 .. K |-> 0] /\ samplecount' = 0 /\ taken' = <<>>

HasConverged == samplecount >= K /\ (100 + Epsilon) * values[1] >= 100 * values[K]

Sampling == ~HasConverged /\ samplecount < MaxSamples

(* One round of the loop of fcyc_v. *)
Measure(elapsed, ticks) ==
  /\ values' = AddSample(CompCounter(elapsed, ticks))
  /\ counter' = Advance(counter, elapsed)
  /\ samplecount' = samplecount + 1
  /\ taken' = Append(taken, Corrected(elapsed, ticks))

-----------------------------------------------------------------------------
(* The places that are filled hold the shortest of the corrected times of  *)
(* all the runs, in order: no wrap around of a word of the counter makes   *)
(* the cycles between two readings come out wrong, and no earlier place of *)
(* a value makes a short time get lost.  That a corrected time is the cost *)
(* of the function is not said: it may be too long, too short or negative. *)
KeepsTheBest ==
  LET places == 1 .. Min({K, samplecount})
  IN \E run \in [places -> DOMAIN taken] :
       /\ \A p \in places : values[p] = taken[run[p]]
       /\ \A p, q \in places : p < q => run[p] # run[q] /\ values[p] <= values[q]
       /\ \A k \in DOMAIN taken, p \in places :
            values[p] <= taken[k] \/ \E q \in places : run[q] = k
=============================================================================
