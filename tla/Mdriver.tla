------------------------------- MODULE Mdriver -------------------------------
(***************************************************************************)
(* The malloc driver (labs/08-malloc/mdriver.c): it runs each trace once   *)
(* with checks, once to measure how well the heap is used, and several     *)
(* times for speed, always from a heap that it resets but does not clear.  *)
(* A trace that fails the checks is reported and skipped; a call that      *)
(* fails later ends the program.                                           *)
(*                                                                         *)
(* A trace is a sequence of requests; each has a type, the index of a      *)
(* block and a size in words.  A trace file has a header with the number   *)
(* of requests and of blocks; of the latter it matters only whether it is  *)
(* one more than the highest index.                                        *)
(***************************************************************************)
EXTENDS MM

CONSTANTS
  Index,      \* the numbers of the blocks
  NoIndex,    \* -1
  Suites,     \* the sequences of trace files that it may be given
  SpeedRuns   \* how often fsecs runs a trace

ASSUME MdriverAssumption == NoIndex \notin Index /\ SpeedRuns \in Nat \ {0}

VARIABLES
  suite, tracenum,  \* the traces, and the number of the current one
  stage, op,        \* what is done with it, and its next request
  arena,            \* the allocator's heap
  blocks, sizes,    \* the address and the size of each block: block_sizes
  ranges,           \* the payloads that the checks know of
  total, peak,      \* the words in use in the second pass, and the most so far
  runs,             \* how often the trace was timed
  errors, correct   \* the faults that were reported, and the valid traces

dvars == <<suite, tracenum, stage, op, arena, blocks, sizes, ranges, total, peak,
           runs, errors, correct>>
stats == <<total, peak, runs>>

trace == suite[tracenum].requests
req == trace[op]

DriverInit ==
  /\ suite \in Suites /\ tracenum = 1
  /\ stage = "read" /\ op = 1
  /\ arena = NewHeap
  /\ blocks = [i \in Index |-> NULL] /\ sizes = [i \in Index |-> 0]
  /\ ranges = <<>>
  /\ total = 0 /\ peak = 0 /\ runs = 0
  /\ errors = <<>> /\ correct = 0

-----------------------------------------------------------------------------
(* read_trace                                                              *)

\* Every request has a known type, and the assertions at the end hold.
Readable(file) ==
  /\ \A k \in DOMAIN file.requests : file.requests[k].type \in {"a", "r", "f"}
  /\ file.num_ids_fits
  /\ file.num_ops = Len(file.requests)

\* The program ends, whatever traces are left.
ReadFails ==
  /\ stage = "read" /\ tracenum <= Len(suite) /\ ~Readable(suite[tracenum])
  /\ stage' = "aborted"
  /\ UNCHANGED <<suite, tracenum, op, arena, blocks, sizes, ranges, stats, errors, correct>>

-----------------------------------------------------------------------------
(* The traces                                                              *)

RequestOf(S) == [type : {"a", "r", "f"}, index : Index \cup {NoIndex}, size : S]

\* The blocks that t has freed before its request k and not allocated anew.
Gone(t, k) ==
  {i \in Index : \E f \in 1..k - 1 :
     /\ t[f].type = "f" /\ t[f].index = i
     /\ \A a \in f + 1..k - 1 : ~(t[a].type = "a" /\ t[a].index = i)}

\* A trace with sizes in S that does not use a block after it has freed it.
Orderly(t, S) ==
  /\ t \in Seq(RequestOf(S))
  /\ \A k \in DOMAIN t :
       /\ t[k].type # "f" => t[k].index \in Index
       /\ t[k].type # "a" => t[k].index \notin Gone(t, k)

\* The driver does not check that of a file which it can read.
TracesOrderly(S) ==
  \A s \in Suites :
    /\ Len(s) \in Nat
    /\ \A k \in 1..Len(s) : Readable(s[k]) => Orderly(s[k].requests, S)

-----------------------------------------------------------------------------
(* The calls                                                               *)

BlockOf(i) == IF i = NoIndex THEN NULL ELSE blocks[i]
SizeOf(i) == IF i = NoIndex THEN 0 ELSE sizes[i]

Call ==
  CASE req.type = "a" -> mm_malloc(arena, req.size)
    [] req.type = "r" -> mm_realloc(arena, blocks[req.index], req.size)
    [] req.type = "f" -> [ptr |-> NULL, heap |-> mm_free(arena, BlockOf(req.index))]

Refused(r) ==
  /\ r.ptr = NULL
  /\ req.type \in {"a", "r"}
  /\ req.type = "r" => req.size # 0

\* A block that is freed stays in the table.
Remember(r) ==
  IF req.type = "f" THEN UNCHANGED <<blocks, sizes>>
  ELSE /\ blocks' = [blocks EXCEPT ![req.index] = r.ptr]
       /\ sizes' = [sizes EXCEPT ![req.index] = req.size]

\* A bug: the heap of the pass before is used on.
RestartWarm(pass) ==
  /\ stage' = pass /\ op' = 1
  /\ arena' = IF arena.end = 0 THEN mm_init(arena) ELSE arena
  /\ blocks' = [i \in Index |-> NULL] /\ sizes' = [i \in Index |-> 0]

\* mem_reset_brk and mm_init, which does not fail: a heap has room for a chunk.
Restart(pass) ==
  /\ stage' = pass /\ op' = 1
  /\ arena' = mm_init([arena EXCEPT !.end = 0])
  /\ blocks' = [i \in Index |-> NULL] /\ sizes' = [i \in Index |-> 0]

NextTrace ==
  /\ stage' = "read" /\ tracenum' = tracenum + 1
  /\ UNCHANGED <<op, blocks, sizes>>

-----------------------------------------------------------------------------
(* eval_mm_valid                                                           *)

\* add_range: the first test that a payload from lo to hi fails.
AddFault(known, lo, hi, end) ==
  IF lo % 2 # 0 THEN "not aligned"
  ELSE IF ~({lo, hi} \subseteq 0..end - 1) THEN "outside heap"
  ELSE IF \E k \in DOMAIN known : {lo, hi} \cap (known[k].lo..known[k].hi) # {} THEN "overlaps"
  ELSE "none"

\* A bug: the newest range is removed.
WithoutNewest(lo) == IF ranges = <<>> THEN ranges ELSE Tail(ranges)

\* remove_range: the first one that starts there.
Without(lo) ==
  LET at == {k \in DOMAIN ranges : ranges[k].lo = lo}
      k == CHOOSE k \in at : \A j \in at : k <= j
  IN  IF at = {} THEN ranges
      ELSE [j \in 1..Len(ranges) - 1 |-> IF j < k THEN ranges[j] ELSE ranges[j + 1]]

\* The words that realloc has to keep hold the number of the block.
Kept(r) ==
  \A k \in 0..(IF sizes[req.index] < req.size THEN sizes[req.index] ELSE req.size) - 1 :
    r.heap.mem[r.ptr + k] = req.index

Verdict(r, known) ==
  LET fault == AddFault(known, r.ptr, r.ptr + req.size - 1, r.heap.end)
  IN  IF Refused(r) THEN "exhausted"
      ELSE IF req.size > 0 /\ fault # "none" THEN fault
      ELSE IF req.type = "r" /\ ~Kept(r) THEN "lost data"
      ELSE "none"

StartValid ==
  /\ stage = "read" /\ tracenum <= Len(suite) /\ Readable(suite[tracenum])
  /\ Restart("valid")
  /\ ranges' = <<>>
  /\ UNCHANGED <<suite, tracenum, stats, errors, correct>>

\* memset
Filled(mem, p) ==
  [a \in DOMAIN mem |-> IF a \in p..p + req.size - 1 THEN req.index ELSE mem[a]]

\* malloc or realloc; a fault ends the trace, with all that it has allocated.
CheckedObtain ==
  /\ stage = "valid" /\ op <= Len(trace) /\ req.type # "f"
  /\ \E r \in {Call} :
       LET known == IF req.type = "r" THEN Without(blocks[req.index]) ELSE ranges
           extent == IF req.size = 0 THEN <<>>
                     ELSE <<[lo |-> r.ptr, hi |-> r.ptr + req.size - 1]>>
           fault == Verdict(r, known)
       IN  IF fault = "none"
           THEN /\ arena' = [r.heap EXCEPT !.mem = Filled(@, r.ptr)]
                /\ ranges' = extent \o known
                /\ Remember(r)
                /\ op' = op + 1
                /\ UNCHANGED <<stage, tracenum, errors>>
           ELSE /\ arena' = r.heap
                /\ errors' = Append(errors, fault)
                /\ NextTrace
                /\ UNCHANGED ranges
  /\ UNCHANGED <<suite, stats, correct>>

CheckedFree ==
  /\ stage = "valid" /\ op <= Len(trace) /\ req.type = "f"
  /\ arena' = Call.heap
  /\ ranges' = IF req.index = NoIndex THEN ranges ELSE Without(blocks[req.index])
  /\ op' = op + 1
  /\ UNCHANGED <<suite, tracenum, stage, blocks, sizes, stats, errors, correct>>

-----------------------------------------------------------------------------
(* eval_mm_util and eval_mm_speed                                          *)

StartUtil ==
  /\ stage = "valid" /\ op > Len(trace)
  /\ Restart("util")
  /\ total' = 0 /\ peak' = 0
  /\ correct' = correct + 1
  /\ UNCHANGED <<suite, tracenum, ranges, runs, errors>>

\* The words in use after the request: a freed block keeps its size.
InUse ==
  CASE req.type = "a" -> total + req.size
    [] req.type = "r" -> total + req.size - sizes[req.index]
    [] req.type = "f" -> total - SizeOf(req.index)

\* app_error ends the program.
Exit ==
  /\ stage' = "exited"
  /\ UNCHANGED <<op, blocks, sizes, total, peak>>

Measure ==
  /\ stage = "util" /\ op <= Len(trace)
  /\ \E r \in {Call} :
       /\ arena' = r.heap
       /\ IF Refused(r) THEN Exit
          ELSE /\ Remember(r)
               /\ total' = InUse
               /\ peak' = IF req.type # "f" /\ InUse > peak THEN InUse ELSE peak
               /\ op' = op + 1
               /\ UNCHANGED stage
  /\ UNCHANGED <<suite, tracenum, ranges, runs, errors, correct>>

StartSpeed ==
  /\ \/ stage = "util" /\ op > Len(trace) /\ runs' = 1
     \/ stage = "speed" /\ op > Len(trace) /\ runs < SpeedRuns /\ runs' = runs + 1
  /\ Restart("speed")
  /\ UNCHANGED <<suite, tracenum, ranges, total, peak, errors, correct>>

Time ==
  /\ stage = "speed" /\ op <= Len(trace)
  /\ \E r \in {Call} :
       /\ arena' = r.heap
       /\ IF Refused(r) THEN Exit
          ELSE /\ Remember(r)
               /\ op' = op + 1
               /\ UNCHANGED <<stage, total, peak>>
  /\ UNCHANGED <<suite, tracenum, ranges, runs, errors, correct>>

FreeTrace ==
  /\ stage = "speed" /\ op > Len(trace) /\ runs = SpeedRuns
  /\ NextTrace
  /\ runs' = 0
  /\ UNCHANGED <<suite, arena, ranges, total, peak, errors, correct>>

DriverNext ==
  \/ ReadFails \/ StartValid \/ CheckedObtain \/ CheckedFree
  \/ StartUtil \/ Measure \/ StartSpeed \/ Time \/ FreeTrace

-----------------------------------------------------------------------------
(* Properties                                                              *)

(* The checks find no fault in the allocator but that its memory is used   *)
(* up, also where a realloc fails and leaves the heap damaged: the trace   *)
(* ends there and the next one does not see it.  Each trace is counted     *)
(* once, among the correct ones or among the errors.                       *)
FindsNoFault ==
  /\ \A k \in DOMAIN errors : errors[k] = "exhausted"
  /\ stage = "read" => correct + Len(errors) = tracenum - 1

(* The later passes repeat the first one, although the heap is full of     *)
(* what the passes before them left: no call fails in them, which would    *)
(* end the program, their blocks are where the checks saw them, and no     *)
(* more words are in use than the heap has (the utilisation that the       *)
(* driver reports is at most one).                                         *)
PassesAgree ==
  /\ stage # "exited"
  /\ stage = "util" => peak <= arena.end
  /\ stage \in {"util", "speed"} /\ op > Len(trace) =>
       \A k \in DOMAIN ranges :
         LET header == HDRP(ranges[k].lo)
         IN  ALOC(arena.mem, header) /\ ranges[k].hi < ranges[k].lo + SIZE(arena.mem, header) - 2
=============================================================================
