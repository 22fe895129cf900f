----------------------------- MODULE TransTest -----------------------------
(* test-trans of the cache lab: it has tracegen transpose a matrix and     *)
(* check the result, cuts the trace between two marker addresses out of    *)
(* what valgrind saw, runs the simulator on it with 32 sets of one line of *)
(* 32 bytes, and prints the verdict.  An alarm may end it at any moment.   *)
(* The simulator it runs is a binary (csim-ref); csim.c stands in for it.  *)
EXTENDS CacheSim, Transpose

CONSTANTS Sizes,      \* the pairs <<M, N>> that are tried
          Markers     \* the addresses of MARKER_START and MARKER_END

MAXN  == 256
Sets5 == [s |-> 5, lines |-> 1, b |-> 5]         \* eval_perf(5, 1, 5)

VARIABLES phase,      \* what runs: parse, tracegen, csim, and then done
          size,       \* <<M, N>>
          tile,       \* the number of tiles that were transposed
          B,          \* B[<<j, i>>]: the element of A it holds
          pending,    \* what is left of the trace of the tile
          results     \* [correct, misses]

testVars == <<phase, size, tile, B, pending, results>>
vars     == <<simVars, testVars>>

M == size[1]
N == size[2]

Nothing == <<-1, -1>>                            \* initMatrix: random numbers
NoTrace == <<>>

(* main of test-trans: usage, or the size is accepted. *)
Main == /\ phase = "parse"
        /\ phase' = IF M = 0 \/ N = 0 \/ M > MAXN \/ N > MAXN THEN "usage"
                    ELSE "tracegen"
        /\ B' = [c \in (0 .. M - 1) \X (0 .. N - 1) |-> Nothing]
        /\ UNCHANGED <<simVars, size, tile, pending, results>>

(* tracegen: the next tile of the submitted function. *)
TransposeTile ==
  /\ phase = "tracegen"
  /\ tile < TileCount(M, N)
  /\ \E ops \in {Tile(M, N, tile)} : B' = Stored(ops, DOMAIN B) @@ B
  /\ tile' = tile + 1
  /\ UNCHANGED <<simVars, phase, size, pending, results>>

(* correctTrans, and validate: B is compared with it. *)
CorrectTrans == [c \in DOMAIN B |-> <<c[2], c[1]>>]
Valid == B = CorrectTrans

(* The status of tracegen: a wrong function is skipped, otherwise the      *)
(* filtered trace starts with the start marker.                            *)
Validate ==
  /\ phase = "tracegen"
  /\ tile = TileCount(M, N)
  /\ phase' = IF Valid THEN "csim" ELSE "done"
  /\ results' = [results EXCEPT !.correct = IF Valid THEN 1 ELSE 0]
  /\ pending' = IF Valid THEN <<[op |-> "S", addr |-> Markers[1]]>> ELSE NoTrace
  /\ tile' = 0
  /\ B' = <<>>
  /\ UNCHANGED <<simVars, size>>

(* The simulator reads the next line of the trace. *)
Simulate ==
  /\ phase = "csim"
  /\ pending # NoTrace
  /\ Entry(Head(pending).op, Head(pending).addr)
  /\ pending' = Tail(pending)
  /\ UNCHANGED <<phase, size, tile, B, results>>

(* The part of the trace that the next tile wrote. *)
NextTile ==
  /\ phase = "csim"
  /\ pending = NoTrace
  /\ tile <= TileCount(M, N)
  /\ pending' = IF tile < TileCount(M, N) THEN Tile(M, N, tile)
                ELSE <<[op |-> "S", addr |-> Markers[2]]>>
  /\ tile' = tile + 1
  /\ UNCHANGED <<simVars, phase, size, B, results>>

(* The misses are read back from .csim_results, and the verdict printed. *)
Report ==
  /\ phase = "csim"
  /\ pending = NoTrace
  /\ tile > TileCount(M, N)
  /\ phase' = "done"
  /\ results' = [results EXCEPT !.misses = counts.miss]
  /\ UNCHANGED <<simVars, size, tile, B, pending>>

(* sigalrm_handler prints 0:0, whatever there was. *)
Alarm ==
  /\ phase \in {"tracegen", "csim"}
  /\ phase' = "timeout"
  /\ results' = [correct |-> 0, misses |-> 0]
  /\ tile' = 0 /\ B' = <<>> /\ pending' = NoTrace
  /\ UNCHANGED <<simVars, size>>

TestInit == /\ phase = "parse"
            /\ size \in Sizes
            /\ tile = 0
            /\ B = <<>>
            /\ pending = NoTrace
            /\ results = [correct |-> 0, misses |-> 2147483647]   \* INT_MAX
            /\ Start(Sets5, Required)
            /\ scanned = [type |-> "L", addr |-> 0]

TestNext == \/ Main \/ TransposeTile \/ Validate
            \/ Simulate \/ NextTile \/ Report \/ Alarm

-----------------------------------------------------------------------------
(* The sizes that driver.py grades, and the misses below which it gives    *)
(* points (driver.py:94-96): up to 300 and 2000 for all of the points of   *)
(* the first and the last size, under 2000 for a part for the second.      *)
Graded == (<<32, 32>> :> 300) @@ (<<64, 64>> :> 1999) @@ (<<61, 67>> :> 2000)

(* The three tilings write every element of B and put the right element of *)
(* A there, although trans_64 has only two temporaries for the elements    *)
(* that must wait, so the graded sizes pass validate; and the simulator    *)
(* counts no more misses on them than that, although A and B share every   *)
(* set of the cache.                                                       *)
GradedSizesPass ==
  size \in DOMAIN Graded =>
    /\ phase = "tracegen" /\ tile = TileCount(M, N) => Valid
    /\ phase \in {"csim", "done"} => counts.miss <= Graded[size]
    /\ phase = "done" => results = [correct |-> 1, misses |-> counts.miss]
=============================================================================
