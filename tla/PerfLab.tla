------------------------------ MODULE PerfLab ------------------------------
(* The performance lab: the kernels rotate and smooth (kernels.c), and the *)
(* driver that makes an image, runs a kernel, checks what it did to a copy *)
(* and measures it (driver.c).  The three images lie one behind the other  *)
(* in one array, so a kernel that leaves its image is seen as what it      *)
(* does to the next one.  The three colours of a pixel are treated alike:  *)
(* a pixel is one of them.                                                 *)
EXTENDS KBest, FiniteSets

CONSTANTS Colours,      \* what a colour of the image may be
          OddDim,       \* ODD_DIM
          TestDims      \* test_dim_rotate, test_dim_smooth

ASSUME PerfLabAssumption ==
  OddDim \in Nat /\ TestDims \in Seq(Nat \ {0}) /\ TestDims # <<>>

VARIABLES bench,        \* "rotate" or "smooth"
          testNum,      \* test_num of the loop
          stage,        \* odd, dim, image, time; failed, fatal, done
          dim,          \* dimension of the image in pixels
          cpes,         \* the time that was taken for each dimension
          pixels        \* data: orig, result and copy_of_orig, pixel by pixel

perfVars == <<kbestVars, bench, testNum, stage, dim, cpes, pixels>>

RIDX(i, j, n) == i * n + j
Orig(n)   == 0
Result(n) == n * n
CopyOf(n)   == 2 * n * n
Cells(n)  == (0 .. n - 1) \X (0 .. n - 1)

(* What a kernel stores: from the index in the array to the pixel. *)
Written(n, At(_, _), Pixel(_, _)) ==
  LET index(c) == Result(n) + At(c[1], c[2])
  IN [k \in {index(c) : c \in Cells(n)} |->
        LET c == CHOOSE c \in Cells(n) : index(c) = k IN Pixel(c[1], c[2])]

\* Mutant: rotated the other way.
rotate_back(n, src) == Written(n, LAMBDA i, j : RIDX(j, n - 1 - i, n),
                               LAMBDA i, j : src[RIDX(i, j, n)])

naive_rotate(n, src) == Written(n, LAMBDA i, j : RIDX(n - 1 - j, i, n),
                                LAMBDA i, j : src[RIDX(i, j, n)])

Mean(n, src, cells) ==
  MapThenSumSet(LAMBDA c : src[RIDX(c[1], c[2], n)], cells) \div Cardinality(cells)

(* The pixels around, as far as there are any. *)
avg(n, i, j, src) ==
  Mean(n, src, (Max({i - 1, 0}) .. Min({i + 1, n - 1}))
               \X (Max({j - 1, 0}) .. Min({j + 1, n - 1})))

naive_smooth(n, src) == Written(n, LAMBDA i, j : RIDX(i, j, n),
                                LAMBDA i, j : avg(n, i, j, src))

Source(n, d) == [k \in 0 .. n * n - 1 |-> d[Orig(n) + k]]

Run(n, d) ==
  LET new == IF bench = "rotate" THEN naive_rotate(n, Source(n, d))
                                 ELSE naive_smooth(n, Source(n, d))
  IN [k \in DOMAIN new \cup DOMAIN d |-> IF k \in DOMAIN new THEN new[k] ELSE d[k]]

-----------------------------------------------------------------------------
(* driver.c *)

(* create: a random image, its copy, and a black result. *)
Created(n, image) == [k \in 0 .. 3 * n * n - 1 |->
                        IF k < Result(n) THEN image[k]
                        ELSE IF k < CopyOf(n) THEN 0 ELSE image[k - CopyOf(n)]]
Images(n) == [0 .. n * n - 1 -> Colours]

check_orig(n, d) == \A k \in 0 .. n * n - 1 : d[Orig(n) + k] = d[CopyOf(n) + k]

check_rotate(n, d) ==
  check_orig(n, d) /\ \A c \in Cells(n) :
    d[RIDX(c[1], c[2], n)] = d[Result(n) + RIDX(n - 1 - c[2], c[1], n)]

(* check_average goes by the corners of the square around the pixel. *)
check_average(n, i, j, src) ==
  Mean(n, src, {c \in Cells(n) : c[1] - i \in -1 .. 1 /\ c[2] - j \in -1 .. 1})

check_smooth(n, d) ==
  check_orig(n, d) /\ \A c \in Cells(n) :
    d[Result(n) + RIDX(c[1], c[2], n)] = check_average(n, c[1], c[2], Source(n, d))

Passes(n, d) == IF bench = "rotate" THEN check_rotate(n, d) ELSE check_smooth(n, d)

(* A run on a new image, and the check of it, first for the odd dimension. *)
Check(n, next) ==
  \E image \in Images(n) :
    /\ dim' = n
    /\ pixels' = Run(n, Created(n, image))
    /\ stage' = IF Passes(n, pixels') THEN next ELSE "failed"

CheckOdd == /\ stage = "odd"
            /\ Check(OddDim, "dim")
            /\ UNCHANGED <<kbestVars, bench, testNum, cpes>>

CheckDim == /\ stage = "dim"
            /\ Check(TestDims[testNum], "image")
            /\ UNCHANGED <<kbestVars, bench, testNum, cpes>>

(* The measurement has an image of its own ... *)
Prepare == /\ stage = "image"
           /\ \E image \in Images(dim) : pixels' = Created(dim, image)
           /\ stage' = "time"
           /\ InitSampler
           /\ UNCHANGED <<counter, bench, testNum, dim, cpes>>

(* ... on which fcyc_v runs the kernel again and again. *)
Time == /\ stage = "time"
        /\ Sampling
        /\ \E elapsed \in Elapsed, ticks \in Ticks : Measure(elapsed, ticks)
        /\ pixels' = Run(dim, pixels)
        /\ UNCHANGED <<bench, testNum, stage, dim, cpes>>

(* The best time counts.  After the last dimension come the ratios, and    *)
(* the driver exits at a time that is not positive.                        *)
Positive == \A t \in DOMAIN cpes' : cpes'[t] > 0

NextDim == /\ stage = "time"
           /\ ~Sampling
           /\ cpes' = Append(cpes, values[1])
           /\ testNum' = testNum + 1
           /\ stage' = CASE testNum < Len(TestDims) -> "odd"
                         [] testNum >= Len(TestDims) /\ Positive -> "done"
                         [] OTHER -> "fatal"
           /\ pixels' = <<>>
           /\ InitSampler
           /\ UNCHANGED <<counter, bench, dim>>

PerfInit == /\ bench \in {"rotate", "smooth"}
            /\ testNum = 1 /\ stage = "odd" /\ dim = 0 /\ cpes = <<>> /\ pixels = <<>>
            /\ counter = <<W - 1, W - 2>>
            /\ values = [q \in 1 .. K |-> 0] /\ samplecount = 0 /\ taken = <<>>

PerfNext == CheckOdd \/ CheckDim \/ Prepare \/ Time \/ NextDim

-----------------------------------------------------------------------------
(* No image makes the driver reject a kernel: each writes every pixel of   *)
(* the result from the right pixels and leaves the original alone, also    *)
(* when it is run again and again for the measurement.                     *)
KernelsAccepted ==
  stage # "failed" /\ (stage = "time" /\ samplecount > 0 => Passes(dim, pixels))
=============================================================================
