----------------------------- MODULE Transpose -----------------------------
(* The transposition B = A^T of trans.c as a sequence of loads and stores, *)
(* tile by tile.  A stored element is known by where in A it was loaded    *)
(* from, and get_set_idx, which decides the order inside a tile, by the    *)
(* address arithmetic of the code on an A of N rows and M columns.         *)
EXTENDS Naturals, Sequences, FiniteSetsExt, SequencesExt

CONSTANT BaseA, BaseB      \* the addresses of A[0][0] and B[0][0]

WordSize == 4               \* sizeof(int)
BSize == 8                 \* bsize of trans_opt, 32 / sizeof(int)
HalfTile  == 4                 \* bsize_div2

Upto(lo, hi)    == [n \in 1 .. hi - lo |-> lo + n - 1]     \* lo .. hi - 1

(* What the body F of a loop over s adds to the trace. *)
ForEach(s, F(_)) ==
  LET sofar[n \in 0 .. Len(s)] == IF n = 0 THEN <<>> ELSE sofar[n - 1] \o F(s[n])
  IN sofar[Len(s)]

AddrA(M, i, j) == BaseA + WordSize * (i * M + j)
AddrB(N, j, i) == BaseB + WordSize * (j * N + i)

GetSetIdx(addr) == (addr % 1024) \div 32

(* A[i][j] and B[j][i] share a set of the direct mapped cache. *)
Clash(M, N, i, j) == GetSetIdx(AddrA(M, i, j)) = GetSetIdx(AddrB(N, j, i))

Load(M, i, j)       == <<[op |-> "L", addr |-> AddrA(M, i, j)]>>
Store(N, j, i, src) == <<[op |-> "S", addr |-> AddrB(N, j, i),
                          cell |-> <<j, i>>, src |-> src]>>
Copy(M, N, i, j)    == Load(M, i, j) \o Store(N, j, i, <<i, j>>)

\* Mutant: the elements of a row in their order.
Tile32Plain(M, N, jj, ii) ==
  ForEach(Upto(ii, ii + BSize), LAMBDA i :
    ForEach(Upto(jj, jj + BSize), LAMBDA j : Copy(M, N, i, j)))

(* trans_32, one tile: in each row the elements that do not clash first. *)
Tile32(M, N, jj, ii) ==
  ForEach(Upto(ii, ii + BSize), LAMBDA i :
    LET js == Upto(jj, jj + BSize)
        Copies(s) == ForEach(s, LAMBDA j : Copy(M, N, i, j))
    IN Copies(SelectSeq(js, LAMBDA j : ~Clash(M, N, i, j)))
       \o Copies(SelectSeq(js, LAMBDA j : Clash(M, N, i, j))))

(* trans_64, pass k of a tile: rows ii + k and ii + k + 4 together.  The   *)
(* elements that clash are loaded in the first loop and stored in the      *)
(* second; tmp1 keeps the first of them and tmp2 the last of the others.   *)
Pass64(M, N, jj, ii, k) ==
  LET cells   == ForEach(<<ii + k, ii + k + HalfTile>>, LAMBDA i :
                   [n \in 1 .. HalfTile |-> <<i, jj + n - 1>>])
      ClashAt(c) == Clash(M, N, c[1], c[2])
      held    == SelectSeq(cells, ClashAt)
      Tmp(n)  == IF n = 1 THEN held[1] ELSE Last(held)
      loads   == ForEach(cells, LAMBDA c : IF ClashAt(c) THEN Load(M, c[1], c[2])
                                           ELSE Copy(M, N, c[1], c[2]))
      stores  == ForEach(Upto(1, Len(held) + 1), LAMBDA n :
                   Store(N, held[n][2], held[n][1], Tmp(n)))
  IN loads \o stores

Tile64(M, N, jj, ii) ==
  ForEach(Upto(0, HalfTile), LAMBDA k : Pass64(M, N, jj, ii, k))

(* trans_odds, one tile, cut off at the edges. *)
TileOdds(M, N, jj, ii) ==
  ForEach(SelectSeq(Upto(ii, ii + BSize), LAMBDA i : i < N), LAMBDA i :
    ForEach(SelectSeq(Upto(jj, jj + BSize), LAMBDA j : j < M), LAMBDA j :
      Copy(M, N, i, j)))

(* trans_opt: which of the three, and the order of its tiles.  A tile is   *)
(* <<jj, ii>>, and ii runs in the inner loop.                              *)
Tiling(M, N) ==
  LET Past(hi)      == hi \div BSize + 1                   \* en, em
      Count(hi, by) == (hi + by - 1) \div by
  IN IF N % BSize # 0 THEN [by |-> BSize, cols |-> Past(M), rows |-> Past(N)]
     ELSE LET by == IF N = 32 THEN BSize ELSE HalfTile
          IN [by |-> by, cols |-> Count(M, by), rows |-> Count(N, BSize)]

TileCount(M, N) == Tiling(M, N).cols * Tiling(M, N).rows

(* The loads and stores of the n-th tile, from 0. *)
Tile(M, N, n) ==
  LET t  == Tiling(M, N)
      jj == t.by * (n \div t.rows)
      ii == BSize * (n % t.rows)
  IN IF N % BSize # 0 THEN TileOdds(M, N, jj, ii)
     ELSE IF N = 32 THEN Tile32(M, N, jj, ii)
     ELSE Tile64(M, N, jj, ii)

(* What the stores among ops leave in the cells of a matrix. *)
Stored(ops, cells) ==
  LET stores == {n \in DOMAIN ops : ops[n].op = "S"}
      To(c)  == {n \in stores : ops[n].cell = c}
  IN [c \in {ops[n].cell : n \in stores} \cap cells |-> ops[Max(To(c))].src]
=============================================================================
