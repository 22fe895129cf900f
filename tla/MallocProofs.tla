----------------------------- MODULE MallocProofs -----------------------------
(* Proofs about the allocator and its client, for any blocks, requests and *)
(* sizes of the heap: after any calls the heap is consistent, and it keeps *)
(* the promises of Allocator.                                              *)
EXTENDS Malloc, Mdriver, FiniteSetTheorems, TLAPS

-----------------------------------------------------------------------------
(* Numbers                                                                 *)

(* Induction, as the least and the greatest number of a set.               *)
LEMMA Least ==
  ASSUME NEW n \in Nat, NEW S \in SUBSET (0..n), S # {}
  PROVE  \E k \in S : \A m \in S : k <= m
<1> DEFINE T == {0..k : k \in S}
<1>1. IsFiniteSet(0..n)
  BY FS_Interval
<1>2. IsWellFoundedOn(StrictSubsetOrdering(0..n), FiniteSubsetsOf(0..n))
  BY FS_StrictSubsetOrderingWellFounded
<1>3. \A U \in T : U \in SUBSET (0..n)
  OBVIOUS
<1>4. T \subseteq FiniteSubsetsOf(0..n) /\ T # {}
  <2>1. \A U \in SUBSET (0..n) : IsFiniteSet(U)
    BY <1>1, FS_Subset
  <2>2. T # {}
    OBVIOUS
  <2> HIDE DEF T
  <2>3. \A U \in T : U \in FiniteSubsetsOf(0..n)
    BY <1>3, <2>1 DEF FiniteSubsetsOf
  <2> QED
    BY <2>2, <2>3
<1>5. PICK U \in T : \A V \in T : <<V, U>> \notin StrictSubsetOrdering(0..n)
  <2> HIDE DEF T
  <2> QED
    BY <1>2, <1>4, WFMin
<1>6. PICK k \in S : U = 0..k
  OBVIOUS
<1>7. ASSUME NEW m \in S, m < k
      PROVE  FALSE
  <2>1. 0..m \in T /\ 0..m \in SUBSET (0..n) /\ U \in SUBSET (0..n)
    BY <1>3
  <2>2. 0..m \subseteq U /\ 0..m # U
    BY <1>6, <1>7
  <2> QED
    BY <1>5, <2>1, <2>2 DEF StrictSubsetOrdering
<1> QED
  BY <1>7

LEMMA Greatest ==
  ASSUME NEW n \in Nat, NEW S \in SUBSET (0..n), S # {}
  PROVE  \E k \in S : \A m \in S : m <= k
<1> DEFINE T == {m \in 0..n : n - m \in S}
<1>1. T \in SUBSET (0..n) /\ T # {}
  <2>1. PICK m \in S : TRUE
    OBVIOUS
  <2>2. n - m \in T
    OBVIOUS
  <2> QED
    BY <2>2
<1>2. PICK k \in T : \A m \in T : k <= m
  <2> HIDE DEF T
  <2> QED
    BY <1>1, Least
<1>3. \A m \in S : n - m \in T
  OBVIOUS
<1> QED
  BY <1>2, <1>3

(* Powers of two, by the number of subsets of a set.                       *)
LEMMA Subsets ==
  ASSUME NEW n \in Nat
  PROVE  /\ IsFiniteSet(1..n) /\ IsFiniteSet(SUBSET (1..n))
         /\ Cardinality(SUBSET (1..n)) = 2^n /\ 2^n \in Nat \ {0}
<1>1. IsFiniteSet(1..n) /\ Cardinality(1..n) = n
  BY FS_Interval
<1> DEFINE S == 1..n
<1> HIDE DEF S
<1>2. IsFiniteSet(SUBSET S) /\ Cardinality(SUBSET S) = 2^n
  BY <1>1, FS_SUBSET DEF S
<1>3. SUBSET S # {}
  OBVIOUS
<1>4. Cardinality(SUBSET S) \in Nat /\ Cardinality(SUBSET S) # 0
  BY <1>2, <1>3, FS_CardinalityType, FS_EmptySet
<1> QED
  BY <1>1, <1>2, <1>4 DEF S

LEMMA PowerNat ==
  ASSUME NEW n \in Nat
  PROVE  2^n \in Nat
BY Subsets

LEMMA PowerZero == 2^0 = 1
<1>1. 1..0 = {} /\ SUBSET {} = {{}}
  OBVIOUS
<1>2. Cardinality({{}}) = 1
  BY FS_Singleton
<1> QED
  BY <1>1, <1>2, Subsets

LEMMA PowerDoubles ==
  ASSUME NEW n \in Nat
  PROVE  2^(n + 1) = 2 * 2^n
<1> DEFINE S == SUBSET (1..n)
           T == {U \cup {n + 1} : U \in S}
           f == [U \in S |-> U \cup {n + 1}]
<1>1. SUBSET (1..n + 1) = S \cup T
  <2>1. ASSUME NEW U \in SUBSET (1..n + 1), n + 1 \in U
        PROVE  U \in T
    <3>1. U \ {n + 1} \in S /\ U = (U \ {n + 1}) \cup {n + 1}
      BY <2>1
    <3> QED
      BY <3>1
  <2>2. ASSUME NEW U \in SUBSET (1..n + 1), n + 1 \notin U
        PROVE  U \in S
    BY <2>2
  <2>3. \A U \in S : U \cup {n + 1} \in SUBSET (1..n + 1) /\ U \in SUBSET (1..n + 1)
    OBVIOUS
  <2>4. \A U \in SUBSET (1..n + 1) : U \in S \cup T
    BY <2>1, <2>2
  <2>5. \A U \in T : U \in SUBSET (1..n + 1)
    BY <2>3
  <2> HIDE DEF S, T
  <2> QED
    BY <2>3, <2>4, <2>5
<1>2. S \cap T = {}
  OBVIOUS
<1>3. f \in Bijection(S, T)
  <2>1. f \in [S -> T] /\ \A t \in T : \E U \in S : f[U] = t
    OBVIOUS
  <2>2. \A U, V \in S : f[U] = f[V] => U = V
    <3>1. ASSUME NEW U \in S, NEW V \in S, U \cup {n + 1} = V \cup {n + 1}
          PROVE  U = V
      <4>1. n + 1 \notin U /\ n + 1 \notin V
        OBVIOUS
      <4> QED
        BY <3>1, <4>1
    <3> QED
      BY <3>1
  <2> HIDE DEF S, T, f
  <2> QED
    BY <2>1, <2>2 DEF Bijection, Injection, Surjection, IsInjective
<1>4. IsFiniteSet(S) /\ Cardinality(S) = 2^n /\ 2^n \in Nat
  BY Subsets, PowerNat
<1>5. Cardinality(SUBSET (1..n + 1)) = 2^(n + 1)
  <2> DEFINE k == n + 1
  <2>1. k \in Nat
    OBVIOUS
  <2> HIDE DEF k
  <2>2. Cardinality(SUBSET (1..k)) = 2^k
    BY <2>1, Subsets
  <2> QED
    BY <2>2 DEF k
<1> HIDE DEF S, T, f
<1>6. IsFiniteSet(T) /\ Cardinality(T) = 2^n
  BY <1>3, <1>4, FS_Bijection DEF ExistsBijection
<1>7. Cardinality(S \cup T) = 2^n + 2^n - 0
  BY <1>2, <1>4, <1>6, FS_Union, FS_EmptySet
<1>8. ASSUME NEW x \in Nat, NEW y, y = x + x - 0
      PROVE  y = 2 * x
  BY <1>8
<1> QED
  BY <1>1, <1>4, <1>5, <1>7, <1>8

LEMMA PowerGrows ==
  ASSUME NEW j \in Nat, NEW k \in Nat, j <= k
  PROVE  2^j <= 2^k
<1>1. SUBSET (1..j) \in SUBSET SUBSET (1..k)
  OBVIOUS
<1> DEFINE J == SUBSET (1..j)
           K == SUBSET (1..k)
<1>2. IsFiniteSet(K) /\ Cardinality(K) = 2^k /\ Cardinality(J) = 2^j
  BY Subsets
<1> HIDE DEF J, K
<1> QED
  BY <1>1, <1>2, FS_Subset DEF J, K

-----------------------------------------------------------------------------
(* Sizes and classes                                                       *)

LEMMA ClassesFinite ==
  /\ IsFiniteSet(Classes) /\ Classes \subseteq MIN_ALLOC..CHUNKSIZE
  /\ CHUNKSIZE \in Nat /\ MIN_ALLOC \in Classes /\ CHUNKSIZE \in Classes
  /\ \A c \in Classes : c % 2 = 0
<1>1. CHUNKSIZE \in Classes
  BY MMAssumption
<1>2. Classes \subseteq MIN_ALLOC..CHUNKSIZE
  BY DEF Classes
<1>3. CHUNKSIZE \in Nat /\ CHUNKSIZE >= 4
  BY <1>1, <1>2 DEF MIN_ALLOC
<1>4. IsFiniteSet(Classes)
  <2>1. IsFiniteSet(MIN_ALLOC..CHUNKSIZE)
    BY <1>3, FS_Interval DEF MIN_ALLOC
  <2> QED
    BY <1>2, <2>1, FS_Subset
<1>5. MIN_ALLOC \in Classes
  <2>1. 0 \in 0..CHUNKSIZE /\ 4 \in 4..CHUNKSIZE /\ 4 = 4 * 2^0
    BY <1>3, PowerZero
  <2> QED
    BY <2>1 DEF Classes, MIN_ALLOC
<1>6. ASSUME NEW c \in Classes
      PROVE  c % 2 = 0
  <2>1. PICK k \in 0..CHUNKSIZE : c = 4 * 2^k
    BY DEF Classes, MIN_ALLOC
  <2>2. k \in Nat
    BY <1>3
  <2>3. 2^k \in Nat
    BY <2>2, PowerNat
  <2>4. ASSUME NEW x \in Nat
        PROVE  (4 * x) % 2 = 0
    OBVIOUS
  <2> QED
    BY <2>1, <2>3, <2>4
<1> QED
  BY <1>1, <1>2, <1>3, <1>4, <1>5, <1>6

LEMMA ClassBounds ==
  \A c \in Classes : c \in Nat /\ c >= 4 /\ c <= CHUNKSIZE
BY ClassesFinite DEF MIN_ALLOC

(* Where a class is not the last one, the next begins at its double.       *)
LEMMA NextClass ==
  ASSUME NEW c \in Classes, c # CHUNKSIZE
  PROVE  2 * c \in Classes
<1>0. CHUNKSIZE \in Nat
  BY ClassesFinite
<1>1. PICK k \in 0..CHUNKSIZE : c = 4 * 2^k
  BY DEF Classes, MIN_ALLOC
<1>2. PICK j \in 0..CHUNKSIZE : CHUNKSIZE = 4 * 2^j
  BY ClassesFinite DEF Classes, MIN_ALLOC
<1>3. 2^k \in Nat /\ 2^j \in Nat /\ 2^(k + 1) = 2 * 2^k
  <2>1. k \in Nat /\ j \in Nat
    BY <1>0
  <2> QED
    BY <2>1, PowerNat, PowerDoubles
<1>4. k < j
  <2>1. SUFFICES ASSUME j <= k
                 PROVE  FALSE
    OBVIOUS
  <2>2. 2^j <= 2^k
    BY <2>1, PowerGrows
  <2>3. c <= CHUNKSIZE /\ c >= CHUNKSIZE
    BY <1>0, <1>1, <1>2, <1>3, <2>2, ClassBounds
  <2> QED
    BY <1>0, <1>1, <1>3, <2>3, ClassBounds
<1>5. 2^(k + 1) <= 2^j
  BY <1>4, PowerGrows
<1>6. 2 * c = 4 * 2^(k + 1)
  BY <1>1, <1>3
<1>7. 2 * c \in MIN_ALLOC..CHUNKSIZE
  <2>1. 2 * c <= CHUNKSIZE
    BY <1>0, <1>2, <1>3, <1>5, <1>6
  <2> QED
    BY <1>0, <2>1, ClassBounds DEF MIN_ALLOC
<1>8. k + 1 \in 0..CHUNKSIZE
  BY <1>0, <1>4
<1> QED
  BY <1>6, <1>7, <1>8 DEF Classes, MIN_ALLOC

(* classof gives the highest class that a size reaches.                    *)
LEMMA ClassOf ==
  ASSUME NEW s \in Nat
  PROVE  /\ classof(s) \in Classes
         /\ \A c \in Classes : c <= s => c <= classof(s)
         /\ s >= MIN_ALLOC =>
              /\ classof(s) <= s
              /\ s < 2 * classof(s) \/ classof(s) = CHUNKSIZE
<1> DEFINE F == {c \in Classes : c <= s} \cup {MIN_ALLOC}
<1>1. F \in SUBSET (0..CHUNKSIZE) /\ F # {} /\ F \subseteq Classes /\ CHUNKSIZE \in Nat
  <2>1. F \subseteq Classes /\ F # {}
    BY ClassesFinite
  <2> HIDE DEF F
  <2> QED
    BY <2>1, ClassBounds, ClassesFinite
<1>2. PICK k \in F : \A m \in F : m <= k
  <2> HIDE DEF F
  <2> QED
    BY <1>1, Greatest
<1>3. classof(s) \in F /\ \A m \in F : m <= classof(s)
  <2>1. classof(s) = CHOOSE c \in F : \A d \in F : d <= c
    BY DEF classof
  <2> HIDE DEF F
  <2> QED
    BY <1>2, <2>1
<1>4. classof(s) \in Classes /\ \A c \in Classes : c <= s => c <= classof(s)
  BY <1>1, <1>3
<1>5. ASSUME s >= MIN_ALLOC
      PROVE  classof(s) <= s
  BY <1>3, <1>5
<1>6. ASSUME s >= 2 * classof(s), classof(s) # CHUNKSIZE
      PROVE  FALSE
  <2>1. 2 * classof(s) \in Classes
    BY <1>4, <1>6, NextClass
  <2>2. 2 * classof(s) <= classof(s)
    BY <1>4, <1>6, <2>1
  <2> QED
    BY <1>4, <2>2, ClassBounds
<1>7. classof(s) \in Nat
  BY <1>4, ClassBounds
<1> QED
  BY <1>4, <1>5, <1>6, <1>7

LEMMA ClassesRise ==
  ASSUME NEW s \in Nat, NEW t \in Nat, s <= t, s >= MIN_ALLOC
  PROVE  classof(s) <= classof(t)
<1>1. classof(s) \in Classes /\ classof(s) <= s
  BY ClassOf
<1>2. classof(s) <= t
  BY <1>1, ClassBounds
<1> QED
  BY <1>1, <1>2, ClassOf

(* The prolog and the first block.                                         *)
LEMMA PrologFits ==
  /\ First = Prolog /\ Prolog \in Nat /\ Prolog % 2 = 0 /\ Prolog >= MIN_ALLOC
  /\ CHUNKSIZE - First >= MIN_ALLOC /\ (CHUNKSIZE - First) % 2 = 0
  /\ MAX_HEAP \in Nat /\ SizeMod \in Nat /\ CHUNKSIZE <= MAX_HEAP /\ MAX_HEAP < SizeMod
  /\ CHUNKSIZE \in Nat /\ CHUNKSIZE % 2 = 0 /\ CHUNKSIZE >= MIN_ALLOC
<1> DEFINE n == Cardinality(Classes)
<1>1. n \in Nat /\ n # 0
  BY ClassesFinite, FS_CardinalityType, FS_EmptySet
<1>2. CHUNKSIZE \in Nat /\ CHUNKSIZE % 2 = 0 /\ CHUNKSIZE >= MIN_ALLOC
  BY ClassesFinite
<1>3. Prolog = 2 + 2 * n /\ First = Prolog
  BY DEF Prolog, First
<1> HIDE DEF n
<1>4. Prolog \in Nat /\ Prolog % 2 = 0 /\ Prolog >= MIN_ALLOC
  BY <1>1, <1>3 DEF MIN_ALLOC
<1>5. CHUNKSIZE >= Prolog + MIN_ALLOC
  BY MMAssumption
<1>6. CHUNKSIZE - First >= MIN_ALLOC /\ (CHUNKSIZE - First) % 2 = 0
  BY <1>2, <1>3, <1>4, <1>5 DEF MIN_ALLOC
<1> QED
  BY <1>2, <1>3, <1>4, <1>6, MMAssumption

(* The size of a block for a request.                                      *)
LEMMA AllocSize ==
  ASSUME NEW n \in Requests
  PROVE  /\ ALLOC_SIZE(n) \in Nat /\ ALLOC_SIZE(n) % 2 = 0
         /\ ALLOC_SIZE(n) >= MIN_ALLOC /\ ALLOC_SIZE(n) >= n + 2
         /\ ALLOC_SIZE(n) + CHUNKSIZE < SizeMod /\ n \in Nat
<1>1. n \in Nat /\ n + CHUNKSIZE + 4 < SizeMod
  BY MallocAssumption
<1> DEFINE x == (IF n < 2 THEN 2 ELSE n) + 2
<1>2. x \in Nat /\ x >= 4 /\ x >= n + 2 /\ x <= n + 4 /\ (n >= 2 => x = n + 2) /\ (n < 2 => x = 4)
  BY <1>1
<1> HIDE DEF x
<1> DEFINE y == x + (x % 2)
<1>3. y \in Nat /\ y % 2 = 0 /\ y >= 4 /\ y >= n + 2
  BY <1>1, <1>2
<1>4. y + CHUNKSIZE < SizeMod
  BY <1>1, <1>2, PrologFits DEF MIN_ALLOC
<1>5. ALLOC_SIZE(n) = y % SizeMod
  BY DEF ALLOC_SIZE, ALIGN, x
<1> HIDE DEF y
<1>6. y % SizeMod = y
  BY <1>3, <1>4, PrologFits
<1> QED
  BY <1>1, <1>3, <1>4, <1>5, <1>6 DEF MIN_ALLOC

-----------------------------------------------------------------------------
(* Lists                                                                   *)

(* The list s has the elements of S, each once.                            *)
Holds(s, S) ==
  /\ \A i \in DOMAIN s : s[i] \in S
  /\ \A p \in S : \E i \in DOMAIN s : s[i] = p
  /\ \A i, j \in DOMAIN s : s[i] = s[j] => i = j

LEMMA UnlinkedHolds ==
  ASSUME NEW A, NEW s \in Seq(A), NEW S, NEW p, Holds(s, S)
  PROVE  Unlinked(s, p) \in Seq(A) /\ Holds(Unlinked(s, p), S \ {p})
<1> DEFINE at == {i \in DOMAIN s : s[i] = p}
           i == CHOOSE i \in at : TRUE
           t == [j \in 1..Len(s) - 1 |-> IF j < i THEN s[j] ELSE s[j + 1]]
<1>1. Len(s) \in Nat /\ DOMAIN s = 1..Len(s) /\ \A j \in 1..Len(s) : s[j] \in A
  OBVIOUS
<1>2. CASE at = {}
  <2>1. Unlinked(s, p) = s
    BY <1>2 DEF Unlinked
  <2>2. p \notin S
    BY <1>2 DEF Holds
  <2> QED
    BY <2>1, <2>2 DEF Holds
<1>3. CASE at # {}
  <2>1. i \in DOMAIN s /\ s[i] = p
    BY <1>3
  <2>2. Unlinked(s, p) = t
    BY <1>3 DEF Unlinked
  <2> HIDE DEF i
  <2>3. t \in Seq(A) /\ DOMAIN t = 1..Len(s) - 1
    BY <1>1, <2>1
  <2>4. ASSUME NEW j \in DOMAIN t
        PROVE  t[j] \in S \ {p}
    <3>1. j \in DOMAIN s /\ j + 1 \in DOMAIN s
      BY <1>1, <2>3
    <3>2. \A k \in DOMAIN s : k # i => s[k] \in S \ {p}
      BY <2>1 DEF Holds
    <3> QED
      BY <1>1, <2>1, <2>3, <3>1, <3>2
  <2>5. ASSUME NEW q \in S \ {p}
        PROVE  \E j \in DOMAIN t : t[j] = q
    <3>1. PICK k \in DOMAIN s : s[k] = q
      BY DEF Holds
    <3>2. k # i
      BY <2>1, <3>1
    <3>3. CASE k < i
      <4>1. k \in DOMAIN t /\ t[k] = q
        BY <1>1, <2>1, <2>3, <3>1, <3>3
      <4> QED
        BY <4>1
    <3>4. CASE k > i
      <4>1. k - 1 \in DOMAIN t /\ ~(k - 1 < i) /\ k - 1 + 1 = k
        BY <1>1, <2>1, <2>3, <3>1, <3>4
      <4>2. t[k - 1] = q
        BY <3>1, <4>1
      <4> QED
        BY <4>1, <4>2
    <3> QED
      BY <1>1, <2>1, <3>1, <3>2, <3>3, <3>4
  <2>6. ASSUME NEW j \in DOMAIN t, NEW k \in DOMAIN t, t[j] = t[k]
        PROVE  j = k
    <3> DEFINE at2(x) == IF x < i THEN x ELSE x + 1
    <3>1. at2(j) \in DOMAIN s /\ at2(k) \in DOMAIN s
      BY <1>1, <2>1, <2>3
    <3>2. s[at2(j)] = t[j] /\ s[at2(k)] = t[k]
      OBVIOUS
    <3>3. at2(j) = at2(k)
      <4> HIDE DEF at2, t
      <4> QED
        BY <2>6, <3>1, <3>2 DEF Holds
    <3> QED
      BY <1>1, <2>1, <2>3, <3>3
  <2> HIDE DEF t
  <2> QED
    BY <2>2, <2>3, <2>4, <2>5, <2>6 DEF Holds
<1> QED
  BY <1>2, <1>3

LEMMA InFrontHolds ==
  ASSUME NEW A, NEW s \in Seq(A), NEW S, NEW p \in A, Holds(s, S), p \notin S
  PROVE  <<p>> \o s \in Seq(A) /\ Holds(<<p>> \o s, S \cup {p})
<1> DEFINE t == <<p>> \o s
<1>1. t \in Seq(A) /\ Len(s) \in Nat /\ DOMAIN s = 1..Len(s) /\ DOMAIN t = 1..Len(s) + 1
  OBVIOUS
<1>2. \A j \in 1..Len(s) + 1 : t[j] = IF j = 1 THEN p ELSE s[j - 1]
  OBVIOUS
<1> HIDE DEF t
<1>3. ASSUME NEW j \in DOMAIN t
      PROVE  t[j] \in S \cup {p}
  <2>1. j # 1 => j - 1 \in DOMAIN s
    BY <1>1
  <2> QED
    BY <1>1, <1>2, <2>1 DEF Holds
<1>4. ASSUME NEW q \in S \cup {p}
      PROVE  \E j \in DOMAIN t : t[j] = q
  <2>1. CASE q = p
    BY <1>1, <1>2, <2>1
  <2>2. CASE q \in S
    <3>1. PICK k \in DOMAIN s : s[k] = q
      BY <2>2 DEF Holds
    <3>2. k + 1 \in DOMAIN t /\ k + 1 # 1 /\ k + 1 - 1 = k
      BY <1>1
    <3> QED
      BY <1>1, <1>2, <3>1, <3>2
  <2> QED
    BY <2>1, <2>2
<1>5. ASSUME NEW j \in DOMAIN t, NEW k \in DOMAIN t, t[j] = t[k]
      PROVE  j = k
  <2>1. \A x \in DOMAIN t : x # 1 => x - 1 \in DOMAIN s /\ t[x] = s[x - 1] /\ s[x - 1] \in S
    BY <1>1, <1>2 DEF Holds
  <2>2. t[1] = p /\ 1 \in DOMAIN t
    BY <1>1, <1>2
  <2>3. j = 1 <=> k = 1
    BY <1>5, <2>1, <2>2
  <2>4. CASE j # 1
    <3>1. j - 1 = k - 1
      BY <1>5, <2>1, <2>3, <2>4 DEF Holds
    <3> QED
      BY <1>1, <3>1
  <2> QED
    BY <2>3, <2>4
<1> QED
  BY <1>1, <1>3, <1>4, <1>5 DEF Holds, t

-----------------------------------------------------------------------------
(* Layouts: where the blocks are, sz[p] the size of the block at p.  They   *)
(* are found by walking the heap; here they are known beforehand.          *)

Tiling(sz, end) ==
  /\ end \in Nat /\ end <= MAX_HEAP /\ end % 2 = 0
  /\ First \in DOMAIN sz
  /\ \A p \in DOMAIN sz :
       /\ p \in Nat /\ p % 2 = 0 /\ First <= p
       /\ sz[p] \in Nat /\ sz[p] % 2 = 0 /\ sz[p] >= MIN_ALLOC
       /\ p + sz[p] <= end /\ p + sz[p] \in DOMAIN sz \cup {end}
  /\ \A p, q \in DOMAIN sz : p < q => p + sz[p] <= q
  /\ \A q \in DOMAIN sz \cup {end} : q = First \/ \E p \in DOMAIN sz : p + sz[p] = q

(* A block joined with the one behind it. *)
Joined(sz, p) ==
  [r \in DOMAIN sz \ {p + sz[p]} |-> IF r = p THEN sz[p] + sz[p + sz[p]] ELSE sz[r]]

(* A block cut behind its first n words. *)
Cut(sz, p, n) ==
  [r \in DOMAIN sz \cup {p + n} |->
     IF r = p THEN n ELSE IF r = p + n THEN sz[p] - n ELSE sz[r]]

(* A block behind the last one. *)
Longer(sz, end, n) ==
  [r \in DOMAIN sz \cup {end} |-> IF r = end THEN n ELSE sz[r]]

LEMMA TilingFacts ==
  ASSUME NEW sz, NEW end, Tiling(sz, end)
  PROVE  /\ end \notin DOMAIN sz /\ end \in Nat
         /\ \A p \in DOMAIN sz : /\ p \in Nat /\ sz[p] \in Nat /\ p >= First /\ sz[p] >= 4
                                 /\ p + sz[p] <= end /\ end <= MAX_HEAP
                                 /\ p + sz[p] # p /\ p # 0 /\ First >= 4
         /\ \A p, q \in DOMAIN sz : p + sz[p] = q + sz[q] => p = q
<1>1. First \in Nat /\ First >= 4
  BY PrologFits DEF MIN_ALLOC
<1>2. \A p \in DOMAIN sz : /\ p \in Nat /\ sz[p] \in Nat /\ p >= First /\ sz[p] >= 4
                           /\ p + sz[p] <= end /\ end <= MAX_HEAP /\ end \in Nat
  BY DEF Tiling, MIN_ALLOC
<1>3. end \notin DOMAIN sz
  BY <1>2
<1>4. ASSUME NEW p \in DOMAIN sz, NEW q \in DOMAIN sz, p + sz[p] = q + sz[q], p < q
      PROVE  FALSE
  <2>1. p + sz[p] <= q
    BY <1>4 DEF Tiling
  <2> QED
    BY <1>2, <1>4, <2>1
<1>5. \A p, q \in DOMAIN sz : p + sz[p] = q + sz[q] => p = q
  BY <1>2, <1>4
<1> QED
  BY <1>1, <1>2, <1>3, <1>5 DEF Tiling

LEMMA InHeap ==
  ASSUME NEW sz, NEW end, Tiling(sz, end), NEW p \in DOMAIN sz
  PROVE  /\ p \in Nat /\ sz[p] \in Nat /\ sz[p] >= 4 /\ p >= 4 /\ First <= p /\ First \in Nat /\ First >= 4
         /\ p + sz[p] <= end /\ end <= MAX_HEAP /\ p + sz[p] <= MAX_HEAP /\ end \in Nat /\ MAX_HEAP \in Nat
<1>1. First \in Nat /\ First >= 4 /\ MAX_HEAP \in Nat
  BY PrologFits DEF MIN_ALLOC
<1>2. /\ p \in Nat /\ sz[p] \in Nat /\ p >= First /\ sz[p] >= 4
      /\ p + sz[p] <= end /\ end <= MAX_HEAP /\ end \in Nat
  BY DEF Tiling, MIN_ALLOC
<1> QED
  BY <1>1, <1>2

LEMMA JoinedTiling ==
  ASSUME NEW sz, NEW end, Tiling(sz, end), NEW p \in DOMAIN sz, p + sz[p] \in DOMAIN sz
  PROVE  Tiling(Joined(sz, p), end)
<1> DEFINE q == p + sz[p]
           z == Joined(sz, p)
<1>1. DOMAIN z = DOMAIN sz \ {q} /\ p \in DOMAIN z /\ z[p] = sz[p] + sz[q]
  BY TilingFacts DEF Joined
<1>2. \A r \in DOMAIN z : r # p => z[r] = sz[r] /\ r # q
  BY DEF Joined
<1>3. First \in DOMAIN z
  <2>1. q # First
    BY TilingFacts DEF Tiling
  <2> QED
    BY <1>1, <2>1 DEF Tiling
<1> HIDE DEF z
<1>4. p + z[p] = q + sz[q]
  BY <1>1, TilingFacts
<1>5. ASSUME NEW r \in DOMAIN z
      PROVE  /\ r \in Nat /\ r % 2 = 0 /\ First <= r
             /\ z[r] \in Nat /\ z[r] % 2 = 0 /\ z[r] >= MIN_ALLOC
             /\ r + z[r] <= end /\ r + z[r] \in DOMAIN z \cup {end}
  <2>1. CASE r = p
    <3>1. q + sz[q] # q /\ q + sz[q] <= end /\ q + sz[q] \in DOMAIN sz \cup {end}
      BY TilingFacts DEF Tiling
    <3>2. z[p] \in Nat /\ z[p] % 2 = 0 /\ z[p] >= MIN_ALLOC
      BY <1>1 DEF Tiling, MIN_ALLOC
    <3> QED
      BY <1>1, <1>4, <2>1, <3>1, <3>2 DEF Tiling
  <2>2. CASE r # p
    <3>1. r + sz[r] # q
      BY <1>1, <2>2, TilingFacts
    <3> QED
      BY <1>1, <1>2, <2>2, <3>1 DEF Tiling
  <2> QED
    BY <2>1, <2>2
<1>6. ASSUME NEW r \in DOMAIN z, NEW s \in DOMAIN z, r < s
      PROVE  r + z[r] <= s
  <2>1. CASE r = p
    <3>1. q <= s /\ s # q
      BY <1>1, <1>6, <2>1 DEF Tiling
    <3>2. q < s
      BY <1>1, <3>1, TilingFacts
    <3>3. q + sz[q] <= s
      BY <1>1, <3>2 DEF Tiling
    <3> QED
      BY <1>4, <2>1, <3>3
  <2>2. CASE r # p
    BY <1>1, <1>2, <1>6, <2>2 DEF Tiling
  <2> QED
    BY <2>1, <2>2
<1>7. ASSUME NEW s \in DOMAIN z \cup {end}, s # First
      PROVE  \E r \in DOMAIN z : r + z[r] = s
  <2>1. s # q
    BY <1>1, TilingFacts
  <2>2. PICK r \in DOMAIN sz : r + sz[r] = s
    BY <1>1, <1>7 DEF Tiling
  <2>3. r # p
    BY <2>1, <2>2
  <2>4. CASE r = q
    BY <1>1, <1>4, <2>2, <2>4
  <2>5. CASE r # q
    BY <1>1, <1>2, <2>2, <2>3, <2>5
  <2> QED
    BY <2>4, <2>5
<1> QED
  BY <1>3, <1>5, <1>6, <1>7 DEF Tiling, z

LEMMA CutTiling ==
  ASSUME NEW sz, NEW end, Tiling(sz, end), NEW p \in DOMAIN sz,
         NEW n \in Nat, n % 2 = 0, n >= MIN_ALLOC, sz[p] - n >= MIN_ALLOC
  PROVE  Tiling(Cut(sz, p, n), end) /\ p + n \notin DOMAIN sz
<1> DEFINE q == p + n
           z == Cut(sz, p, n)
<1>1. p \in Nat /\ sz[p] \in Nat /\ p < q /\ q < p + sz[p] /\ q % 2 = 0 /\ q \in Nat /\ First <= q
  <2>1. p \in Nat /\ p % 2 = 0 /\ First \in Nat /\ First <= p /\ sz[p] \in Nat
    BY PrologFits DEF Tiling
  <2> QED
    BY <2>1 DEF MIN_ALLOC
<1>2. q \notin DOMAIN sz
  BY <1>1 DEF Tiling
<1>3. /\ DOMAIN z = DOMAIN sz \cup {q} /\ z[p] = n /\ z[q] = sz[p] - n
      /\ \A r \in DOMAIN sz : r # p => z[r] = sz[r]
  BY <1>1, <1>2 DEF Cut
<1> HIDE DEF z
<1>4. p + z[p] = q /\ q + z[q] = p + sz[p]
  BY <1>1, <1>3
<1>5. ASSUME NEW r \in DOMAIN z
      PROVE  /\ r \in Nat /\ r % 2 = 0 /\ First <= r
             /\ z[r] \in Nat /\ z[r] % 2 = 0 /\ z[r] >= MIN_ALLOC
             /\ r + z[r] <= end /\ r + z[r] \in DOMAIN z \cup {end}
  <2>1. p + sz[p] <= end /\ p + sz[p] \in DOMAIN sz \cup {end} /\ sz[p] % 2 = 0 /\ end \in Nat
    BY DEF Tiling
  <2>2. CASE r = p
    <3>1. r \in Nat /\ r % 2 = 0 /\ First <= r /\ q \in DOMAIN z
      BY <1>3, <2>2 DEF Tiling
    <3> QED
      BY <1>1, <1>3, <1>4, <2>1, <2>2, <3>1
  <2>3. CASE r = q
    <3>1. z[q] \in Nat /\ z[q] % 2 = 0 /\ z[q] >= MIN_ALLOC
      BY <1>1, <1>3, <2>1 DEF MIN_ALLOC
    <3> QED
      BY <1>1, <1>3, <1>4, <2>1, <2>3, <3>1
  <2>4. CASE r # p /\ r # q
    BY <1>3, <2>4 DEF Tiling
  <2> QED
    BY <2>2, <2>3, <2>4
<1>6. ASSUME NEW r \in DOMAIN z, NEW s \in DOMAIN z, r < s
      PROVE  r + z[r] <= s
  <2>1. CASE r = p
    <3>1. s # q => p + sz[p] <= s
      BY <1>3, <1>6, <2>1 DEF Tiling
    <3>2. s \in Nat
      BY <1>5
    <3> QED
      BY <1>1, <1>4, <2>1, <3>1, <3>2
  <2>2. CASE r = q
    <3>1. s \in DOMAIN sz /\ p < s
      BY <1>1, <1>3, <1>5, <1>6, <2>2
    <3> QED
      BY <1>4, <2>2, <3>1 DEF Tiling
  <2>3. CASE r # p /\ r # q
    <3>1. r \in DOMAIN sz /\ z[r] = sz[r]
      BY <1>3, <2>3
    <3>2. CASE s = q
      <4>1. r \in Nat /\ r < p
        <5>1. r \in Nat /\ ~(p < r)
          BY <1>1, <1>6, <3>1, <3>2, <2>3 DEF Tiling
        <5> QED
          BY <1>1, <2>3, <5>1
      <4>2. r + sz[r] <= p /\ sz[r] \in Nat
        BY <3>1, <4>1 DEF Tiling
      <4> QED
        BY <1>1, <3>1, <3>2, <4>1, <4>2
    <3>3. CASE s # q
      BY <1>3, <1>6, <3>1, <3>3 DEF Tiling
    <3> QED
      BY <3>2, <3>3
  <2> QED
    BY <2>1, <2>2, <2>3
<1>7. ASSUME NEW s \in DOMAIN z \cup {end}, s # First
      PROVE  \E r \in DOMAIN z : r + z[r] = s
  <2>1. CASE s = q
    BY <1>3, <1>4, <2>1
  <2>2. CASE s # q
    <3>1. PICK r \in DOMAIN sz : r + sz[r] = s
      BY <1>3, <1>7, <2>2 DEF Tiling
    <3>2. CASE r = p
      BY <1>3, <1>4, <3>1, <3>2
    <3>3. CASE r # p
      BY <1>3, <3>1, <3>3
    <3> QED
      BY <3>2, <3>3
  <2> QED
    BY <2>1, <2>2
<1>8. First \in DOMAIN z /\ end \in Nat /\ end <= MAX_HEAP /\ end % 2 = 0
  BY <1>3 DEF Tiling
<1> QED
  BY <1>2, <1>5, <1>6, <1>7, <1>8 DEF Tiling, z

LEMMA LongerTiling ==
  ASSUME NEW sz, NEW end, Tiling(sz, end),
         NEW n \in Nat, n % 2 = 0, n >= MIN_ALLOC, end + n <= MAX_HEAP
  PROVE  Tiling(Longer(sz, end, n), end + n)
<1> DEFINE z == Longer(sz, end, n)
<1>1. end \in Nat /\ end % 2 = 0 /\ end \notin DOMAIN sz
  BY TilingFacts DEF Tiling
<1>2. /\ DOMAIN z = DOMAIN sz \cup {end} /\ z[end] = n
      /\ \A r \in DOMAIN sz : z[r] = sz[r] /\ r # end
  BY <1>1 DEF Longer
<1> HIDE DEF z
<1>3. end + n \in Nat /\ (end + n) % 2 = 0 /\ end < end + n
  BY <1>1 DEF MIN_ALLOC
<1>4. First \in Nat /\ First <= end
  BY TilingFacts, PrologFits DEF Tiling
<1>5. ASSUME NEW r \in DOMAIN z
      PROVE  /\ r \in Nat /\ r % 2 = 0 /\ First <= r
             /\ z[r] \in Nat /\ z[r] % 2 = 0 /\ z[r] >= MIN_ALLOC
             /\ r + z[r] <= end + n /\ r + z[r] \in DOMAIN z \cup {end + n}
  <2>1. CASE r = end
    BY <1>1, <1>2, <1>3, <1>4, <2>1
  <2>2. CASE r # end
    <3>1. r \in DOMAIN sz /\ r + sz[r] <= end /\ r + sz[r] \in DOMAIN sz \cup {end}
      BY <1>2, <2>2 DEF Tiling
    <3>2. z[r] = sz[r] /\ r + sz[r] \in DOMAIN z
      BY <1>2, <3>1
    <3>3. r \in Nat /\ r % 2 = 0 /\ First <= r /\ sz[r] \in Nat /\ sz[r] % 2 = 0 /\ sz[r] >= MIN_ALLOC
      BY <3>1 DEF Tiling
    <3> QED
      BY <1>1, <3>1, <3>2, <3>3
  <2> QED
    BY <2>1, <2>2
<1>6. ASSUME NEW r \in DOMAIN z, NEW s \in DOMAIN z, r < s
      PROVE  r + z[r] <= s
  <2>1. r # end
    BY <1>1, <1>2, <1>6, TilingFacts
  <2> QED
    BY <1>2, <1>6, <2>1 DEF Tiling
<1>7. ASSUME NEW s \in DOMAIN z \cup {end + n}, s # First
      PROVE  \E r \in DOMAIN z : r + z[r] = s
  BY <1>2, <1>7 DEF Tiling
<1> QED
  BY <1>2, <1>3, <1>5, <1>6, <1>7 DEF Tiling, z

-----------------------------------------------------------------------------
(* Heaps                                                                   *)

Contents == ((0..SizeMod) \X {0, 1}) \cup Ids \cup {Junk}
Memory == [-1..MAX_HEAP - 1 -> Contents]
Heaps == [mem : Memory, lists : [Classes -> Seq(First..MAX_HEAP)], end : CHUNKSIZE..MAX_HEAP]

(* The tags of the blocks of P, of which those in U are allocated.         *)
Mark(U, p) == IF p \in U THEN 1 ELSE 0
Tagged(m, sz, U, P) ==
  \A p \in P : /\ m[p - 1] = <<sz[p], Mark(U, p)>>
               /\ m[(p + sz[p]) - 2] = <<sz[p], Mark(U, p)>>

(* The prolog and the epilog.                                              *)
Ends(m, end) ==
  m[end - 1] = <<0, 1>> /\ m[-1] = <<Prolog, 1>> /\ m[First - 2] = <<Prolog, 1>>

(* The free lists hold the blocks of F.                                    *)
Filed(lists, sz, F) == \A c \in Classes : Holds(lists[c], {p \in F : classof(sz[p]) = c})

(* A heap in which the blocks of U are allocated and those of F are free    *)
(* and in the lists; a call may have others in its hands.                  *)
Laid(h, sz, U, F) ==
  /\ h \in Heaps /\ Tiling(sz, h.end)
  /\ U \subseteq DOMAIN sz /\ F \subseteq DOMAIN sz \ U
  /\ Tagged(h.mem, sz, U, DOMAIN sz) /\ Ends(h.mem, h.end)
  /\ Filed(h.lists, sz, F)

LEMMA PutTag ==
  ASSUME NEW m \in Memory, NEW p \in Nat, NEW n \in Nat, n >= 4, p + n <= MAX_HEAP,
         NEW b, b = 0 \/ b = 1
  PROVE  /\ META_PUT(m, p, n, b) \in Memory
         /\ META_PUT(m, p, n, b)[p - 1] = <<n, b>> /\ META_PUT(m, p, n, b)[(p + n) - 2] = <<n, b>>
         /\ \A a \in -1..MAX_HEAP - 1 :
              a # p - 1 /\ a # (p + n) - 2 => META_PUT(m, p, n, b)[a] = m[a]
<1>1. MAX_HEAP \in Nat /\ SizeMod \in Nat /\ MAX_HEAP < SizeMod
  BY PrologFits
<1>2. (p + n) % SizeMod = p + n
  BY <1>1
<1> DEFINE e == (p + n) % SizeMod
<1>3. META_PUT(m, p, n, b) = [m EXCEPT ![p - 1] = <<n, b>>, ![(p + n) - 2] = <<n, b>>]
  <2>1. META_PUT(m, p, n, b) = [m EXCEPT ![p - 1] = <<n, b>>, ![e - 2] = <<n, b>>]
    BY DEF META_PUT, HDRP, PFTRP
  <2>2. e = p + n
    BY <1>2
  <2> HIDE DEF e
  <2> QED
    BY <2>1, <2>2
<1>4. p - 1 \in -1..MAX_HEAP - 1 /\ (p + n) - 2 \in -1..MAX_HEAP - 1
  BY <1>1
<1>5. <<n, b>> \in Contents
  BY <1>1 DEF Contents
<1> QED
  BY <1>3, <1>4, <1>5 DEF Memory

(* Writing the tags of the block p leaves those of the others.             *)
Untagged(m, sz, end, V, P, p) ==
  /\ Tiling(sz, end) /\ P \subseteq DOMAIN sz /\ p \in P /\ m \in Memory
  /\ Tagged(m, sz, V, P \ {p}) /\ Ends(m, end)

LEMMA PutTagged ==
  ASSUME NEW m, NEW sz, NEW end, NEW V, NEW P, NEW p, Untagged(m, sz, end, V, P, p)
  PROVE  LET w == META_PUT(m, p, sz[p], Mark(V, p))
         IN  /\ w \in Memory /\ Tagged(w, sz, V, P) /\ Ends(w, end)
             /\ \A a \in -1..MAX_HEAP - 1 : a # p - 1 /\ a # (p + sz[p]) - 2 => w[a] = m[a]
<1> DEFINE w == META_PUT(m, p, sz[p], Mark(V, p))
<1> USE DEF Untagged
<1>1. /\ p \in Nat /\ sz[p] \in Nat /\ sz[p] >= 4 /\ p + sz[p] <= MAX_HEAP
      /\ First <= p /\ p + sz[p] <= end /\ end \in Nat /\ end <= MAX_HEAP /\ MAX_HEAP \in Nat
      /\ First \in Nat /\ First >= 4
  BY InHeap
<1>0. Mark(V, p) = 0 \/ Mark(V, p) = 1
  BY DEF Mark
<1>2. /\ w \in Memory /\ w[p - 1] = <<sz[p], Mark(V, p)>> /\ w[(p + sz[p]) - 2] = <<sz[p], Mark(V, p)>>
      /\ \A a \in -1..MAX_HEAP - 1 : a # p - 1 /\ a # (p + sz[p]) - 2 => w[a] = m[a]
  BY <1>0, <1>1, PutTag
<1> HIDE DEF w
<1>3. ASSUME NEW q \in P \ {p}
      PROVE  w[q - 1] = <<sz[q], Mark(V, q)>> /\ w[(q + sz[q]) - 2] = <<sz[q], Mark(V, q)>>
  <2>1. /\ q \in Nat /\ sz[q] \in Nat /\ sz[q] >= 4 /\ q + sz[q] <= MAX_HEAP /\ q \in DOMAIN sz
    BY InHeap
  <2>2. q + sz[q] <= p \/ p + sz[p] <= q
    <3>1. q < p \/ p < q
      BY <1>1, <2>1
    <3> QED
      BY <3>1 DEF Tiling
  <2>3. /\ q - 1 # p - 1 /\ q - 1 # (p + sz[p]) - 2 /\ (q + sz[q]) - 2 # p - 1
        /\ (q + sz[q]) - 2 # (p + sz[p]) - 2
        /\ q - 1 \in -1..MAX_HEAP - 1 /\ (q + sz[q]) - 2 \in -1..MAX_HEAP - 1
    BY <1>1, <2>1, <2>2
  <2>4. m[q - 1] = <<sz[q], Mark(V, q)>> /\ m[(q + sz[q]) - 2] = <<sz[q], Mark(V, q)>>
    BY DEF Tagged
  <2> QED
    BY <1>2, <2>3, <2>4
<1>4. Ends(w, end)
  <2>1. \A a \in {end - 1, -1, First - 2} : a \in -1..MAX_HEAP - 1 /\ a # p - 1 /\ a # (p + sz[p]) - 2
    BY <1>1
  <2> QED
    BY <1>2, <2>1 DEF Ends
<1>5. Tagged(w, sz, V, P)
  <2>1. \A q \in P : w[q - 1] = <<sz[q], Mark(V, q)>> /\ w[(q + sz[q]) - 2] = <<sz[q], Mark(V, q)>>
    BY <1>2, <1>3
  <2> QED
    BY <2>1 DEF Tagged
<1> QED
  BY <1>2, <1>4, <1>5 DEF w

(* What the macros read in the tags.                                       *)
LEMMA ReadTags ==
  ASSUME NEW m, NEW sz, NEW U, NEW P, Tagged(m, sz, U, P), NEW p \in P
  PROVE  /\ SIZE(m, HDRP(p)) = sz[p] /\ (ALOC(m, HDRP(p)) <=> p \in U)
         /\ NEXTBLK(m, p) = p + sz[p]
         /\ SIZE(m, PFTRP(p + sz[p])) = sz[p] /\ (ALOC(m, PFTRP(p + sz[p])) <=> p \in U)
<1>1. m[p - 1] = <<sz[p], Mark(U, p)>> /\ m[(p + sz[p]) - 2] = <<sz[p], Mark(U, p)>>
  BY DEF Tagged
<1>2. ASSUME NEW a, m[a] = <<sz[p], Mark(U, p)>>
      PROVE  SIZE(m, a) = sz[p] /\ (ALOC(m, a) <=> p \in U)
  BY <1>2 DEF Mark, SIZE, ALOC
<1>3. HDRP(p) = p - 1 /\ PFTRP(p + sz[p]) = (p + sz[p]) - 2
  BY DEF HDRP, PFTRP
<1> QED
  BY <1>1, <1>2, <1>3 DEF NEXTBLK

LEMMA ReadBefore ==
  ASSUME NEW m, NEW sz, NEW U, NEW P, Tagged(m, sz, U, P), NEW q \in P,
         q \in Nat, sz[q] \in Nat, NEW p, p = q + sz[q]
  PROVE  PREVBLK(m, p) = q
BY ReadTags DEF PREVBLK

(* The lists.                                                              *)
LEMMA FiledSame ==
  ASSUME NEW lists, NEW sz, NEW z, NEW F, Filed(lists, sz, F), \A p \in F : z[p] = sz[p]
  PROVE  Filed(lists, z, F)
<1>1. \A c \in Classes : {p \in F : classof(z[p]) = c} = {p \in F : classof(sz[p]) = c}
  OBVIOUS
<1> QED
  BY <1>1 DEF Filed

LEMMA Reserved ==
  ASSUME NEW h \in Heaps, NEW sz, NEW F, Filed(h.lists, sz, F), NEW p
  PROVE  /\ resv_node(h, p) \in Heaps /\ Filed(resv_node(h, p).lists, sz, F \ {p})
         /\ resv_node(h, p).mem = h.mem /\ resv_node(h, p).end = h.end
<1> DEFINE l == [c \in Classes |-> Unlinked(h.lists[c], p)]
<1>1. h.lists \in [Classes -> Seq(First..MAX_HEAP)]
  BY DEF Heaps
<1>2. \A c \in Classes : /\ Unlinked(h.lists[c], p) \in Seq(First..MAX_HEAP)
                         /\ Holds(Unlinked(h.lists[c], p), {q \in F : classof(sz[q]) = c} \ {p})
  BY <1>1, UnlinkedHolds DEF Filed
<1>3. \A c \in Classes : {q \in F : classof(sz[q]) = c} \ {p} = {q \in F \ {p} : classof(sz[q]) = c}
  OBVIOUS
<1>4. l \in [Classes -> Seq(First..MAX_HEAP)] /\ Filed(l, sz, F \ {p})
  BY <1>2, <1>3 DEF Filed
<1> HIDE DEF l
<1>5. resv_node(h, p) = [h EXCEPT !.lists = l]
  BY DEF resv_node, l
<1> QED
  BY <1>4, <1>5 DEF Heaps

-----------------------------------------------------------------------------
(* Coalescing                                                              *)

LEMMA LookBack ==
  ASSUME NEW m, NEW sz, NEW U, NEW end, Tiling(sz, end), Tagged(m, sz, U, DOMAIN sz), Ends(m, end),
         NEW p \in DOMAIN sz
  PROVE  \/ p = First /\ PREVBLK(m, p) = 0 /\ ALOC(m, HDRP(PREVBLK(m, p)))
         \/ \E q \in DOMAIN sz : /\ q + sz[q] = p /\ PREVBLK(m, p) = q
                                 /\ ALOC(m, HDRP(PREVBLK(m, p))) <=> q \in U
<1>1. CASE p = First
  <2>1. m[-1] = <<Prolog, 1>> /\ m[First - 2] = <<Prolog, 1>> /\ Prolog \in Nat /\ First = Prolog
    BY PrologFits DEF Ends
  <2>2. PREVBLK(m, p) = 0
    BY <1>1, <2>1 DEF PREVBLK, SIZE, PFTRP
  <2>3. HDRP(0) = -1
    BY DEF HDRP
  <2>4. ALOC(m, HDRP(0))
    BY <2>1, <2>3 DEF ALOC
  <2> QED
    BY <1>1, <2>2, <2>4
<1>2. CASE p # First
  <2>1. PICK q \in DOMAIN sz : q + sz[q] = p
    BY <1>2 DEF Tiling
  <2>2. PREVBLK(m, p) = q
    BY <2>1, InHeap, ReadBefore
  <2>3. ALOC(m, HDRP(q)) <=> q \in U
    BY ReadTags
  <2> QED
    BY <2>1, <2>2, <2>3
<1> QED
  BY <1>1, <1>2

LEMMA LookAhead ==
  ASSUME NEW m, NEW sz, NEW U, NEW end, Tiling(sz, end), Tagged(m, sz, U, DOMAIN sz), Ends(m, end),
         NEW p \in DOMAIN sz
  PROVE  /\ NEXTBLK(m, p) = p + sz[p]
         /\ p + sz[p] \in DOMAIN sz \cup {end}
         /\ p + sz[p] = end => ALOC(m, HDRP(NEXTBLK(m, p)))
         /\ p + sz[p] \in DOMAIN sz => (ALOC(m, HDRP(NEXTBLK(m, p))) <=> p + sz[p] \in U)
<1>1. NEXTBLK(m, p) = p + sz[p]
  BY ReadTags
<1>2. ALOC(m, HDRP(end))
  BY DEF Ends, ALOC, HDRP
<1>3. \A q \in DOMAIN sz : ALOC(m, HDRP(q)) <=> q \in U
  BY ReadTags
<1>4. p + sz[p] \in DOMAIN sz \cup {end}
  BY DEF Tiling
<1> QED
  BY <1>1, <1>2, <1>3, <1>4

(* Nothing but the tags of the block q is other in the memory w.            *)
TagsOnly(m, w, sz, q) ==
  \A a \in -1..MAX_HEAP - 1 : a # q - 1 /\ a # (q + sz[q]) - 2 => w[a] = m[a]

(* The block at q takes in the others that z lacks, and its tags are        *)
(* written: the heap h becomes k.                                          *)
Absorbs(h, sz, U, F, g, z, q, W, G, k) ==
  /\ Laid(h, sz, U, F) /\ g \in Heaps /\ g.mem = h.mem /\ g.end = h.end
  /\ Tiling(z, h.end) /\ q \in DOMAIN z /\ DOMAIN z \subseteq DOMAIN sz
  /\ \A r \in DOMAIN z \ {q} : z[r] = sz[r] /\ (r \in U <=> r \in W)
  /\ W \subseteq DOMAIN z /\ G \subseteq DOMAIN z \ (W \cup {q})
  /\ Filed(g.lists, sz, G)
  /\ k = [g EXCEPT !.mem = META_PUT(h.mem, q, z[q], Mark(W, q))]

LEMMA Absorb ==
  ASSUME NEW h, NEW sz, NEW U, NEW F, NEW g, NEW z, NEW q, NEW W, NEW G, NEW k,
         Absorbs(h, sz, U, F, g, z, q, W, G, k)
  PROVE  /\ Laid(k, z, W, G) /\ k.end = h.end /\ k.lists = g.lists
         /\ TagsOnly(h.mem, k.mem, z, q)
<1> USE DEF Absorbs
<1> DEFINE w == META_PUT(h.mem, q, z[q], Mark(W, q))
<1>1. h.mem \in Memory /\ Ends(h.mem, h.end) /\ Tiling(z, h.end)
  BY DEF Laid, Heaps
<1>2. Tagged(h.mem, z, W, DOMAIN z \ {q})
  BY DEF Laid, Tagged, Mark
<1>4. /\ w \in Memory /\ Tagged(w, z, W, DOMAIN z) /\ Ends(w, h.end)
      /\ \A a \in -1..MAX_HEAP - 1 : a # q - 1 /\ a # (q + z[q]) - 2 => w[a] = h.mem[a]
  <2>1. Untagged(h.mem, z, h.end, W, DOMAIN z, q)
    BY <1>1, <1>2 DEF Untagged
  <2> QED
    BY <2>1, PutTagged
<1>6. Filed(g.lists, z, G)
  BY FiledSame
<1> HIDE DEF w
<1>7. k = [g EXCEPT !.mem = w]
  BY DEF w
<1>8. k \in Heaps /\ k.mem = w /\ k.lists = g.lists /\ k.end = h.end
  BY <1>4, <1>7 DEF Heaps
<1>9. Laid(k, z, W, G)
  BY <1>4, <1>6, <1>8 DEF Laid
<1> QED
  BY <1>4, <1>8, <1>9 DEF TagsOnly

(* No two blocks of S are neighbours.                                      *)
Apart(sz, S) == \A r \in S : r + sz[r] \notin S

(* A heap between two calls.                                               *)
Good(h, sz, U) == Laid(h, sz, U, DOMAIN sz \ U) /\ Apart(sz, DOMAIN sz \ U)

(* The block p with the one behind it, if that is free, and then with the   *)
(* one in front.                                                           *)
LEMMA Merged ==
  ASSUME NEW sz, NEW end, Tiling(sz, end), NEW p \in DOMAIN sz,
         NEW after \in BOOLEAN, after => p + sz[p] \in DOMAIN sz,
         NEW before \in BOOLEAN, NEW prev, before => prev \in DOMAIN sz /\ prev + sz[prev] = p
  PROVE  LET z1 == IF after THEN Joined(sz, p) ELSE sz
             z == IF before THEN Joined(z1, prev) ELSE z1
             q == IF before THEN prev ELSE p
         IN  /\ Tiling(z, end) /\ q \in DOMAIN z
             /\ DOMAIN z = DOMAIN sz \ ((IF after THEN {p + sz[p]} ELSE {})
                                          \cup (IF before THEN {p} ELSE {}))
             /\ \A r \in DOMAIN z \ {q} : z[r] = sz[r]
             /\ z[q] = sz[p] + (IF before THEN sz[prev] ELSE 0)
                             + (IF after THEN sz[p + sz[p]] ELSE 0)
<1> DEFINE z1 == IF after THEN Joined(sz, p) ELSE sz
           z == IF before THEN Joined(z1, prev) ELSE z1
           q == IF before THEN prev ELSE p
           R1 == IF after THEN {p + sz[p]} ELSE {}
           n1 == sz[p] + (IF after THEN sz[p + sz[p]] ELSE 0)
<1>1. /\ p \in Nat /\ sz[p] \in Nat /\ sz[p] >= 4
      /\ after => p + sz[p] \in Nat /\ sz[p + sz[p]] \in Nat
      /\ before => prev \in Nat /\ sz[prev] \in Nat /\ sz[prev] >= 4
  BY InHeap
<1>2. /\ Tiling(z1, end) /\ p \in DOMAIN z1 /\ DOMAIN z1 = DOMAIN sz \ R1 /\ z1[p] = n1
      /\ \A r \in DOMAIN z1 \ {p} : z1[r] = sz[r]
  <2>1. CASE after
    <3>1. p + sz[p] # p
      BY <1>1
    <3>2. Tiling(Joined(sz, p), end)
      BY <2>1, JoinedTiling
    <3> QED
      BY <2>1, <3>1, <3>2 DEF Joined
  <2>2. CASE ~after
    BY <1>1, <2>2
  <2> QED
    BY <2>1, <2>2
<1> HIDE DEF z1, n1
<1>3. CASE before
  <2>1. prev \in DOMAIN z1 \ {p} /\ z1[prev] = sz[prev] /\ prev + z1[prev] = p
    BY <1>1, <1>2, <1>3
  <2>2. Tiling(Joined(z1, prev), end)
    BY <1>2, <2>1, JoinedTiling
  <2>3. /\ DOMAIN Joined(z1, prev) = DOMAIN z1 \ {p} /\ prev \in DOMAIN Joined(z1, prev)
        /\ Joined(z1, prev)[prev] = sz[prev] + n1
        /\ \A r \in DOMAIN Joined(z1, prev) \ {prev} : Joined(z1, prev)[r] = sz[r]
    BY <1>2, <2>1 DEF Joined
  <2>4. sz[prev] + n1 = sz[p] + sz[prev] + (IF after THEN sz[p + sz[p]] ELSE 0)
    BY <1>1, <1>3 DEF n1
  <2> QED
    BY <1>2, <1>3, <2>2, <2>3, <2>4 DEF z1
<1>4. CASE ~before
  <2>1. n1 = sz[p] + 0 + (IF after THEN sz[p + sz[p]] ELSE 0)
    BY <1>1 DEF n1
  <2> QED
    BY <1>2, <1>4, <2>1 DEF z1
<1> QED
  BY <1>3, <1>4

(* The block q of z is the block p of sz with its neighbours in F.          *)
Around(sz, F, p, z, q) ==
  /\ IF \E r \in F : r + sz[r] = p THEN q \in F /\ q + sz[q] = p ELSE q = p
  /\ q + z[q] = IF p + sz[p] \in F THEN (p + sz[p]) + sz[p + sz[p]] ELSE p + sz[p]
  /\ \A r \in DOMAIN z \ {q} : r \in DOMAIN sz /\ z[r] = sz[r]
  /\ DOMAIN sz \ {p, p + sz[p]} \subseteq DOMAIN z

(* The block p is about to be freed; all other free blocks are in F.       *)
Loose(h, sz, U, F, p) ==
  /\ Laid(h, sz, U, F) /\ p \in DOMAIN sz \ F
  /\ DOMAIN sz = F \cup U \cup {p} /\ Apart(sz, F)

(* The block p is free and in no list.                                     *)
Held(h, sz, V, p) ==
  /\ p \in DOMAIN sz \ V
  /\ Laid(h, sz, V, DOMAIN sz \ (V \cup {p})) /\ Apart(sz, DOMAIN sz \ V)

Merges(h, sz, U, F, p, c, z) ==
  /\ Held(c.heap, z, U \ {p}, c.ptr) /\ c.heap.end = h.end
  /\ Around(sz, F, p, z, c.ptr)
  /\ \A a \in -1..MAX_HEAP - 1 :
       a # c.ptr - 1 /\ a # (c.ptr + z[c.ptr]) - 2 => c.heap.mem[a] = h.mem[a]

LEMMA Coalesce ==
  ASSUME NEW h, NEW sz, NEW U, NEW F, NEW p, Loose(h, sz, U, F, p)
  PROVE  \E z : Merges(h, sz, U, F, p, coalesce_will_free(h, p), z)
<1> USE DEF Loose
<1> DEFINE prev == PREVBLK(h.mem, p)
           next == NEXTBLK(h.mem, p)
           before == ~ALOC(h.mem, HDRP(prev))
           after == ~ALOC(h.mem, HDRP(next))
           q == IF before THEN prev ELSE p
           n == SIZE(h.mem, HDRP(p))
                  + (IF before THEN SIZE(h.mem, HDRP(prev)) ELSE 0)
                  + (IF after THEN SIZE(h.mem, HDRP(next)) ELSE 0)
           taken == IF before THEN resv_node(h, prev) ELSE h
           g == IF after THEN resv_node(taken, next) ELSE taken
           k == [g EXCEPT !.mem = META_PUT(@, q, n, 0)]
           V == U \ {p}
           z1 == IF after THEN Joined(sz, p) ELSE sz
           z == IF before THEN Joined(z1, prev) ELSE z1
           R1 == IF after THEN {p + sz[p]} ELSE {}
           R2 == IF before THEN {p} ELSE {}
           B == IF before THEN {prev} ELSE {}
<1>1. /\ h \in Heaps /\ Tiling(sz, h.end) /\ U \subseteq DOMAIN sz /\ F \subseteq DOMAIN sz \ U
      /\ Tagged(h.mem, sz, U, DOMAIN sz) /\ Ends(h.mem, h.end) /\ Filed(h.lists, sz, F)
  BY DEF Laid
<1>2. /\ before => prev \in F /\ prev + sz[prev] = p
      /\ ~before => ~\E r \in F : r + sz[r] = p
  <2>0. p \in Nat /\ sz[p] \in Nat
    BY <1>1, InHeap
  <2>1. CASE p = First /\ prev = 0 /\ ALOC(h.mem, HDRP(prev))
    <3>1. ASSUME NEW r \in F, r + sz[r] = p
          PROVE  FALSE
      <4>1. r \in Nat /\ sz[r] \in Nat /\ sz[r] >= 4 /\ First <= r
        BY <1>1, InHeap
      <4> QED
        BY <2>0, <2>1, <3>1, <4>1
    <3> QED
      BY <2>1, <3>1
  <2>2. CASE \E r \in DOMAIN sz : r + sz[r] = p /\ prev = r /\ (ALOC(h.mem, HDRP(prev)) <=> r \in U)
    <3>1. PICK r \in DOMAIN sz : r + sz[r] = p /\ prev = r /\ (ALOC(h.mem, HDRP(prev)) <=> r \in U)
      BY <2>2
    <3>2. r # p
      BY <1>1, <3>1, TilingFacts
    <3>3. \A s \in F : s + sz[s] = p => s = r
      BY <1>1, <3>1, TilingFacts
    <3> HIDE DEF prev
    <3> QED
      BY <1>1, <3>1, <3>2, <3>3
  <2> HIDE DEF prev
  <2> QED
    BY <1>1, <2>1, <2>2, LookBack DEF prev
<1>3. /\ next = p + sz[p]
      /\ after <=> p + sz[p] \in F
  <2>1. /\ next = p + sz[p] /\ p + sz[p] \in DOMAIN sz \cup {h.end}
        /\ p + sz[p] = h.end => ~after
        /\ p + sz[p] \in DOMAIN sz => (after <=> p + sz[p] \notin U)
    BY <1>1, LookAhead
  <2>2. h.end \notin DOMAIN sz /\ p + sz[p] # p
    BY <1>1, TilingFacts
  <2> HIDE DEF next, after
  <2> QED
    BY <1>1, <2>1, <2>2
<1>4. n = sz[p] + (IF before THEN sz[prev] ELSE 0) + (IF after THEN sz[p + sz[p]] ELSE 0)
  <2>1. \A r \in DOMAIN sz : SIZE(h.mem, HDRP(r)) = sz[r]
    BY <1>1, ReadTags
  <2> HIDE DEF prev, next, before, after
  <2>2. /\ SIZE(h.mem, HDRP(p)) = sz[p]
        /\ before => SIZE(h.mem, HDRP(prev)) = sz[prev]
        /\ after => SIZE(h.mem, HDRP(next)) = sz[p + sz[p]]
    BY <1>1, <1>2, <1>3, <2>1
  <2> QED
    BY <2>2
<1>5. before \in BOOLEAN /\ after \in BOOLEAN
  OBVIOUS
<1>6. coalesce_will_free(h, p) = [ptr |-> q, heap |-> k]
  BY DEF coalesce_will_free
<1> HIDE DEF prev, next, before, after, n
<1>7. /\ Tiling(z, h.end) /\ q \in DOMAIN z /\ DOMAIN z = DOMAIN sz \ (R1 \cup R2)
      /\ \A r \in DOMAIN z \ {q} : z[r] = sz[r]
      /\ z[q] = n
  <2>1. /\ after => p + sz[p] \in DOMAIN sz
        /\ before => prev \in DOMAIN sz /\ prev + sz[prev] = p
    BY <1>1, <1>2, <1>3
  <2>2. /\ Tiling(z, h.end) /\ q \in DOMAIN z /\ DOMAIN z = DOMAIN sz \ (R1 \cup R2)
        /\ \A r \in DOMAIN z \ {q} : z[r] = sz[r]
        /\ z[q] = sz[p] + (IF before THEN sz[prev] ELSE 0) + (IF after THEN sz[p + sz[p]] ELSE 0)
    BY <1>1, <1>5, <2>1, Merged
  <2> QED
    BY <1>4, <2>2
<1>8. g \in Heaps /\ g.mem = h.mem /\ g.end = h.end /\ Filed(g.lists, sz, F \ (B \cup R1))
  <2>1. /\ taken \in Heaps /\ taken.mem = h.mem /\ taken.end = h.end /\ Filed(taken.lists, sz, F \ B)
    <3>1. CASE before
      BY <1>1, <3>1, Reserved
    <3>2. CASE ~before
      <4>1. F \ B = F
        BY <3>2
      <4> QED
        BY <1>1, <3>2, <4>1
    <3> QED
      BY <3>1, <3>2
  <2> HIDE DEF taken, B
  <2>2. CASE after
    <3>1. F \ (B \cup R1) = (F \ B) \ {next}
      BY <1>3, <2>2
    <3> QED
      BY <2>1, <2>2, <3>1, Reserved
  <2>3. CASE ~after
    <3>1. F \ (B \cup R1) = F \ B
      BY <2>3
    <3> QED
      BY <2>1, <2>3, <3>1
  <2> QED
    BY <2>2, <2>3
<1>9. q \notin V /\ V \subseteq DOMAIN z /\ F \ (B \cup R1) = DOMAIN z \ (V \cup {q})
  <2>1. p + sz[p] # p
    BY <1>1, TilingFacts
  <2>2. q \notin V
    BY <1>1, <1>2
  <2>3. V \subseteq DOMAIN z
    BY <1>1, <1>3, <1>7
  <2>4. before => prev # p
    BY <1>2
  <2> QED
    BY <1>1, <1>2, <1>3, <1>7, <2>1, <2>2, <2>3, <2>4
<1> HIDE DEF g, q, z, R1, R2, B
<1>10. /\ Laid(k, z, V, DOMAIN z \ (V \cup {q})) /\ k.end = h.end
       /\ \A a \in -1..MAX_HEAP - 1 : a # q - 1 /\ a # (q + z[q]) - 2 => k.mem[a] = h.mem[a]
  <2>1. \A r \in DOMAIN z \ {q} : r \in U <=> r \in V
    BY <1>1, <1>7 DEF R2, q
  <2> DEFINE G == DOMAIN z \ (V \cup {q})
  <2>2. DOMAIN z \subseteq DOMAIN sz /\ k = [g EXCEPT !.mem = META_PUT(h.mem, q, z[q], Mark(V, q))]
    BY <1>7, <1>8, <1>9 DEF Mark
  <2> HIDE DEF V, k
  <2>3. Absorbs(h, sz, U, F, g, z, q, V, G, k)
    BY <1>7, <1>8, <1>9, <2>1, <2>2 DEF Absorbs
  <2> HIDE DEF G
  <2>5. /\ Laid(k, z, V, G) /\ k.end = h.end
        /\ \A a \in -1..MAX_HEAP - 1 : a # q - 1 /\ a # (q + z[q]) - 2 => k.mem[a] = h.mem[a]
    <3>1. Laid(k, z, V, G) /\ k.end = h.end /\ TagsOnly(h.mem, k.mem, z, q)
      BY <2>3, Absorb
    <3> QED
      BY <3>1 DEF TagsOnly
  <2> QED
    BY <2>5 DEF G
<1>11. Around(sz, F, p, z, q)
  <2>1. IF \E r \in F : r + sz[r] = p THEN q \in F /\ q + sz[q] = p ELSE q = p
    BY <1>2 DEF q
  <2>2. q + z[q] = IF p + sz[p] \in F THEN (p + sz[p]) + sz[p + sz[p]] ELSE p + sz[p]
    <3>1. /\ p \in Nat /\ sz[p] \in Nat
          /\ before => prev \in Nat /\ sz[prev] \in Nat
          /\ after => sz[p + sz[p]] \in Nat
      BY <1>1, <1>2, <1>3, InHeap
    <3>2. CASE before
      BY <1>2, <1>3, <1>4, <1>7, <3>1, <3>2 DEF q
    <3>3. CASE ~before
      BY <1>2, <1>3, <1>4, <1>7, <3>1, <3>3 DEF q
    <3> QED
      BY <3>2, <3>3
  <2>3. DOMAIN sz \ {p, p + sz[p]} \subseteq DOMAIN z
    BY <1>7 DEF R1, R2
  <2> QED
    BY <1>7, <2>1, <2>2, <2>3 DEF Around
<1>12. Apart(z, DOMAIN z \ V)
  <2>1. \A r \in DOMAIN z \ V : r = q \/ (r \in F /\ r # q /\ z[r] = sz[r])
    BY <1>1, <1>7 DEF R2, q
  <2>2. ASSUME NEW r \in DOMAIN z \ V, r + z[r] \in DOMAIN z \ V
        PROVE  FALSE
    <3>1. CASE r = q
      <4>1. q + z[q] # q
        BY <1>7, TilingFacts
      <4>2. q + z[q] \in F
        BY <2>1, <2>2, <3>1, <4>1
      <4>3. CASE p + sz[p] \in F
        BY <1>11, <4>2, <4>3 DEF Apart, Around
      <4>4. CASE p + sz[p] \notin F
        BY <1>11, <4>2, <4>4 DEF Around
      <4> QED
        BY <4>3, <4>4
    <3>2. CASE r # q
      <4>1. r \in F /\ z[r] = sz[r] /\ r + sz[r] \notin F
        BY <2>1, <3>2 DEF Apart
      <4>2. r + sz[r] = q
        BY <2>1, <2>2, <4>1
      <4>3. q # p
        BY <1>11, <4>1, <4>2 DEF Around
      <4>4. q \in F
        BY <1>11, <4>3 DEF Around
      <4> QED
        BY <4>1, <4>2, <4>4
    <3> QED
      BY <3>1, <3>2
  <2> QED
    BY <2>2 DEF Apart
<1>13. coalesce_will_free(h, p).ptr = q /\ coalesce_will_free(h, p).heap = k
  BY <1>6
<1> HIDE DEF k
<1> QED
  BY <1>7, <1>9, <1>10, <1>11, <1>12, <1>13 DEF Held, Merges

-----------------------------------------------------------------------------
(* Freeing and cutting                                                     *)

(* No word of the memory m but those from a to b is another in w.           *)
SameOutside(m, w, from, to) ==
  \A a \in -1..MAX_HEAP - 1 : a \notin from..to => w[a] = m[a]

(* The block q gets into its list.                                         *)
LEMMA FreeNode ==
  ASSUME NEW h, NEW sz, NEW U, NEW F, Laid(h, sz, U, F), NEW q \in DOMAIN sz, q \notin U, q \notin F
  PROVE  LET k == free_node(h, q)
         IN  /\ Laid(k, sz, U, F \cup {q}) /\ k.end = h.end
             /\ SameOutside(h.mem, k.mem, q, (q + sz[q]) - 3)
<1> DEFINE k == free_node(h, q)
           c == classof(sz[q])
           w == Forget(h.mem, q, (q + sz[q]) - 3)
           l == [h.lists EXCEPT ![c] = <<q>> \o @]
<1>1. /\ h \in Heaps /\ Tiling(sz, h.end) /\ Tagged(h.mem, sz, U, DOMAIN sz) /\ Ends(h.mem, h.end)
      /\ Filed(h.lists, sz, F) /\ U \subseteq DOMAIN sz /\ F \subseteq DOMAIN sz \ U
  BY DEF Laid
<1>2. /\ q \in Nat /\ sz[q] \in Nat /\ sz[q] >= 4 /\ q >= 4 /\ First <= q /\ First \in Nat /\ First >= 4
      /\ q + sz[q] <= h.end /\ h.end <= MAX_HEAP /\ h.end \in Nat /\ MAX_HEAP \in Nat
  BY <1>1, InHeap
<1>3. h.mem \in Memory /\ h.lists \in [Classes -> Seq(First..MAX_HEAP)] /\ h.end \in CHUNKSIZE..MAX_HEAP
  BY <1>1 DEF Heaps
<1>4. c \in Classes
  BY <1>2, ClassOf
<1>5. k = [h EXCEPT !.lists = l, !.mem = w]
  <2>1. SIZE(h.mem, HDRP(q)) = sz[q]
    BY <1>1, ReadTags
  <2>2. q + sz[q] - 3 = (q + sz[q]) - 3
    BY <1>2
  <2>3. k = [h EXCEPT !.lists[c] = <<q>> \o @, !.mem = Forget(h.mem, q, q + sz[q] - 3)]
    BY <2>1 DEF free_node
  <2>4. k = [h EXCEPT !.lists = l, !.mem = Forget(h.mem, q, q + sz[q] - 3)]
    BY <2>3
  <2> QED
    BY <2>2, <2>4
<1>6. w \in Memory /\ SameOutside(h.mem, w, q, (q + sz[q]) - 3)
  BY <1>3 DEF Memory, Forget, Contents, SameOutside
<1>7. Tagged(w, sz, U, DOMAIN sz) /\ Ends(w, h.end)
  <2> HIDE DEF w
  <2>1. ASSUME NEW p \in DOMAIN sz
        PROVE  w[p - 1] = h.mem[p - 1] /\ w[(p + sz[p]) - 2] = h.mem[(p + sz[p]) - 2]
    <3>1. /\ p \in Nat /\ sz[p] \in Nat /\ sz[p] >= 4 /\ p >= 4 /\ p + sz[p] <= h.end
      BY <1>1, InHeap
    <3>2. p = q \/ p + sz[p] <= q \/ q + sz[q] <= p
      <4>1. p = q \/ p < q \/ q < p
        BY <1>2, <3>1
      <4> QED
        BY <1>1, <4>1 DEF Tiling
    <3>3. /\ p - 1 \notin q..(q + sz[q]) - 3 /\ (p + sz[p]) - 2 \notin q..(q + sz[q]) - 3
          /\ p - 1 \in -1..MAX_HEAP - 1 /\ (p + sz[p]) - 2 \in -1..MAX_HEAP - 1
      BY <1>2, <3>1, <3>2
    <3> QED
      BY <1>6, <3>3 DEF SameOutside
  <2>2. \A a \in {h.end - 1, -1, First - 2} : a \in -1..MAX_HEAP - 1 /\ a \notin q..(q + sz[q]) - 3
    BY <1>2
  <2> QED
    BY <1>1, <1>6, <2>1, <2>2 DEF Tagged, Ends, SameOutside
<1>8. l \in [Classes -> Seq(First..MAX_HEAP)] /\ Filed(l, sz, F \cup {q})
  <2> DEFINE at(d) == {p \in F : classof(sz[p]) = d}
             new(d) == {p \in F \cup {q} : classof(sz[p]) = d}
  <2>1. q \in First..MAX_HEAP
    BY <1>2
  <2>2. <<q>> \o h.lists[c] \in Seq(First..MAX_HEAP) /\ Holds(<<q>> \o h.lists[c], at(c) \cup {q})
    <3>1. h.lists[c] \in Seq(First..MAX_HEAP) /\ Holds(h.lists[c], at(c)) /\ q \notin at(c)
      BY <1>1, <1>3, <1>4 DEF Filed
    <3> HIDE DEF at, c
    <3> QED
      BY <2>1, <3>1, InFrontHolds
  <2>3. \A d \in Classes : Holds(h.lists[d], at(d))
    BY <1>1 DEF Filed
  <2>4. new(c) = at(c) \cup {q} /\ \A d \in Classes \ {c} : new(d) = at(d)
    OBVIOUS
  <2> HIDE DEF at, new, c
  <2>5. \A d \in Classes : l[d] \in Seq(First..MAX_HEAP) /\ Holds(l[d], new(d))
    BY <1>3, <1>4, <2>2, <2>3, <2>4
  <2>6. DOMAIN l = Classes /\ l = [d \in Classes |-> l[d]]
    BY <1>3
  <2> QED
    BY <2>5, <2>6 DEF Filed, new
<1> HIDE DEF w, l
<1>9. k \in Heaps /\ k.mem = w /\ k.lists = l /\ k.end = h.end
  BY <1>1, <1>3, <1>5, <1>6, <1>8 DEF Heaps
<1> HIDE DEF k
<1>10. Laid(k, sz, U, F \cup {q})
  BY <1>1, <1>7, <1>8, <1>9 DEF Laid
<1> QED
  BY <1>6, <1>9, <1>10 DEF k

(* The heap k, in which need words of it are allocated.                     *)
Takes(h, sz, V, p, need, k, z) ==
  /\ Good(k, z, V \cup {p}) /\ k.end = h.end
  /\ \A r \in V : z[r] = sz[r]
  /\ z[p] \in Nat /\ z[p] >= need /\ z[p] - need < MIN_ALLOC
  /\ \A r \in DOMAIN z \ (V \cup {p}) :
       \/ r \in DOMAIN sz /\ z[r] = sz[r]
       \/ r = p + z[p] /\ r + z[r] = p + sz[p]
  /\ \A a \in -1..MAX_HEAP - 1 :
       a # p - 1 /\ a \notin (p + need) - 2..(p + sz[p]) - 2 => k.mem[a] = h.mem[a]

LEMMA FreeTail ==
  ASSUME NEW h, NEW sz, NEW V, NEW p, Held(h, sz, V, p),
         NEW need \in Nat, need % 2 = 0, need >= MIN_ALLOC, need <= sz[p]
  PROVE  \E z : Takes(h, sz, V, p, need, free_tail_was_resvd(h, p, need), z)
<1> DEFINE F == DOMAIN sz \ (V \cup {p})
           W == V \cup {p}
           second == sz[p] - need
           k == free_tail_was_resvd(h, p, need)
<1>1. /\ h \in Heaps /\ Tiling(sz, h.end) /\ Tagged(h.mem, sz, V, DOMAIN sz) /\ Ends(h.mem, h.end)
      /\ Filed(h.lists, sz, F) /\ V \subseteq DOMAIN sz /\ p \in DOMAIN sz /\ p \notin V
      /\ Laid(h, sz, V, F) /\ Apart(sz, DOMAIN sz \ V)
  BY DEF Laid, Held
<1>2. /\ p \in Nat /\ sz[p] \in Nat /\ sz[p] >= 4 /\ p >= 4 /\ p + sz[p] <= h.end /\ h.end <= MAX_HEAP
      /\ MAX_HEAP \in Nat /\ h.end \in Nat
  BY <1>1, InHeap
<1>3. SIZE(h.mem, HDRP(p)) = sz[p]
  BY <1>1, ReadTags
<1>4. h.mem \in Memory /\ h.lists \in [Classes -> Seq(First..MAX_HEAP)] /\ h.end \in CHUNKSIZE..MAX_HEAP
  BY <1>1 DEF Heaps
<1>5. CASE second < MIN_ALLOC
  <2>1. k = [h EXCEPT !.mem = META_PUT(h.mem, p, sz[p], 1)]
    BY <1>3, <1>5 DEF free_tail_was_resvd
  <2>2. k = [h EXCEPT !.mem = META_PUT(h.mem, p, sz[p], Mark(W, p))]
    BY <2>1 DEF Mark
  <2> HIDE DEF k
  <2>3. Absorbs(h, sz, V, F, h, sz, p, W, F, k)
    BY <1>1, <2>2 DEF Absorbs
  <2>4. /\ Laid(k, sz, W, F) /\ k.end = h.end
        /\ \A a \in -1..MAX_HEAP - 1 : a # p - 1 /\ a # (p + sz[p]) - 2 => k.mem[a] = h.mem[a]
    <3>1. Laid(k, sz, W, F) /\ k.end = h.end /\ TagsOnly(h.mem, k.mem, sz, p)
      BY <2>3, Absorb
    <3> QED
      BY <3>1 DEF TagsOnly
  <2>5. F = DOMAIN sz \ W /\ Apart(sz, DOMAIN sz \ W)
    BY <1>1 DEF Apart
  <2>6. Good(k, sz, W)
    BY <2>4, <2>5 DEF Good
  <2>7. (p + sz[p]) - 2 \in (p + need) - 2..(p + sz[p]) - 2
    BY <1>2
  <2>8. Takes(h, sz, V, p, need, k, sz)
    BY <1>2, <1>5, <2>4, <2>6, <2>7 DEF Takes
  <2> QED
    BY <2>8 DEF k
<1>6. CASE ~(second < MIN_ALLOC)
  <2> DEFINE q == p + need
             z == Cut(sz, p, need)
             m1 == META_PUT(h.mem, p, need, 1)
             m2 == META_PUT(m1, q, second, 0)
             h2 == [h EXCEPT !.mem = m2]
  <2>1. k = free_node(h2, q)
    BY <1>3, <1>6 DEF free_tail_was_resvd
  <2>2. Tiling(z, h.end) /\ q \notin DOMAIN sz
    <3>1. sz[p] - need >= MIN_ALLOC
      BY <1>2, <1>6 DEF MIN_ALLOC
    <3> QED
      BY <1>1, <3>1, CutTiling
  <2>3. /\ DOMAIN z = DOMAIN sz \cup {q} /\ z[p] = need /\ z[q] = second
        /\ \A r \in DOMAIN sz \ {p} : z[r] = sz[r]
    BY <1>1, <2>2 DEF Cut
  <2>4. p # q /\ q \notin V /\ q \notin W /\ F = DOMAIN z \ (W \cup {q}) /\ W \subseteq DOMAIN z
    BY <1>1, <2>2, <2>3
  <2> HIDE DEF z, q, second
  <2>5. /\ m1 \in Memory /\ Tagged(m1, z, W, DOMAIN z \ {q}) /\ Ends(m1, h.end)
        /\ \A a \in -1..MAX_HEAP - 1 : a # p - 1 /\ a # (p + need) - 2 => m1[a] = h.mem[a]
    <3> DEFINE P == DOMAIN z \ {q}
    <3>1. Tagged(h.mem, z, W, P \ {p})
      BY <1>1, <2>3 DEF Tagged, Mark
    <3>2. P \subseteq DOMAIN z /\ p \in P
      BY <1>1, <2>3, <2>4
    <3> HIDE DEF P
    <3>3. Untagged(h.mem, z, h.end, W, P, p)
      BY <1>1, <1>4, <2>2, <3>1, <3>2 DEF Untagged
    <3>4. m1 = META_PUT(h.mem, p, z[p], Mark(W, p))
      BY <2>3 DEF Mark
    <3> HIDE DEF m1, W
    <3>5. /\ m1 \in Memory /\ Tagged(m1, z, W, P) /\ Ends(m1, h.end)
          /\ \A a \in -1..MAX_HEAP - 1 : a # p - 1 /\ a # (p + z[p]) - 2 => m1[a] = h.mem[a]
      BY <3>3, <3>4, PutTagged
    <3> QED
      BY <2>3, <3>5 DEF P
  <2> HIDE DEF m1
  <2>6. /\ m2 \in Memory /\ Tagged(m2, z, W, DOMAIN z) /\ Ends(m2, h.end)
        /\ \A a \in -1..MAX_HEAP - 1 : a # q - 1 /\ a # (q + second) - 2 => m2[a] = m1[a]
    <3>1. Untagged(m1, z, h.end, W, DOMAIN z, q)
      BY <2>2, <2>3, <2>5 DEF Untagged
    <3>2. m2 = META_PUT(m1, q, z[q], Mark(W, q))
      BY <2>3, <2>4 DEF Mark
    <3> HIDE DEF m2, W
    <3>3. /\ m2 \in Memory /\ Tagged(m2, z, W, DOMAIN z) /\ Ends(m2, h.end)
          /\ \A a \in -1..MAX_HEAP - 1 : a # q - 1 /\ a # (q + z[q]) - 2 => m2[a] = m1[a]
      BY <3>1, <3>2, PutTagged
    <3> QED
      BY <2>3, <3>3
  <2> HIDE DEF m2
  <2>7. Filed(h.lists, z, F)
    <3>1. \A r \in F : z[r] = sz[r]
      BY <2>3
    <3> HIDE DEF F
    <3> QED
      BY <1>1, <3>1, FiledSame
  <2>8. h2 \in Heaps /\ h2.mem = m2 /\ h2.end = h.end /\ h2.lists = h.lists
    BY <1>1, <1>4, <2>6 DEF Heaps
  <2> HIDE DEF h2
  <2>9. Laid(h2, z, W, F)
    BY <2>2, <2>4, <2>6, <2>7, <2>8 DEF Laid
  <2>10. /\ Laid(k, z, W, F \cup {q}) /\ k.end = h.end
         /\ SameOutside(m2, k.mem, q, (q + second) - 3)
    <3>1. q \in DOMAIN z /\ q \notin W /\ q \notin F /\ z[q] = second
      BY <2>3, <2>4
    <3> HIDE DEF F, W, k
    <3> QED
      BY <2>1, <2>8, <2>9, <3>1, FreeNode
  <2>11. F \cup {q} = DOMAIN z \ W
    BY <2>3, <2>4
  <2>12. Apart(z, DOMAIN z \ W)
    <3>1. q + z[q] = p + sz[p] /\ q \in Nat
      BY <1>2, <2>3 DEF q, second
    <3>2. p + sz[p] \notin DOMAIN sz \ V
      BY <1>1 DEF Apart
    <3>3. p + z[p] = q
      BY <2>3 DEF q
    <3>4. ASSUME NEW r \in DOMAIN z \ W, r + z[r] \in DOMAIN z \ W
          PROVE  FALSE
      <4>1. CASE r = q
        <5>1. q + z[q] # q
          BY <2>2, <2>3, TilingFacts
        <5> QED
          BY <2>11, <3>1, <3>2, <3>4, <4>1, <5>1
      <4>2. CASE r # q
        <5>1. r \in F /\ z[r] = sz[r]
          BY <2>3, <2>4, <4>2
        <5>2. r + sz[r] \notin F
          BY <1>1, <5>1 DEF Apart
        <5>3. r + z[r] = q
          BY <2>11, <3>4, <5>1, <5>2
        <5>4. r \in DOMAIN z /\ p \in DOMAIN z /\ r # p
          BY <1>1, <2>3, <5>1
        <5> QED
          BY <2>2, <3>3, <5>3, <5>4, TilingFacts
      <4> QED
        BY <4>1, <4>2
    <3> QED
      BY <3>4 DEF Apart
  <2>13. Good(k, z, W)
    BY <2>10, <2>11, <2>12 DEF Good
  <2>14. \A a \in -1..MAX_HEAP - 1 :
           a # p - 1 /\ a \notin (p + need) - 2..(p + sz[p]) - 2 => k.mem[a] = h.mem[a]
    <3>1. ASSUME NEW a \in -1..MAX_HEAP - 1, a # p - 1, a \notin (p + need) - 2..(p + sz[p]) - 2
          PROVE  k.mem[a] = h.mem[a]
      <4>1. /\ a # (p + need) - 2 /\ a # q - 1 /\ a # (q + second) - 2
            /\ a \notin q..(q + second) - 3
        BY <1>2, <1>6, <3>1 DEF q, second, MIN_ALLOC
      <4> QED
        BY <2>5, <2>6, <2>10, <3>1, <4>1 DEF SameOutside
    <3> QED
      BY <3>1
  <2>15. z[p] \in Nat /\ z[p] >= need /\ z[p] - need < MIN_ALLOC
    BY <2>3 DEF MIN_ALLOC
  <2>16. \A r \in V : z[r] = sz[r]
    BY <1>1, <2>3
  <2> HIDE DEF k
  <2>17. Takes(h, sz, V, p, need, k, z)
    <3>1. \A r \in DOMAIN z \ W :
            \/ r \in DOMAIN sz /\ z[r] = sz[r]
            \/ r = p + z[p] /\ r + z[r] = p + sz[p]
      <4>1. \A r \in DOMAIN z \ W : r = q \/ r \in DOMAIN sz \ {p}
        BY <2>3
      <4>2. q = p + z[p] /\ q + z[q] = p + sz[p]
        BY <1>2, <2>3 DEF q, second
      <4> HIDE DEF W
      <4>3. \A r \in DOMAIN sz \ {p} : z[r] = sz[r]
        BY <2>3
      <4> HIDE DEF z
      <4> QED
        BY <4>1, <4>2, <4>3
    <3> QED
      BY <2>10, <2>13, <2>14, <2>15, <2>16, <3>1 DEF Takes
  <2> QED
    BY <2>17 DEF k
<1> QED
  BY <1>5, <1>6

-----------------------------------------------------------------------------
(* The growth of the heap                                                  *)

LEMMA RoundUp ==
  ASSUME NEW C \in Nat, C > 0, C % 2 = 0, NEW a \in Nat
  PROVE  LET r == ((a + C - 1) \div C) * C
         IN  r \in Nat /\ r >= a /\ r % 2 = 0
<1> DEFINE x == a + C - 1
           k == x \div C
<1>1. x \in Nat /\ x >= a
  OBVIOUS
<1> HIDE DEF x
<1>2. k \in Nat /\ x - C < k * C
  <2>1. k \in Nat
    BY <1>1
  <2>2. x - C < k * C
    BY <1>1, Z3
  <2> QED
    BY <2>1, <2>2
<1> HIDE DEF k
<1>3. k * C \in Nat
  BY <1>2
<1>4. k * C >= a
  <2> DEFINE y == k * C
  <2>1. y \in Nat /\ x - C < y
    BY <1>2, <1>3
  <2> HIDE DEF y
  <2>2. y >= a
    BY <2>1 DEF x
  <2> QED
    BY <2>2 DEF y
<1>5. (k * C) % 2 = 0
  <2>1. PICK d \in Nat : C = 2 * d
    BY Z3
  <2>2. k * C = 2 * (k * d) /\ k * d \in Nat
    BY <1>2, <2>1
  <2> DEFINE y == k * d
  <2> HIDE DEF y
  <2>3. \A v \in Nat : (2 * v) % 2 = 0
    OBVIOUS
  <2> QED
    BY <2>2, <2>3
<1>6. k = (a + C - 1) \div C
  BY DEF k, x
<1> QED
  BY <1>3, <1>4, <1>5, <1>6

(* What the client wrote into its blocks, all but the two tags of each.    *)
Preserves(h, k, sz, U) == \A r \in U : \A a \in r..(r + sz[r]) - 3 : k.mem[a] = h.mem[a]

(* The heap of c is longer, and in it a block of minsize words is at hand.  *)
Extended(h, sz, U, minsize, c, z) ==
  /\ Held(c.heap, z, U, c.ptr) /\ z[c.ptr] >= minsize
  /\ \A r \in U : z[r] = sz[r]
  /\ \A r \in DOMAIN z \ (U \cup {c.ptr}) : r \in DOMAIN sz /\ z[r] = sz[r]
  /\ c.ptr + z[c.ptr] = c.heap.end
  /\ Preserves(h, c.heap, sz, U) /\ c.heap.end > h.end

LEMMA ExtendHeap ==
  ASSUME NEW h, NEW sz, NEW U, Good(h, sz, U), NEW minsize \in Nat
  PROVE  LET c == extend_heap(h, minsize)
         IN  c = Failed(h) \/ \E z : Extended(h, sz, U, minsize, c, z)
<1> DEFINE F == DOMAIN sz \ U
           p == h.end
           tail == IF ALOC(h.mem, PFTRP(h.end)) THEN 0 ELSE SIZE(h.mem, PFTRP(h.end))
           asked == IF minsize - tail > CHUNKSIZE THEN minsize - tail ELSE CHUNKSIZE
           reqsz == ((asked + CHUNKSIZE - 1) \div CHUNKSIZE) * CHUNKSIZE
           end == h.end + reqsz
           m0 == [h.mem EXCEPT ![HDRP(end)] = <<0, 1>>]
           grown == META_PUT(m0, p, reqsz, 0)
           h1 == [h EXCEPT !.end = end, !.mem = grown]
           c == coalesce_will_free(h1, p)
           sz1 == Longer(sz, p, reqsz)
<1>1. /\ h \in Heaps /\ Tiling(sz, p) /\ Tagged(h.mem, sz, U, DOMAIN sz) /\ Ends(h.mem, p)
      /\ Filed(h.lists, sz, F) /\ U \subseteq DOMAIN sz /\ Apart(sz, F)
  BY DEF Good, Laid
<1>2. /\ p \in Nat /\ MAX_HEAP \in Nat /\ p \notin DOMAIN sz /\ p <= MAX_HEAP /\ p \in CHUNKSIZE..MAX_HEAP
      /\ SizeMod \in Nat /\ MAX_HEAP < SizeMod
  BY <1>1, TilingFacts, PrologFits DEF Tiling, Heaps
<1>3. h.mem \in Memory /\ h.lists \in [Classes -> Seq(First..MAX_HEAP)]
  BY <1>1 DEF Heaps
<1>4. PICK last \in DOMAIN sz : last + sz[last] = p
  BY <1>1, <1>2 DEF Tiling
<1>5. /\ last \in Nat /\ sz[last] \in Nat /\ sz[last] >= 4
      /\ \A r \in F : r + sz[r] = p <=> r = last
  BY <1>1, <1>4, InHeap, TilingFacts
<1>6. tail = (IF last \in U THEN 0 ELSE sz[last]) /\ tail \in Nat
  <2>1. SIZE(h.mem, PFTRP(p)) = sz[last] /\ (ALOC(h.mem, PFTRP(p)) <=> last \in U)
    BY <1>1, <1>4, ReadTags
  <2> QED
    BY <1>5, <2>1
<1> HIDE DEF tail
<1>7. reqsz \in Nat /\ reqsz % 2 = 0 /\ reqsz >= asked /\ asked >= CHUNKSIZE /\ asked >= minsize - tail
  <2>1. CHUNKSIZE \in Nat /\ CHUNKSIZE > 0 /\ CHUNKSIZE % 2 = 0 /\ asked \in Nat
    BY <1>6, PrologFits DEF MIN_ALLOC
  <2>2. asked >= CHUNKSIZE /\ asked >= minsize - tail
    BY <1>6, <2>1
  <2> HIDE DEF asked
  <2> QED
    BY <2>1, <2>2, RoundUp
<1> HIDE DEF reqsz, asked
<1>8. reqsz >= 4 /\ reqsz >= minsize - tail /\ reqsz >= MIN_ALLOC
  BY <1>6, <1>7, PrologFits DEF MIN_ALLOC, asked
<1>9. CASE end > MAX_HEAP
  BY <1>9 DEF extend_heap, tail, asked, reqsz
<1>10. CASE ~(end > MAX_HEAP)
  <2>1. end \in Nat /\ end <= MAX_HEAP /\ p < end /\ end \in CHUNKSIZE..MAX_HEAP
    BY <1>2, <1>7, <1>8, <1>10, PrologFits
  <2>2. extend_heap(h, minsize) = c
    BY <1>10 DEF extend_heap, tail, asked, reqsz
  <2>3. Tiling(sz1, end)
    BY <1>1, <1>7, <1>8, <2>1, LongerTiling
  <2>4. /\ DOMAIN sz1 = DOMAIN sz \cup {p} /\ sz1[p] = reqsz
        /\ \A r \in DOMAIN sz : sz1[r] = sz[r]
    BY <1>2 DEF Longer
  <2> HIDE DEF sz1
  <2>5. /\ m0 \in Memory /\ m0[end - 1] = <<0, 1>>
        /\ \A a \in -1..MAX_HEAP - 1 : a # end - 1 => m0[a] = h.mem[a]
    <3>1. HDRP(end) = end - 1 /\ end - 1 \in -1..MAX_HEAP - 1
      BY <1>2, <2>1 DEF HDRP
    <3>2. <<0, 1>> \in Contents
      BY <1>2 DEF Contents
    <3> QED
      BY <1>3, <3>1, <3>2 DEF Memory
  <2> HIDE DEF m0
  <2>6. Tagged(m0, sz1, U, DOMAIN sz1 \ {p})
    <3>1. ASSUME NEW r \in DOMAIN sz
          PROVE  m0[r - 1] = <<sz1[r], Mark(U, r)>> /\ m0[(r + sz1[r]) - 2] = <<sz1[r], Mark(U, r)>>
      <4>1. r \in Nat /\ sz[r] \in Nat /\ sz[r] >= 4 /\ r + sz[r] <= p /\ r >= 4
        BY <1>1, InHeap
      <4>2. /\ r - 1 # end - 1 /\ (r + sz[r]) - 2 # end - 1
            /\ r - 1 \in -1..MAX_HEAP - 1 /\ (r + sz[r]) - 2 \in -1..MAX_HEAP - 1
        BY <1>2, <2>1, <4>1
      <4>3. h.mem[r - 1] = <<sz[r], Mark(U, r)>> /\ h.mem[(r + sz[r]) - 2] = <<sz[r], Mark(U, r)>>
        BY <1>1 DEF Tagged
      <4> QED
        BY <2>4, <2>5, <4>2, <4>3
    <3>2. DOMAIN sz1 \ {p} = DOMAIN sz
      BY <1>2, <2>4
    <3> QED
      BY <3>1, <3>2 DEF Tagged
  <2>7. Ends(m0, end)
    <3>1. /\ First \in Nat /\ First <= p /\ First >= 4
      BY <1>1, <1>2, InHeap DEF Tiling
    <3>2. -1 # end - 1 /\ First - 2 # end - 1 /\ -1 \in -1..MAX_HEAP - 1 /\ First - 2 \in -1..MAX_HEAP - 1
      BY <1>2, <2>1, <3>1
    <3> QED
      BY <1>1, <2>5, <3>2 DEF Ends
  <2>8. /\ grown \in Memory /\ Tagged(grown, sz1, U, DOMAIN sz1) /\ Ends(grown, end)
        /\ \A a \in -1..MAX_HEAP - 1 : a # p - 1 /\ a # (p + sz1[p]) - 2 => grown[a] = m0[a]
    <3>1. Untagged(m0, sz1, end, U, DOMAIN sz1, p)
      BY <2>3, <2>4, <2>5, <2>6, <2>7 DEF Untagged
    <3>2. p \notin U
      BY <1>1, <1>2
    <3>3. grown = META_PUT(m0, p, sz1[p], Mark(U, p))
      BY <2>4, <3>2 DEF Mark
    <3> HIDE DEF grown
    <3> QED
      BY <3>1, <3>3, PutTagged
  <2> HIDE DEF grown
  <2>9. h1 \in Heaps /\ h1.mem = grown /\ h1.end = end /\ h1.lists = h.lists
    BY <1>1, <2>1, <2>8 DEF Heaps
  <2> HIDE DEF h1, end
  <2>10. Filed(h1.lists, sz1, F)
    <3>1. \A r \in F : sz1[r] = sz[r]
      BY <2>4
    <3> HIDE DEF F
    <3> QED
      BY <1>1, <2>9, <3>1, FiledSame
  <2>11. Laid(h1, sz1, U, F) /\ Loose(h1, sz1, U, F, p)
    <3>1. Laid(h1, sz1, U, F)
      BY <1>1, <2>3, <2>4, <2>8, <2>9, <2>10 DEF Laid
    <3>2. Apart(sz1, F) /\ DOMAIN sz1 = F \cup U \cup {p} /\ p \in DOMAIN sz1 \ F
      BY <1>1, <1>2, <2>4 DEF Apart
    <3> QED
      BY <3>1, <3>2 DEF Loose
  <2>12. PICK z : Merges(h1, sz1, U, F, p, c, z)
    <3> HIDE DEF F, p
    <3> QED
      BY <2>11, Coalesce
  <2> DEFINE q == c.ptr
  <2> HIDE DEF c
  <2>13. /\ Held(c.heap, z, U, q) /\ c.heap.end = end /\ Around(sz1, F, p, z, q)
         /\ \A a \in -1..MAX_HEAP - 1 : a # q - 1 /\ a # (q + z[q]) - 2 => c.heap.mem[a] = grown[a]
    <3>1. U \ {p} = U
      BY <1>1, <1>2
    <3> QED
      BY <2>9, <2>12, <3>1 DEF Merges
  <2>14. Tiling(z, end) /\ q \in DOMAIN z /\ q \notin U /\ U \subseteq DOMAIN z
    BY <2>13 DEF Held, Laid
  <2>15. /\ q \in Nat /\ z[q] \in Nat /\ q + z[q] = end
         /\ q = IF last \in F THEN last ELSE p
    <3>1. q \in Nat /\ z[q] \in Nat
      BY <2>14, InHeap
    <3>2. p + sz1[p] = end /\ end \notin F
      <4>1. end \notin DOMAIN sz1
        BY <2>3, TilingFacts
      <4> QED
        BY <1>1, <2>4, <4>1 DEF end
    <3>3. q + z[q] = end
      BY <2>13, <3>2 DEF Around
    <3>4. \A r \in F : r + sz1[r] = p <=> r = last
      BY <1>5, <2>4
    <3>5. IF \E r \in F : r + sz1[r] = p THEN q \in F /\ q + sz1[q] = p ELSE q = p
      BY <2>13 DEF Around
    <3> QED
      BY <3>1, <3>3, <3>4, <3>5
  <2>16. z[q] >= minsize
    <3>1. CASE last \in F
      <4>1. z[q] = reqsz + sz[last] /\ tail = sz[last]
        BY <1>4, <1>5, <1>6, <1>7, <2>15, <3>1 DEF end
      <4> QED
        BY <1>5, <1>7, <1>8, <4>1
    <3>2. CASE last \notin F
      <4>1. z[q] = reqsz /\ tail = 0
        BY <1>2, <1>4, <1>6, <1>7, <2>15, <3>2 DEF end
      <4> QED
        BY <1>8, <4>1
    <3> QED
      BY <3>1, <3>2
  <2>17. \A r \in U : z[r] = sz[r]
    <3>1. \A r \in U : r \in DOMAIN z \ {q} /\ r \in DOMAIN sz
      BY <1>1, <2>14
    <3> QED
      BY <2>4, <2>13, <3>1 DEF Around
  <2>18. Preserves(h, c.heap, sz, U)
    <3>1. ASSUME NEW r \in U, NEW a \in r..(r + sz[r]) - 3
          PROVE  c.heap.mem[a] = h.mem[a]
      <4>1. r \in Nat /\ sz[r] \in Nat /\ r >= 4 /\ sz[r] >= 4 /\ r + sz[r] <= p
        BY <1>1, InHeap
      <4>2. r + sz[r] <= q \/ q + z[q] <= r
        <5>1. r < q \/ q < r
          BY <2>14, <2>15, <4>1
        <5> QED
          BY <2>14, <2>17, <5>1 DEF Tiling
      <4>3. p < end /\ end = p + reqsz
        BY <2>1 DEF end
      <4>4. a \in -1..MAX_HEAP - 1 /\ a # q - 1 /\ a # (q + z[q]) - 2
        BY <1>2, <2>15, <4>1, <4>2
      <4>5. a # p - 1 /\ a # (p + sz1[p]) - 2 /\ a # end - 1
        BY <1>2, <1>7, <2>4, <4>1, <4>3
      <4> QED
        BY <2>5, <2>8, <2>13, <4>4, <4>5
    <3> QED
      BY <3>1 DEF Preserves
  <2>19. Extended(h, sz, U, minsize, c, z)
    <3>1. \A r \in DOMAIN z \ (U \cup {q}) : r \in DOMAIN sz /\ z[r] = sz[r]
      <4>1. \A r \in DOMAIN z \ {q} : r \in DOMAIN sz1 /\ z[r] = sz1[r]
        BY <2>13 DEF Around
      <4>2. p \notin DOMAIN z \ {q}
        <5>1. CASE p \in DOMAIN z /\ p # q
          <6>1. p + z[p] = end
            BY <2>4, <4>1, <5>1 DEF end
          <6> QED
            BY <2>14, <2>15, <5>1, <6>1, TilingFacts
        <5> QED
          BY <5>1
      <4> QED
        BY <2>4, <4>1, <4>2
    <3> QED
      BY <2>1, <2>13, <2>15, <2>16, <2>17, <2>18, <3>1 DEF Extended
  <2> QED
    BY <2>2, <2>19
<1> QED
  BY <1>9, <1>10

-----------------------------------------------------------------------------
(* The search                                                              *)

LEMMA FirstFitFound ==
  ASSUME NEW h, NEW sz, NEW U, Good(h, sz, U), NEW size \in Nat, size >= MIN_ALLOC
  PROVE  \/ FirstFit(h, size) = NULL /\ \A r \in DOMAIN sz \ U : sz[r] < size
         \/ FirstFit(h, size) \in DOMAIN sz \ U /\ sz[FirstFit(h, size)] >= size
<1> DEFINE F == DOMAIN sz \ U
           good == {c \in Classes : c >= classof(size) /\ Fitting(h, c, size) # {}}
           c == CHOOSE c \in good : \A d \in good : c <= d
           i == CHOOSE i \in Fitting(h, c, size) : \A j \in Fitting(h, c, size) : i <= j
<1>1. /\ h \in Heaps /\ Tiling(sz, h.end) /\ Tagged(h.mem, sz, U, DOMAIN sz) /\ Filed(h.lists, sz, F)
  BY DEF Good, Laid
<1>2. h.lists \in [Classes -> Seq(First..MAX_HEAP)]
  BY <1>1 DEF Heaps
<1>3. \A r \in DOMAIN sz : SIZE(h.mem, HDRP(r)) = sz[r] /\ sz[r] \in Nat /\ r # 0 /\ sz[r] >= 4
  <2>1. \A r \in DOMAIN sz : SIZE(h.mem, HDRP(r)) = sz[r]
    BY <1>1, ReadTags
  <2>2. \A r \in DOMAIN sz : sz[r] \in Nat /\ r # 0 /\ sz[r] >= 4
    BY <1>1, TilingFacts
  <2> QED
    BY <2>1, <2>2
<1>4. \A d \in Classes : Holds(h.lists[d], {r \in F : classof(sz[r]) = d})
  BY <1>1 DEF Filed
<1>5. CASE good = {}
  <2>1. ASSUME NEW r \in F, sz[r] >= size
        PROVE  FALSE
    <3>1. sz[r] \in Nat /\ classof(size) <= classof(sz[r])
      BY <1>3, <2>1, ClassesRise
    <3>2. classof(sz[r]) \in Classes /\ classof(sz[r]) >= classof(size)
      <4>1. classof(sz[r]) \in Classes /\ classof(size) \in Classes
        BY <3>1, ClassOf
      <4> QED
        BY <3>1, <4>1, ClassBounds
    <3> DEFINE d == classof(sz[r])
    <3>3. PICK j \in DOMAIN h.lists[d] : h.lists[d][j] = r
      BY <1>4, <3>2 DEF Holds
    <3>4. j \in Fitting(h, d, size)
      BY <1>3, <2>1, <3>3 DEF Fitting
    <3>5. d \in good
      BY <3>2, <3>4
    <3> QED
      BY <1>5, <3>5
  <2>2. \A r \in F : sz[r] < size
    BY <1>3, <2>1
  <2>3. FirstFit(h, size) = NULL
    BY <1>5 DEF FirstFit
  <2> QED
    BY <2>2, <2>3
<1>6. CASE good # {}
  <2>1. c \in good
    <3>1. good \in SUBSET (0..CHUNKSIZE) /\ CHUNKSIZE \in Nat
      <4>1. CHUNKSIZE \in Nat /\ \A d \in Classes : d \in 0..CHUNKSIZE
        BY ClassBounds, ClassesFinite
      <4>2. good \subseteq Classes
        OBVIOUS
      <4> HIDE DEF good
      <4> QED
        BY <4>1, <4>2
    <3> HIDE DEF good
    <3>2. \E e \in good : \A d \in good : e <= d
      BY <1>6, <3>1, Least
    <3> QED
      BY <3>2
  <2>2. FirstFit(h, size) = h.lists[c][i]
    BY <1>6 DEF FirstFit
  <2> HIDE DEF c
  <2>3. c \in Classes /\ Fitting(h, c, size) # {}
    BY <2>1
  <2>4. i \in Fitting(h, c, size)
    <3> DEFINE S == Fitting(h, c, size)
               n == Len(h.lists[c])
    <3>1. n \in Nat /\ S \in SUBSET (0..n)
      <4>1. h.lists[c] \in Seq(First..MAX_HEAP)
        BY <1>2, <2>3
      <4> QED
        BY <4>1 DEF Fitting
    <3> HIDE DEF S, n
    <3>2. \E e \in S : \A j \in S : e <= j
      BY <2>3, <3>1, Least DEF S
    <3> QED
      BY <3>2 DEF S
  <2> HIDE DEF i, good
  <2>5. i \in DOMAIN h.lists[c] /\ SIZE(h.mem, HDRP(h.lists[c][i])) >= size
    BY <2>4 DEF Fitting
  <2>6. h.lists[c][i] \in F
    BY <1>4, <2>3, <2>5 DEF Holds
  <2> QED
    BY <1>3, <2>2, <2>5, <2>6
<1> QED
  BY <1>5, <1>6

LEMMA TakesKeeps ==
  ASSUME NEW h, NEW sz, NEW V, NEW p, NEW need \in Nat, NEW k, NEW z, Held(h, sz, V, p),
         Takes(h, sz, V, p, need, k, z)
  PROVE  Preserves(h, k, sz, V)
<1>1. Tiling(sz, h.end) /\ V \subseteq DOMAIN sz /\ p \in DOMAIN sz /\ p \notin V
  BY DEF Held, Laid
<1>2. p \in Nat /\ sz[p] \in Nat /\ p + sz[p] <= MAX_HEAP /\ MAX_HEAP \in Nat
  BY <1>1, InHeap
<1>3. ASSUME NEW r \in V, NEW a \in r..(r + sz[r]) - 3
      PROVE  k.mem[a] = h.mem[a]
  <2>1. r \in Nat /\ sz[r] \in Nat /\ r >= 4 /\ sz[r] >= 4 /\ r + sz[r] <= MAX_HEAP
    BY <1>1, InHeap
  <2>2. r + sz[r] <= p \/ p + sz[p] <= r
    <3>1. r < p \/ p < r
      BY <1>1, <1>2, <2>1
    <3> QED
      BY <1>1, <3>1 DEF Tiling
  <2>3. a \in -1..MAX_HEAP - 1 /\ a # p - 1 /\ a \notin (p + need) - 2..(p + sz[p]) - 2
    BY <1>2, <2>1, <2>2
  <2> QED
    BY <2>3 DEF Takes
<1> QED
  BY <1>3 DEF Preserves

(* The block of b is new, large enough and not much larger.                *)
Allocated(h, sz, U, size, b, z) ==
  /\ b.ptr \in DOMAIN z /\ b.ptr \notin U /\ b.ptr # NULL
  /\ Good(b.heap, z, U \cup {b.ptr})
  /\ \A r \in U : z[r] = sz[r]
  /\ z[b.ptr] >= size /\ z[b.ptr] - size < MIN_ALLOC
  /\ \A r \in DOMAIN z \ (U \cup {b.ptr}) :
       \/ r \in DOMAIN sz /\ z[r] = sz[r]
       \/ /\ r = b.ptr + z[b.ptr]
          /\ r + z[r] = b.heap.end \/ \E s \in DOMAIN sz \ U : s + sz[s] = r + z[r]
  /\ Preserves(h, b.heap, sz, U) /\ b.heap.end >= h.end
  /\ b.heap.end # h.end => \A r \in DOMAIN sz \ U : sz[r] < size

LEMMA AllocateBlock ==
  ASSUME NEW h, NEW sz, NEW U, Good(h, sz, U), NEW size \in Nat, size % 2 = 0, size >= MIN_ALLOC
  PROVE  LET b == allocate_block(h, size)
         IN  b = Failed(h) \/ \E z : Allocated(h, sz, U, size, b, z)
<1> DEFINE F == DOMAIN sz \ U
           node == FirstFit(h, size)
           got == IF node = NULL THEN extend_heap(h, size)
                  ELSE [ptr |-> node, heap |-> resv_node(h, node)]
           b == allocate_block(h, size)
           k == free_tail_was_resvd(got.heap, got.ptr, size)
<1>1. /\ h \in Heaps /\ Tiling(sz, h.end) /\ Laid(h, sz, U, F) /\ Apart(sz, F) /\ Filed(h.lists, sz, F)
      /\ U \subseteq DOMAIN sz /\ h.end \in Nat
  BY TilingFacts DEF Good, Laid
<1>2. /\ node = NULL => \A r \in F : sz[r] < size
      /\ node # NULL => node \in F /\ sz[node] >= size
  <2>1. node \in F => node # NULL
    BY <1>1, TilingFacts DEF NULL
  <2> QED
    BY <2>1, FirstFitFound
<1>3. b = IF got.ptr = NULL THEN got ELSE [got EXCEPT !.heap = k]
  BY DEF allocate_block
<1> HIDE DEF node, b
<1>4. \/ got = Failed(h)
      \/ \E s : /\ Held(got.heap, s, U, got.ptr) /\ s[got.ptr] >= size
                /\ \A r \in U : s[r] = sz[r]
                /\ \A r \in DOMAIN s \ (U \cup {got.ptr}) : r \in DOMAIN sz /\ s[r] = sz[r]
                /\ \/ got.ptr + s[got.ptr] = got.heap.end
                   \/ \E r \in F : r + sz[r] = got.ptr + s[got.ptr]
                /\ Preserves(h, got.heap, sz, U) /\ got.heap.end >= h.end
                /\ got.heap.end # h.end => \A r \in F : sz[r] < size
  <2>1. CASE node = NULL
    <3>1. got = extend_heap(h, size)
      BY <2>1
    <3> HIDE DEF got
    <3>2. CASE got = Failed(h)
      BY <3>2
    <3>3. CASE \E s : Extended(h, sz, U, size, got, s)
      <4>1. PICK s : Extended(h, sz, U, size, got, s)
        BY <3>3
      <4>2. got.heap.end >= h.end
        <5>1. got.heap.end \in Nat
          BY <4>1, TilingFacts DEF Extended, Held, Laid
        <5> QED
          BY <1>1, <4>1, <5>1 DEF Extended
      <4> QED
        BY <1>2, <2>1, <4>1, <4>2 DEF Extended
    <3> QED
      BY <3>1, <3>2, <3>3, ExtendHeap
  <2>2. CASE node # NULL
    <3> DEFINE g == resv_node(h, node)
    <3>1. got = [ptr |-> node, heap |-> g]
      BY <2>2
    <3>2. /\ g \in Heaps /\ Filed(g.lists, sz, F \ {node})
          /\ g.mem = h.mem /\ g.end = h.end
      <4> HIDE DEF F
      <4> QED
        BY <1>1, Reserved
    <3> HIDE DEF g, got
    <3>3. F \ {node} = DOMAIN sz \ (U \cup {node})
      OBVIOUS
    <3>4. Laid(g, sz, U, DOMAIN sz \ (U \cup {node}))
      BY <1>1, <3>2, <3>3 DEF Laid
    <3>5. Held(g, sz, U, node)
      BY <1>1, <1>2, <2>2, <3>4 DEF Held
    <3>6. Preserves(h, g, sz, U)
      BY <3>2 DEF Preserves
    <3> QED
      BY <1>1, <1>2, <2>2, <3>1, <3>2, <3>5, <3>6
  <2> QED
    BY <2>1, <2>2
<1> HIDE DEF got
<1>5. CASE got = Failed(h)
  BY <1>3, <1>5 DEF Failed, NULL, b
<1>6. CASE got # Failed(h)
  <2>1. PICK s : /\ Held(got.heap, s, U, got.ptr) /\ s[got.ptr] >= size
                 /\ \A r \in U : s[r] = sz[r]
                 /\ \A r \in DOMAIN s \ (U \cup {got.ptr}) : r \in DOMAIN sz /\ s[r] = sz[r]
                 /\ \/ got.ptr + s[got.ptr] = got.heap.end
                    \/ \E r \in F : r + sz[r] = got.ptr + s[got.ptr]
                 /\ Preserves(h, got.heap, sz, U) /\ got.heap.end >= h.end
                 /\ got.heap.end # h.end => \A r \in F : sz[r] < size
    BY <1>4, <1>6
  <2>2. got.ptr # NULL /\ got.ptr \notin U
    BY <2>1, TilingFacts DEF Held, Laid, NULL
  <2>3. PICK z : Takes(got.heap, s, U, got.ptr, size, k, z)
    <3>1. size <= s[got.ptr]
      BY <2>1
    <3> QED
      BY <2>1, <3>1, FreeTail
  <2>4. Preserves(got.heap, k, s, U)
    <3> HIDE DEF k
    <3> QED
      BY <2>1, <2>3, TakesKeeps
  <2>5. Preserves(h, k, sz, U)
    BY <2>1, <2>4 DEF Preserves
  <2>6. b.ptr = got.ptr /\ b.heap = k
    <3>1. b = [got EXCEPT !.heap = k]
      BY <1>3, <2>2
    <3>2. DOMAIN got = {"ptr", "heap"}
      <4>1. node = NULL => got = extend_heap(h, size)
        BY DEF got
      <4>2. node # NULL => got = [ptr |-> node, heap |-> resv_node(h, node)]
        BY DEF got
      <4>3. DOMAIN extend_heap(h, size) = {"ptr", "heap"}
        BY DEF extend_heap, Failed, coalesce_will_free
      <4> QED
        BY <4>1, <4>2, <4>3
    <3> HIDE DEF k
    <3> QED
      BY <3>1, <3>2
  <2> HIDE DEF k
  <2>7. Allocated(h, sz, U, size, b, z)
    <3>1. b.ptr \in DOMAIN z
      BY <2>3, <2>6 DEF Takes, Good, Laid
    <3> QED
      <4>1. \A r \in DOMAIN z \ (U \cup {got.ptr}) :
              \/ r \in DOMAIN sz /\ z[r] = sz[r]
              \/ /\ r = got.ptr + z[got.ptr]
                 /\ r + z[r] = k.end \/ \E e \in F : e + sz[e] = r + z[r]
        <5>1. k.end = got.heap.end
          BY <2>3 DEF Takes
        <5>2. TAKE r \in DOMAIN z \ (U \cup {got.ptr})
        <5>3. \/ r \in DOMAIN s /\ z[r] = s[r]
              \/ r = got.ptr + z[got.ptr] /\ r + z[r] = got.ptr + s[got.ptr]
          BY <2>3 DEF Takes
        <5> QED
          BY <2>1, <5>1, <5>3
      <4> QED
        BY <2>1, <2>2, <2>3, <2>5, <2>6, <3>1, <4>1 DEF Takes, Allocated
  <2> QED
    BY <2>7 DEF b
<1> QED
  BY <1>5, <1>6

-----------------------------------------------------------------------------
(* free                                                                    *)

(* The blocks of V are where they were.                                    *)
Stay(sz, z, V) == \A r \in V : r \in DOMAIN z /\ z[r] = sz[r]

(* The blocks of F are where they were or part of the one at q.             *)
Within(sz, z, F, q) ==
  \A r \in F : sz[r] <= z[q] \/ (r \in DOMAIN z \ {q} /\ z[r] = sz[r])

LEMMA MergesKeep ==
  ASSUME NEW h, NEW sz, NEW U, NEW F, NEW p, NEW c, NEW z,
         Loose(h, sz, U, F, p), Merges(h, sz, U, F, p, c, z)
  PROVE  /\ Stay(sz, z, U \ {p})
         /\ Preserves(h, c.heap, sz, U \cup {p})
         /\ c.ptr \in Nat /\ z[c.ptr] \in Nat /\ p \in Nat /\ sz[p] \in Nat
         /\ c.ptr <= p /\ p + sz[p] <= c.ptr + z[c.ptr]
         /\ Within(sz, z, F, c.ptr)
<1> DEFINE q == c.ptr
           V == U \ {p}
           next == p + sz[p]
<1>1. /\ Tiling(sz, h.end) /\ p \in DOMAIN sz /\ U \subseteq DOMAIN sz /\ F \subseteq DOMAIN sz \ U
      /\ p \notin F
  BY DEF Loose, Laid
<1>2. /\ Tiling(z, h.end) /\ q \in DOMAIN z /\ V \subseteq DOMAIN z /\ q \notin V
      /\ Around(sz, F, p, z, q)
      /\ \A a \in -1..MAX_HEAP - 1 : a # q - 1 /\ a # (q + z[q]) - 2 => c.heap.mem[a] = h.mem[a]
  BY DEF Merges, Held, Laid
<1> HIDE DEF q
<1>3. \A r \in V : r \in DOMAIN z /\ z[r] = sz[r]
  BY <1>2 DEF Around
<1>4. q \in Nat /\ z[q] \in Nat /\ p \in Nat /\ sz[p] \in Nat /\ q + z[q] <= MAX_HEAP /\ MAX_HEAP \in Nat
  BY <1>1, <1>2, InHeap
<1>5. q = p \/ (q \in F /\ q + sz[q] = p)
  BY <1>2 DEF Around
<1>6. q \in F => sz[q] \in Nat
  BY <1>1, InHeap
<1>7. next \in F => sz[next] \in Nat
  BY <1>1, InHeap
<1>8. q <= p
  BY <1>4, <1>5, <1>6
<1>9. q + z[q] = IF next \in F THEN next + sz[next] ELSE next
  BY <1>2 DEF Around
<1>10. p + sz[p] <= q + z[q]
  BY <1>4, <1>7, <1>9
<1>11. Preserves(h, c.heap, sz, U \cup {p})
  <2>1. ASSUME NEW r \in U \cup {p}, NEW a \in r..(r + sz[r]) - 3
        PROVE  c.heap.mem[a] = h.mem[a]
    <3>1. r \in Nat /\ sz[r] \in Nat /\ r >= 4 /\ r + sz[r] <= MAX_HEAP /\ sz[r] >= 4
      BY <1>1, InHeap
    <3>2. CASE r = p
      <4>1. a \in -1..MAX_HEAP - 1 /\ a # q - 1 /\ a # (q + z[q]) - 2
        BY <1>4, <1>8, <1>10, <3>1, <3>2
      <4> QED
        BY <1>2, <4>1
    <3>3. CASE r # p
      <4>1. r \in V /\ r \in DOMAIN z /\ z[r] = sz[r]
        BY <1>3, <3>3
      <4>2. r + sz[r] <= q \/ q + z[q] <= r
        <5>1. r < q \/ q < r
          BY <1>2, <1>4, <3>1, <4>1
        <5> QED
          BY <1>2, <4>1, <5>1 DEF Tiling
      <4>3. a \in -1..MAX_HEAP - 1 /\ a # q - 1 /\ a # (q + z[q]) - 2
        BY <1>4, <3>1, <4>2
      <4> QED
        BY <1>2, <4>3
    <3> QED
      BY <3>2, <3>3
  <2> QED
    BY <2>1 DEF Preserves
<1>12. ASSUME NEW r \in F
       PROVE  sz[r] <= z[q] \/ (r \in DOMAIN z \ {q} /\ z[r] = sz[r])
  <2>1. sz[r] \in Nat
    BY <1>1, InHeap
  <2>2. CASE r = q
    BY <1>4, <1>5, <1>6, <1>10, <2>1, <2>2
  <2>3. CASE r = next
    BY <1>4, <1>8, <1>9, <2>1, <2>3
  <2>4. CASE r # q /\ r # next
    <3>1. r \in DOMAIN sz \ {p, p + sz[p]}
      BY <1>1, <2>4
    <3>2. r \in DOMAIN z \ {q}
      BY <1>2, <2>4, <3>1 DEF Around
    <3> QED
      BY <1>2, <3>2 DEF Around
  <2> QED
    BY <2>2, <2>3, <2>4
<1> QED
  BY <1>3, <1>4, <1>8, <1>10, <1>11, <1>12 DEF q, Stay, Within

LEMMA Release ==
  ASSUME NEW h, NEW sz, NEW V, NEW q, Held(h, sz, V, q)
  PROVE  /\ Good(free_node(h, q), sz, V) /\ free_node(h, q).end = h.end
         /\ Preserves(h, free_node(h, q), sz, V)
<1> DEFINE k == free_node(h, q)
           F == DOMAIN sz \ (V \cup {q})
<1>1. /\ Laid(h, sz, V, F) /\ q \in DOMAIN sz /\ q \notin V /\ q \notin F
      /\ Tiling(sz, h.end) /\ V \subseteq DOMAIN sz /\ Apart(sz, DOMAIN sz \ V)
  BY DEF Held, Laid
<1>2. F \cup {q} = DOMAIN sz \ V
  BY <1>1
<1> HIDE DEF F, k
<1>3. /\ Laid(k, sz, V, F \cup {q}) /\ k.end = h.end
      /\ SameOutside(h.mem, k.mem, q, (q + sz[q]) - 3)
  BY <1>1, FreeNode DEF k
<1>4. ASSUME NEW r \in V, NEW a \in r..(r + sz[r]) - 3
      PROVE  k.mem[a] = h.mem[a]
  <2>1. /\ r \in Nat /\ sz[r] \in Nat /\ r >= 4 /\ r + sz[r] <= MAX_HEAP
        /\ q \in Nat /\ sz[q] \in Nat /\ MAX_HEAP \in Nat
    BY <1>1, InHeap
  <2>2. r + sz[r] <= q \/ q + sz[q] <= r
    <3>1. r < q \/ q < r
      BY <1>1, <2>1
    <3> QED
      BY <1>1, <3>1 DEF Tiling
  <2>3. a \in -1..MAX_HEAP - 1 /\ a \notin q..(q + sz[q]) - 3
    BY <2>1, <2>2
  <2> QED
    BY <1>3, <2>3 DEF SameOutside
<1> QED
  BY <1>1, <1>2, <1>3, <1>4 DEF Good, Preserves, k

LEMMA Releases ==
  ASSUME NEW h, NEW sz, NEW U, Good(h, sz, U), NEW p \in U
  PROVE  \E z : /\ Good(mm_free(h, p), z, U \ {p}) /\ mm_free(h, p).end = h.end
                /\ \A r \in U \ {p} : z[r] = sz[r]
                /\ Preserves(h, mm_free(h, p), sz, U \ {p})
<1> DEFINE F == DOMAIN sz \ U
           c == coalesce_will_free(h, p)
           V == U \ {p}
           k == free_node(c.heap, c.ptr)
<1>1. Laid(h, sz, U, F) /\ Apart(sz, F) /\ U \subseteq DOMAIN sz /\ p \in DOMAIN sz /\ p # NULL
  BY TilingFacts DEF Good, Laid, NULL
<1>2. Loose(h, sz, U, F, p)
  BY <1>1 DEF Loose
<1>3. mm_free(h, p) = k
  BY <1>1 DEF mm_free
<1> HIDE DEF F, c
<1>4. PICK z : Merges(h, sz, U, F, p, c, z)
  BY <1>2, Coalesce DEF c
<1>5. Held(c.heap, z, V, c.ptr) /\ c.heap.end = h.end
  BY <1>4 DEF Merges
<1> HIDE DEF V, k
<1>6. (\A r \in V : z[r] = sz[r]) /\ Preserves(h, c.heap, sz, U \cup {p})
  <2>1. Stay(sz, z, U \ {p})
    BY <1>2, <1>4, MergesKeep
  <2>2. Preserves(h, c.heap, sz, U \cup {p})
    BY <1>2, <1>4, MergesKeep
  <2> QED
    BY <2>1, <2>2 DEF V, Stay
<1>7. Good(k, z, V) /\ k.end = h.end /\ Preserves(c.heap, k, z, V)
  BY <1>5, Release DEF k
<1>8. Preserves(h, k, sz, V)
  BY <1>6, <1>7 DEF Preserves, V
<1> QED
  BY <1>3, <1>6, <1>7, <1>8 DEF V

-----------------------------------------------------------------------------
(* realloc                                                                 *)

(* What a block holds between its tags is nobody else's.                   *)
LEMMA Inside ==
  ASSUME NEW h, NEW sz, NEW U, NEW F, Laid(h, sz, U, F), NEW q \in DOMAIN sz,
         NEW w \in Memory, SameOutside(h.mem, w, q, (q + sz[q]) - 3),
         NEW k, k = [h EXCEPT !.mem = w]
  PROVE  /\ Laid(k, sz, U, F) /\ k.mem = w /\ k.end = h.end
         /\ \A r \in DOMAIN sz \ {q} : \A a \in r..(r + sz[r]) - 3 : w[a] = h.mem[a]
<1>1. /\ h \in Heaps /\ Tiling(sz, h.end) /\ Tagged(h.mem, sz, U, DOMAIN sz) /\ Ends(h.mem, h.end)
  BY DEF Laid
<1>2. /\ q \in Nat /\ sz[q] \in Nat /\ sz[q] >= 4 /\ q >= 4 /\ First <= q /\ First \in Nat /\ First >= 4
      /\ q + sz[q] <= h.end /\ h.end <= MAX_HEAP /\ h.end \in Nat /\ MAX_HEAP \in Nat
  BY <1>1, InHeap
<1>3. k \in Heaps /\ k.mem = w /\ k.end = h.end /\ k.lists = h.lists
  BY <1>1 DEF Heaps
<1>4. ASSUME NEW p \in DOMAIN sz
      PROVE  /\ w[p - 1] = h.mem[p - 1] /\ w[(p + sz[p]) - 2] = h.mem[(p + sz[p]) - 2]
             /\ p # q => \A a \in p..(p + sz[p]) - 3 : w[a] = h.mem[a]
  <2>1. /\ p \in Nat /\ sz[p] \in Nat /\ sz[p] >= 4 /\ p >= 4 /\ p + sz[p] <= h.end
    BY <1>1, InHeap
  <2>2. p = q \/ p + sz[p] <= q \/ q + sz[q] <= p
    <3>1. p = q \/ p < q \/ q < p
      BY <1>2, <2>1
    <3> QED
      BY <1>1, <3>1 DEF Tiling
  <2>3. /\ p - 1 \notin q..(q + sz[q]) - 3 /\ (p + sz[p]) - 2 \notin q..(q + sz[q]) - 3
        /\ p - 1 \in -1..MAX_HEAP - 1 /\ (p + sz[p]) - 2 \in -1..MAX_HEAP - 1
        /\ p # q => \A a \in p..(p + sz[p]) - 3 : a \notin q..(q + sz[q]) - 3 /\ a \in -1..MAX_HEAP - 1
    BY <1>2, <2>1, <2>2
  <2> QED
    BY <2>3 DEF SameOutside
<1>5. Tagged(w, sz, U, DOMAIN sz)
  BY <1>1, <1>4 DEF Tagged
<1>6. Ends(w, h.end)
  <2>1. \A a \in {h.end - 1, -1, First - 2} : a \in -1..MAX_HEAP - 1 /\ a \notin q..(q + sz[q]) - 3
    BY <1>2
  <2> QED
    BY <1>1, <2>1 DEF Ends, SameOutside
<1>7. Laid(k, sz, U, F)
  BY <1>3, <1>5, <1>6 DEF Laid
<1> QED
  BY <1>3, <1>4, <1>7

CopyFits(m, to, from, n) ==
  /\ m \in Memory /\ to \in Nat /\ from \in Nat /\ n \in Nat
  /\ from + n <= MAX_HEAP /\ to + n <= MAX_HEAP

LEMMA Copied ==
  ASSUME NEW m, NEW to, NEW from, NEW n, CopyFits(m, to, from, n)
  PROVE  /\ Copy(m, to, from, n) \in Memory
         /\ \A j \in 0..n - 1 : Copy(m, to, from, n)[to + j] = m[from + j]
         /\ \A a \in -1..MAX_HEAP - 1 : a \notin to..to + n - 1 => Copy(m, to, from, n)[a] = m[a]
<1> USE DEF CopyFits
<1> DEFINE w == Copy(m, to, from, n)
<1>1. DOMAIN m = -1..MAX_HEAP - 1 /\ MAX_HEAP \in Nat
  BY PrologFits DEF Memory
<1>2. w = [a \in -1..MAX_HEAP - 1 |-> IF a \in to..to + n - 1 THEN m[from + a - to] ELSE m[a]]
  BY <1>1 DEF Copy
<1>3. \A a \in to..to + n - 1 : from + a - to \in -1..MAX_HEAP - 1
  BY <1>1
<1>4. ASSUME NEW j \in 0..n - 1
      PROVE  w[to + j] = m[from + j]
  <2>1. to + j \in to..to + n - 1 /\ to + j \in -1..MAX_HEAP - 1 /\ from + (to + j) - to = from + j
    BY <1>1
  <2> QED
    BY <1>2, <2>1
<1>5. w \in Memory
  BY <1>2, <1>3 DEF Memory
<1> QED
  BY <1>2, <1>4, <1>5

(* The block p is to have size words; its coalesced block in c has no list. *)
Resizing(h, sz, U, p, size, n, c, z) ==
  /\ Good(h, sz, U) /\ p \in U
  /\ size \in Nat /\ size % 2 = 0 /\ size >= MIN_ALLOC
  /\ n = (IF sz[p] < size THEN sz[p] ELSE size) - 2
  /\ Merges(h, sz, U, DOMAIN sz \ U, p, c, z)

(* The block of b has taken the place of p, with its first n words.         *)
Resized(h, sz, U, p, size, n, b, z) ==
  /\ b.ptr \in DOMAIN z /\ b.ptr \notin U \ {p} /\ b.ptr # NULL
  /\ Good(b.heap, z, (U \ {p}) \cup {b.ptr})
  /\ Stay(sz, z, U \ {p})
  /\ z[b.ptr] >= size /\ z[b.ptr] - size < MIN_ALLOC
  /\ Preserves(h, b.heap, sz, U \ {p}) /\ b.heap.end >= h.end
  /\ b.heap.end # h.end => \A r \in DOMAIN sz \ U : sz[r] < size
  /\ \A j \in 0..n - 1 : b.heap.mem[b.ptr + j] = h.mem[p + j]

Facts(h, sz, U, p, size, n, c, z) ==
  /\ Held(c.heap, z, U \ {p}, c.ptr) /\ c.heap.end = h.end
  /\ Tiling(sz, h.end) /\ p \in DOMAIN sz /\ Tiling(z, h.end) /\ c.ptr \in DOMAIN z
  /\ Stay(sz, z, U \ {p}) /\ Preserves(h, c.heap, sz, U) /\ Within(sz, z, DOMAIN sz \ U, c.ptr)
  /\ c.ptr \in Nat /\ z[c.ptr] \in Nat /\ p \in Nat /\ sz[p] \in Nat
  /\ c.ptr <= p /\ p + sz[p] <= c.ptr + z[c.ptr] /\ c.ptr + z[c.ptr] <= h.end
  /\ h.end \in Nat /\ h.end <= MAX_HEAP /\ MAX_HEAP \in Nat
  /\ n \in Nat /\ size \in Nat /\ n <= sz[p] - 2 /\ n <= size - 2
  /\ c.heap.mem \in Memory /\ c.heap.mem[c.ptr - 1] = <<z[c.ptr], 0>>

LEMMA ResizingFacts ==
  ASSUME NEW h, NEW sz, NEW U, NEW p, NEW size, NEW n, NEW c, NEW z,
         Resizing(h, sz, U, p, size, n, c, z)
  PROVE  Facts(h, sz, U, p, size, n, c, z)
<1> DEFINE F == DOMAIN sz \ U
<1>1. /\ Tiling(sz, h.end) /\ p \in DOMAIN sz /\ Loose(h, sz, U, F, p) /\ U \cup {p} = U
      /\ Merges(h, sz, U, F, p, c, z)
  BY DEF Resizing, Good, Loose, Laid
<1>2. /\ Held(c.heap, z, U \ {p}, c.ptr) /\ c.heap.end = h.end
      /\ Tiling(z, h.end) /\ c.ptr \in DOMAIN z /\ c.heap.mem \in Memory
      /\ Tagged(c.heap.mem, z, U \ {p}, DOMAIN z) /\ c.ptr \notin U \ {p}
  BY <1>1 DEF Merges, Held, Laid, Heaps
<1> HIDE DEF F
<1>3. /\ Stay(sz, z, U \ {p}) /\ Preserves(h, c.heap, sz, U)
      /\ c.ptr \in Nat /\ z[c.ptr] \in Nat /\ p \in Nat /\ sz[p] \in Nat
      /\ c.ptr <= p /\ p + sz[p] <= c.ptr + z[c.ptr]
      /\ Within(sz, z, F, c.ptr)
  <2>1. Preserves(h, c.heap, sz, U \cup {p})
    BY <1>1, MergesKeep
  <2>2. /\ Stay(sz, z, U \ {p})
        /\ c.ptr \in Nat /\ z[c.ptr] \in Nat /\ p \in Nat /\ sz[p] \in Nat
        /\ c.ptr <= p /\ p + sz[p] <= c.ptr + z[c.ptr]
        /\ Within(sz, z, F, c.ptr)
    BY <1>1, MergesKeep
  <2> QED
    BY <1>1, <2>1, <2>2
<1>4. c.ptr + z[c.ptr] <= h.end /\ h.end \in Nat /\ h.end <= MAX_HEAP /\ MAX_HEAP \in Nat /\ sz[p] >= 4
  BY <1>1, <1>2, InHeap
<1>5. n \in Nat /\ size \in Nat /\ n <= sz[p] - 2 /\ n <= size - 2
  BY <1>3, <1>4 DEF Resizing, MIN_ALLOC
<1>6. c.heap.mem[c.ptr - 1] = <<z[c.ptr], 0>>
  BY <1>2 DEF Tagged, Mark
<1> QED
  BY <1>1, <1>2, <1>3, <1>4, <1>5, <1>6 DEF F, Facts

LEMMA GrowsInPlace ==
  ASSUME NEW h, NEW sz, NEW U, NEW p, NEW size, NEW n, NEW c, NEW z,
         Resizing(h, sz, U, p, size, n, c, z), size <= z[c.ptr]
  PROVE  \E y : Resized(h, sz, U, p, size, n, GrowInPlace(c, p, size, n), y)
<1> DEFINE q == c.ptr
           V == U \ {p}
           w == Copy(c.heap.mem, q, p, n)
           g == [c.heap EXCEPT !.mem = w]
           k == free_tail_was_resvd(g, q, size)
           b == GrowInPlace(c, p, size, n)
           F == DOMAIN z \ (V \cup {q})
<1>1. /\ Held(c.heap, z, V, q) /\ c.heap.end = h.end
      /\ Tiling(sz, h.end) /\ p \in DOMAIN sz /\ Tiling(z, h.end) /\ q \in DOMAIN z
      /\ Stay(sz, z, V) /\ Preserves(h, c.heap, sz, U)
      /\ q \in Nat /\ z[q] \in Nat /\ p \in Nat /\ sz[p] \in Nat
      /\ q <= p /\ p + sz[p] <= q + z[q] /\ q + z[q] <= h.end
      /\ h.end \in Nat /\ h.end <= MAX_HEAP /\ MAX_HEAP \in Nat
      /\ n \in Nat /\ n <= sz[p] - 2 /\ n <= size - 2 /\ c.heap.mem \in Memory
  <2>1. Facts(h, sz, U, p, size, n, c, z)
    BY ResizingFacts
  <2> QED
    BY <2>1 DEF Facts
<1>2. /\ size \in Nat /\ size % 2 = 0 /\ size >= MIN_ALLOC /\ p \in U /\ U \subseteq DOMAIN sz
      /\ n = (IF sz[p] < size THEN sz[p] ELSE size) - 2
  BY DEF Resizing, Good, Laid
<1>3. Laid(c.heap, z, V, F) /\ Apart(z, DOMAIN z \ V) /\ q \notin V /\ V \subseteq DOMAIN z
  BY <1>1 DEF Held, Laid
<1>4. b = [ptr |-> q, heap |-> k]
  BY DEF GrowInPlace
<1> HIDE DEF b, q
<1>5. /\ w \in Memory
      /\ \A j \in 0..n - 1 : w[q + j] = c.heap.mem[p + j]
      /\ \A a \in -1..MAX_HEAP - 1 : a \notin q..q + n - 1 => w[a] = c.heap.mem[a]
  <2> DEFINE m == c.heap.mem
  <2>1. CopyFits(m, q, p, n)
    BY <1>1 DEF CopyFits
  <2> HIDE DEF m
  <2>2. /\ Copy(m, q, p, n) \in Memory
        /\ \A j \in 0..n - 1 : Copy(m, q, p, n)[q + j] = m[p + j]
        /\ \A a \in -1..MAX_HEAP - 1 : a \notin q..q + n - 1 => Copy(m, q, p, n)[a] = m[a]
    BY <2>1, Copied
  <2> QED
    BY <2>2 DEF m
<1> HIDE DEF w, F, V
<1>6. SameOutside(c.heap.mem, w, q, (q + z[q]) - 3)
  <2>1. \A a \in -1..MAX_HEAP - 1 : a \notin q..(q + z[q]) - 3 => a \notin q..q + n - 1
    BY <1>1, <1>2
  <2> QED
    BY <1>5, <2>1 DEF SameOutside
<1>7. /\ Laid(g, z, V, F) /\ g.mem = w /\ g.end = h.end
      /\ \A r \in DOMAIN z \ {q} : \A a \in r..(r + z[r]) - 3 : w[a] = c.heap.mem[a]
  BY <1>1, <1>3, <1>5, <1>6, Inside
<1> HIDE DEF g
<1>8. Held(g, z, V, q)
  BY <1>1, <1>3, <1>7 DEF Held, F
<1>9. PICK y : Takes(g, z, V, q, size, k, y)
  BY <1>2, <1>8, FreeTail DEF q
<1>10. Preserves(g, k, z, V)
  <2> HIDE DEF k
  <2> QED
    BY <1>2, <1>8, <1>9, TakesKeeps
<1> HIDE DEF k
<1>11. Preserves(h, k, sz, V)
  <2>1. ASSUME NEW r \in V, NEW a \in r..(r + sz[r]) - 3
        PROVE  k.mem[a] = h.mem[a]
    <3>1. r \in DOMAIN z \ {q} /\ z[r] = sz[r] /\ r \in U
      BY <1>1, <1>3 DEF Stay, V
    <3>2. k.mem[a] = g.mem[a]
      BY <1>10, <3>1 DEF Preserves
    <3>3. w[a] = c.heap.mem[a]
      BY <1>7, <3>1
    <3>4. c.heap.mem[a] = h.mem[a]
      BY <1>1, <3>1 DEF Preserves
    <3> QED
      BY <1>7, <3>2, <3>3, <3>4
  <2> QED
    BY <2>1 DEF Preserves
<1>12. \A j \in 0..n - 1 : k.mem[q + j] = h.mem[p + j]
  <2>1. ASSUME NEW j \in 0..n - 1
        PROVE  k.mem[q + j] = h.mem[p + j]
    <3>1. /\ q + j \in -1..MAX_HEAP - 1 /\ q + j # q - 1
          /\ q + j \notin (q + size) - 2..(q + z[q]) - 2
      BY <1>1, <1>2
    <3>2. k.mem[q + j] = g.mem[q + j]
      BY <1>9, <3>1 DEF Takes
    <3>3. p + j \in p..(p + sz[p]) - 3
      BY <1>1
    <3>4. c.heap.mem[p + j] = h.mem[p + j]
      BY <1>1, <1>2, <3>3 DEF Preserves
    <3> QED
      BY <1>5, <1>7, <3>2, <3>4
  <2> QED
    BY <2>1
<1>13. Stay(sz, y, V)
  BY <1>1, <1>3, <1>9 DEF Stay, Takes, Good, Laid
<1>14. Resized(h, sz, U, p, size, n, b, y)
  <2>1. q \in DOMAIN y /\ q # NULL /\ b.ptr = q /\ b.heap = k
    BY <1>1, <1>4, <1>9, TilingFacts DEF Takes, Good, Laid, NULL
  <2>2. Good(k, y, V \cup {q}) /\ k.end = h.end /\ y[q] >= size /\ y[q] - size < MIN_ALLOC
    BY <1>7, <1>9 DEF Takes
  <2> QED
    BY <1>1, <1>3, <1>11, <1>12, <1>13, <2>1, <2>2 DEF Resized, V
<1> QED
  BY <1>14 DEF b

LEMMA TagsOutside ==
  ASSUME NEW sz, NEW end, Tiling(sz, end), NEW q \in DOMAIN sz, NEW r \in DOMAIN sz,
         NEW a \in r..(r + sz[r]) - 3
  PROVE  a \in -1..MAX_HEAP - 1 /\ a # q - 1 /\ a # (q + sz[q]) - 2
<1>1. /\ r \in Nat /\ sz[r] \in Nat /\ r >= 4 /\ sz[r] >= 4 /\ r + sz[r] <= MAX_HEAP /\ MAX_HEAP \in Nat
      /\ q \in Nat /\ sz[q] \in Nat
  BY InHeap
<1>2. r = q \/ r + sz[r] <= q \/ q + sz[q] <= r
  <2>1. r = q \/ r < q \/ q < r
    BY <1>1
  <2> QED
    BY <2>1 DEF Tiling
<1> QED
  BY <1>1, <1>2

(* The block q gets other tags, and what the blocks of W hold is the same.  *)
LEMMA Retag ==
  ASSUME NEW g, NEW z, NEW V, NEW F, NEW q, NEW W, NEW k, Absorbs(g, z, V, F, g, z, q, W, F, k)
  PROVE  Laid(k, z, W, F) /\ k.end = g.end /\ Preserves(g, k, z, W)
<1>1. Laid(k, z, W, F) /\ k.end = g.end /\ TagsOnly(g.mem, k.mem, z, q)
  BY Absorb
<1>2. Tiling(z, g.end) /\ q \in DOMAIN z /\ W \subseteq DOMAIN z
  BY DEF Absorbs
<1>3. ASSUME NEW r \in W, NEW a \in r..(r + z[r]) - 3
      PROVE  k.mem[a] = g.mem[a]
  <2>1. a \in -1..MAX_HEAP - 1 /\ a # q - 1 /\ a # (q + z[q]) - 2
    BY <1>2, TagsOutside
  <2> QED
    BY <1>1, <2>1 DEF TagsOnly
<1> QED
  BY <1>1, <1>3 DEF Preserves

(* The tags of the block q change from free to allocated.                  *)
Seizes(g, z, V, q, k) == Held(g, z, V, q) /\ k = [g EXCEPT !.mem = META_PUT(@, q, z[q], 1)]

LEMMA Seized ==
  ASSUME NEW g, NEW z, NEW V, NEW q, NEW k, Seizes(g, z, V, q, k)
  PROVE  Good(k, z, V \cup {q}) /\ k.end = g.end /\ Preserves(g, k, z, V \cup {q})
<1> DEFINE F == DOMAIN z \ (V \cup {q})
           W == V \cup {q}
<1>1. /\ Laid(g, z, V, F) /\ g \in Heaps /\ Tiling(z, g.end) /\ q \in DOMAIN z /\ V \subseteq DOMAIN z
      /\ q \notin V /\ Filed(g.lists, z, F) /\ Apart(z, DOMAIN z \ V)
  BY DEF Seizes, Held, Laid
<1>2. /\ \A r \in DOMAIN z \ {q} : r \in V <=> r \in W
      /\ W \subseteq DOMAIN z /\ F = DOMAIN z \ W /\ F \subseteq DOMAIN z \ (W \cup {q})
  BY <1>1
<1>3. k = [g EXCEPT !.mem = META_PUT(g.mem, q, z[q], Mark(W, q))]
  BY DEF Mark, Seizes
<1>4. Apart(z, F)
  BY <1>1 DEF Apart
<1> HIDE DEF F, W
<1>5. Absorbs(g, z, V, F, g, z, q, W, F, k)
  BY <1>1, <1>2, <1>3 DEF Absorbs
<1>6. Laid(k, z, W, F) /\ k.end = g.end /\ Preserves(g, k, z, W)
  BY <1>5, Retag
<1> QED
  BY <1>2, <1>4, <1>6 DEF Good, W

(* The rest of a block that was just allocated is no neighbour of a block q *)
(* that had no free neighbour.                                             *)
LEMMA RestApart ==
  ASSUME NEW g, NEW z, NEW W, NEW size, NEW b, NEW y, Allocated(g, z, W, size, b, y),
         NEW q \in W, q \in DOMAIN z, Apart(z, (DOMAIN z \ W) \cup {q})
  PROVE  Apart(y, DOMAIN y \ ((W \ {q}) \cup {b.ptr}))
<1> DEFINE S == DOMAIN y \ ((W \ {q}) \cup {b.ptr})
           G == DOMAIN y \ (W \cup {b.ptr})
           p == b.ptr
<1>1. /\ Tiling(y, b.heap.end) /\ Apart(y, G) /\ p \in DOMAIN y /\ p \notin W /\ q \in DOMAIN y
      /\ y[q] = z[q]
  BY DEF Allocated, Good, Laid
<1>2. \A r \in G : \/ r \in DOMAIN z \ W /\ y[r] = z[r]
                   \/ /\ r = p + y[p]
                      /\ r + y[r] = b.heap.end \/ \E e \in DOMAIN z \ W : e + z[e] = r + y[r]
  BY DEF Allocated
<1>3. \A r \in S : r = q \/ r \in G
  OBVIOUS
<1>4. q + z[q] \notin DOMAIN z \ W /\ \A r \in DOMAIN z \ W : r + z[r] # q
  BY DEF Apart
<1> HIDE DEF S, G, p
<1>5. ASSUME NEW r \in S, r + y[r] \in S
      PROVE  FALSE
  <2>1. CASE r = q
    <3>1. q + y[q] \in G
      <4>1. q + y[q] # q
        BY <1>1, TilingFacts
      <4> QED
        BY <1>3, <1>5, <2>1, <4>1
    <3>2. q + y[q] = p + y[p]
      BY <1>1, <1>2, <1>4, <3>1
    <3> QED
      BY <1>1, <3>2, TilingFacts
  <2>2. CASE r # q /\ r + y[r] = q
    <3>1. r \in G
      BY <1>3, <2>2
    <3>2. b.heap.end \notin DOMAIN y
      BY <1>1, TilingFacts
    <3> QED
      BY <1>1, <1>2, <1>4, <2>2, <3>1, <3>2
  <2>3. CASE r # q /\ r + y[r] # q
    BY <1>1, <1>3, <1>5, <2>3 DEF Apart
  <2> QED
    BY <2>1, <2>2, <2>3
<1> QED
  BY <1>5 DEF Apart, S

(* The coalesced block with the tags of an allocated one, while another is  *)
(* looked for.                                                             *)
Reserve(c) == [c.heap EXCEPT !.mem = META_PUT(@, c.ptr, SIZE(c.heap.mem, HDRP(c.ptr)), 1)]

LEMMA ReserveSeizes ==
  ASSUME NEW h, NEW sz, NEW U, NEW p, NEW size, NEW n, NEW c, NEW z, Facts(h, sz, U, p, size, n, c, z)
  PROVE  /\ SIZE(c.heap.mem, HDRP(c.ptr)) = z[c.ptr]
         /\ Good(Reserve(c), z, (U \ {p}) \cup {c.ptr}) /\ Reserve(c).end = h.end
         /\ Preserves(c.heap, Reserve(c), z, (U \ {p}) \cup {c.ptr})
<1>1. Held(c.heap, z, U \ {p}, c.ptr) /\ c.heap.end = h.end /\ c.heap.mem[c.ptr - 1] = <<z[c.ptr], 0>>
  BY DEF Facts
<1>2. SIZE(c.heap.mem, HDRP(c.ptr)) = z[c.ptr]
  BY <1>1 DEF SIZE, HDRP
<1>3. Reserve(c) = [c.heap EXCEPT !.mem = META_PUT(@, c.ptr, z[c.ptr], 1)]
  BY <1>2 DEF Reserve
<1>4. Seizes(c.heap, z, U \ {p}, c.ptr, Reserve(c))
  BY <1>1, <1>3 DEF Seizes
<1>5. /\ Good(Reserve(c), z, (U \ {p}) \cup {c.ptr}) /\ Reserve(c).end = c.heap.end
      /\ Preserves(c.heap, Reserve(c), z, (U \ {p}) \cup {c.ptr})
  BY <1>4, Seized
<1> QED
  BY <1>1, <1>2, <1>5

(* The words of p are copied to the new block.                             *)
Across(h, p, n, b, y, w) ==
  /\ w \in Memory /\ SameOutside(b.heap.mem, w, b.ptr, (b.ptr + y[b.ptr]) - 3)
  /\ \A j \in 0..n - 1 : w[b.ptr + j] = h.mem[p + j]

LEMMA CopyAcross ==
  ASSUME NEW h, NEW sz, NEW U, NEW p, NEW size, NEW n, NEW c, NEW z, Facts(h, sz, U, p, size, n, c, z),
         p \in U, NEW b, NEW y,
         Allocated(Reserve(c), z, (U \ {p}) \cup {c.ptr}, size, b, y)
  PROVE  Across(h, p, n, b, y, Copy(b.heap.mem, b.ptr, p, n))
<1> DEFINE q == c.ptr
           V == U \ {p}
           W == V \cup {q}
           m == b.heap.mem
           w == Copy(m, b.ptr, p, n)
           to == b.ptr
           g == Reserve(c)
<1>1. /\ Tiling(sz, h.end) /\ p \in DOMAIN sz /\ Tiling(z, h.end) /\ q \in DOMAIN z
      /\ Preserves(h, c.heap, sz, U)
      /\ q \in Nat /\ z[q] \in Nat /\ p \in Nat /\ sz[p] \in Nat
      /\ q <= p /\ p + sz[p] <= q + z[q] /\ q + z[q] <= h.end
      /\ h.end \in Nat /\ h.end <= MAX_HEAP /\ MAX_HEAP \in Nat
      /\ n \in Nat /\ size \in Nat /\ n <= sz[p] - 2 /\ n <= size - 2
  BY DEF Facts
<1>2. /\ Tiling(y, b.heap.end) /\ to \in DOMAIN y /\ y[to] >= size /\ m \in Memory
      /\ Preserves(g, b.heap, z, W)
  BY DEF Allocated, Good, Laid, Heaps
<1>3. to \in Nat /\ y[to] \in Nat /\ to + y[to] <= MAX_HEAP /\ MAX_HEAP \in Nat
  BY <1>2, InHeap
<1>4. Preserves(c.heap, g, z, W)
  BY ReserveSeizes
<1> HIDE DEF m, to, g
<1>5. /\ w \in Memory
      /\ \A j \in 0..n - 1 : w[to + j] = m[p + j]
      /\ \A a \in -1..MAX_HEAP - 1 : a \notin to..to + n - 1 => w[a] = m[a]
  <2>1. CopyFits(m, to, p, n)
    <3>1. n <= y[to] - 2
      BY <1>1, <1>2, <1>3
    <3> QED
      BY <1>1, <1>2, <1>3, <3>1 DEF CopyFits
  <2>2. /\ Copy(m, to, p, n) \in Memory
        /\ \A j \in 0..n - 1 : Copy(m, to, p, n)[to + j] = m[p + j]
        /\ \A a \in -1..MAX_HEAP - 1 : a \notin to..to + n - 1 => Copy(m, to, p, n)[a] = m[a]
    BY <2>1, Copied
  <2> QED
    BY <2>2 DEF to
<1> HIDE DEF w
<1>6. SameOutside(m, w, to, (to + y[to]) - 3)
  BY <1>1, <1>2, <1>3, <1>5 DEF SameOutside
<1>7. ASSUME NEW j \in 0..n - 1
      PROVE  w[to + j] = h.mem[p + j]
  <2>1. p + j \in q..(q + z[q]) - 3 /\ p + j \in p..(p + sz[p]) - 3
    BY <1>1
  <2>2. m[p + j] = g.mem[p + j]
    BY <1>2, <2>1 DEF Preserves, m
  <2>3. g.mem[p + j] = c.heap.mem[p + j]
    BY <1>4, <2>1 DEF Preserves
  <2>4. c.heap.mem[p + j] = h.mem[p + j]
    BY <1>1, <2>1 DEF Preserves
  <2> QED
    BY <1>5, <2>2, <2>3, <2>4
<1> QED
  BY <1>5, <1>6, <1>7 DEF w, m, to, Across

LEMMA Moves ==
  ASSUME NEW h, NEW sz, NEW U, NEW p, NEW size, NEW n, NEW c, NEW z,
         Resizing(h, sz, U, p, size, n, c, z), z[c.ptr] < size,
         allocate_block(Reserve(c), size).ptr # NULL
  PROVE  \E y : Resized(h, sz, U, p, size, n, Move(c, p, sz[p], size, n), y)
<1> DEFINE q == c.ptr
           V == U \ {p}
           W == V \cup {q}
           g == Reserve(c)
           b == allocate_block(g, size)
           to == b.ptr
           w == Copy(b.heap.mem, to, p, n)
           g1 == [b.heap EXCEPT !.mem = w]
           g2 == [b.heap EXCEPT !.mem = META_PUT(w, q, z[q], 0)]
           k == free_node(g2, q)
           V2 == V \cup {to}
           r0 == Move(c, p, sz[p], size, n)
<1>1. /\ size \in Nat /\ size % 2 = 0 /\ size >= MIN_ALLOC /\ p \in U /\ U \subseteq DOMAIN sz
  BY DEF Resizing, Good, Laid
<1>2. Facts(h, sz, U, p, size, n, c, z)
  BY ResizingFacts
<1>3. /\ Tiling(sz, h.end) /\ p \in DOMAIN sz /\ Tiling(z, h.end) /\ q \in DOMAIN z
      /\ Stay(sz, z, V) /\ Preserves(h, c.heap, sz, U) /\ Within(sz, z, DOMAIN sz \ U, q)
      /\ Held(c.heap, z, V, q)
      /\ q \in Nat /\ z[q] \in Nat
  BY <1>2 DEF Facts
<1>4. V \subseteq DOMAIN z \ {q} /\ Apart(z, DOMAIN z \ V) /\ q \notin V
  BY <1>3 DEF Held, Laid
<1>5. SIZE(c.heap.mem, HDRP(q)) = z[q] /\ Good(g, z, W) /\ g.end = h.end /\ Preserves(c.heap, g, z, W)
  BY <1>2, ReserveSeizes
<1>6. r0 = [ptr |-> to, heap |-> k]
  BY <1>5 DEF Move, Reserve
<1> HIDE DEF b, g, r0
<1>7. PICK y : Allocated(g, z, W, size, b, y)
  <2>1. b # Failed(g)
    BY DEF Failed, NULL, b, g
  <2> HIDE DEF W
  <2> QED
    BY <1>1, <1>5, <2>1, AllocateBlock DEF b
<1>8. /\ to \in DOMAIN y /\ to \notin W /\ to # NULL
      /\ Laid(b.heap, y, W \cup {to}, DOMAIN y \ (W \cup {to}))
      /\ \A r \in W : y[r] = z[r]
      /\ y[to] >= size /\ y[to] - size < MIN_ALLOC
      /\ Preserves(g, b.heap, z, W) /\ b.heap.end >= g.end
      /\ b.heap.end # g.end => \A r \in DOMAIN z \ W : z[r] < size
  BY <1>7 DEF Allocated, Good
<1>9. /\ w \in Memory /\ SameOutside(b.heap.mem, w, to, (to + y[to]) - 3)
      /\ \A j \in 0..n - 1 : w[to + j] = h.mem[p + j]
  <2>1. Across(h, p, n, b, y, w)
    BY <1>1, <1>2, <1>7, CopyAcross DEF g
  <2> HIDE DEF w
  <2> QED
    BY <2>1 DEF Across
<1> DEFINE U1 == W \cup {to}
           G == DOMAIN y \ U1
<1>10. W \subseteq DOMAIN y /\ U1 \subseteq DOMAIN y
  BY <1>8 DEF Laid
<1> HIDE DEF w
<1>11. /\ Laid(g1, y, U1, G) /\ g1.mem = w /\ g1.end = b.heap.end
       /\ \A r \in DOMAIN y \ {to} : \A a \in r..(r + y[r]) - 3 : w[a] = b.heap.mem[a]
  <2> HIDE DEF U1, to, W
  <2> QED
    BY <1>8, <1>9, Inside DEF U1
<1>12. Absorbs(g1, y, U1, G, g1, y, q, V2, G, g2)
  <2>1. g2 = [g1 EXCEPT !.mem = META_PUT(w, q, z[q], 0)]
    OBVIOUS
  <2>2. Mark(V2, q) = 0 /\ y[q] = z[q] /\ q \in DOMAIN y
    BY <1>4, <1>8, <1>10 DEF Mark
  <2>3. /\ \A r \in DOMAIN y \ {q} : r \in U1 <=> r \in V2
        /\ V2 \subseteq DOMAIN y /\ G \subseteq DOMAIN y \ (V2 \cup {q})
    BY <1>10
  <2> HIDE DEF g1, g2, U1, V2, G
  <2>4. g1 \in Heaps /\ Tiling(y, g1.end) /\ Filed(g1.lists, y, G)
    BY <1>11 DEF Laid
  <2>5. g2 = [g1 EXCEPT !.mem = META_PUT(g1.mem, q, y[q], Mark(V2, q))]
    BY <1>11, <2>1, <2>2
  <2> QED
    BY <1>11, <2>2, <2>3, <2>4, <2>5 DEF Absorbs
<1>13. Laid(g2, y, V2, G) /\ g2.end = b.heap.end /\ Preserves(g1, g2, y, V2)
  <2> HIDE DEF g1, g2, U1, V2, G
  <2> QED
    BY <1>11, <1>12, Retag
<1>14. Held(g2, y, V2, q)
  <2>1. q \in DOMAIN y \ V2 /\ G = DOMAIN y \ (V2 \cup {q})
    BY <1>4, <1>8, <1>10
  <2>2. Apart(y, DOMAIN y \ V2)
    <3>1. (W \ {q}) \cup {to} = V2 /\ (DOMAIN z \ W) \cup {q} = DOMAIN z \ V
      BY <1>3, <1>4
    <3>2. Apart(z, (DOMAIN z \ W) \cup {q}) /\ q \in W /\ q \in DOMAIN z
      BY <1>3, <1>4, <3>1
    <3> HIDE DEF W, V2
    <3> QED
      BY <1>7, <3>1, <3>2, RestApart
  <2> QED
    BY <1>13, <2>1, <2>2 DEF Held
<1>15. Good(k, y, V2) /\ k.end = b.heap.end /\ Preserves(g2, k, y, V2)
  <2> HIDE DEF g2, V2
  <2> QED
    BY <1>13, <1>14, Release
<1> HIDE DEF k
<1>16. ASSUME NEW r \in V2, NEW a \in r..(r + y[r]) - 3
       PROVE  k.mem[a] = w[a]
  <2>1. k.mem[a] = g2.mem[a]
    BY <1>15 DEF Preserves
  <2>2. g2.mem[a] = g1.mem[a]
    BY <1>13 DEF Preserves
  <2> QED
    BY <1>11, <2>1, <2>2
<1>17. Preserves(h, k, sz, V)
  <2>1. ASSUME NEW r \in V, NEW a \in r..(r + sz[r]) - 3
        PROVE  k.mem[a] = h.mem[a]
    <3>1. /\ r \in DOMAIN y \ {to} /\ z[r] = sz[r] /\ y[r] = sz[r] /\ r \in U /\ r \in W /\ r \in V2
      BY <1>3, <1>8, <1>10 DEF Stay
    <3>2. k.mem[a] = b.heap.mem[a]
      BY <1>11, <1>16, <3>1
    <3>3. b.heap.mem[a] = g.mem[a] /\ g.mem[a] = c.heap.mem[a]
      BY <1>5, <1>8, <3>1 DEF Preserves
    <3>4. c.heap.mem[a] = h.mem[a]
      BY <1>3, <3>1 DEF Preserves
    <3> QED
      BY <3>2, <3>3, <3>4
  <2> QED
    BY <2>1 DEF Preserves
<1>18. ASSUME NEW j \in 0..n - 1
       PROVE  k.mem[to + j] = h.mem[p + j]
  <2>1. to \in Nat /\ y[to] \in Nat
    BY <1>8, InHeap DEF Laid
  <2>2. n \in Nat /\ n <= size - 2
    BY <1>2 DEF Facts
  <2>3. to + j \in to..(to + y[to]) - 3
    BY <1>1, <1>8, <2>1, <2>2
  <2> QED
    BY <1>9, <1>16, <2>3
<1>19. k.end # h.end => \A r \in DOMAIN sz \ U : sz[r] < size
  <2>1. ASSUME NEW r \in DOMAIN sz \ U, k.end # h.end
        PROVE  sz[r] < size
    <3>1. sz[r] \in Nat
      BY <1>3, InHeap
    <3>2. CASE sz[r] <= z[q]
      BY <1>1, <1>3, <3>1, <3>2
    <3>3. CASE r \in DOMAIN z \ {q} /\ z[r] = sz[r]
      BY <1>5, <1>8, <1>15, <2>1, <3>3
    <3> QED
      BY <1>3, <3>2, <3>3 DEF Within
  <2> QED
    BY <2>1
<1>20. Stay(sz, y, V)
  BY <1>3, <1>8, <1>10 DEF Stay
<1>21. Resized(h, sz, U, p, size, n, r0, y)
  <2>1. r0.ptr = to /\ r0.heap = k
    BY <1>6
  <2>2. k.end >= h.end
    BY <1>5, <1>8, <1>15
  <2> QED
    BY <1>8, <1>15, <1>17, <1>18, <1>19, <1>20, <2>1, <2>2 DEF Resized
<1> QED
  BY <1>21 DEF r0

-----------------------------------------------------------------------------
(* A realloc that fails, where the block in front of p was free            *)

(* The heap before the free parts of the coalesced block get into the lists *)
(* again; its words are cut back to those of three blocks, or two.          *)
CutBack(g, sz, q, p) == META_PUT(META_PUT(g.mem, p, sz[p], 1), q, sz[q], 0)

Undoing(h, sz, U, p, size, n, c, z) ==
  /\ Resizing(h, sz, U, p, size, n, c, z)
  /\ c.ptr \in DOMAIN sz \ U /\ c.ptr + sz[c.ptr] = p

UndoFacts(h, sz, U, p, c, z) ==
  /\ Good(Reserve(c), z, (U \ {p}) \cup {c.ptr}) /\ Reserve(c).end = h.end
  /\ Tiling(sz, h.end) /\ Tiling(z, h.end) /\ U \subseteq DOMAIN sz /\ p \in U
  /\ Tagged(h.mem, sz, U, DOMAIN sz)
  /\ c.ptr \in DOMAIN sz \ U /\ c.ptr + sz[c.ptr] = p /\ c.ptr \in DOMAIN z
  /\ c.ptr \in Nat /\ p \in Nat /\ sz[p] \in Nat /\ sz[c.ptr] \in Nat /\ sz[p] >= 4 /\ sz[c.ptr] >= 4
  /\ z[c.ptr] \in Nat /\ c.ptr + z[c.ptr] <= MAX_HEAP /\ MAX_HEAP \in Nat
  /\ p + sz[p] <= c.ptr + z[c.ptr]
  /\ \A r \in DOMAIN z \ {c.ptr} : r \in DOMAIN sz /\ z[r] = sz[r]
  /\ DOMAIN sz \ {p, p + sz[p]} \subseteq DOMAIN z
  /\ c.ptr + z[c.ptr] = IF p + sz[p] \in DOMAIN sz \ U THEN (p + sz[p]) + sz[p + sz[p]] ELSE p + sz[p]
  /\ p + sz[p] \in DOMAIN sz \ U => sz[p + sz[p]] \in Nat /\ sz[p + sz[p]] >= 4
  /\ \A a \in -1..MAX_HEAP - 1 : a # c.ptr - 1 /\ a # (c.ptr + z[c.ptr]) - 2 => c.heap.mem[a] = h.mem[a]
  /\ Preserves(c.heap, Reserve(c), z, (U \ {p}) \cup {c.ptr}) /\ Preserves(h, c.heap, sz, U)

LEMMA UndoingFacts ==
  ASSUME NEW h, NEW sz, NEW U, NEW p, NEW size, NEW n, NEW c, NEW z, Undoing(h, sz, U, p, size, n, c, z)
  PROVE  UndoFacts(h, sz, U, p, c, z)
<1> DEFINE q == c.ptr
           next == p + sz[p]
           F == DOMAIN sz \ U
<1>1. Resizing(h, sz, U, p, size, n, c, z) /\ q \in F /\ q + sz[q] = p
  BY DEF Undoing
<1>2. Facts(h, sz, U, p, size, n, c, z)
  BY <1>1, ResizingFacts
<1>3. /\ Tiling(sz, h.end) /\ U \subseteq DOMAIN sz /\ p \in U /\ Tagged(h.mem, sz, U, DOMAIN sz)
      /\ Merges(h, sz, U, F, p, c, z)
  BY <1>1 DEF Resizing, Good, Laid
<1>4. /\ Tiling(z, h.end) /\ q \in DOMAIN z /\ z[q] \in Nat /\ p + sz[p] <= q + z[q]
      /\ Preserves(h, c.heap, sz, U)
  BY <1>2 DEF Facts
<1>5. /\ Around(sz, F, p, z, q)
      /\ \A a \in -1..MAX_HEAP - 1 : a # q - 1 /\ a # (q + z[q]) - 2 => c.heap.mem[a] = h.mem[a]
  BY <1>3 DEF Merges
<1>6. /\ Good(Reserve(c), z, (U \ {p}) \cup {q}) /\ Reserve(c).end = h.end
      /\ Preserves(c.heap, Reserve(c), z, (U \ {p}) \cup {q})
  BY <1>2, ReserveSeizes
<1>7. \A r \in DOMAIN sz : r \in Nat /\ sz[r] \in Nat /\ sz[r] >= 4
  BY <1>3, InHeap
<1>8. q + z[q] <= MAX_HEAP /\ MAX_HEAP \in Nat
  BY <1>4, InHeap
<1> HIDE DEF q
<1>9. /\ \A r \in DOMAIN z \ {q} : r \in DOMAIN sz /\ z[r] = sz[r]
      /\ DOMAIN sz \ {p, p + sz[p]} \subseteq DOMAIN z
      /\ q + z[q] = IF next \in F THEN next + sz[next] ELSE next
  BY <1>5 DEF Around
<1>10. q \in Nat /\ p \in Nat /\ sz[p] \in Nat /\ sz[q] \in Nat /\ sz[p] >= 4 /\ sz[q] >= 4
  BY <1>1, <1>3, <1>7
<1>11. next \in F => sz[next] \in Nat /\ sz[next] >= 4
  BY <1>7
<1> QED
  BY <1>1, <1>3, <1>4, <1>5, <1>6, <1>8, <1>9, <1>10, <1>11 DEF q, UndoFacts

UndoTagged(h, sz, U, p, c) ==
  LET w == CutBack(Reserve(c), sz, c.ptr, p)
      next == p + sz[p]
      P == IF next \in DOMAIN sz \ U THEN DOMAIN sz \ {next} ELSE DOMAIN sz
  IN  /\ w \in Memory /\ Tagged(w, sz, U, P) /\ Ends(w, h.end)
      /\ \A r \in U : \A a \in r..(r + sz[r]) - 3 : w[a] = h.mem[a]
      /\ SIZE(META_PUT(Reserve(c).mem, p, sz[p], 1), PFTRP(p)) = sz[c.ptr]
      /\ SIZE(META_PUT(Reserve(c).mem, p, sz[p], 1), HDRP(p)) = sz[p]

LEMMA UndoTags ==
  ASSUME NEW h, NEW sz, NEW U, NEW p, NEW c, NEW z, UndoFacts(h, sz, U, p, c, z)
  PROVE  UndoTagged(h, sz, U, p, c)
<1> DEFINE q == c.ptr
           V == U \ {p}
           W == V \cup {q}
           g == Reserve(c)
           next == p + sz[p]
           F == DOMAIN sz \ U
           P == IF next \in F THEN DOMAIN sz \ {next} ELSE DOMAIN sz
           m0 == META_PUT(g.mem, p, sz[p], 1)
           w == CutBack(g, sz, q, p)
<1>1. /\ Good(g, z, W) /\ g.end = h.end
      /\ Tiling(sz, h.end) /\ Tiling(z, h.end) /\ U \subseteq DOMAIN sz /\ p \in U
      /\ Tagged(h.mem, sz, U, DOMAIN sz)
      /\ q \in F /\ q + sz[q] = p /\ q \in DOMAIN z
      /\ q \in Nat /\ p \in Nat /\ sz[p] \in Nat /\ sz[q] \in Nat /\ sz[p] >= 4 /\ sz[q] >= 4
      /\ z[q] \in Nat /\ q + z[q] <= MAX_HEAP /\ MAX_HEAP \in Nat
      /\ p + sz[p] <= q + z[q]
      /\ \A r \in DOMAIN z \ {q} : r \in DOMAIN sz /\ z[r] = sz[r]
      /\ DOMAIN sz \ {p, next} \subseteq DOMAIN z
      /\ \A a \in -1..MAX_HEAP - 1 : a # q - 1 /\ a # (q + z[q]) - 2 => c.heap.mem[a] = h.mem[a]
      /\ Preserves(c.heap, g, z, W) /\ Preserves(h, c.heap, sz, U)
  BY DEF UndoFacts
<1> HIDE DEF q, g
<1>2. /\ g.mem \in Memory /\ Tagged(g.mem, z, W, DOMAIN z) /\ Ends(g.mem, h.end) /\ W \subseteq DOMAIN z
  BY <1>1 DEF Good, Laid, Heaps
<1>3. p \in P \ {q} /\ q \in P /\ P \subseteq DOMAIN sz /\ q # p
  <2>1. q # next /\ q # p /\ p # next
    BY <1>1
  <2> QED
    BY <1>1, <2>1
<1>4. \A r \in P \ {p, q} : r \in DOMAIN z \ {q} /\ z[r] = sz[r] /\ (r \in W <=> r \in U)
  <2>1. \A r \in P \ {p, q} : r \in DOMAIN z
    <3>1. next \notin F /\ next \in DOMAIN sz => next \in V
      BY <1>1
    <3> QED
      BY <1>1, <1>2, <3>1
  <2> QED
    BY <1>1, <1>3, <2>1
<1>5. Tagged(g.mem, sz, U, P \ {p, q})
  BY <1>2, <1>4 DEF Tagged, Mark
<1> HIDE DEF P, F
<1>6. /\ m0 \in Memory /\ Tagged(m0, sz, U, P \ {q}) /\ Ends(m0, h.end)
      /\ TagsOnly(g.mem, m0, sz, p)
  <2> DEFINE Q == P \ {q}
  <2>1. Q \ {p} = P \ {p, q} /\ Q \subseteq DOMAIN sz /\ p \in Q
    BY <1>3
  <2> HIDE DEF Q
  <2>2. Untagged(g.mem, sz, h.end, U, Q, p)
    BY <1>1, <1>2, <1>5, <2>1 DEF Untagged
  <2>3. m0 = META_PUT(g.mem, p, sz[p], Mark(U, p))
    BY <1>1 DEF Mark
  <2> HIDE DEF m0
  <2>4. /\ m0 \in Memory /\ Tagged(m0, sz, U, Q) /\ Ends(m0, h.end)
        /\ \A a \in -1..MAX_HEAP - 1 : a # p - 1 /\ a # (p + sz[p]) - 2 => m0[a] = g.mem[a]
    BY <2>2, <2>3, PutTagged
  <2> QED
    BY <2>4 DEF Q, TagsOnly
<1>7. w = META_PUT(m0, q, sz[q], 0)
  BY DEF CutBack
<1> HIDE DEF m0, w
<1>8. /\ w \in Memory /\ Tagged(w, sz, U, P) /\ Ends(w, h.end)
      /\ TagsOnly(m0, w, sz, q)
  <2>1. Untagged(m0, sz, h.end, U, P, q)
    BY <1>1, <1>3, <1>6 DEF Untagged
  <2>2. w = META_PUT(m0, q, sz[q], Mark(U, q))
    BY <1>1, <1>7 DEF Mark, F
  <2>3. /\ w \in Memory /\ Tagged(w, sz, U, P) /\ Ends(w, h.end)
        /\ \A a \in -1..MAX_HEAP - 1 : a # q - 1 /\ a # (q + sz[q]) - 2 => w[a] = m0[a]
    BY <2>1, <2>2, PutTagged
  <2> QED
    BY <2>3 DEF TagsOnly
<1>9. ASSUME NEW a \in q..(q + z[q]) - 3
      PROVE  a \in -1..MAX_HEAP - 1 /\ g.mem[a] = h.mem[a]
  <2>1. a \in -1..MAX_HEAP - 1 /\ a # q - 1 /\ a # (q + z[q]) - 2
    BY <1>1
  <2>2. g.mem[a] = c.heap.mem[a]
    BY <1>1 DEF Preserves
  <2> QED
    BY <1>1, <2>1, <2>2
<1>10. ASSUME NEW r \in U, NEW a \in r..(r + sz[r]) - 3
       PROVE  w[a] = h.mem[a]
  <2>1. a \in -1..MAX_HEAP - 1 /\ a # q - 1 /\ a # (q + sz[q]) - 2 /\ a # p - 1 /\ a # (p + sz[p]) - 2
    <3>1. r \in DOMAIN sz /\ q \in DOMAIN sz /\ p \in DOMAIN sz
      BY <1>1, <1>3
    <3> QED
      BY <1>1, <3>1, TagsOutside
  <2>2. w[a] = g.mem[a]
    BY <1>6, <1>8, <2>1 DEF TagsOnly
  <2>3. CASE r = p
    <3>1. a \in q..(q + z[q]) - 3
      BY <1>1, <2>3
    <3> QED
      BY <1>9, <2>2, <3>1
  <2>4. CASE r # p
    <3>1. r \in V /\ r \in W /\ r # q /\ z[r] = sz[r]
      BY <1>1, <1>2, <2>4 DEF F
    <3>2. g.mem[a] = c.heap.mem[a] /\ c.heap.mem[a] = h.mem[a]
      BY <1>1, <3>1 DEF Preserves
    <3> QED
      BY <2>2, <3>2
  <2> QED
    BY <2>3, <2>4
<1>11. SIZE(m0, PFTRP(p)) = sz[q] /\ SIZE(m0, HDRP(p)) = sz[p]
  <2>1. p - 2 \in q..(q + z[q]) - 3 /\ p - 2 # p - 1 /\ p - 2 # (p + sz[p]) - 2
    BY <1>1
  <2>2. m0[p - 2] = h.mem[p - 2]
    BY <1>6, <1>9, <2>1 DEF TagsOnly
  <2>3. h.mem[(q + sz[q]) - 2] = <<sz[q], Mark(U, q)>>
    BY <1>1 DEF Tagged, F
  <2>4. m0[p - 1] = <<sz[p], Mark(U, p)>>
    BY <1>3, <1>6 DEF Tagged
  <2> QED
    BY <1>1, <2>2, <2>3, <2>4 DEF SIZE, PFTRP, HDRP
<1> QED
  BY <1>8, <1>10, <1>11 DEF w, m0, P, F, g, q, UndoTagged

(* The free blocks of the coalesced one are in no list.                    *)
LEMMA UndoLists ==
  ASSUME NEW h, NEW sz, NEW U, NEW p, NEW c, NEW z, UndoFacts(h, sz, U, p, c, z)
  PROVE  Filed(Reserve(c).lists, sz, DOMAIN sz \ (U \cup {c.ptr, p + sz[p]}))
<1> DEFINE q == c.ptr
           W == (U \ {p}) \cup {q}
           next == p + sz[p]
           F == DOMAIN sz \ U
           G == DOMAIN sz \ (U \cup {q, next})
           l == Reserve(c).lists
<1>1. /\ Filed(l, z, DOMAIN z \ W) /\ Tiling(z, h.end) /\ U \subseteq DOMAIN sz /\ p \in U
      /\ W \subseteq DOMAIN z
  BY DEF UndoFacts, Good, Laid
<1>2. /\ q \in F /\ q + sz[q] = p /\ q \in DOMAIN z
      /\ q \in Nat /\ p \in Nat /\ sz[p] \in Nat /\ sz[q] \in Nat /\ sz[p] >= 4 /\ sz[q] >= 4
      /\ z[q] \in Nat
      /\ p + sz[p] <= q + z[q]
      /\ \A r \in DOMAIN z \ {q} : r \in DOMAIN sz /\ z[r] = sz[r]
      /\ DOMAIN sz \ {p, next} \subseteq DOMAIN z
      /\ q + z[q] = IF next \in F THEN next + sz[next] ELSE next
      /\ next \in F => sz[next] \in Nat /\ sz[next] >= 4
  BY DEF UndoFacts
<1> HIDE DEF q, l
<1>3. p \notin DOMAIN z
  <2>1. CASE p \in DOMAIN z
    <3>1. q < p /\ q + z[q] > p
      BY <1>2
    <3> QED
      BY <1>1, <1>2, <2>1, <3>1 DEF Tiling
  <2> QED
    BY <2>1
<1>4. next \in F => next \notin DOMAIN z
  <2>1. CASE next \in F /\ next \in DOMAIN z
    <3>1. q < next /\ q + z[q] > next
      BY <1>2, <2>1
    <3> QED
      BY <1>1, <1>2, <2>1, <3>1 DEF Tiling
  <2> QED
    BY <2>1
<1>5. DOMAIN z \ W = G
  BY <1>1, <1>2, <1>3, <1>4
<1>6. \A r \in G : sz[r] = z[r]
  <2>1. \A r \in G : r \in DOMAIN z \ {q}
    BY <1>1, <1>2
  <2> HIDE DEF G
  <2> QED
    BY <1>2, <2>1
<1> HIDE DEF G, W
<1>7. Filed(l, z, G)
  BY <1>1, <1>5
<1>8. Filed(l, sz, G)
  BY <1>6, <1>7, FiledSame
<1> QED
  BY <1>8 DEF G, l, q

LEMMA UndoIs ==
  ASSUME NEW h, NEW sz, NEW U, NEW p, NEW c, NEW z, UndoFacts(h, sz, U, p, c, z)
  PROVE  LET g == Reserve(c)
             k == free_node([g EXCEPT !.mem = CutBack(g, sz, c.ptr, p)], c.ptr)
             next == p + sz[p]
         IN  uncoalesce_was_resvd(g, c.ptr, p, sz[p]) =
               IF next \in DOMAIN sz \ U
               THEN free_node([k EXCEPT !.mem = META_PUT(@, next, sz[next], 0)], next) ELSE k
<1> DEFINE q == c.ptr
           g == Reserve(c)
           oldsz == sz[p]
           next == p + sz[p]
           F == DOMAIN sz \ U
           m0 == META_PUT(g.mem, p, oldsz, 1)
           w == CutBack(g, sz, q, p)
           k == free_node([g EXCEPT !.mem = w], q)
           newsz == SIZE(g.mem, HDRP(q))
           nextsz == (newsz - oldsz - (p - PREVBLK(m0, p))) % SizeMod
           Freed(f, r, s) ==
             IF s > 0 THEN free_node([f EXCEPT !.mem = META_PUT(@, r, s, 0)], r) ELSE f
<1>1. SIZE(m0, PFTRP(p)) = sz[q] /\ SIZE(m0, HDRP(p)) = sz[p]
  <2>1. UndoTagged(h, sz, U, p, c)
    BY UndoTags
  <2> QED
    BY <2>1 DEF UndoTagged
<1>2. /\ Good(g, z, (U \ {p}) \cup {q}) /\ q \in DOMAIN z
      /\ q + sz[q] = p /\ q \in Nat /\ p \in Nat /\ sz[p] \in Nat /\ sz[q] \in Nat /\ sz[q] >= 4
      /\ z[q] \in Nat /\ q + z[q] <= MAX_HEAP /\ MAX_HEAP \in Nat
      /\ q + z[q] = IF next \in F THEN next + sz[next] ELSE next
      /\ next \in F => sz[next] \in Nat /\ sz[next] >= 4
  BY DEF UndoFacts
<1> HIDE DEF m0, F
<1>3. PREVBLK(m0, p) = q /\ NEXTBLK(m0, p) = next /\ p - q = sz[q]
  BY <1>1, <1>2 DEF PREVBLK, NEXTBLK
<1>4. newsz = z[q]
  BY <1>2, ReadTags DEF Good, Laid
<1>5. nextsz = IF next \in F THEN sz[next] ELSE 0
  <2>1. SizeMod \in Nat /\ MAX_HEAP < SizeMod
    BY PrologFits
  <2> DEFINE x == z[q] - oldsz - (p - q)
  <2>2. x = IF next \in F THEN sz[next] ELSE 0
    BY <1>2
  <2>3. x \in Nat /\ x < SizeMod
    BY <1>2, <2>1, <2>2
  <2>4. nextsz = x % SizeMod
    BY <1>3, <1>4
  <2> HIDE DEF x, nextsz
  <2>5. x % SizeMod = x
    BY <2>1, <2>3
  <2> QED
    BY <2>2, <2>4, <2>5
<1>6. uncoalesce_was_resvd(g, q, p, oldsz) = Freed(Freed([g EXCEPT !.mem = m0], q, sz[q]), next, nextsz)
  <2>1. uncoalesce_was_resvd(g, q, p, oldsz)
          = Freed(Freed([g EXCEPT !.mem = m0], PREVBLK(m0, p), p - PREVBLK(m0, p)), NEXTBLK(m0, p), nextsz)
    BY DEF uncoalesce_was_resvd, m0
  <2> HIDE DEF Freed, nextsz
  <2> QED
    BY <1>3, <2>1
<1>7. Freed([g EXCEPT !.mem = m0], q, sz[q]) = k
  <2>1. [[g EXCEPT !.mem = m0] EXCEPT !.mem = META_PUT(@, q, sz[q], 0)] = [g EXCEPT !.mem = w]
    <3>1. w = META_PUT(m0, q, sz[q], 0)
      BY DEF CutBack, m0
    <3>2. "mem" \in DOMAIN g
      BY <1>2 DEF Good, Laid, Heaps
    <3> HIDE DEF w, g
    <3> QED
      BY <3>1, <3>2
  <2> QED
    BY <1>2, <2>1
<1> HIDE DEF k, nextsz
<1>8. Freed(k, next, nextsz) =
        IF next \in F THEN free_node([k EXCEPT !.mem = META_PUT(@, next, sz[next], 0)], next) ELSE k
  BY <1>2, <1>5
<1> HIDE DEF Freed
<1> QED
  BY <1>6, <1>7, <1>8 DEF k, F

LEMMA SameWords ==
  ASSUME NEW A \in Memory, NEW B \in Memory, \A a \in -1..MAX_HEAP - 1 : A[a] = B[a]
  PROVE  A = B
<1> DEFINE D == -1..MAX_HEAP - 1
<1>1. A \in [D -> Contents] /\ B \in [D -> Contents] /\ \A a \in D : A[a] = B[a]
  BY DEF Memory
<1> HIDE DEF D
<1> QED
  BY <1>1

(* The tags of a block can be put before or after another gets into its list. *)
LEMMA FreeThenPut ==
  ASSUME NEW h \in Heaps, NEW q \in Nat, NEW x \in Nat, NEW s \in Nat, NEW n \in Nat, n >= 4, x >= 4,
         x + n <= MAX_HEAP, SIZE(h.mem, HDRP(q)) = s,
         x - 1 \notin q - 1..(q + s) - 3, (x + n) - 2 \notin q - 1..(q + s) - 3, q >= 4, s >= 4, q + s <= MAX_HEAP
  PROVE  [free_node(h, q) EXCEPT !.mem = META_PUT(@, x, n, 0)]
           = free_node([h EXCEPT !.mem = META_PUT(@, x, n, 0)], q)
<1> DEFINE m == h.mem
           w == META_PUT(m, x, n, 0)
           f == Forget(m, q, q + s - 3)
           l == [h.lists EXCEPT ![classof(s)] = <<q>> \o @]
<1>1. m \in Memory /\ MAX_HEAP \in Nat
  BY PrologFits DEF Heaps
<1>2. /\ w \in Memory /\ w[x - 1] = <<n, 0>> /\ w[(x + n) - 2] = <<n, 0>>
      /\ \A a \in -1..MAX_HEAP - 1 : a # x - 1 /\ a # (x + n) - 2 => w[a] = m[a]
  BY <1>1, PutTag
<1>3. f \in Memory /\ \A a \in -1..MAX_HEAP - 1 : f[a] = IF a \in q..q + s - 3 THEN Junk ELSE m[a]
  BY <1>1 DEF Memory, Forget, Contents
<1>4. /\ META_PUT(f, x, n, 0) \in Memory
      /\ META_PUT(f, x, n, 0)[x - 1] = <<n, 0>> /\ META_PUT(f, x, n, 0)[(x + n) - 2] = <<n, 0>>
      /\ \A a \in -1..MAX_HEAP - 1 : a # x - 1 /\ a # (x + n) - 2 => META_PUT(f, x, n, 0)[a] = f[a]
  <2> HIDE DEF f
  <2> QED
    BY <1>3, PutTag
<1>5. /\ Forget(w, q, q + s - 3) \in Memory
      /\ \A a \in -1..MAX_HEAP - 1 : Forget(w, q, q + s - 3)[a] = IF a \in q..q + s - 3 THEN Junk ELSE w[a]
  <2> HIDE DEF w
  <2> QED
    BY <1>2 DEF Memory, Forget, Contents
<1>6. META_PUT(f, x, n, 0) = Forget(w, q, q + s - 3)
  <2> DEFINE A == META_PUT(f, x, n, 0)
             B == Forget(w, q, q + s - 3)
  <2>1. /\ A \in Memory /\ B \in Memory
        /\ A[x - 1] = <<n, 0>> /\ A[(x + n) - 2] = <<n, 0>>
        /\ \A a \in -1..MAX_HEAP - 1 : a # x - 1 /\ a # (x + n) - 2 => A[a] = f[a]
        /\ \A a \in -1..MAX_HEAP - 1 : B[a] = IF a \in q..q + s - 3 THEN Junk ELSE w[a]
    BY <1>4, <1>5
  <2> HIDE DEF A, B, f, w, m
  <2>2. \A a \in -1..MAX_HEAP - 1 : A[a] = B[a]
    <3>1. x - 1 \notin q..q + s - 3 /\ (x + n) - 2 \notin q..q + s - 3
      BY <1>1
    <3> QED
      BY <1>2, <1>3, <2>1, <3>1
  <2>3. A = B
    <3>1. A \in Memory /\ B \in Memory
      BY <2>1
    <3> QED
      BY <2>2, <3>1, SameWords
  <2> QED
    BY <2>3 DEF A, B
<1>7. SIZE(w, HDRP(q)) = s
  <2>1. q - 1 \in -1..MAX_HEAP - 1 /\ q - 1 # x - 1 /\ q - 1 # (x + n) - 2
    BY <1>1
  <2>2. w[q - 1] = m[q - 1]
    BY <1>2, <2>1
  <2> HIDE DEF w, m
  <2> QED
    BY <2>2 DEF SIZE, HDRP, m
<1>8. free_node(h, q) = [h EXCEPT !.lists = l, !.mem = f]
  <2>1. free_node(h, q) = [h EXCEPT !.lists[classof(s)] = <<q>> \o @, !.mem = f]
    BY DEF free_node
  <2> HIDE DEF f
  <2> QED
    BY <2>1
<1>9. free_node([h EXCEPT !.mem = w], q) = [h EXCEPT !.lists = l, !.mem = Forget(w, q, q + s - 3)]
  <2> DEFINE e == [h EXCEPT !.mem = w]
  <2>1. e.mem = w /\ e.lists = h.lists
    BY DEF Heaps
  <2> HIDE DEF w
  <2>2. free_node(e, q) = [e EXCEPT !.lists[classof(s)] = <<q>> \o @, !.mem = Forget(w, q, q + s - 3)]
    <3> HIDE DEF e
    <3> QED
      BY <1>7, <2>1 DEF free_node
  <2> QED
    BY <2>1, <2>2
<1> HIDE DEF f, w, l, m
<1>10. [[h EXCEPT !.lists = l, !.mem = f] EXCEPT !.mem = META_PUT(@, x, n, 0)]
         = [h EXCEPT !.lists = l, !.mem = META_PUT(f, x, n, 0)]
  BY DEF Heaps
<1> QED
  BY <1>6, <1>8, <1>9, <1>10 DEF w, m

LEMMA FreeKeeps ==
  ASSUME NEW h, NEW sz, NEW U, NEW F, Laid(h, sz, U, F), NEW q \in DOMAIN sz, q \notin U, q \notin F
  PROVE  LET k == free_node(h, q)
         IN  Laid(k, sz, U, F \cup {q}) /\ k.end = h.end /\ Preserves(h, k, sz, U)
<1> DEFINE k == free_node(h, q)
<1>1. Laid(k, sz, U, F \cup {q}) /\ k.end = h.end /\ SameOutside(h.mem, k.mem, q, (q + sz[q]) - 3)
  BY FreeNode
<1> HIDE DEF k
<1>2. Tiling(sz, h.end) /\ U \subseteq DOMAIN sz
  BY DEF Laid
<1>3. ASSUME NEW r \in U, NEW a \in r..(r + sz[r]) - 3
      PROVE  k.mem[a] = h.mem[a]
  <2>1. r \in DOMAIN sz /\ r # q
    BY <1>2
  <2>2. /\ r \in Nat /\ sz[r] \in Nat /\ sz[r] >= 4 /\ q \in Nat /\ sz[q] \in Nat
        /\ r + sz[r] <= q \/ q + sz[q] <= r
    <3>1. r \in Nat /\ sz[r] \in Nat /\ sz[r] >= 4 /\ q \in Nat /\ sz[q] \in Nat
      BY <1>2, <2>1, InHeap
    <3>2. r < q \/ q < r
      BY <2>1, <3>1
    <3> QED
      BY <1>2, <2>1, <3>1, <3>2 DEF Tiling
  <2>3. a \in -1..MAX_HEAP - 1
    BY <1>2, <2>1, TagsOutside
  <2>4. a \notin q..(q + sz[q]) - 3
    BY <2>2
  <2> QED
    BY <1>1, <2>3, <2>4 DEF SameOutside
<1> QED
  BY <1>1, <1>3 DEF Preserves, k

LEMMA Undone ==
  ASSUME NEW h, NEW sz, NEW U, NEW p, NEW size, NEW n, NEW c, NEW z, Undoing(h, sz, U, p, size, n, c, z)
  PROVE  LET k == uncoalesce_was_resvd(Reserve(c), c.ptr, p, sz[p])
         IN  Good(k, sz, U) /\ k.end = h.end /\ Preserves(h, k, sz, U)
<1> DEFINE q == c.ptr
           g == Reserve(c)
           next == p + sz[p]
           F == DOMAIN sz \ U
           w == CutBack(g, sz, q, p)
           h1 == [g EXCEPT !.mem = w]
           x == META_PUT(w, next, sz[next], 0)
           h2 == [g EXCEPT !.mem = x]
           k == uncoalesce_was_resvd(g, q, p, sz[p])
           P == IF next \in F THEN DOMAIN sz \ {next} ELSE DOMAIN sz
           G == F \ {q, next}
<1>1. UndoFacts(h, sz, U, p, c, z)
  BY UndoingFacts
<1>2. Apart(sz, F) /\ F \subseteq DOMAIN sz
  BY DEF Undoing, Resizing, Good
<1>3. /\ g \in Heaps /\ g.end = h.end /\ Tiling(sz, h.end) /\ U \subseteq DOMAIN sz
      /\ q \in F /\ q + sz[q] = p
      /\ q \in Nat /\ p \in Nat /\ sz[p] \in Nat /\ sz[q] \in Nat /\ sz[p] >= 4 /\ sz[q] >= 4
  BY <1>1 DEF UndoFacts, Good, Laid
<1>4. /\ w \in Memory /\ Tagged(w, sz, U, P) /\ Ends(w, h.end)
      /\ \A r \in U : \A a \in r..(r + sz[r]) - 3 : w[a] = h.mem[a]
  <2>1. UndoTagged(h, sz, U, p, c)
    BY <1>1, UndoTags
  <2> QED
    BY <2>1 DEF UndoTagged
<1>5. Filed(g.lists, sz, G)
  <2>1. Filed(g.lists, sz, DOMAIN sz \ (U \cup {q, next}))
    BY <1>1, UndoLists
  <2>2. G = DOMAIN sz \ (U \cup {q, next})
    OBVIOUS
  <2> QED
    BY <2>1, <2>2
<1>6. k = IF next \in F THEN free_node([free_node(h1, q) EXCEPT !.mem = META_PUT(@, next, sz[next], 0)], next)
          ELSE free_node(h1, q)
  BY <1>1, UndoIs
<1> HIDE DEF k, w, g, q
<1>7. h1 \in Heaps /\ h1.mem = w /\ h1.end = h.end /\ h1.lists = g.lists
  BY <1>3, <1>4 DEF Heaps
<1>8. CASE next \notin F
  <2>1. P = DOMAIN sz /\ G = F \ {q} /\ k = free_node(h1, q)
    BY <1>6, <1>8
  <2> HIDE DEF h1, P, G
  <2>2. Laid(h1, sz, U, F \ {q})
    BY <1>3, <1>4, <1>5, <1>7, <2>1 DEF Laid
  <2>3. Laid(k, sz, U, (F \ {q}) \cup {q}) /\ k.end = h1.end /\ Preserves(h1, k, sz, U)
    BY <1>3, <2>1, <2>2, FreeKeeps
  <2>4. (F \ {q}) \cup {q} = F
    BY <1>3
  <2>5. Good(k, sz, U)
    BY <1>2, <2>3, <2>4 DEF Good
  <2> QED
    BY <1>4, <1>7, <2>3, <2>5 DEF Preserves, q, g, k
<1>9. CASE next \in F
  <2>1. P = DOMAIN sz \ {next} /\ next \in DOMAIN sz /\ next \notin U /\ next # q
    BY <1>3, <1>9
  <2>2. sz[next] \in Nat /\ sz[next] >= 4 /\ next + sz[next] <= MAX_HEAP /\ next \in Nat
        /\ MAX_HEAP \in Nat /\ q >= 4
    BY <1>2, <1>3, <2>1, InHeap
  <2>3. /\ x \in Memory /\ Tagged(x, sz, U, DOMAIN sz) /\ Ends(x, h.end)
        /\ TagsOnly(w, x, sz, next)
    <3>1. Untagged(w, sz, h.end, U, DOMAIN sz, next)
      BY <1>3, <1>4, <2>1 DEF Untagged
    <3>2. x = META_PUT(w, next, sz[next], Mark(U, next))
      BY <2>1 DEF Mark
    <3> HIDE DEF x
    <3> QED
      BY <3>1, <3>2, PutTagged DEF TagsOnly
  <2>4. h2 \in Heaps /\ h2.mem = x /\ h2.end = h.end /\ h2.lists = g.lists
    <3> HIDE DEF x
    <3> QED
      BY <1>3, <2>3 DEF Heaps
  <2>5. Laid(h2, sz, U, G)
    <3>1. G \subseteq DOMAIN sz \ U
      OBVIOUS
    <3> HIDE DEF h2, x, G
    <3> QED
      BY <1>3, <1>5, <2>3, <2>4, <3>1 DEF Laid
  <2>6. [free_node(h1, q) EXCEPT !.mem = META_PUT(@, next, sz[next], 0)] = free_node(h2, q)
    <3>1. SIZE(h1.mem, HDRP(q)) = sz[q]
      <4>1. q \in P
        BY <1>2, <1>3, <2>1
      <4>2. w[q - 1][1] = sz[q]
        BY <1>4, <4>1 DEF Tagged
      <4> HIDE DEF h1
      <4> QED
        BY <1>7, <4>2 DEF SIZE, HDRP
    <3>2. [h1 EXCEPT !.mem = META_PUT(@, next, sz[next], 0)] = h2
      <4>1. "mem" \in DOMAIN g
        BY <1>3 DEF Heaps
      <4> QED
        BY <4>1
    <3>3. next - 1 \notin q - 1..(q + sz[q]) - 3 /\ (next + sz[next]) - 2 \notin q - 1..(q + sz[q]) - 3
          /\ next >= 4 /\ q + sz[q] <= MAX_HEAP
      BY <1>3, <2>2
    <3> HIDE DEF h1, h2, next
    <3>4. [free_node(h1, q) EXCEPT !.mem = META_PUT(@, next, sz[next], 0)]
            = free_node([h1 EXCEPT !.mem = META_PUT(@, next, sz[next], 0)], q)
      BY <1>3, <1>7, <2>2, <3>1, <3>3, FreeThenPut
    <3> QED
      BY <3>2, <3>4
  <2> DEFINE h3 == free_node(h2, q)
  <2>7. k = free_node(h3, next)
    BY <1>6, <1>9, <2>6
  <2> HIDE DEF h2, x, G
  <2>8. Laid(h3, sz, U, G \cup {q}) /\ h3.end = h2.end /\ Preserves(h2, h3, sz, U)
    BY <1>2, <1>3, <2>5, FreeKeeps DEF G
  <2> HIDE DEF h3
  <2>9. Laid(k, sz, U, (G \cup {q}) \cup {next}) /\ k.end = h3.end /\ Preserves(h3, k, sz, U)
    <3>1. next \notin G \cup {q}
      BY <2>1 DEF G
    <3> QED
      BY <2>1, <2>7, <2>8, <3>1, FreeKeeps
  <2>10. (G \cup {q}) \cup {next} = F
    BY <1>3, <1>9 DEF G
  <2>11. Good(k, sz, U)
    BY <1>2, <2>9, <2>10 DEF Good
  <2>12. Preserves(h, h2, sz, U)
    <3>1. ASSUME NEW r \in U, NEW a \in r..(r + sz[r]) - 3
          PROVE  x[a] = h.mem[a]
      <4>1. a \in -1..MAX_HEAP - 1 /\ a # next - 1 /\ a # (next + sz[next]) - 2
        BY <1>3, <2>1, TagsOutside
      <4> QED
        BY <1>4, <2>3, <4>1 DEF TagsOnly
    <3> QED
      BY <2>4, <3>1 DEF Preserves
  <2> QED
    BY <2>4, <2>8, <2>9, <2>11, <2>12 DEF Preserves, q, g, k
<1> QED
  BY <1>8, <1>9

(* Where it was allocated, that block is taken for one that was merged;    *)
(* what becomes of the heap is a memory still.                             *)
LEMMA AnyTag ==
  ASSUME NEW m \in Memory, NEW p, NEW n \in 0..SizeMod, NEW b \in {0, 1}
  PROVE  META_PUT(m, p, n, b) \in Memory
<1>1. <<n, b>> \in Contents
  BY DEF Contents
<1> QED
  BY <1>1 DEF META_PUT, Memory

LEMMA Forgotten ==
  ASSUME NEW m \in Memory, NEW x, NEW y
  PROVE  Forget(m, x, y) \in Memory
<1>1. Junk \in Contents
  BY DEF Contents
<1> QED
  BY <1>1 DEF Forget, Memory

LEMMA AnyFreed ==
  ASSUME NEW g, g.mem \in Memory, g = [mem |-> g.mem, lists |-> g.lists, end |-> g.end],
         NEW p, NEW n \in 0..SizeMod
  PROVE  LET k == free_node([g EXCEPT !.mem = META_PUT(@, p, n, 0)], p)
         IN  k.mem \in Memory /\ k = [mem |-> k.mem, lists |-> k.lists, end |-> k.end]
<1> DEFINE m == META_PUT(g.mem, p, n, 0)
           f == [g EXCEPT !.mem = META_PUT(@, p, n, 0)]
           k == free_node(f, p)
<1>1. m \in Memory
  BY AnyTag
<1>2. f = [mem |-> m, lists |-> g.lists, end |-> g.end]
  OBVIOUS
<1> HIDE DEF m, f
<1> DEFINE s == SIZE(m, HDRP(p))
           w == Forget(m, p, p + s - 3)
           l == [g.lists EXCEPT ![classof(s)] = <<p>> \o @]
<1>3. k = [mem |-> w, lists |-> l, end |-> g.end]
  <2>1. f.mem = m /\ f.lists = g.lists /\ f.end = g.end
    BY <1>2
  <2>2. k = [f EXCEPT !.lists[classof(s)] = <<p>> \o @, !.mem = Forget(m, p, p + s - 3)]
    BY <2>1 DEF free_node
  <2>3. k = [f EXCEPT !.lists = l, !.mem = w]
    BY <2>1, <2>2
  <2> HIDE DEF k, w, l
  <2> QED
    BY <1>2, <2>3
<1>4. w \in Memory
  BY <1>1, Forgotten
<1> HIDE DEF k, w, l
<1>5. k.mem \in Memory /\ k = [mem |-> k.mem, lists |-> k.lists, end |-> k.end]
  BY <1>3, <1>4
<1> QED
  BY <1>5 DEF k, f

LEMMA UndoTyped ==
  ASSUME NEW h, NEW sz, NEW U, NEW p, NEW size, NEW n, NEW c, NEW z, Facts(h, sz, U, p, size, n, c, z),
         Merges(h, sz, U, DOMAIN sz \ U, p, c, z), Good(h, sz, U),
         ALOC(h.mem, HDRP(PREVBLK(h.mem, p)))
  PROVE  uncoalesce_was_resvd(Reserve(c), c.ptr, p, sz[p]).mem \in Memory
<1> DEFINE F == DOMAIN sz \ U
           g == Reserve(c)
           m == META_PUT(g.mem, p, sz[p], 1)
           prev == PREVBLK(m, p)
           next == NEXTBLK(m, p)
           prevsz == p - prev
           nextsz == (SIZE(g.mem, HDRP(c.ptr)) - sz[p] - prevsz) % SizeMod
           Freed1(f, q, s) == IF s > 0 THEN free_node([f EXCEPT !.mem = META_PUT(@, q, s, 0)], q) ELSE f
           g1 == [g EXCEPT !.mem = m]
           g2 == Freed1(g1, prev, prevsz)
           g3 == Freed1(g2, next, nextsz)
<1>1. uncoalesce_was_resvd(g, c.ptr, p, sz[p]) = g3
  BY DEF uncoalesce_was_resvd
<1>2. /\ c.ptr \in DOMAIN z /\ Good(g, z, (U \ {p}) \cup {c.ptr}) /\ p \in Nat /\ sz[p] \in Nat
      /\ p \in DOMAIN sz /\ Tiling(sz, h.end) /\ z[c.ptr] \in Nat
  BY ReserveSeizes DEF Facts
<1>3. g.mem \in Memory /\ g = [mem |-> g.mem, lists |-> g.lists, end |-> g.end]
  BY <1>2 DEF Good, Laid, Heaps
<1>4. sz[p] \in 0..SizeMod /\ sz[p] >= 4 /\ SizeMod \in Nat /\ p + sz[p] <= MAX_HEAP /\ p >= 4
      /\ MAX_HEAP \in Nat /\ SizeMod # 0
  BY <1>2, InHeap, PrologFits
<1>5. Tagged(h.mem, sz, U, DOMAIN sz) /\ Ends(h.mem, h.end)
  BY DEF Good, Laid
<1>6. \E s \in 0..SizeMod : SIZE(h.mem, PFTRP(p)) = s
  <2>1. CASE p = First /\ PREVBLK(h.mem, p) = 0
    <3>1. h.mem[First - 2] = <<Prolog, 1>>
      BY <1>5 DEF Ends
    <3>2. Prolog \in 0..SizeMod
      BY PrologFits DEF MIN_ALLOC
    <3>3. h.mem[p - 2] = <<Prolog, 1>>
      BY <2>1, <3>1
    <3>4. SIZE(h.mem, PFTRP(p)) = Prolog
      BY <3>3 DEF SIZE, PFTRP
    <3> QED
      BY <3>2, <3>4
  <2>2. ASSUME NEW q \in DOMAIN sz, q + sz[q] = p
        PROVE  \E s \in 0..SizeMod : SIZE(h.mem, PFTRP(p)) = s
    <3>1. SIZE(h.mem, PFTRP(p)) = sz[q]
      BY <1>5, <2>2, ReadTags
    <3>2. sz[q] \in Nat /\ q + sz[q] <= MAX_HEAP /\ q \in Nat /\ MAX_HEAP \in Nat
      BY <1>2, InHeap
    <3>3. sz[q] \in 0..SizeMod
      BY <3>2, PrologFits
    <3> QED
      BY <3>1, <3>3
  <2> QED
    BY <1>2, <1>5, <2>1, <2>2, LookBack
<1>7. c.ptr = p
  <2>1. ASSUME NEW r \in F, r + sz[r] = p
        PROVE  FALSE
    <3>1. p # First
      <4>1. r >= First /\ sz[r] >= 4 /\ r \in Nat /\ sz[r] \in Nat /\ First \in Nat
        BY <1>2, InHeap
      <4> QED
        BY <2>1, <4>1
    <3>2. PICK q \in DOMAIN sz : q + sz[q] = p /\ q \in U
      BY <1>2, <1>5, <3>1, LookBack
    <3>3. q = r
      BY <1>2, <2>1, <3>2, TilingFacts
    <3> QED
      BY <2>1, <3>2, <3>3
  <2> QED
    BY <2>1 DEF Merges, Around
<1>8. g.mem[p - 2] = h.mem[p - 2]
  <2>1. p - 2 \in -1..MAX_HEAP - 1 /\ z[p] >= 4 /\ p + z[p] <= MAX_HEAP
    <3>1. Tiling(z, h.end)
      BY DEF Facts
    <3>2. z[p] >= 4 /\ p + z[p] <= MAX_HEAP
      BY <1>2, <1>7, <3>1, InHeap
    <3> QED
      BY <1>2, <1>4, <3>2
  <2>2. p - 2 # p - 1 /\ p - 2 # (p + z[p]) - 2 /\ z[p] \in Nat
    BY <1>2, <1>7, <2>1
  <2>3. c.heap.mem[p - 2] = h.mem[p - 2]
    BY <1>7, <2>1, <2>2 DEF Merges
  <2>4. g.mem = META_PUT(c.heap.mem, p, z[p], 1)
    <3>1. SIZE(c.heap.mem, HDRP(c.ptr)) = z[c.ptr]
      BY DEF Facts, SIZE, HDRP
    <3>2. c.heap \in Heaps
      BY DEF Facts, Held, Laid
    <3> QED
      BY <1>7, <3>1, <3>2 DEF Reserve, Heaps
  <2>5. c.heap.mem \in Memory
    BY DEF Facts
  <2> HIDE DEF g
  <2> QED
    BY <1>2, <2>1, <2>2, <2>3, <2>4, <2>5, PutTag
<1> HIDE DEF g
<1>9. m \in Memory /\ m[p - 2] = g.mem[p - 2]
  <2>1. p - 2 \in -1..MAX_HEAP - 1 /\ p - 2 # p - 1 /\ p - 2 # (p + sz[p]) - 2
    BY <1>2, <1>4
  <2> QED
    BY <1>2, <1>3, <1>4, <2>1, PutTag
<1>10. prevsz \in 0..SizeMod
  <2>1. PICK s \in 0..SizeMod : SIZE(h.mem, PFTRP(p)) = s
    BY <1>6
  <2>2. SIZE(m, PFTRP(p)) = s
    <3> HIDE DEF m
    <3> QED
      BY <1>8, <1>9, <2>1 DEF SIZE, PFTRP
  <2> HIDE DEF m
  <2>3. prevsz = s
    BY <1>2, <1>4, <2>1, <2>2 DEF PREVBLK
  <2> QED
    BY <2>1, <2>3
<1>11. nextsz \in 0..SizeMod
  <2>1. SIZE(g.mem, HDRP(c.ptr)) = z[c.ptr]
    <3>1. Tagged(g.mem, z, (U \ {p}) \cup {c.ptr}, DOMAIN z)
      BY <1>2 DEF Good, Laid
    <3> QED
      BY <1>2, <3>1, ReadTags
  <2> DEFINE x == SIZE(g.mem, HDRP(c.ptr)) - sz[p] - prevsz
  <2>2. x \in Int
    BY <1>2, <1>4, <1>10, <2>1
  <2> HIDE DEF x
  <2>3. x % SizeMod \in 0..SizeMod
    BY <1>4, <2>2
  <2> QED
    BY <2>3 DEF x
<1> HIDE DEF m, prevsz, nextsz, prev, next
<1>12. g1.mem \in Memory /\ g1 = [mem |-> g1.mem, lists |-> g1.lists, end |-> g1.end]
  BY <1>3, <1>9
<1> HIDE DEF g1
<1>13. g2.mem \in Memory /\ g2 = [mem |-> g2.mem, lists |-> g2.lists, end |-> g2.end]
  BY <1>10, <1>12, AnyFreed
<1> HIDE DEF g2
<1>14. g3.mem \in Memory
  BY <1>11, <1>13, AnyFreed
<1> QED
  BY <1>1, <1>14 DEF g

-----------------------------------------------------------------------------
(* The interface                                                           *)

(* What a realloc of the block p to n # 0 words comes to.                  *)
Reallocated(h, sz, U, p, n, b) ==
  \/ /\ b.ptr # NULL
     /\ \E y : Resized(h, sz, U, p, ALLOC_SIZE(n),
                       (IF sz[p] < ALLOC_SIZE(n) THEN sz[p] ELSE ALLOC_SIZE(n)) - 2, b, y)
  \/ /\ b.ptr = NULL /\ b.heap.mem \in Memory
     /\ ~ALOC(h.mem, HDRP(PREVBLK(h.mem, p))) =>
          Good(b.heap, sz, U) /\ b.heap.end = h.end /\ Preserves(h, b.heap, sz, U)

LEMMA Reallocates ==
  ASSUME NEW h, NEW sz, NEW U, Good(h, sz, U), NEW p \in U, NEW n \in Requests, n # 0
  PROVE  Reallocated(h, sz, U, p, n, mm_realloc(h, p, n))
<1> DEFINE size == ALLOC_SIZE(n)
           copy == (IF sz[p] < size THEN sz[p] ELSE size) - 2
           c == coalesce_will_free(h, p)
           F == DOMAIN sz \ U
           b == mm_realloc(h, p, n)
<1>1. /\ Tiling(sz, h.end) /\ Tagged(h.mem, sz, U, DOMAIN sz) /\ Ends(h.mem, h.end)
      /\ Apart(sz, F) /\ U \subseteq DOMAIN sz /\ p \in DOMAIN sz /\ p # NULL
  BY TilingFacts DEF Good, Laid, NULL
<1>2. Loose(h, sz, U, F, p)
  BY <1>1 DEF Loose, Good
<1>3. PICK z : Merges(h, sz, U, F, p, c, z)
  BY <1>2, Coalesce
<1>4. SIZE(h.mem, HDRP(p)) = sz[p]
  BY <1>1, ReadTags
<1>5. size \in Nat /\ size % 2 = 0 /\ size >= MIN_ALLOC
  BY AllocSize
<1>6. Resizing(h, sz, U, p, size, copy, c, z)
  BY <1>3, <1>5 DEF Resizing
<1>7. SIZE(c.heap.mem, HDRP(c.ptr)) = z[c.ptr] /\ z[c.ptr] \in Nat
  <2>1. Facts(h, sz, U, p, size, copy, c, z)
    BY <1>6, ResizingFacts
  <2> HIDE DEF copy, c, size
  <2>2. z[c.ptr] \in Nat
    BY <2>1 DEF Facts
  <2>3. c.heap.mem[c.ptr - 1] = <<z[c.ptr], 0>>
    BY <2>1 DEF Facts
  <2> QED
    BY <2>2, <2>3 DEF SIZE, HDRP
<1>8. b = IF size <= z[c.ptr] THEN GrowInPlace(c, p, size, copy) ELSE Move(c, p, sz[p], size, copy)
  <2>1. b = IF size <= SIZE(c.heap.mem, HDRP(c.ptr)) THEN GrowInPlace(c, p, size, copy)
            ELSE Move(c, p, sz[p], size, copy)
    BY <1>1, <1>4 DEF mm_realloc
  <2> HIDE DEF b, c, size, copy
  <2> QED
    BY <1>7, <2>1
<1> HIDE DEF c, size, copy, b
<1>9. ASSUME NEW y, Resized(h, sz, U, p, size, copy, b, y)
      PROVE  Reallocated(h, sz, U, p, n, b)
  BY <1>9 DEF Resized, Reallocated, size, copy
<1>10. CASE size <= z[c.ptr]
  <2>1. \E y : Resized(h, sz, U, p, size, copy, b, y)
    BY <1>6, <1>8, <1>10, GrowsInPlace
  <2> QED
    BY <1>9, <2>1 DEF b
<1>11. CASE ~(size <= z[c.ptr])
  <2>1. z[c.ptr] < size
    BY <1>5, <1>7, <1>11
  <2>2. CASE allocate_block(Reserve(c), size).ptr # NULL
    <3>1. \E y : Resized(h, sz, U, p, size, copy, b, y)
      BY <1>6, <1>8, <1>11, <2>1, <2>2, Moves
    <3> QED
      BY <1>9, <3>1 DEF b
  <2>3. CASE allocate_block(Reserve(c), size).ptr = NULL
    <3>1. b = [ptr |-> NULL, heap |-> uncoalesce_was_resvd(Reserve(c), c.ptr, p, sz[p])]
      BY <1>8, <1>11, <2>3 DEF Move, Reserve
    <3>2. ASSUME ~ALOC(h.mem, HDRP(PREVBLK(h.mem, p)))
          PROVE  Good(b.heap, sz, U) /\ b.heap.end = h.end /\ Preserves(h, b.heap, sz, U)
      <4>1. PICK q \in DOMAIN sz : q + sz[q] = p /\ q \notin U
        BY <1>1, <3>2, LookBack
      <4>2. c.ptr \in F /\ c.ptr + sz[c.ptr] = p
        BY <1>3, <4>1 DEF Merges, Around
      <4>3. Undoing(h, sz, U, p, size, copy, c, z)
        BY <1>6, <4>2 DEF Undoing
      <4>4. b.heap = uncoalesce_was_resvd(Reserve(c), c.ptr, p, sz[p])
        BY <3>1
      <4> QED
        BY <4>3, <4>4, Undone
    <3>3. b.heap.mem \in Memory
      <4>1. CASE ALOC(h.mem, HDRP(PREVBLK(h.mem, p)))
        <5>1. Facts(h, sz, U, p, size, copy, c, z) /\ b.heap = uncoalesce_was_resvd(Reserve(c), c.ptr, p, sz[p])
          BY <1>6, <3>1, ResizingFacts
        <5> QED
          BY <1>3, <4>1, <5>1, UndoTyped
      <4>2. CASE ~ALOC(h.mem, HDRP(PREVBLK(h.mem, p)))
        BY <3>2, <4>2 DEF Good, Laid, Heaps
      <4> QED
        BY <4>1, <4>2
    <3> QED
      BY <3>1, <3>2, <3>3 DEF Reallocated, b
  <2> QED
    BY <2>2, <2>3
<1> QED
  BY <1>10, <1>11 DEF b

LEMMA Mallocs ==
  ASSUME NEW h, NEW sz, NEW U, Good(h, sz, U), NEW n \in Requests, n # 0
  PROVE  LET b == mm_malloc(h, n)
         IN  b = Failed(h) \/ \E z : Allocated(h, sz, U, ALLOC_SIZE(n), b, z)
<1>1. mm_malloc(h, n) = allocate_block(h, ALLOC_SIZE(n))
  BY DEF mm_malloc
<1>2. ALLOC_SIZE(n) \in Nat /\ ALLOC_SIZE(n) % 2 = 0 /\ ALLOC_SIZE(n) >= MIN_ALLOC
  BY AllocSize
<1> QED
  BY <1>1, <1>2, AllocateBlock

(* The heap of mm_init has one free block.                                 *)
Fresh == [p \in {First} |-> CHUNKSIZE - First]

LEMMA FreshTiling == Tiling(Fresh, CHUNKSIZE)
<1>1. /\ First \in Nat /\ First >= 4 /\ First % 2 = 0
      /\ CHUNKSIZE - First >= 4 /\ (CHUNKSIZE - First) % 2 = 0
      /\ CHUNKSIZE \in Nat /\ CHUNKSIZE % 2 = 0 /\ CHUNKSIZE <= MAX_HEAP
  BY PrologFits DEF MIN_ALLOC
<1>2. DOMAIN Fresh = {First} /\ Fresh[First] = CHUNKSIZE - First
  BY DEF Fresh
<1>3. First + Fresh[First] = CHUNKSIZE
  BY <1>1, <1>2
<1>4. \A p \in DOMAIN Fresh : p = First
  BY <1>2
<1>5. \A q \in DOMAIN Fresh \cup {CHUNKSIZE} : q = First \/ \E p \in DOMAIN Fresh : p + Fresh[p] = q
  BY <1>2, <1>3
<1>6. Fresh[First] \in Nat /\ Fresh[First] % 2 = 0 /\ Fresh[First] >= 4
  BY <1>1, <1>2
<1>7. \A p \in DOMAIN Fresh :
        /\ p \in Nat /\ p % 2 = 0 /\ First <= p
        /\ Fresh[p] \in Nat /\ Fresh[p] % 2 = 0 /\ Fresh[p] >= MIN_ALLOC
        /\ p + Fresh[p] <= CHUNKSIZE /\ p + Fresh[p] \in DOMAIN Fresh \cup {CHUNKSIZE}
  BY <1>1, <1>3, <1>4, <1>6 DEF MIN_ALLOC
<1>8. \A p, q \in DOMAIN Fresh : ~(p < q)
  BY <1>1, <1>4
<1> QED
  BY <1>1, <1>2, <1>5, <1>7, <1>8 DEF Tiling

LEMMA NewMemory == NewHeap.mem \in Memory
BY DEF NewHeap, Memory, Contents

(* It does not matter what the words were before.                          *)
LEMMA Starts ==
  ASSUME NEW g, g.mem \in Memory
  PROVE  Good(mm_init(g), Fresh, {}) /\ mm_init(g).end = CHUNKSIZE
<1> DEFINE n == CHUNKSIZE - First
           m0 == g.mem
           m1 == META_PUT(m0, 0, Prolog, 1)
           m2 == META_PUT(m1, First, n, 0)
           m3 == [m2 EXCEPT ![CHUNKSIZE - 1] = <<0, 1>>]
           l == [c \in Classes |-> <<>>]
           h == [mem |-> m3, lists |-> l, end |-> CHUNKSIZE]
           k == mm_init(g)
<1>1. /\ First \in Nat /\ First >= 4 /\ First = Prolog /\ n \in Nat /\ n >= 4 /\ First + n = CHUNKSIZE
      /\ CHUNKSIZE \in Nat /\ CHUNKSIZE <= MAX_HEAP /\ MAX_HEAP \in Nat
      /\ SizeMod \in Nat /\ MAX_HEAP < SizeMod
  BY PrologFits DEF MIN_ALLOC
<1>2. k = free_node(h, First)
  BY DEF mm_init, HDRP
<1>3. m0 \in Memory
  OBVIOUS
<1> HIDE DEF n, m0
<1>4. /\ m1 \in Memory /\ m1[-1] = <<Prolog, 1>> /\ m1[Prolog - 2] = <<Prolog, 1>>
  <2>1. 0 + Prolog <= MAX_HEAP /\ Prolog \in Nat /\ Prolog >= 4
    BY <1>1
  <2>2. META_PUT(m0, 0, Prolog, 1)[0 - 1] = <<Prolog, 1>>
        /\ META_PUT(m0, 0, Prolog, 1)[(0 + Prolog) - 2] = <<Prolog, 1>>
        /\ META_PUT(m0, 0, Prolog, 1) \in Memory
    BY <1>3, <2>1, PutTag
  <2>3. m1 \in Memory /\ m1[0 - 1] = <<Prolog, 1>> /\ m1[(0 + Prolog) - 2] = <<Prolog, 1>>
    BY <2>2
  <2>4. 0 - 1 = -1 /\ (0 + Prolog) - 2 = Prolog - 2
    BY <2>1
  <2> HIDE DEF m1
  <2> QED
    BY <2>3, <2>4
<1> HIDE DEF m1
<1>5. /\ m2 \in Memory /\ m2[First - 1] = <<n, 0>> /\ m2[(First + n) - 2] = <<n, 0>>
      /\ \A a \in -1..MAX_HEAP - 1 : a # First - 1 /\ a # (First + n) - 2 => m2[a] = m1[a]
  BY <1>1, <1>4, PutTag
<1> HIDE DEF m2
<1>6. m2[-1] = <<Prolog, 1>> /\ m2[First - 2] = <<Prolog, 1>>
  <2>1. /\ -1 \in -1..MAX_HEAP - 1 /\ First - 2 \in -1..MAX_HEAP - 1
        /\ -1 # First - 1 /\ -1 # (First + n) - 2 /\ First - 2 # First - 1 /\ First - 2 # (First + n) - 2
    BY <1>1
  <2> QED
    BY <1>1, <1>4, <1>5, <2>1
<1>7. /\ m3 \in Memory /\ m3[CHUNKSIZE - 1] = <<0, 1>>
      /\ \A a \in -1..MAX_HEAP - 1 : a # CHUNKSIZE - 1 => m3[a] = m2[a]
  <2>1. CHUNKSIZE - 1 \in -1..MAX_HEAP - 1 /\ <<0, 1>> \in Contents
    BY <1>1 DEF Contents
  <2> QED
    BY <1>5, <2>1 DEF Memory
<1> HIDE DEF m3
<1>8. Tagged(m3, Fresh, {}, DOMAIN Fresh) /\ Ends(m3, CHUNKSIZE)
  <2>1. /\ \A a \in {-1, First - 2, First - 1, (First + n) - 2} :
             a \in -1..MAX_HEAP - 1 /\ a # CHUNKSIZE - 1
    BY <1>1
  <2>2. /\ m3[-1] = <<Prolog, 1>> /\ m3[First - 2] = <<Prolog, 1>>
        /\ m3[First - 1] = <<n, 0>> /\ m3[(First + n) - 2] = <<n, 0>>
    BY <1>5, <1>6, <1>7, <2>1
  <2>3. DOMAIN Fresh = {First} /\ Fresh[First] = n /\ Mark({}, First) = 0
    BY DEF Fresh, Mark, n
  <2>4. Tagged(m3, Fresh, {}, DOMAIN Fresh)
    BY <2>2, <2>3 DEF Tagged
  <2> QED
    BY <1>7, <2>2, <2>4 DEF Ends
<1>9. l \in [Classes -> Seq(First..MAX_HEAP)] /\ Filed(l, Fresh, {})
  BY DEF Filed, Holds
<1> HIDE DEF l
<1>10. Laid(h, Fresh, {}, {})
  <2>1. h \in Heaps /\ h.mem = m3 /\ h.end = CHUNKSIZE /\ h.lists = l
    BY <1>1, <1>7, <1>9 DEF Heaps
  <2> HIDE DEF h
  <2> QED
    BY <1>8, <1>9, <2>1, FreshTiling DEF Laid
<1>11. Laid(k, Fresh, {}, {} \cup {First}) /\ k.end = CHUNKSIZE
  <2>1. First \in DOMAIN Fresh /\ h.end = CHUNKSIZE
    BY DEF Fresh
  <2> HIDE DEF h, k
  <2> QED
    BY <1>2, <1>10, <2>1, FreeNode
<1> HIDE DEF k
<1>12. {} \cup {First} = DOMAIN Fresh \ {} /\ Apart(Fresh, DOMAIN Fresh \ {})
  <2>1. DOMAIN Fresh = {First} /\ First + Fresh[First] # First
    BY <1>1 DEF Fresh, n
  <2> QED
    BY <2>1 DEF Apart
<1> QED
  BY <1>11, <1>12 DEF Good, k

-----------------------------------------------------------------------------
(* The walk of mm_check                                                    *)

StepFrom(h, p) == IF p >= h.end THEN p ELSE NEXTBLK(h.mem, p)
Walks(w, h, n) == w = [k \in 0..n |-> IF k = 0 THEN First ELSE StepFrom(h, w[k - 1])]

LEMMA WalksExist ==
  ASSUME NEW h, NEW n \in Nat
  PROVE  \E w : Walks(w, h, n)
<1> DEFINE Bad == {k \in 0..n : ~\E w : Walks(w, h, k)}
<1> SUFFICES ASSUME Bad # {}
             PROVE  FALSE
  OBVIOUS
<1>1. PICK k \in Bad : \A m \in Bad : k <= m
  <2>1. Bad \in SUBSET (0..n)
    OBVIOUS
  <2> HIDE DEF Bad
  <2> QED
    BY <2>1, Least
<1>2. CASE k = 0
  <2> DEFINE w == [j \in 0..0 |-> First]
  <2>1. w = [j \in 0..0 |-> IF j = 0 THEN First ELSE StepFrom(h, w[j - 1])]
    OBVIOUS
  <2> QED
    BY <1>1, <1>2, <2>1 DEF Walks
<1>3. CASE k # 0
  <2>1. k - 1 \in 0..n /\ k - 1 \notin Bad /\ k \in 0..n
    BY <1>1, <1>3
  <2>2. PICK w : Walks(w, h, k - 1)
    BY <2>1
  <2>3. \A j \in 0..k - 1 : w[j] = IF j = 0 THEN First ELSE StepFrom(h, w[j - 1])
    BY <2>2 DEF Walks
  <2> DEFINE f(j) == IF j = k THEN StepFrom(h, w[k - 1]) ELSE w[j]
             v == [j \in 0..k |-> f(j)]
             g(j) == IF j = 0 THEN First ELSE StepFrom(h, v[j - 1])
  <2>4. ASSUME NEW j \in 0..k
        PROVE  f(j) = g(j)
    <3>1. CASE j = 0
      BY <1>3, <2>1, <2>3, <3>1
    <3>2. CASE j # 0
      <4>1. j - 1 \in 0..k /\ j - 1 # k /\ v[j - 1] = w[j - 1]
        BY <2>1, <3>2
      <4>2. CASE j = k
        BY <3>2, <4>1, <4>2
      <4>3. CASE j # k
        <5>1. j \in 0..k - 1
          BY <2>1, <4>3
        <5>2. w[j] = StepFrom(h, w[j - 1])
          BY <2>3, <3>2, <5>1
        <5> QED
          BY <3>2, <4>1, <4>3, <5>2
      <4> QED
        BY <4>2, <4>3
    <3> QED
      BY <3>1, <3>2
  <2>5. v = [j \in 0..k |-> g(j)]
    BY <2>4
  <2>6. Walks(v, h, k)
    BY <2>5 DEF Walks
  <2> QED
    BY <1>1, <2>6
<1> QED
  BY <1>2, <1>3

LEMMA BlocksWalked ==
  ASSUME NEW h, NEW sz, NEW U, NEW F, Laid(h, sz, U, F)
  PROVE  Blocks(h) = DOMAIN sz
<1> DEFINE n == h.end \div MIN_ALLOC
           w == CHOOSE w : Walks(w, h, n)
<1>1. Blocks(h) = {w[k] : k \in DOMAIN w} \ {h.end}
  BY DEF Blocks, Walks, StepFrom
<1>2. Tiling(sz, h.end) /\ Tagged(h.mem, sz, U, DOMAIN sz) /\ h.end \in Nat /\ h.end \notin DOMAIN sz
  BY TilingFacts DEF Laid
<1>3. n \in Nat /\ 4 * n + 4 > h.end
  BY <1>2 DEF MIN_ALLOC
<1> HIDE DEF n
<1>4. Walks(w, h, n)
  BY <1>3, WalksExist
<1> HIDE DEF w
<1>5. DOMAIN w = 0..n /\ w[0] = First /\ \A k \in 1..n : w[k] = StepFrom(h, w[k - 1])
  BY <1>3, <1>4 DEF Walks
<1>6. \A p \in DOMAIN sz : StepFrom(h, p) = p + sz[p] /\ p + sz[p] \in DOMAIN sz \cup {h.end}
                           /\ p + sz[p] >= p + 4 /\ p \in Nat /\ p >= First
  <2> TAKE p \in DOMAIN sz
  <2>1. p < h.end /\ p \in Nat /\ sz[p] \in Nat /\ sz[p] >= 4 /\ p >= First
    BY <1>2, InHeap
  <2>2. NEXTBLK(h.mem, p) = p + sz[p]
    BY <1>2, ReadTags
  <2> QED
    BY <1>2, <2>1, <2>2 DEF StepFrom, Tiling
<1>7. StepFrom(h, h.end) = h.end
  BY <1>2 DEF StepFrom
<1>8. \A k \in 0..n : w[k] = h.end \/ (w[k] \in DOMAIN sz /\ w[k] >= 4 * k + 4)
  <2> DEFINE Fine(k) == w[k] = h.end \/ (w[k] \in DOMAIN sz /\ w[k] >= 4 * k + 4)
             Bad == {k \in 0..n : ~Fine(k)}
  <2> SUFFICES ASSUME Bad # {}
               PROVE  FALSE
    OBVIOUS
  <2>1. PICK k \in Bad : \A m \in Bad : k <= m
    <3>1. Bad \in SUBSET (0..n)
      OBVIOUS
    <3> HIDE DEF Bad
    <3> QED
      BY <1>3, <3>1, Least
  <2>2. k # 0
    <3>1. First \in DOMAIN sz /\ First >= 4
      BY <1>2, TilingFacts DEF Tiling
    <3> QED
      BY <1>5, <2>1, <3>1
  <2>3. k - 1 \in 0..n /\ k - 1 \notin Bad /\ k \in 1..n
    BY <1>3, <2>1, <2>2
  <2>4. w[k] = StepFrom(h, w[k - 1]) /\ Fine(k - 1)
    BY <1>5, <2>3
  <2>5. CASE w[k - 1] = h.end
    <3>1. w[k] = h.end
      BY <1>7, <2>4, <2>5
    <3> QED
      BY <2>1, <3>1
  <2>6. CASE w[k - 1] \in DOMAIN sz /\ w[k - 1] >= 4 * (k - 1) + 4
    <3> DEFINE p == w[k - 1]
    <3>1. w[k] = p + sz[p] /\ p + sz[p] \in DOMAIN sz \cup {h.end} /\ p + sz[p] >= p + 4 /\ p \in Nat
      BY <1>6, <2>4, <2>6
    <3>2. p >= 4 * k /\ k \in Nat
      BY <2>3, <2>6, <3>1
    <3> HIDE DEF p
    <3>3. w[k] \in Nat /\ w[k] >= 4 * k + 4
      <4>1. w[k] \in Nat
        BY <1>2, <1>6, <3>1
      <4> QED
        BY <3>1, <3>2, <4>1
    <3> QED
      BY <2>1, <3>1, <3>3
  <2> QED
    BY <2>4, <2>5, <2>6
<1>9. w[n] = h.end
  <2>1. \A p \in DOMAIN sz : p \in Nat /\ p < h.end
    BY <1>2, InHeap
  <2>2. n \in 0..n
    BY <1>3
  <2>3. w[n] = h.end \/ (w[n] \in DOMAIN sz /\ w[n] >= 4 * n + 4)
    BY <1>8, <2>2
  <2>4. ASSUME w[n] \in DOMAIN sz, w[n] >= 4 * n + 4
        PROVE  FALSE
    BY <1>2, <1>3, <2>1, <2>4
  <2> QED
    BY <2>3, <2>4
<1>10. ASSUME NEW q \in DOMAIN sz
       PROVE  \E k \in 0..n : w[k] = q
  <2> DEFINE Bad == {r \in DOMAIN sz : ~\E k \in 0..n : w[k] = r}
  <2> SUFFICES ASSUME Bad # {}
               PROVE  FALSE
    OBVIOUS
  <2>1. PICK r \in Bad : \A s \in Bad : r <= s
    <3>1. \A s \in DOMAIN sz : s \in 0..h.end
      BY <1>2, InHeap
    <3>2. Bad \in SUBSET (0..h.end)
      BY <3>1
    <3> HIDE DEF Bad
    <3> QED
      BY <1>2, <3>2, Least
  <2>2. CASE r = First
    <3>1. 0 \in 0..n
      BY <1>3
    <3> QED
      BY <1>5, <2>1, <2>2, <3>1
  <2>3. CASE r # First
    <3>1. PICK p \in DOMAIN sz : p + sz[p] = r
      BY <1>2, <2>1, <2>3 DEF Tiling
    <3>2. p \notin Bad
      <4>1. p \in Nat /\ p + 4 <= r
        BY <1>6, <3>1
      <4>2. ~(r <= p)
        BY <1>6, <2>1, <4>1
      <4> HIDE DEF Bad
      <4> QED
        BY <2>1, <4>2
    <3>3. PICK k \in 0..n : w[k] = p
      BY <3>1, <3>2
    <3>4. k # n
      BY <1>2, <1>9, <3>3
    <3>5. k + 1 \in 1..n /\ k + 1 \in 0..n /\ (k + 1) - 1 = k
      BY <1>3, <3>4
    <3>6. w[k + 1] = r
      BY <1>5, <1>6, <3>1, <3>3, <3>5
    <3> QED
      BY <2>1, <3>5, <3>6
  <2> QED
    BY <2>2, <2>3
<1>11. ASSUME NEW p \in Blocks(h)
       PROVE  p \in DOMAIN sz
  <2>1. PICK k \in 0..n : p = w[k] /\ p # h.end
    BY <1>1, <1>5
  <2> QED
    BY <1>8, <2>1
<1>12. ASSUME NEW p \in DOMAIN sz
       PROVE  p \in Blocks(h)
  <2>1. PICK k \in 0..n : w[k] = p
    BY <1>10
  <2>2. p # h.end
    BY <1>2
  <2> QED
    BY <1>1, <1>5, <2>1, <2>2
<1> QED
  BY <1>11, <1>12

-----------------------------------------------------------------------------
(* The client                                                              *)

Addresses(l) == {l[i].ptr : i \in Ids} \ {NULL}

(* No two blocks of the client have one address.                           *)
Lives(l) ==
  /\ l \in [Ids -> [ptr : 0..MAX_HEAP, len : Requests \cup {0}]]
  /\ \A i \in Ids : l[i].ptr = NULL <=> l[i].len = 0
  /\ \A i, j \in Ids : l[i].ptr # NULL /\ l[i].ptr = l[j].ptr => i = j

(* The allocated blocks are those of the client, each of a fitting size.   *)
Owned(h, l, sz) ==
  /\ Good(h, sz, Addresses(l))
  /\ \A i \in Ids : l[i].ptr # NULL =>
       sz[l[i].ptr] >= ALLOC_SIZE(l[i].len) /\ sz[l[i].ptr] - ALLOC_SIZE(l[i].len) < MIN_ALLOC

LEMMA Payload ==
  ASSUME NEW h, NEW l, NEW sz, Lives(l), Owned(h, l, sz), NEW i \in Ids, l[i].ptr # NULL
  PROVE  /\ l[i].ptr \in Addresses(l) /\ l[i].ptr \in DOMAIN sz /\ l[i].ptr \in Nat
         /\ l[i].len \in Requests /\ l[i].len \in Nat /\ l[i].len # 0
         /\ sz[l[i].ptr] \in Nat /\ l[i].len + 2 <= sz[l[i].ptr]
         /\ l[i].ptr + sz[l[i].ptr] <= h.end /\ h.end <= MAX_HEAP /\ h.end \in Nat /\ MAX_HEAP \in Nat
<1>1. l[i].ptr \in Addresses(l)
  BY DEF Addresses
<1>2. l[i].ptr \in DOMAIN sz /\ Tiling(sz, h.end)
  BY <1>1 DEF Owned, Good, Laid
<1>3. l[i].len # 0 /\ l[i].len \in Requests
  BY DEF Lives
<1>4. ALLOC_SIZE(l[i].len) \in Nat /\ ALLOC_SIZE(l[i].len) >= l[i].len + 2 /\ l[i].len \in Nat
  BY <1>3, AllocSize
<1>5. /\ l[i].ptr \in Nat /\ sz[l[i].ptr] \in Nat /\ l[i].ptr + sz[l[i].ptr] <= h.end
      /\ h.end <= MAX_HEAP /\ h.end \in Nat /\ MAX_HEAP \in Nat
  BY <1>2, InHeap
<1>6. sz[l[i].ptr] >= ALLOC_SIZE(l[i].len)
  BY DEF Owned
<1> QED
  BY <1>1, <1>2, <1>3, <1>4, <1>5, <1>6

(* The block i gets the address q and the length n, or loses what it had.   *)
Replaces(l, i, q, n, m) ==
  /\ Lives(l) /\ i \in Ids /\ q \in 0..MAX_HEAP /\ n \in Requests \cup {0}
  /\ q = NULL <=> n = 0
  /\ q \notin Addresses(l) \ {l[i].ptr}
  /\ m = [l EXCEPT ![i] = [ptr |-> q, len |-> n]]

LEMMA Replaced ==
  ASSUME NEW l, NEW i, NEW q, NEW n, NEW m, Replaces(l, i, q, n, m)
  PROVE  /\ Lives(m) /\ Addresses(m) = ((Addresses(l) \ {l[i].ptr}) \cup {q}) \ {NULL}
         /\ m[i].ptr = q /\ m[i].len = n /\ \A j \in Ids \ {i} : m[j] = l[j]
<1>1. /\ l \in [Ids -> [ptr : 0..MAX_HEAP, len : Requests \cup {0}]] /\ i \in Ids
      /\ q \in 0..MAX_HEAP /\ n \in Requests \cup {0} /\ (q = NULL <=> n = 0)
      /\ q \notin Addresses(l) \ {l[i].ptr} /\ m = [l EXCEPT ![i] = [ptr |-> q, len |-> n]]
      /\ \A j \in Ids : l[j].ptr = NULL <=> l[j].len = 0
      /\ \A j, k \in Ids : l[j].ptr # NULL /\ l[j].ptr = l[k].ptr => j = k
  BY DEF Replaces, Lives
<1>2. m \in [Ids -> [ptr : 0..MAX_HEAP, len : Requests \cup {0}]]
  BY <1>1
<1>3. m[i].ptr = q /\ m[i].len = n /\ \A j \in Ids \ {i} : m[j] = l[j]
  BY <1>1
<1>4. \A j \in Ids : m[j].ptr = NULL <=> m[j].len = 0
  BY <1>1, <1>3
<1>5. ASSUME NEW j \in Ids, j # i, l[j].ptr # NULL
      PROVE  l[j].ptr \in Addresses(l) \ {l[i].ptr}
  BY <1>1, <1>5 DEF Addresses
<1>6. ASSUME NEW j \in Ids, NEW k \in Ids, m[j].ptr # NULL, m[j].ptr = m[k].ptr
      PROVE  j = k
  <2>1. CASE j = i /\ k # i
    BY <1>1, <1>3, <1>5, <1>6, <2>1
  <2>2. CASE j # i /\ k = i
    BY <1>1, <1>3, <1>5, <1>6, <2>2
  <2>3. CASE j # i /\ k # i
    BY <1>1, <1>3, <1>6, <2>3
  <2> QED
    BY <2>1, <2>2, <2>3
<1>7. Addresses(m) = ((Addresses(l) \ {l[i].ptr}) \cup {q}) \ {NULL}
  <2>1. ASSUME NEW x \in Addresses(m)
        PROVE  x \in ((Addresses(l) \ {l[i].ptr}) \cup {q}) \ {NULL}
    <3>1. PICK j \in Ids : x = m[j].ptr /\ x # NULL
      BY DEF Addresses
    <3> QED
      BY <1>3, <1>5, <3>1
  <2>2. ASSUME NEW x \in ((Addresses(l) \ {l[i].ptr}) \cup {q}) \ {NULL}
        PROVE  x \in Addresses(m)
    <3>1. CASE x = q
      BY <1>1, <1>3, <3>1 DEF Addresses
    <3>2. CASE x # q
      <4>1. PICK j \in Ids : x = l[j].ptr /\ x # NULL /\ x # l[i].ptr
        BY <3>2 DEF Addresses
      <4>2. m[j].ptr = x
        BY <1>3, <4>1
      <4> QED
        BY <4>1, <4>2 DEF Addresses
    <3> QED
      BY <3>1, <3>2
  <2> QED
    BY <2>1, <2>2
<1> QED
  BY <1>2, <1>3, <1>4, <1>6, <1>7 DEF Lives

PayloadKept(h, k, b) == \A a \in b.ptr..(b.ptr + b.len) - 1 : k.mem[a] = h.mem[a]

(* The heap h of the client l becomes k, that of m.                        *)
Changes(h, l, sz, i, q, n, k, m, z) ==
  /\ Owned(h, l, sz) /\ Replaces(l, i, q, n, m)
  /\ Good(k, z, ((Addresses(l) \ {l[i].ptr}) \cup {q}) \ {NULL})
  /\ \A r \in Addresses(l) \ {l[i].ptr} : z[r] = sz[r]
  /\ Preserves(h, k, sz, Addresses(l) \ {l[i].ptr})
  /\ n # 0 => z[q] >= ALLOC_SIZE(n) /\ z[q] - ALLOC_SIZE(n) < MIN_ALLOC

LEMMA NoPayload ==
  ASSUME NEW l, Lives(l), NEW i \in Ids, l[i].ptr = NULL
  PROVE  l[i].ptr..(l[i].ptr + l[i].len) - 1 = {}
<1>1. l[i].len = 0 /\ l[i].ptr = 0
  BY DEF Lives, NULL
<1> QED
  BY <1>1

LEMMA Untouched ==
  ASSUME NEW h, NEW l, NEW sz, NEW V, NEW k, Lives(l), Owned(h, l, sz), Preserves(h, k, sz, V),
         NEW j \in Ids, l[j].ptr # NULL => l[j].ptr \in V
  PROVE  PayloadKept(h, k, l[j])
<1>1. CASE l[j].ptr = NULL
  BY <1>1, NoPayload DEF PayloadKept
<1>2. CASE l[j].ptr # NULL
  <2> DEFINE p == l[j].ptr
             n == l[j].len
  <2>1. p \in Nat /\ n \in Nat /\ sz[p] \in Nat /\ n + 2 <= sz[p] /\ p \in V
    BY <1>2, Payload
  <2> HIDE DEF p, n
  <2>2. \A a \in p..(p + n) - 1 : a \in p..(p + sz[p]) - 3
    BY <2>1
  <2>3. \A a \in p..(p + sz[p]) - 3 : k.mem[a] = h.mem[a]
    BY <2>1 DEF Preserves
  <2> QED
    BY <2>2, <2>3 DEF PayloadKept, p, n
<1> QED
  BY <1>1, <1>2

LEMMA Changed ==
  ASSUME NEW h, NEW l, NEW sz, NEW i, NEW q, NEW n, NEW k, NEW m, NEW z,
         Changes(h, l, sz, i, q, n, k, m, z)
  PROVE  /\ Lives(m) /\ Owned(k, m, z)
         /\ \A j \in Ids \ {i} : m[j] = l[j] /\ PayloadKept(h, k, l[j])
<1> DEFINE V == Addresses(l) \ {l[i].ptr}
<1>1. /\ Owned(h, l, sz) /\ Replaces(l, i, q, n, m) /\ Good(k, z, (V \cup {q}) \ {NULL})
      /\ \A r \in V : z[r] = sz[r]
      /\ Preserves(h, k, sz, V)
      /\ n # 0 => z[q] >= ALLOC_SIZE(n) /\ z[q] - ALLOC_SIZE(n) < MIN_ALLOC
      /\ Lives(l) /\ i \in Ids /\ (q = NULL <=> n = 0)
  BY DEF Changes, Replaces
<1>2. /\ Lives(m) /\ Addresses(m) = (V \cup {q}) \ {NULL}
      /\ m[i].ptr = q /\ m[i].len = n /\ \A j \in Ids \ {i} : m[j] = l[j]
  BY <1>1, Replaced
<1>3. ASSUME NEW j \in Ids \ {i}, l[j].ptr # NULL
      PROVE  l[j].ptr \in V
  <2>1. l[j].ptr # l[i].ptr
    BY <1>1, <1>3 DEF Lives
  <2> QED
    BY <1>3, <2>1 DEF Addresses
<1> HIDE DEF V
<1>4. \A j \in Ids \ {i} : PayloadKept(h, k, l[j])
  BY <1>1, <1>3, Untouched
<1>5. ASSUME NEW j \in Ids, m[j].ptr # NULL
      PROVE  /\ z[m[j].ptr] >= ALLOC_SIZE(m[j].len)
             /\ z[m[j].ptr] - ALLOC_SIZE(m[j].len) < MIN_ALLOC
  <2>1. CASE j = i
    BY <1>1, <1>2, <1>5, <2>1
  <2>2. CASE j # i
    <3>1. l[j].ptr # NULL /\ m[j] = l[j] /\ z[l[j].ptr] = sz[l[j].ptr]
      BY <1>1, <1>2, <1>3, <1>5, <2>2
    <3> QED
      BY <1>1, <3>1 DEF Owned
  <2> QED
    BY <2>1, <2>2
<1>6. Owned(k, m, z)
  BY <1>1, <1>2, <1>5 DEF Owned
<1> QED
  BY <1>2, <1>4, <1>6

(* Between two steps.                                                      *)
Inv ==
  /\ Lives(live) /\ unwritten \in Ids \cup {NoId}
  /\ unwritten \in Ids => live[unwritten].ptr # NULL
  /\ \E sz : Owned(heap, live, sz)
  /\ Intact

OthersKept(i) == \A j \in Ids \ {i} : PayloadKept(heap, heap', live[j])

(* What a step comes to: nothing for the client, ...                       *)
Idles ==
  /\ live' = live /\ unwritten' = unwritten /\ heap'.end = heap.end
  /\ \E z : Owned(heap', live, z)
  /\ \A j \in Ids : PayloadKept(heap, heap', live[j])

(* ... a block less, ...                                                   *)
Drops(i) ==
  /\ unwritten = NoId /\ unwritten' = NoId /\ live[i] # None
  /\ live' = [live EXCEPT ![i] = None] /\ Lives(live')
  /\ \E z : Owned(heap', live', z)
  /\ heap'.end = heap.end /\ OthersKept(i)

(* ... a block at another address, ...                                     *)
Places(i, n) ==
  /\ unwritten = NoId /\ unwritten' = i /\ n # 0 /\ n \in Requests
  /\ \E q : /\ q # NULL /\ live' = [live EXCEPT ![i] = [ptr |-> q, len |-> n]]
            /\ \A k \in 0..live[i].len - 1 : k < n => heap'.mem[q + k] = heap.mem[live[i].ptr + k]
  /\ Lives(live') /\ \E z : Owned(heap', live', z)
  /\ heap'.end >= heap.end /\ OthersKept(i)
  /\ heap'.end # heap.end =>
       \E sz : Owned(heap, live, sz) /\ \A r \in DOMAIN sz \ Addresses(live) : sz[r] < ALLOC_SIZE(n)

(* ... or a payload that is filled.                                        *)
Fills(i) ==
  /\ unwritten = i /\ unwritten' = NoId /\ live' = live /\ heap'.end = heap.end
  /\ \E z : Owned(heap', live, z)
  /\ OthersKept(i)
  /\ \A a \in live[i].ptr..(live[i].ptr + live[i].len) - 1 : heap'.mem[a] = i

LEMMA Nothing ==
  ASSUME Inv, heap' = heap, live' = live, unwritten' = unwritten
  PROVE  Idles
BY DEF Inv, Idles, PayloadKept

LEMMA EmptyLive ==
  ASSUME NEW l, Lives(l), NEW i \in Ids
  PROVE  /\ l[i] = None <=> l[i].ptr = NULL
         /\ l[i] = None => [l EXCEPT ![i] = None] = l
<1>1. l[i] \in [ptr : 0..MAX_HEAP, len : Requests \cup {0}] /\ (l[i].ptr = NULL <=> l[i].len = 0)
      /\ l \in [Ids -> [ptr : 0..MAX_HEAP, len : Requests \cup {0}]]
  BY DEF Lives
<1> QED
  BY <1>1 DEF None, NULL

(* malloc, also as realloc of no block.                                    *)
LEMMA MallocPlaces ==
  ASSUME Inv, NEW i \in Ids, NEW n \in Requests, n # 0, unwritten = NoId, live[i] = None,
         mm_malloc(heap, n).ptr # NULL, heap' = mm_malloc(heap, n).heap,
         live' = [live EXCEPT ![i] = [ptr |-> mm_malloc(heap, n).ptr, len |-> n]],
         unwritten' = i
  PROVE  Places(i, n)
<1> DEFINE b == mm_malloc(heap, n)
           q == b.ptr
           U == Addresses(live)
<1>1. PICK sz : Owned(heap, live, sz)
  BY DEF Inv
<1>2. Lives(live) /\ live[i].ptr = NULL /\ Good(heap, sz, U) /\ live[i].len = 0
  BY <1>1, EmptyLive DEF Inv, Owned, None
<1>3. PICK z : Allocated(heap, sz, U, ALLOC_SIZE(n), b, z)
  <2>1. b # Failed(heap)
    BY DEF Failed
  <2> HIDE DEF b, U
  <2> QED
    BY <1>2, <2>1, Mallocs DEF b
<1>4. q # NULL /\ heap' = b.heap /\ live' = [live EXCEPT ![i] = [ptr |-> q, len |-> n]]
  OBVIOUS
<1> HIDE DEF b
<1>5. /\ q \in DOMAIN z /\ q \notin U
      /\ Good(b.heap, z, U \cup {q})
      /\ \A r \in U : z[r] = sz[r]
      /\ z[q] >= ALLOC_SIZE(n) /\ z[q] - ALLOC_SIZE(n) < MIN_ALLOC
      /\ Preserves(heap, b.heap, sz, U) /\ b.heap.end >= heap.end
      /\ b.heap.end # heap.end => \A r \in DOMAIN sz \ U : sz[r] < ALLOC_SIZE(n)
  BY <1>3 DEF Allocated
<1>6. q \in 0..MAX_HEAP
  BY <1>5, InHeap DEF Good, Laid
<1>7. U \ {live[i].ptr} = U /\ (U \cup {q}) \ {NULL} = U \cup {q}
  BY <1>2, <1>4 DEF Addresses
<1> HIDE DEF U, q
<1>8. Replaces(live, i, q, n, live')
  BY <1>2, <1>4, <1>5, <1>6, <1>7 DEF Replaces, U
<1>9. Changes(heap, live, sz, i, q, n, heap', live', z)
  BY <1>1, <1>4, <1>5, <1>7, <1>8 DEF Changes, U
<1>10. Lives(live') /\ Owned(heap', live', z) /\ OthersKept(i)
  BY <1>9, Changed DEF OthersKept
<1>11. 0..live[i].len - 1 = {}
  BY <1>2
<1> QED
  BY <1>1, <1>4, <1>5, <1>10, <1>11 DEF Places, U

LEMMA MallocFails ==
  ASSUME Inv, NEW n \in Requests \cup {0}, mm_malloc(heap, n).ptr = NULL
  PROVE  mm_malloc(heap, n).heap = heap
<1>1. CASE n = 0
  BY <1>1 DEF mm_malloc, Failed
<1>2. CASE n # 0
  <2>1. PICK sz : Owned(heap, live, sz)
    BY DEF Inv
  <2>2. Good(heap, sz, Addresses(live))
    BY <2>1 DEF Owned
  <2> DEFINE b == mm_malloc(heap, n)
  <2>3. b = Failed(heap) \/ \E z : Allocated(heap, sz, Addresses(live), ALLOC_SIZE(n), b, z)
    BY <1>2, <2>2, Mallocs
  <2>4. b.ptr = NULL
    OBVIOUS
  <2> HIDE DEF b
  <2>5. b = Failed(heap)
    BY <2>3, <2>4 DEF Allocated
  <2> QED
    BY <2>5 DEF Failed, b
<1> QED
  BY <1>1, <1>2

LEMMA ZeroFails == \A h : mm_malloc(h, 0).ptr = NULL
BY DEF mm_malloc, Failed

(* free, also as realloc to 0.                                             *)
LEMMA FreeDrops ==
  ASSUME Inv, NEW i \in Ids, unwritten = NoId, live[i] # None,
         heap' = mm_free(heap, live[i].ptr), live' = [live EXCEPT ![i] = None], unwritten' = NoId
  PROVE  Drops(i)
<1> DEFINE p == live[i].ptr
           U == Addresses(live)
<1>1. PICK sz : Owned(heap, live, sz)
  BY DEF Inv
<1>2. Lives(live) /\ p # NULL /\ Good(heap, sz, U) /\ p \in U
  BY <1>1, EmptyLive DEF Inv, Owned, Addresses
<1>3. PICK z : /\ Good(heap', z, U \ {p}) /\ heap'.end = heap.end
               /\ \A r \in U \ {p} : z[r] = sz[r]
               /\ Preserves(heap, heap', sz, U \ {p})
  <2> HIDE DEF p, U
  <2> QED
    <3>1. \E z : /\ Good(mm_free(heap, p), z, U \ {p}) /\ mm_free(heap, p).end = heap.end
                 /\ \A r \in U \ {p} : z[r] = sz[r]
                 /\ Preserves(heap, mm_free(heap, p), sz, U \ {p})
      BY <1>2, Releases
    <3>2. heap' = mm_free(heap, p)
      BY DEF p
    <3> QED
      BY <3>1, <3>2
<1>4. ((U \ {p}) \cup {NULL}) \ {NULL} = U \ {p} /\ NULL \notin U
  BY DEF Addresses
<1>5. Replaces(live, i, NULL, 0, live')
  <2>1. NULL \in 0..MAX_HEAP /\ NULL = 0
    BY PrologFits DEF NULL
  <2> QED
    BY <1>2, <1>4, <2>1 DEF Replaces, None
<1> HIDE DEF U
<1>6. Changes(heap, live, sz, i, NULL, 0, heap', live', z)
  BY <1>1, <1>3, <1>4, <1>5 DEF Changes, U
<1>7. Lives(live') /\ Owned(heap', live', z) /\ OthersKept(i)
  BY <1>6, Changed DEF OthersKept
<1> QED
  BY <1>3, <1>7 DEF Drops

LEMMA ReallocPlaces ==
  ASSUME Inv, NEW i \in Ids, NEW n \in Requests, n # 0, unwritten = NoId, live[i] # None,
         mm_realloc(heap, live[i].ptr, n).ptr # NULL, heap' = mm_realloc(heap, live[i].ptr, n).heap,
         live' = [live EXCEPT ![i] = [ptr |-> mm_realloc(heap, live[i].ptr, n).ptr, len |-> n]],
         unwritten' = i
  PROVE  Places(i, n)
<1> DEFINE p == live[i].ptr
           b == mm_realloc(heap, p, n)
           q == b.ptr
           U == Addresses(live)
           size == ALLOC_SIZE(n)
<1>1. PICK sz : Owned(heap, live, sz)
  BY DEF Inv
<1> DEFINE copy == (IF sz[p] < size THEN sz[p] ELSE size) - 2
<1>2. Lives(live) /\ p # NULL /\ Good(heap, sz, U)
  BY <1>1, EmptyLive DEF Inv, Owned
<1>3. /\ p \in U /\ p \in Nat /\ sz[p] \in Nat /\ live[i].len \in Nat /\ live[i].len + 2 <= sz[p]
      /\ size \in Nat /\ size >= n + 2 /\ n \in Nat
  BY <1>1, <1>2, Payload, AllocSize
<1>4. q # NULL /\ heap' = b.heap /\ live' = [live EXCEPT ![i] = [ptr |-> q, len |-> n]]
  OBVIOUS
<1> HIDE DEF p, U
<1>5. Reallocated(heap, sz, U, p, n, b)
  BY <1>2, <1>3, Reallocates
<1> HIDE DEF b
<1>6. PICK z : Resized(heap, sz, U, p, size, copy, b, z)
  BY <1>4, <1>5 DEF Reallocated
<1> HIDE DEF copy, size
<1>7. /\ q \in DOMAIN z /\ q \notin U \ {p}
      /\ Good(b.heap, z, (U \ {p}) \cup {q})
      /\ \A r \in U \ {p} : z[r] = sz[r]
      /\ z[q] >= size /\ z[q] - size < MIN_ALLOC
      /\ Preserves(heap, b.heap, sz, U \ {p}) /\ b.heap.end >= heap.end
      /\ b.heap.end # heap.end => \A r \in DOMAIN sz \ U : sz[r] < size
      /\ \A j \in 0..copy - 1 : b.heap.mem[q + j] = heap.mem[p + j]
  BY <1>6 DEF Resized, Stay
<1>8. q \in 0..MAX_HEAP
  BY <1>7, InHeap DEF Good, Laid
<1> HIDE DEF q
<1>9. ((U \ {p}) \cup {q}) \ {NULL} = (U \ {p}) \cup {q}
  BY <1>4 DEF U, Addresses
<1>10. Replaces(live, i, q, n, live')
  BY <1>2, <1>4, <1>7, <1>8 DEF Replaces, U, p, NULL
<1>11. Changes(heap, live, sz, i, q, n, heap', live', z)
  BY <1>1, <1>4, <1>7, <1>9, <1>10 DEF Changes, U, p, size
<1>12. Lives(live') /\ Owned(heap', live', z) /\ OthersKept(i)
  BY <1>11, Changed DEF OthersKept
<1>13. \A k \in 0..live[i].len - 1 : k < n => k \in 0..copy - 1
  BY <1>3 DEF copy
<1>14. \A k \in 0..live[i].len - 1 : k < n => heap'.mem[q + k] = heap.mem[p + k]
  BY <1>4, <1>7, <1>13
<1> QED
  BY <1>1, <1>4, <1>7, <1>12, <1>14 DEF Places, U, p, size

(* A realloc that fails behind a free block changes nothing.               *)
LEMMA ReallocIdles ==
  ASSUME Inv, NEW i \in Ids, NEW n \in Requests, n # 0, live[i] # None,
         mm_realloc(heap, live[i].ptr, n).ptr = NULL, heap' = mm_realloc(heap, live[i].ptr, n).heap,
         live' = live, unwritten' = unwritten,
         ~ALOC(heap.mem, HDRP(PREVBLK(heap.mem, live[i].ptr)))
  PROVE  Idles
<1> DEFINE p == live[i].ptr
           b == mm_realloc(heap, p, n)
           U == Addresses(live)
<1>1. PICK sz : Owned(heap, live, sz)
  BY DEF Inv
<1>2. Lives(live) /\ p # NULL /\ Good(heap, sz, U) /\ p \in U
  BY <1>1, EmptyLive DEF Inv, Owned, Addresses
<1>3. b.ptr = NULL /\ heap' = b.heap /\ ~ALOC(heap.mem, HDRP(PREVBLK(heap.mem, p)))
  OBVIOUS
<1> HIDE DEF p, U
<1>4. Reallocated(heap, sz, U, p, n, b)
  BY <1>2, Reallocates
<1> HIDE DEF b
<1>5. Good(heap', sz, U) /\ heap'.end = heap.end /\ Preserves(heap, heap', sz, U)
  BY <1>3, <1>4 DEF Reallocated
<1>6. Owned(heap', live, sz)
  BY <1>1, <1>5 DEF Owned, U
<1>7. \A j \in Ids : live[j].ptr # NULL => live[j].ptr \in U
  BY DEF U, Addresses
<1>8. \A j \in Ids : PayloadKept(heap, heap', live[j])
  BY <1>1, <1>2, <1>5, <1>7, Untouched
<1> QED
  BY <1>5, <1>6, <1>8 DEF Idles

LEMMA WriteFills ==
  ASSUME Inv, NEW i \in Ids, Write(i)
  PROVE  Fills(i)
<1> DEFINE p == live[i].ptr
           n == live[i].len
           U == Addresses(live)
           m == heap.mem
           w == heap'.mem
<1>1. PICK sz : Owned(heap, live, sz)
  BY DEF Inv
<1>2. /\ unwritten = i /\ unwritten' = NoId /\ live' = live /\ Lives(live) /\ p # NULL
      /\ heap' = [heap EXCEPT !.mem =
           [a \in DOMAIN @ |->
              CASE a \in p..p + n - 1 -> i
                [] a \in p + n..NEXTBLK(m, p) - 3 -> Junk
                [] OTHER -> @[a]]]
  BY DEF Write, Inv
<1>3. Laid(heap, sz, U, DOMAIN sz \ U) /\ Apart(sz, DOMAIN sz \ U) /\ heap \in Heaps /\ m \in Memory
      /\ Tagged(m, sz, U, DOMAIN sz) /\ U \subseteq DOMAIN sz
  BY <1>1 DEF Owned, Good, Laid, Heaps
<1>4. /\ p \in DOMAIN sz /\ p \in Nat /\ n \in Nat /\ sz[p] \in Nat /\ n + 2 <= sz[p]
      /\ p + sz[p] <= MAX_HEAP /\ MAX_HEAP \in Nat
  BY <1>1, <1>2, Payload
<1>5. NEXTBLK(m, p) = p + sz[p]
  BY <1>3, <1>4, ReadTags
<1> DEFINE e == (p + sz[p]) - 3
           v == [a \in -1..MAX_HEAP - 1 |->
                   IF a \in p..(p + n) - 1 THEN i ELSE IF a \in p + n..e THEN Junk ELSE m[a]]
<1>6. heap' = [heap EXCEPT !.mem = v]
  <2>1. DOMAIN m = -1..MAX_HEAP - 1
    BY <1>3 DEF Memory
  <2>2. v = [a \in DOMAIN m |->
              CASE a \in p..p + n - 1 -> i
                [] a \in p + n..NEXTBLK(m, p) - 3 -> Junk
                [] OTHER -> m[a]]
    <3>1. \A a \in DOMAIN m : (a \in p..p + n - 1 <=> a \in p..(p + n) - 1)
                              /\ (a \in p + n..NEXTBLK(m, p) - 3 <=> a \in p + n..e)
      BY <1>4, <1>5, <2>1
    <3>2. \A a \in DOMAIN m :
            (IF a \in p..(p + n) - 1 THEN i ELSE IF a \in p + n..e THEN Junk ELSE m[a])
              = (CASE a \in p..p + n - 1 -> i
                   [] a \in p + n..NEXTBLK(m, p) - 3 -> Junk
                   [] OTHER -> m[a])
      <4> HIDE DEF e, p, n, m
      <4> QED
        BY <1>4, <3>1
    <3> QED
      BY <2>1, <3>2
  <2> HIDE DEF v
  <2> QED
    BY <1>2, <2>2
<1>7. v \in Memory
  <2>1. i \in Contents /\ Junk \in Contents /\ \A a \in -1..MAX_HEAP - 1 : m[a] \in Contents
    BY <1>3 DEF Memory, Contents
  <2> HIDE DEF e, p, n, m
  <2> QED
    BY <2>1 DEF Memory
<1>8. SameOutside(m, v, p, e) /\ \A a \in p..(p + n) - 1 : v[a] = i
  <2>1. \A a \in -1..MAX_HEAP - 1 : a \notin p..e => a \notin p..(p + n) - 1 /\ a \notin p + n..e
    BY <1>4
  <2>2. \A a \in p..(p + n) - 1 : a \in -1..MAX_HEAP - 1
    BY <1>4
  <2> HIDE DEF e, p, n, m
  <2> QED
    BY <2>1, <2>2 DEF SameOutside
<1> HIDE DEF v, p, n, U, m
<1>9. /\ Laid(heap', sz, U, DOMAIN sz \ U) /\ heap'.mem = v /\ heap'.end = heap.end
      /\ \A r \in DOMAIN sz \ {p} : \A a \in r..(r + sz[r]) - 3 : v[a] = m[a]
  BY <1>3, <1>4, <1>6, <1>7, <1>8, Inside DEF m
<1>10. Owned(heap', live, sz)
  BY <1>1, <1>3, <1>9 DEF Owned, Good, U
<1>11. Preserves(heap, heap', sz, U \ {p})
  BY <1>3, <1>9 DEF Preserves, m
<1>12. \A j \in Ids \ {i} : live[j].ptr # NULL => live[j].ptr \in U \ {p}
  BY <1>2 DEF U, Addresses, p, Lives
<1>13. OthersKept(i)
  BY <1>1, <1>2, <1>11, <1>12, Untouched DEF OthersKept
<1> QED
  BY <1>2, <1>8, <1>9, <1>10, <1>13 DEF Fills, p, n

LEMMA MallocSteps ==
  ASSUME Inv, NEW i \in Ids, NEW n \in Requests \cup {0}, Malloc(i, n)
  PROVE  Idles \/ (n \in Requests /\ Places(i, n))
<1> DEFINE b == mm_malloc(heap, n)
<1>1. /\ unwritten = NoId /\ live[i] = None /\ heap' = b.heap
      /\ live' = [live EXCEPT ![i] = IF b.ptr = NULL THEN None ELSE [ptr |-> b.ptr, len |-> n]]
      /\ unwritten' = IF b.ptr = NULL THEN NoId ELSE i
  BY DEF Malloc
<1>2. CASE b.ptr = NULL
  <2>1. heap' = heap
    BY <1>1, <1>2, MallocFails
  <2>2. Lives(live)
    BY DEF Inv
  <2>3. live' = live
    BY <1>1, <1>2, <2>2, EmptyLive
  <2> QED
    BY <1>1, <1>2, <2>1, <2>3, Nothing
<1>3. CASE b.ptr # NULL
  <2>1. n # 0 /\ n \in Requests
    BY <1>3, ZeroFails
  <2>2. live' = [live EXCEPT ![i] = [ptr |-> b.ptr, len |-> n]] /\ unwritten' = i
    BY <1>1, <1>3
  <2> QED
    BY <1>1, <1>3, <2>1, <2>2, MallocPlaces
<1> QED
  BY <1>2, <1>3

LEMMA FreeSteps ==
  ASSUME Inv, NEW i \in Ids, Free(i)
  PROVE  Drops(i)
BY FreeDrops DEF Free

LEMMA ReallocSteps ==
  ASSUME Inv, ~Undo, NEW i \in Ids, NEW n \in Requests \cup {0}, Realloc(i, n)
  PROVE  Idles \/ Drops(i) \/ (n \in Requests /\ Places(i, n))
<1> DEFINE p == live[i].ptr
           b == mm_realloc(heap, p, n)
<1>1. /\ unwritten = NoId /\ heap' = b.heap
      /\ (b.ptr = NULL /\ n # 0 /\ live[i] # None => ~ALOC(heap.mem, HDRP(PREVBLK(heap.mem, p))))
      /\ IF b.ptr # NULL
         THEN live' = [live EXCEPT ![i] = [ptr |-> b.ptr, len |-> n]] /\ unwritten' = i
         ELSE live' = (IF n = 0 THEN [live EXCEPT ![i] = None] ELSE live) /\ unwritten' = unwritten
  BY DEF Realloc
<1>2. Lives(live)
  BY DEF Inv
<1>3. CASE live[i] = None
  <2>1. b = mm_malloc(heap, n)
    BY <1>3 DEF mm_realloc, None, NULL
  <2>2. CASE b.ptr = NULL
    <3>1. heap' = heap
      BY <1>1, <2>1, <2>2, MallocFails
    <3>2. live' = live /\ unwritten' = unwritten
      <4>1. [live EXCEPT ![i] = None] = live
        BY <1>2, <1>3, EmptyLive
      <4> QED
        BY <1>1, <2>2, <4>1
    <3> QED
      BY <3>1, <3>2, Nothing
  <2>3. CASE b.ptr # NULL
    <3>1. n # 0 /\ n \in Requests
      BY <2>1, <2>3, ZeroFails
    <3>2. live' = [live EXCEPT ![i] = [ptr |-> mm_malloc(heap, n).ptr, len |-> n]] /\ unwritten' = i
          /\ heap' = mm_malloc(heap, n).heap /\ mm_malloc(heap, n).ptr # NULL
      BY <1>1, <2>1, <2>3
    <3> QED
      BY <1>1, <1>3, <3>1, <3>2, MallocPlaces
  <2> QED
    BY <2>2, <2>3
<1>4. CASE live[i] # None /\ n = 0
  <2>1. p # NULL
    BY <1>2, <1>4, EmptyLive
  <2>2. b = [ptr |-> NULL, heap |-> mm_free(heap, p)]
    BY <1>4, <2>1 DEF mm_realloc
  <2>3. heap' = mm_free(heap, p) /\ live' = [live EXCEPT ![i] = None] /\ unwritten' = NoId
    BY <1>1, <1>4, <2>2
  <2> QED
    BY <1>1, <1>4, <2>3, FreeDrops
<1>5. CASE live[i] # None /\ n # 0
  <2>1. n \in Requests
    BY <1>5
  <2>2. CASE b.ptr # NULL
    <3>1. live' = [live EXCEPT ![i] = [ptr |-> b.ptr, len |-> n]] /\ unwritten' = i
      BY <1>1, <2>2
    <3> QED
      BY <1>1, <1>5, <2>1, <2>2, <3>1, ReallocPlaces
  <2>3. CASE b.ptr = NULL
    <3>1. live' = live /\ unwritten' = unwritten
      BY <1>1, <1>5, <2>3
    <3>2. ~ALOC(heap.mem, HDRP(PREVBLK(heap.mem, p)))
      BY <1>1, <1>5, <2>3
    <3> QED
      BY <1>1, <1>5, <2>1, <2>3, <3>1, <3>2, ReallocIdles
  <2> QED
    BY <2>2, <2>3
<1> QED
  BY <1>3, <1>4, <1>5

LEMMA Steps ==
  ASSUME Inv, ~Undo, [Next]_vars
  PROVE  Idles \/ \E i \in Ids : Drops(i) \/ Fills(i) \/ \E n \in Requests : Places(i, n)
<1>1. CASE UNCHANGED vars
  BY <1>1, Nothing DEF vars
<1>2. CASE Next
  <2>1. PICK i \in Ids : (\E n \in Requests \cup {0} : Malloc(i, n) \/ Realloc(i, n)) \/ Free(i) \/ Write(i)
    BY <1>2 DEF Next
  <2>2. CASE \E n \in Requests \cup {0} : Malloc(i, n) \/ Realloc(i, n)
    <3>1. PICK n \in Requests \cup {0} : Malloc(i, n) \/ Realloc(i, n)
      BY <2>2
    <3>2. CASE Malloc(i, n)
      BY <3>2, MallocSteps
    <3>3. CASE Realloc(i, n)
      BY <3>3, ReallocSteps
    <3> QED
      BY <3>1, <3>2, <3>3
  <2>3. CASE Free(i)
    BY <2>3, FreeSteps
  <2>4. CASE Write(i)
    BY <2>4, WriteFills
  <2> QED
    BY <2>1, <2>2, <2>3, <2>4
<1> QED
  BY <1>1, <1>2

LEMMA InvInit ==
  ASSUME Init
  PROVE  Inv
<1>1. live = [i \in Ids |-> None] /\ heap = mm_init(NewHeap) /\ unwritten = NoId
  BY DEF Init
<1>2. \A i \in Ids : live[i].ptr = NULL /\ live[i].len = 0
  BY <1>1 DEF None
<1>3. Lives(live)
  <2>1. NULL \in 0..MAX_HEAP
    BY PrologFits DEF NULL
  <2>2. None \in [ptr : 0..MAX_HEAP, len : Requests \cup {0}]
    BY <2>1 DEF None
  <2> QED
    BY <1>1, <1>2, <2>2 DEF Lives
<1>4. Addresses(live) = {}
  BY <1>2 DEF Addresses
<1>5. Owned(heap, live, Fresh)
  BY <1>1, <1>2, <1>4, NewMemory, Starts DEF Owned
<1>6. Intact
  BY <1>2, <1>3, NoPayload DEF Intact, NULL
<1> QED
  BY <1>1, <1>3, <1>5, <1>6, MallocAssumption DEF Inv

LEMMA LastWord ==
  ASSUME NEW l, Lives(l), NEW j \in Ids
  PROVE  l[j].ptr..l[j].ptr + l[j].len - 1 = l[j].ptr..(l[j].ptr + l[j].len) - 1
<1>1. l[j].ptr \in 0..MAX_HEAP /\ l[j].len \in Requests \cup {0}
  BY DEF Lives
<1>2. l[j].ptr \in Nat /\ l[j].len \in Nat
  BY <1>1, PrologFits, AllocSize
<1> QED
  BY <1>2

(* Every block of l but u has what its owner wrote.                        *)
Written(h, l, u) ==
  \A j \in Ids \ {u} : \A a \in l[j].ptr..(l[j].ptr + l[j].len) - 1 : h.mem[a] = j

LEMMA IntactWritten ==
  ASSUME Lives(live)
  PROVE  Intact <=> Written(heap, live, unwritten)
BY LastWord DEF Intact, Written

LEMMA IntactNext ==
  ASSUME Lives(live'), Written(heap', live', unwritten')
  PROVE  Intact'
BY LastWord DEF Intact, Written

LEMMA InvNext ==
  ASSUME Inv, ~Undo, [Next]_vars
  PROVE  Inv'
<1>1. /\ Lives(live) /\ unwritten \in Ids \cup {NoId} /\ NoId \notin Ids
      /\ unwritten \in Ids => live[unwritten].ptr # NULL
      /\ \A j \in Ids \ {unwritten} :
           \A a \in live[j].ptr..(live[j].ptr + live[j].len) - 1 : heap.mem[a] = j
  <2>1. Written(heap, live, unwritten)
    BY IntactWritten DEF Inv
  <2> QED
    BY <2>1, MallocAssumption DEF Inv, Written
<1>2. CASE Idles
  <2>1. Intact'
    <3>1. Written(heap', live', unwritten')
      BY <1>1, <1>2 DEF Idles, Written, PayloadKept
    <3> QED
      BY <1>1, <1>2, <3>1, IntactNext DEF Idles
  <2> QED
    BY <1>1, <1>2, <2>1 DEF Idles, Inv
<1>3. ASSUME NEW i \in Ids, Drops(i)
      PROVE  Inv'
  <2>1. live'[i] = None /\ live'[i].ptr = NULL /\ \A j \in Ids \ {i} : live'[j] = live[j]
    BY <1>1, <1>3 DEF Drops, Lives, None
  <2>2. Intact'
    <3>1. \A j \in Ids \ {i} : \A a \in live[j].ptr..(live[j].ptr + live[j].len) - 1 : heap'.mem[a] = j
      BY <1>1, <1>3 DEF Drops, OthersKept, PayloadKept
    <3>2. live'[i].ptr..(live'[i].ptr + live'[i].len) - 1 = {}
      BY <1>3, <2>1, NoPayload DEF Drops
    <3>3. Written(heap', live', unwritten')
      BY <2>1, <3>1, <3>2 DEF Written
    <3> QED
      BY <1>3, <3>3, IntactNext DEF Drops
  <2> QED
    BY <1>1, <1>3, <2>2 DEF Drops, Inv
<1>4. ASSUME NEW i \in Ids, NEW n \in Requests, Places(i, n)
      PROVE  Inv'
  <2>1. PICK q : q # NULL /\ live' = [live EXCEPT ![i] = [ptr |-> q, len |-> n]]
    BY <1>4 DEF Places
  <2>2. live'[i].ptr = q /\ \A j \in Ids \ {i} : live'[j] = live[j]
    BY <1>1, <2>1 DEF Lives
  <2>3. Intact'
    <3>1. \A j \in Ids \ {i} : \A a \in live[j].ptr..(live[j].ptr + live[j].len) - 1 : heap'.mem[a] = j
      BY <1>1, <1>4 DEF Places, OthersKept, PayloadKept
    <3>2. Written(heap', live', unwritten')
      BY <1>4, <2>2, <3>1 DEF Written, Places
    <3> QED
      BY <1>4, <3>2, IntactNext DEF Places
  <2> QED
    BY <1>1, <1>4, <2>1, <2>2, <2>3 DEF Places, Inv
<1>5. ASSUME NEW i \in Ids, Fills(i)
      PROVE  Inv'
  <2>1. Intact'
    <3>1. \A j \in Ids \ {i} : \A a \in live[j].ptr..(live[j].ptr + live[j].len) - 1 : heap'.mem[a] = j
      BY <1>1, <1>5 DEF Fills, OthersKept, PayloadKept
    <3>2. Written(heap', live', unwritten')
      BY <1>5, <3>1 DEF Written, Fills
    <3> QED
      BY <1>1, <1>5, <3>2, IntactNext DEF Fills
  <2> QED
    BY <1>1, <1>5, <2>1 DEF Fills, Inv
<1> QED
  BY <1>2, <1>3, <1>4, <1>5, Steps

-----------------------------------------------------------------------------
(* The theorems                                                            *)

LEMMA Seen ==
  ASSUME NEW sz, Owned(heap, live, sz)
  PROVE  /\ Blocks(heap) = DOMAIN sz /\ FreeBlocks = DOMAIN sz \ Addresses(live)
         /\ \A p \in DOMAIN sz : /\ SizeAt(p) = sz[p] /\ SIZE(heap.mem, HDRP(p)) = sz[p]
                                 /\ ALOC(heap.mem, HDRP(p)) <=> p \in Addresses(live)
<1>1. Laid(heap, sz, Addresses(live), DOMAIN sz \ Addresses(live)) /\ Tagged(heap.mem, sz, Addresses(live), DOMAIN sz)
  BY DEF Owned, Good, Laid
<1>2. Blocks(heap) = DOMAIN sz
  BY <1>1, BlocksWalked
<1>3. \A p \in DOMAIN sz : /\ SIZE(heap.mem, HDRP(p)) = sz[p]
                           /\ ALOC(heap.mem, HDRP(p)) <=> p \in Addresses(live)
  BY <1>1, ReadTags
<1> QED
  BY <1>2, <1>3 DEF FreeBlocks, SizeAt

(* What mm_check and the client can see of a layout.                       *)
LEMMA InvConsistent ==
  ASSUME Inv
  PROVE  Consistent
<1>1. PICK sz : Owned(heap, live, sz)
  BY DEF Inv
<1> DEFINE U == Addresses(live)
           F == DOMAIN sz \ U
           m == heap.mem
           l == heap.lists
           nodes(c) == {l[c][i] : i \in DOMAIN l[c]}
<1>2. /\ heap \in Heaps /\ Tiling(sz, heap.end) /\ U \subseteq DOMAIN sz
      /\ Tagged(m, sz, U, DOMAIN sz) /\ Ends(m, heap.end) /\ Filed(l, sz, F) /\ Apart(sz, F)
  BY <1>1 DEF Owned, Good, Laid
<1>3. /\ Blocks(heap) = DOMAIN sz /\ FreeBlocks = F
      /\ \A p \in DOMAIN sz : SizeAt(p) = sz[p] /\ SIZE(m, HDRP(p)) = sz[p]
      /\ \A p \in DOMAIN sz : ALOC(m, HDRP(p)) <=> p \in U
  BY <1>1, Seen
<1>4. TypeOK
  <2>1. /\ m \in Memory /\ l \in [Classes -> Seq(First..MAX_HEAP)] /\ heap.end \in CHUNKSIZE..MAX_HEAP
        /\ live \in [Ids -> [ptr : 0..MAX_HEAP, len : Requests \cup {0}]]
    BY <1>2 DEF Heaps, Inv, Lives
  <2> QED
    BY <2>1 DEF TypeOK, Memory, Contents, Inv
<1>5. \A p \in DOMAIN sz : /\ p \in Nat /\ sz[p] \in Nat /\ sz[p] >= MIN_ALLOC /\ sz[p] % 2 = 0
                           /\ p + sz[p] <= heap.end
  BY <1>2 DEF Tiling
<1>6. \A p \in DOMAIN sz : m[HDRP(p)] = m[PFTRP(p + sz[p])] /\ NEXTBLK(m, p) = p + sz[p]
  BY <1>2, <1>3 DEF Tagged, HDRP, PFTRP, NEXTBLK
<1>7. \A c \in Classes : Holds(l[c], {p \in F : classof(sz[p]) = c})
  BY <1>2 DEF Filed
<1>8. \A c \in Classes : nodes(c) = {p \in F : classof(sz[p]) = c}
  BY <1>7 DEF Holds
<1>9. \A p \in F : classof(sz[p]) \in Classes /\ InClass(m, classof(sz[p]), p)
  <2> TAKE p \in F
  <2>1. sz[p] \in Nat /\ sz[p] >= MIN_ALLOC /\ SIZE(m, HDRP(p)) = sz[p]
    BY <1>3, <1>5
  <2>2. /\ classof(sz[p]) \in Classes /\ classof(sz[p]) <= sz[p]
        /\ sz[p] < 2 * classof(sz[p]) \/ classof(sz[p]) = CHUNKSIZE
    BY <2>1, ClassOf
  <2>3. classof(sz[p]) \in Nat
    BY <2>2, ClassBounds
  <2> QED
    BY <2>1, <2>2, <2>3 DEF InClass
<1> HIDE DEF nodes, l, m, U
<1>10. mm_check(heap)
  <2>1. \A c \in Classes : \A p \in nodes(c) : ~ALOC(m, HDRP(p)) /\ InClass(m, c, p)
    BY <1>3, <1>8, <1>9
  <2>2. \A p \in Blocks(heap) :
          /\ m[HDRP(p)] = m[PFTRP(NEXTBLK(m, p))]
          /\ ALOC(m, HDRP(p)) \/ \E c \in Classes : p \in nodes(c)
    <3> TAKE p \in Blocks(heap)
    <3>1. m[HDRP(p)] = m[PFTRP(NEXTBLK(m, p))]
      BY <1>3, <1>6
    <3>2. p \in F => p \in nodes(classof(sz[p])) /\ classof(sz[p]) \in Classes
      BY <1>8, <1>9
    <3> QED
      BY <1>3, <3>1, <3>2
  <2> QED
    BY <2>1, <2>2 DEF mm_check, nodes, l, m
<1>11. Tiled
  <2>1. heap.mem[HDRP(heap.end)] = <<0, 1>> /\ heap.mem[HDRP(0)] = <<Prolog, 1>>
        /\ heap.mem[PFTRP(First)] = <<Prolog, 1>>
    <3>1. HDRP(0) = -1 /\ HDRP(heap.end) = heap.end - 1 /\ PFTRP(First) = First - 2
      BY DEF HDRP, PFTRP
    <3> QED
      BY <1>2, <3>1 DEF Ends, m
  <2> QED
    BY <1>3, <1>5, <1>6, <2>1 DEF Tiled, m
<1>12. Coalesced
  BY <1>2, <1>3 DEF Coalesced, Apart
<1>13. ListsExact
  <2>1. \A c \in Classes : nodes(c) = {p \in FreeBlocks : classof(SizeAt(p)) = c}
    BY <1>3, <1>8
  <2>2. \A c \in Classes : \A i, j \in DOMAIN l[c] : l[c][i] = l[c][j] => i = j
    BY <1>7 DEF Holds
  <2> QED
    BY <2>1, <2>2 DEF ListsExact, nodes, l
<1>14. NothingLost
  <2>1. Blocks(heap) \ FreeBlocks = {live[i].ptr : i \in Ids} \ {NULL}
    BY <1>2, <1>3 DEF U, Addresses
  <2>2. ASSUME NEW i \in Ids, live[i] # None
        PROVE  SizeAt(live[i].ptr) - ALLOC_SIZE(live[i].len) \in 0..MIN_ALLOC - 1
    <3> DEFINE p == live[i].ptr
               n == live[i].len
    <3>1. Lives(live) /\ p # NULL
      BY <2>2, EmptyLive DEF Inv
    <3>2. p \in DOMAIN sz /\ n \in Requests /\ sz[p] \in Nat
      BY <1>1, <3>1, Payload
    <3>3. sz[p] >= ALLOC_SIZE(n) /\ sz[p] - ALLOC_SIZE(n) < MIN_ALLOC
      BY <1>1, <3>1 DEF Owned
    <3>4. SizeAt(p) = sz[p] /\ ALLOC_SIZE(n) \in Nat
      BY <1>3, <3>2, AllocSize
    <3> HIDE DEF p, n
    <3>5. SizeAt(p) - ALLOC_SIZE(n) \in 0..MIN_ALLOC - 1
      BY <3>2, <3>3, <3>4 DEF MIN_ALLOC
    <3> QED
      BY <3>5 DEF p, n
  <2> QED
    BY <2>1, <2>2 DEF NothingLost
<1> QED
  BY <1>4, <1>10, <1>11, <1>12, <1>13, <1>14 DEF Consistent

LEMMA InvAlways ==
  ASSUME ~Undo
  PROVE  Spec => []Inv
<1>1. Init => Inv
  BY InvInit
<1>2. Inv /\ [Next]_vars => Inv'
  BY InvNext
<1> QED
  BY <1>1, <1>2, PTL DEF Spec

(* After any sequence of calls, the blocks tile the heap and have equal    *)
(* headers and footers, no two free ones are neighbours, the lists hold    *)
(* exactly those, each in its class, the allocated ones are the client's,  *)
(* and mm_check passes (mm.c, all of mm_malloc, mm_free and mm_realloc).   *)
(* No realloc fails behind an allocated block.                             *)
THEOREM AlwaysConsistent ==
  ASSUME ~Undo
  PROVE  Spec => []Consistent
<1>1. Inv => Consistent
  BY InvConsistent
<1>2. Spec => []Inv
  BY InvAlways
<1> QED
  BY <1>1, <1>2, PTL

(* No call writes into a payload: it holds what the client wrote, also     *)
(* where realloc moved it, grew it in front or gave up (mdriver.c:606).    *)
THEOREM AlwaysIntact ==
  ASSUME ~Undo
  PROVE  Spec => []Intact
<1>1. Inv => Intact
  BY DEF Inv
<1>2. Spec => []Inv
  BY InvAlways
<1> QED
  BY <1>1, <1>2, PTL

(* mem_sbrk is called only when no free block fits (mm.c, allocate_block): *)
(* the search from the class of the size on misses none.                   *)
THEOREM GrowthNeeded ==
  ASSUME ~Undo
  PROVE  Spec => GrowsOnlyWhenFull
<1> DEFINE A == heap'.end # heap.end =>
                  \A p \in FreeBlocks : SizeAt(p) < ALLOC_SIZE(live'[unwritten'].len)
<1>1. ASSUME Inv, [Next]_vars
      PROVE  A
  <2> SUFFICES ASSUME heap'.end # heap.end
               PROVE  \A p \in FreeBlocks : SizeAt(p) < ALLOC_SIZE(live'[unwritten'].len)
    OBVIOUS
  <2>1. PICK i \in Ids, n \in Requests : Places(i, n)
    BY <1>1, Steps DEF Idles, Drops, Fills
  <2>2. unwritten' = i /\ live'[i].len = n
    BY <1>1, <2>1 DEF Places, Inv, Lives
  <2>3. PICK sz : Owned(heap, live, sz) /\ \A r \in DOMAIN sz \ Addresses(live) : sz[r] < ALLOC_SIZE(n)
    BY <2>1 DEF Places
  <2> QED
    BY <2>2, <2>3, Seen
<1>2. Spec => []Inv
  BY InvAlways
<1>3. Inv /\ [Next]_vars => [A]_vars
  BY <1>1
<1> QED
  BY <1>2, <1>3, PTL DEF Spec, GrowsOnlyWhenFull

-----------------------------------------------------------------------------
(* Allocator                                                               *)

(* The words of Allocator in the payload of the block j.                   *)
HoldsOf(h, l, j) == [k \in 0..l[j].len - 1 |-> IF h.mem[l[j].ptr + k] = j THEN j ELSE Junk]
Holding == [j \in Ids |-> HoldsOf(heap, live, j)]

LEMMA EmptyHolds ==
  ASSUME NEW h, NEW l, NEW j, l[j].len = 0
  PROVE  HoldsOf(h, l, j) = <<>>
BY DEF HoldsOf

LEMMA HoldsSame ==
  ASSUME NEW h, NEW k, NEW l, NEW m, NEW j \in Ids, Lives(l), m[j] = l[j], PayloadKept(h, k, l[j])
  PROVE  HoldsOf(k, m, j) = HoldsOf(h, l, j)
<1> DEFINE p == l[j].ptr
           n == l[j].len
<1>1. p \in Nat /\ n \in Nat
  <2>1. p \in 0..MAX_HEAP /\ n \in Requests \cup {0}
    BY DEF Lives
  <2> QED
    BY <2>1, PrologFits, AllocSize
<1> HIDE DEF p, n
<1>2. \A x \in 0..n - 1 : p + x \in p..(p + n) - 1
  BY <1>1
<1>3. \A a \in p..(p + n) - 1 : k.mem[a] = h.mem[a]
  BY DEF PayloadKept, p, n
<1>4. \A x \in 0..n - 1 : k.mem[p + x] = h.mem[p + x]
  BY <1>2, <1>3
<1>5. m[j].ptr = p /\ m[j].len = n /\ l[j].ptr = p /\ l[j].len = n
  BY DEF p, n
<1> QED
  BY <1>4, <1>5 DEF HoldsOf

LEMMA HoldingOf ==
  /\ DOMAIN Holding = Ids /\ DOMAIN Holding' = Ids
  /\ \A j \in Ids : Holding[j] = HoldsOf(heap, live, j)
  /\ \A j \in Ids : Holding'[j] = HoldsOf(heap', live', j)
  /\ Holding = [j \in Ids |-> Holding[j]]
  /\ Holding' = [j \in Ids |-> Holding'[j]]
BY DEF Holding

LEMMA IdlesImplements ==
  ASSUME Inv, Idles
  PROVE  UNCHANGED <<live, Holding, heap.end, unwritten>>
<1>1. \A j \in Ids : Holding'[j] = Holding[j]
  BY HoldsSame, HoldingOf DEF Inv, Idles
<1>2. Holding' = Holding
  BY <1>1, HoldingOf
<1> QED
  BY <1>2 DEF Idles

LEMMA OthersHold ==
  ASSUME Lives(live), NEW i \in Ids, OthersKept(i), \A j \in Ids \ {i} : live'[j] = live[j]
  PROVE  Holding' = [Holding EXCEPT ![i] = Holding'[i]]
<1>1. \A j \in Ids \ {i} : Holding'[j] = Holding[j]
  BY HoldsSame, HoldingOf DEF OthersKept
<1> DEFINE G == [Holding EXCEPT ![i] = Holding'[i]]
<1>2. DOMAIN G = Ids /\ \A j \in Ids : G[j] = Holding'[j]
  BY <1>1, HoldingOf
<1>3. G = [j \in Ids |-> G[j]]
  BY HoldingOf
<1> HIDE DEF G
<1>4. Holding' = G
  BY <1>2, <1>3, HoldingOf
<1> QED
  BY <1>4 DEF G

LEMMA DropsImplements ==
  ASSUME Inv, NEW i \in Ids, Drops(i)
  PROVE  /\ unwritten = NoId /\ live[i] # None /\ live' = [live EXCEPT ![i] = None]
         /\ Holding' = [Holding EXCEPT ![i] = <<>>]
         /\ UNCHANGED <<heap.end, unwritten>>
<1>1. /\ unwritten = NoId /\ unwritten' = NoId /\ live[i] # None
      /\ live' = [live EXCEPT ![i] = None]
      /\ heap'.end = heap.end /\ OthersKept(i)
  BY DEF Drops
<1>2. Lives(live) /\ live \in [Ids -> [ptr : 0..MAX_HEAP, len : Requests \cup {0}]]
  BY DEF Inv, Lives
<1>3. live'[i].len = 0 /\ \A j \in Ids \ {i} : live'[j] = live[j]
  BY <1>1, <1>2 DEF None
<1>4. Holding'[i] = <<>>
  BY <1>3, EmptyHolds, HoldingOf
<1>5. Holding' = [Holding EXCEPT ![i] = Holding'[i]]
  BY <1>1, <1>2, <1>3, OthersHold
<1> QED
  BY <1>1, <1>4, <1>5

LEMMA FillsImplements ==
  ASSUME Inv, NEW i \in Ids, Fills(i)
  PROVE  /\ unwritten = i /\ Holding' = [Holding EXCEPT ![i] = [k \in 0..live[i].len - 1 |-> i]]
         /\ unwritten' = NoId /\ UNCHANGED <<live, heap.end>>
<1>1. /\ unwritten = i /\ unwritten' = NoId /\ live' = live /\ heap'.end = heap.end /\ OthersKept(i)
      /\ \A a \in live[i].ptr..(live[i].ptr + live[i].len) - 1 : heap'.mem[a] = i
  BY DEF Fills
<1>2. Lives(live)
  BY DEF Inv
<1>3. live[i].ptr \in Nat /\ live[i].len \in Nat
  <2>1. live[i].ptr \in 0..MAX_HEAP /\ live[i].len \in Requests \cup {0}
    BY <1>2 DEF Lives
  <2> QED
    BY <2>1, PrologFits, AllocSize
<1>4. \A k \in 0..live[i].len - 1 : heap'.mem[live[i].ptr + k] = i
  <2>1. \A k \in 0..live[i].len - 1 : live[i].ptr + k \in live[i].ptr..(live[i].ptr + live[i].len) - 1
    BY <1>3
  <2> QED
    BY <1>1, <2>1
<1>5. Holding'[i] = [k \in 0..live[i].len - 1 |-> i]
  <2>1. Holding'[i] = HoldsOf(heap', live, i)
    BY <1>1, HoldingOf
  <2> QED
    BY <1>4, <2>1 DEF HoldsOf
<1>6. Holding' = [Holding EXCEPT ![i] = Holding'[i]]
  BY <1>1, <1>2, OthersHold
<1> QED
  BY <1>1, <1>5, <1>6

(* Two payloads have no word in common.                                    *)
LEMMA Disjoint ==
  ASSUME NEW h, NEW l, NEW sz, Lives(l), Owned(h, l, sz), NEW i \in Ids, NEW j \in Ids, i # j
  PROVE  (l[i].ptr..(l[i].ptr + l[i].len) - 1) \cap (l[j].ptr..(l[j].ptr + l[j].len) - 1) = {}
<1>1. CASE l[i].ptr = NULL \/ l[j].ptr = NULL
  BY <1>1, NoPayload
<1>2. CASE l[i].ptr # NULL /\ l[j].ptr # NULL
  <2> DEFINE p == l[i].ptr
             q == l[j].ptr
  <2>1. /\ p \in DOMAIN sz /\ p \in Nat /\ l[i].len \in Nat /\ sz[p] \in Nat /\ l[i].len + 2 <= sz[p]
        /\ q \in DOMAIN sz /\ q \in Nat /\ l[j].len \in Nat /\ sz[q] \in Nat /\ l[j].len + 2 <= sz[q]
    BY <1>2, Payload
  <2>2. p # q
    BY <1>2 DEF Lives
  <2>3. Tiling(sz, h.end)
    BY DEF Owned, Good, Laid
  <2>4. p + sz[p] <= q \/ q + sz[q] <= p
    <3>1. p < q \/ q < p
      BY <2>1, <2>2
    <3> HIDE DEF p, q
    <3> QED
      BY <2>1, <2>3, <3>1 DEF Tiling
  <2> QED
    BY <2>1, <2>4
<1> QED
  BY <1>1, <1>2

LEMMA PlacesImplements ==
  ASSUME Inv, NEW i \in Ids, NEW n \in Requests, Places(i, n)
  PROVE  /\ unwritten = NoId /\ heap'.end >= heap.end
         /\ \E p \in 0..heap'.end - 1 : live' = [live EXCEPT ![i] = [ptr |-> p, len |-> n]]
         /\ live'[i].ptr % 2 = 0
         /\ live'[i].ptr..live'[i].ptr + live'[i].len - 1 \subseteq 0..heap'.end - 1
         /\ \A j \in Ids \ {i} : (live'[i].ptr..live'[i].ptr + live'[i].len - 1)
                                   \cap (live[j].ptr..live[j].ptr + live[j].len - 1) = {}
         /\ DOMAIN Holding'[i] = 0..n - 1
         /\ \A k \in DOMAIN Holding[i] : k < n => Holding'[i][k] = Holding[i][k]
         /\ Holding' = [Holding EXCEPT ![i] = Holding'[i]]
         /\ unwritten' = i
<1>1. PICK q : /\ q # NULL /\ live' = [live EXCEPT ![i] = [ptr |-> q, len |-> n]]
               /\ \A k \in 0..live[i].len - 1 : k < n => heap'.mem[q + k] = heap.mem[live[i].ptr + k]
  BY DEF Places
<1>2. PICK z : Owned(heap', live', z)
  BY DEF Places
<1>3. /\ unwritten = NoId /\ heap'.end >= heap.end /\ unwritten' = i /\ n # 0 /\ Lives(live')
      /\ OthersKept(i)
  BY DEF Places
<1>4. Lives(live) /\ live \in [Ids -> [ptr : 0..MAX_HEAP, len : Requests \cup {0}]]
  BY DEF Inv, Lives
<1>5. live'[i].ptr = q /\ live'[i].len = n /\ \A j \in Ids \ {i} : live'[j] = live[j]
  BY <1>1, <1>4
<1>6. /\ q \in DOMAIN z /\ q \in Nat /\ n \in Nat /\ z[q] \in Nat /\ n + 2 <= z[q]
      /\ q + z[q] <= heap'.end /\ heap'.end \in Nat /\ MAX_HEAP \in Nat
  <2>1. live'[i].ptr # NULL
    BY <1>1, <1>5
  <2>2. /\ live'[i].ptr \in DOMAIN z /\ live'[i].ptr \in Nat /\ live'[i].len \in Nat
        /\ z[live'[i].ptr] \in Nat /\ live'[i].len + 2 <= z[live'[i].ptr]
        /\ live'[i].ptr + z[live'[i].ptr] <= heap'.end /\ heap'.end \in Nat /\ MAX_HEAP \in Nat
    BY <1>2, <1>3, <2>1, Payload
  <2> QED
    BY <1>5, <2>2
<1>7. q % 2 = 0
  <2>1. Tiling(z, heap'.end)
    BY <1>2 DEF Owned, Good, Laid
  <2> QED
    BY <1>6, <2>1 DEF Tiling
<1>8. q \in 0..heap'.end - 1 /\ q..(q + n) - 1 \subseteq 0..heap'.end - 1
  BY <1>6
<1>9. \A j \in Ids : live'[j].ptr..live'[j].ptr + live'[j].len - 1 = live'[j].ptr..(live'[j].ptr + live'[j].len) - 1
  BY <1>3, LastWord
<1>10. live'[i].ptr..live'[i].ptr + live'[i].len - 1 \subseteq 0..heap'.end - 1
  BY <1>5, <1>8, <1>9
<1>11. \A j \in Ids \ {i} : (live'[i].ptr..live'[i].ptr + live'[i].len - 1)
                              \cap (live[j].ptr..live[j].ptr + live[j].len - 1) = {}
  <2>1. \A j \in Ids \ {i} : (live'[i].ptr..(live'[i].ptr + live'[i].len) - 1)
                               \cap (live'[j].ptr..(live'[j].ptr + live'[j].len) - 1) = {}
    BY <1>2, <1>3, Disjoint
  <2>2. \A j \in Ids \ {i} : (live'[i].ptr..live'[i].ptr + live'[i].len - 1)
                               \cap (live'[j].ptr..live'[j].ptr + live'[j].len - 1) = {}
    BY <1>9, <2>1
  <2> QED
    BY <1>5, <2>2
<1>12. /\ Holding'[i] = [k \in 0..n - 1 |-> IF heap'.mem[q + k] = i THEN i ELSE Junk]
       /\ Holding[i] = [k \in 0..live[i].len - 1 |->
                          IF heap.mem[live[i].ptr + k] = i THEN i ELSE Junk]
  BY <1>5, HoldingOf DEF HoldsOf
<1>13. \A k \in DOMAIN Holding[i] : k < n => Holding'[i][k] = Holding[i][k]
  <2>1. live[i].len \in Nat
    <3>1. live[i].len \in Requests \cup {0}
      BY <1>4
    <3> QED
      BY <3>1, AllocSize
  <2>2. \A k \in 0..live[i].len - 1 : k < n => k \in 0..n - 1
    BY <1>6, <2>1
  <2> QED
    BY <1>1, <1>12, <2>2
<1>14. Holding' = [Holding EXCEPT ![i] = Holding'[i]]
  BY <1>3, <1>4, <1>5, OthersHold
<1> QED
  BY <1>1, <1>3, <1>5, <1>7, <1>8, <1>10, <1>11, <1>12, <1>13, <1>14

(* Every call of the allocator is one that Allocator allows: payloads are  *)
(* aligned, in the heap and disjoint, realloc keeps the contents up to the *)
(* smaller size, and a call that fails leaves everything as it was.        *)
THEOREM MallocImplements ==
  ASSUME ~Undo
  PROVE  Spec => ImplementsAllocator
<1>1. Init => Driver!Init
  <2> SUFFICES ASSUME Init
               PROVE  Driver!Init
    OBVIOUS
  <2>1. live = [i \in Ids |-> [ptr |-> 0, len |-> 0]] /\ unwritten = NoId
        /\ heap.end = CHUNKSIZE
    BY NewMemory, Starts DEF Init, None, NULL
  <2>2. heap.end \in Nat
    BY <2>1, PrologFits
  <2>3. Holding = [i \in Ids |-> <<>>]
    <3>1. \A i \in Ids : HoldsOf(heap, live, i) = <<>>
      BY <2>1, EmptyHolds
    <3> QED
      BY <3>1 DEF Holding
  <2> QED
    BY <2>1, <2>2, <2>3 DEF Driver!Init, Driver!None, Holding, HoldsOf
<1>2. Inv /\ [Next]_vars => [Driver!Next]_<<live, Holding, heap.end, unwritten>>
  <2> SUFFICES ASSUME Inv, [Next]_vars
               PROVE  Driver!Next \/ UNCHANGED <<live, Holding, heap.end, unwritten>>
    OBVIOUS
  <2>1. CASE Idles
    BY <2>1, IdlesImplements
  <2>2. ASSUME NEW i \in Ids, Drops(i)
        PROVE  Driver!Next
    <3>1. None = [ptr |-> 0, len |-> 0]
      BY DEF None, NULL
    <3>2. Driver!Drop(i)
      BY <2>2, <3>1, DropsImplements DEF Driver!Drop, Driver!None, Holding, HoldsOf
    <3> QED
      BY <3>2 DEF Driver!Next
  <2>3. ASSUME NEW i \in Ids, Fills(i)
        PROVE  Driver!Next
    <3>1. Driver!Write(i)
      BY <2>3, FillsImplements DEF Driver!Write, Holding, HoldsOf
    <3> QED
      BY <3>1 DEF Driver!Next
  <2>4. ASSUME NEW i \in Ids, NEW n \in Requests, Places(i, n)
        PROVE  Driver!Next
    <3>1. Driver!Place(i, n)
      <4>1. /\ unwritten = NoId /\ heap'.end >= heap.end
            /\ \E p \in 0..heap'.end - 1 : live' = [live EXCEPT ![i] = [ptr |-> p, len |-> n]]
            /\ live'[i].ptr % 2 = 0
            /\ live'[i].ptr..live'[i].ptr + live'[i].len - 1 \subseteq 0..heap'.end - 1
            /\ \A j \in Ids \ {i} : (live'[i].ptr..live'[i].ptr + live'[i].len - 1)
                                      \cap (live[j].ptr..live[j].ptr + live[j].len - 1) = {}
            /\ unwritten' = i
        BY <2>4, PlacesImplements
      <4>2. /\ DOMAIN Holding'[i] = 0..n - 1
            /\ \A k \in DOMAIN Holding[i] : k < n => Holding'[i][k] = Holding[i][k]
            /\ Holding' = [Holding EXCEPT ![i] = Holding'[i]]
        BY <2>4, PlacesImplements
      <4>3. Driver!Valid(i, live'[i])
        BY <4>1 DEF Driver!Valid, Driver!Words
      <4> QED
        BY <4>1, <4>2, <4>3 DEF Driver!Place, Holding, HoldsOf
    <3> QED
      BY <3>1 DEF Driver!Next
  <2> QED
    BY <2>1, <2>2, <2>3, <2>4, Steps
<1>3. Inv /\ [Next]_vars =>
        [Driver!Next]_<<live,
                        [i \in Ids |-> [k \in 0..live[i].len - 1 |->
                           IF heap.mem[live[i].ptr + k] = i THEN i ELSE Junk]],
                        heap.end, unwritten>>
  BY <1>2 DEF Holding, HoldsOf
<1>4. Spec => []Inv
  BY InvAlways
<1> QED
  BY <1>1, <1>3, <1>4, PTL DEF Spec, ImplementsAllocator, Driver!Spec

-----------------------------------------------------------------------------
(* The driver                                                              *)

Sizes == Requests \cup {0}
Request == RequestOf(Sizes)

LEMMA GoneFirst == \A t : Gone(t, 1) = {}
<1>1. 1..1 - 1 = {}
  OBVIOUS
<1> QED
  BY <1>1 DEF Gone

LEMMA GoneNext ==
  ASSUME NEW t \in Seq(Request), NEW k \in 1..Len(t)
  PROVE  /\ \A j \in Index \ Gone(t, k + 1) : j # t[k].index => j \in Index \ Gone(t, k)
         /\ t[k].type = "f" => t[k].index \notin Index \ Gone(t, k + 1)
<1>1. Len(t) \in Nat /\ k \in Nat /\ k \in 1..(k + 1) - 1
  OBVIOUS
<1>2. ASSUME NEW j \in Gone(t, k), j # t[k].index
      PROVE  j \in Gone(t, k + 1)
  <2>1. PICK f \in 1..k - 1 : /\ t[f].type = "f" /\ t[f].index = j
                              /\ \A a \in f + 1..k - 1 : ~(t[a].type = "a" /\ t[a].index = j)
    BY DEF Gone
  <2>2. f \in 1..(k + 1) - 1
    BY <1>1, <2>1
  <2>3. \A a \in f + 1..(k + 1) - 1 : a = k \/ a \in f + 1..k - 1
    BY <1>1, <2>1
  <2>4. \A a \in f + 1..(k + 1) - 1 : ~(t[a].type = "a" /\ t[a].index = j)
    BY <1>2, <2>1, <2>3
  <2> QED
    BY <2>1, <2>2, <2>4 DEF Gone
<1>3. ASSUME t[k].type = "f", t[k].index \in Index
      PROVE  t[k].index \in Gone(t, k + 1)
  <2>1. k + 1..(k + 1) - 1 = {}
    BY <1>1
  <2> QED
    BY <1>1, <1>3, <2>1 DEF Gone
<1> QED
  BY <1>2, <1>3

(* The blocks of V in the driver's table: each is NULL or allocated, large *)
(* enough for what was asked, and at an address of its own.                *)
Serves(bl, si, V, sz, U) ==
  \A i \in V :
    /\ bl[i] = NULL => si[i] = 0
    /\ bl[i] # NULL => /\ bl[i] \in U /\ si[i] + 2 <= sz[bl[i]]
                       /\ \A j \in V \ {i} : bl[j] # bl[i]

Contains(m, bl, si, V) == \A i \in V : \A a \in bl[i]..(bl[i] + si[i]) - 1 : m[a] = i

(* A call with the block p has given n words at r.ptr, or none for 0; the   *)
(* block p is free, and what it held is at r.ptr.                          *)
Answered(h, sz, U, p, n, r, z) ==
  /\ r.ptr = NULL <=> n = 0
  /\ r.ptr \in Nat /\ r.ptr \notin U \ {p}
  /\ Good(r.heap, z, ((U \ {p}) \cup {r.ptr}) \ {NULL})
  /\ \A q \in U \ {p} : z[q] = sz[q]
  /\ Preserves(h, r.heap, sz, U \ {p})
  /\ n # 0 => n + 2 <= z[r.ptr]
  /\ p # NULL => \A j \in 0..sz[p] - 3 : j < n => r.heap.mem[r.ptr + j] = h.mem[p + j]

LEMMA GoodBlocks ==
  ASSUME NEW h, NEW sz, NEW U, Good(h, sz, U)
  PROVE  /\ U \subseteq DOMAIN sz /\ Tiling(sz, h.end) /\ NULL \notin U /\ h.mem \in Memory
         /\ \A p \in DOMAIN sz : /\ p \in Nat /\ p # NULL /\ p % 2 = 0 /\ sz[p] \in Nat /\ sz[p] >= 4
                                 /\ p + sz[p] <= h.end /\ h.end \in Nat
         /\ \A p, q \in DOMAIN sz : p # q => p + sz[p] <= q \/ q + sz[q] <= p
<1>1. U \subseteq DOMAIN sz /\ Tiling(sz, h.end) /\ h.mem \in Memory
  BY DEF Good, Laid, Heaps
<1>2. \A p \in DOMAIN sz : /\ p \in Nat /\ p # NULL /\ p % 2 = 0 /\ sz[p] \in Nat /\ sz[p] >= 4
                           /\ p + sz[p] <= h.end /\ h.end \in Nat
  <2> TAKE p \in DOMAIN sz
  <2>1. p \in Nat /\ sz[p] \in Nat /\ sz[p] >= 4 /\ p >= 4 /\ p + sz[p] <= h.end /\ h.end \in Nat
    BY <1>1, InHeap
  <2>2. p % 2 = 0
    BY <1>1 DEF Tiling
  <2> QED
    BY <2>1, <2>2 DEF NULL
<1>3. \A p, q \in DOMAIN sz : p # q => p + sz[p] <= q \/ q + sz[q] <= p
  <2> TAKE p, q \in DOMAIN sz
  <2>1. p = q \/ p < q \/ q < p
    BY <1>2
  <2> QED
    BY <1>1, <2>1 DEF Tiling
<1> QED
  BY <1>1, <1>2, <1>3

LEMMA Answers ==
  ASSUME NEW h, NEW sz, NEW U, Good(h, sz, U), NEW p, p = NULL \/ p \in U,
         NEW n \in Requests \cup {0}
  PROVE  LET r == mm_realloc(h, p, n)
         IN  \/ r.ptr = NULL /\ n # 0 /\ r.heap.mem \in Memory
             \/ \E z : Answered(h, sz, U, p, n, r, z)
<1> DEFINE r == mm_realloc(h, p, n)
<1>1. /\ U \subseteq DOMAIN sz /\ NULL \notin U /\ h.mem \in Memory
      /\ \A q \in U : sz[q] \in Nat /\ sz[q] >= 4
  BY GoodBlocks
<1>2. CASE n = 0 /\ p = NULL
  <2>1. r = [ptr |-> NULL, heap |-> h]
    BY <1>2 DEF mm_realloc, mm_malloc, Failed
  <2>2. U \ {p} = U /\ (U \cup {NULL}) \ {NULL} = U
    BY <1>1, <1>2
  <2> HIDE DEF r
  <2>3. Answered(h, sz, U, p, n, r, sz)
    BY <1>1, <1>2, <2>1, <2>2 DEF Answered, Preserves, NULL
  <2> QED
    BY <2>3 DEF r
<1>3. CASE n = 0 /\ p # NULL
  <2>1. r = [ptr |-> NULL, heap |-> mm_free(h, p)]
    BY <1>3 DEF mm_realloc
  <2>2. PICK z : /\ Good(mm_free(h, p), z, U \ {p}) /\ mm_free(h, p).end = h.end
                 /\ \A q \in U \ {p} : z[q] = sz[q]
                 /\ Preserves(h, mm_free(h, p), sz, U \ {p})
    BY <1>3, Releases
  <2>3. ((U \ {p}) \cup {NULL}) \ {NULL} = U \ {p}
    BY <1>1
  <2> HIDE DEF r
  <2>4. \A j \in 0..sz[p] - 3 : ~(j < 0)
    BY <1>1, <1>3
  <2>5. Answered(h, sz, U, p, n, r, z)
    BY <1>1, <1>3, <2>1, <2>2, <2>3, <2>4 DEF Answered, NULL
  <2> QED
    BY <2>5 DEF r
<1>4. CASE n # 0 /\ p = NULL
  <2>1. r = mm_malloc(h, n) /\ n \in Requests
    BY <1>4 DEF mm_realloc
  <2>2. r = Failed(h) \/ \E z : Allocated(h, sz, U, ALLOC_SIZE(n), r, z)
    BY <1>4, <2>1, Mallocs
  <2> HIDE DEF r
  <2>3. CASE r = Failed(h)
    BY <1>1, <1>4, <2>3 DEF Failed, r
  <2>4. ASSUME NEW z, Allocated(h, sz, U, ALLOC_SIZE(n), r, z)
        PROVE  Answered(h, sz, U, p, n, r, z)
    <3>1. /\ r.ptr \in DOMAIN z /\ r.ptr \notin U /\ r.ptr # NULL /\ Good(r.heap, z, U \cup {r.ptr})
          /\ \A q \in U : z[q] = sz[q]
          /\ z[r.ptr] >= ALLOC_SIZE(n) /\ Preserves(h, r.heap, sz, U)
      BY <2>4 DEF Allocated
    <3>2. ALLOC_SIZE(n) \in Nat /\ ALLOC_SIZE(n) >= n + 2 /\ n \in Nat
      BY <2>1, AllocSize
    <3>3. r.ptr \in Nat /\ z[r.ptr] \in Nat
      BY <3>1, GoodBlocks
    <3>4. U \ {p} = U /\ (U \cup {r.ptr}) \ {NULL} = U \cup {r.ptr}
      BY <1>1, <1>4, <3>1
    <3>5. n + 2 <= z[r.ptr]
      BY <3>1, <3>2, <3>3
    <3> QED
      BY <1>4, <3>1, <3>3, <3>4, <3>5 DEF Answered
  <2> QED
    BY <2>2, <2>3, <2>4 DEF r
<1>5. CASE n # 0 /\ p # NULL
  <2>1. n \in Requests /\ p \in U
    BY <1>5
  <2>2. Reallocated(h, sz, U, p, n, r)
    BY <1>5, <2>1, Reallocates
  <2> DEFINE size == ALLOC_SIZE(n)
             copy == (IF sz[p] < size THEN sz[p] ELSE size) - 2
  <2>3. size \in Nat /\ size >= n + 2 /\ n \in Nat
    BY <2>1, AllocSize
  <2> HIDE DEF r, size, copy
  <2>4. CASE r.ptr = NULL
    <3>1. r.heap.mem \in Memory
      BY <2>2, <2>4 DEF Reallocated, Resized
    <3> QED
      BY <1>5, <2>4, <3>1 DEF r
  <2>5. CASE r.ptr # NULL
    <3>1. PICK z : Resized(h, sz, U, p, size, copy, r, z)
      BY <2>2, <2>5 DEF Reallocated, size, copy
    <3>2. /\ r.ptr \in DOMAIN z /\ r.ptr \notin U \ {p} /\ Good(r.heap, z, (U \ {p}) \cup {r.ptr})
          /\ \A q \in U \ {p} : z[q] = sz[q]
          /\ z[r.ptr] >= size /\ Preserves(h, r.heap, sz, U \ {p})
          /\ \A j \in 0..copy - 1 : r.heap.mem[r.ptr + j] = h.mem[p + j]
      BY <3>1 DEF Resized, Stay
    <3>3. r.ptr \in Nat /\ z[r.ptr] \in Nat
      BY <3>2, GoodBlocks
    <3>4. ((U \ {p}) \cup {r.ptr}) \ {NULL} = (U \ {p}) \cup {r.ptr}
      BY <1>1, <2>5
    <3>5. n + 2 <= z[r.ptr]
      BY <2>3, <3>2, <3>3
    <3>6. \A j \in 0..sz[p] - 3 : j < n => j \in 0..copy - 1
      <4>1. sz[p] \in Nat
        BY <1>1, <2>1
      <4> QED
        BY <2>3, <4>1 DEF copy
    <3>7. Answered(h, sz, U, p, n, r, z)
      BY <1>5, <2>5, <3>2, <3>3, <3>4, <3>5, <3>6 DEF Answered
    <3> QED
      BY <3>7 DEF r
  <2> QED
    BY <2>4, <2>5
<1> QED
  BY <1>2, <1>3, <1>4, <1>5

(* What is in use after such a call.                                       *)
After(U, p, r) == ((U \ {p}) \cup {r.ptr}) \ {NULL}

LEMMA ServesNext ==
  ASSUME NEW h, NEW sz, NEW U, NEW p, NEW n \in Nat, NEW r, NEW z,
         Good(h, sz, U), Answered(h, sz, U, p, n, r, z),
         NEW bl, NEW si, NEW V, Serves(bl, si, V, sz, U),
         NEW i, NEW cl, NEW ti, NEW W,
         \A j \in W \ {i} : /\ j \in V /\ cl[j] = bl[j] /\ ti[j] = si[j]
                            /\ bl[j] # NULL => bl[j] # p,
         i \in W => cl[i] = r.ptr /\ ti[i] = n
  PROVE  Serves(cl, ti, W, z, After(U, p, r))
<1>1. /\ r.ptr = NULL <=> n = 0
      /\ r.ptr \notin U \ {p} /\ \A q \in U \ {p} : z[q] = sz[q]
      /\ n # 0 => n + 2 <= z[r.ptr]
  BY DEF Answered
<1>2. ASSUME NEW j \in W \ {i}, cl[j] # NULL
      PROVE  /\ cl[j] \in U \ {p} /\ cl[j] \in After(U, p, r) /\ ti[j] + 2 <= z[cl[j]]
             /\ cl[j] # r.ptr /\ \A k \in W \ {i, j} : cl[k] # cl[j]
  BY <1>1, <1>2 DEF Serves, After
<1>3. ASSUME NEW j \in W \ {i}, cl[j] = NULL
      PROVE  ti[j] = 0
  BY <1>3 DEF Serves
<1>4. ASSUME i \in W, cl[i] # NULL
      PROVE  /\ cl[i] \in After(U, p, r) /\ ti[i] + 2 <= z[cl[i]]
             /\ \A k \in W \ {i} : cl[k] # cl[i]
  BY <1>1, <1>2, <1>4 DEF After
<1>5. i \in W /\ cl[i] = NULL => ti[i] = 0
  BY <1>1
<1> QED
  BY <1>2, <1>3, <1>4, <1>5 DEF Serves

(* What the other blocks hold.                                             *)
LEMMA ContainsNext ==
  ASSUME NEW h, NEW sz, NEW U, NEW p, NEW n \in Nat, NEW r, NEW z,
         Good(h, sz, U), Answered(h, sz, U, p, n, r, z),
         NEW bl, NEW si, NEW V, Serves(bl, si, V, sz, U), Contains(h.mem, bl, si, V),
         NEW j \in V, bl[j] # p \/ bl[j] = NULL, si[j] \in Nat, bl[j] \in Nat
  PROVE  /\ \A a \in bl[j]..(bl[j] + si[j]) - 1 : r.heap.mem[a] = j
         /\ bl[j] # NULL => bl[j] \in DOMAIN z /\ bl[j] \in U \ {p} /\ si[j] + 2 <= z[bl[j]]
<1>1. CASE bl[j] = NULL
  <2>1. si[j] = 0
    BY <1>1 DEF Serves
  <2> QED
    BY <1>1, <2>1
<1>2. CASE bl[j] # NULL
  <2>1. bl[j] \in U \ {p} /\ si[j] + 2 <= sz[bl[j]]
    BY <1>2 DEF Serves
  <2>2. /\ bl[j] \in After(U, p, r) /\ z[bl[j]] = sz[bl[j]]
        /\ Preserves(h, r.heap, sz, U \ {p}) /\ Good(r.heap, z, After(U, p, r))
    BY <1>2, <2>1 DEF Answered, After
  <2>3. bl[j] \in DOMAIN z /\ sz[bl[j]] \in Nat
    BY <2>1, <2>2, GoodBlocks
  <2>4. \A a \in bl[j]..(bl[j] + si[j]) - 1 : a \in bl[j]..(bl[j] + sz[bl[j]]) - 3
    BY <2>1, <2>3
  <2>5. \A a \in bl[j]..(bl[j] + si[j]) - 1 : r.heap.mem[a] = h.mem[a]
    BY <2>1, <2>2, <2>4 DEF Preserves
  <2> QED
    BY <2>1, <2>2, <2>3, <2>5 DEF Contains
<1> QED
  BY <1>1, <1>2

(* The driver fills a block.                                               *)
LEMMA Fillings ==
  ASSUME NEW k, NEW z, NEW W, Good(k, z, W), NEW q \in W, NEW n \in Nat, n + 2 <= z[q],
         NEW i \in Ids, NEW w \in Memory,
         \A a \in -1..MAX_HEAP - 1 : /\ a \in q..q + n - 1 => w[a] = i
                                     /\ a \notin q..q + n - 1 => w[a] = k.mem[a]
  PROVE  /\ Good([k EXCEPT !.mem = w], z, W)
         /\ \A a \in q..(q + n) - 1 : w[a] = i
         /\ \A r \in DOMAIN z \ {q} : \A a \in r..(r + z[r]) - 3 : w[a] = k.mem[a]
<1>1. Laid(k, z, W, DOMAIN z \ W) /\ Apart(z, DOMAIN z \ W) /\ q \in DOMAIN z /\ k.mem \in Memory
      /\ q \in Nat /\ z[q] \in Nat /\ Tiling(z, k.end)
  BY GoodBlocks DEF Good
<1>2. q + z[q] <= MAX_HEAP /\ MAX_HEAP \in Nat /\ q >= 4
  BY <1>1, InHeap
<1>3. q..q + n - 1 = q..(q + n) - 1
  BY <1>1
<1>4. SameOutside(k.mem, w, q, (q + z[q]) - 3)
  <2>1. \A a \in -1..MAX_HEAP - 1 : a \notin q..(q + z[q]) - 3 => a \notin q..(q + n) - 1
    BY <1>1
  <2> QED
    BY <1>3, <2>1 DEF SameOutside
<1>5. \A a \in q..(q + n) - 1 : w[a] = i
  <2>1. \A a \in q..(q + n) - 1 : a \in -1..MAX_HEAP - 1
    BY <1>1, <1>2
  <2> QED
    BY <1>3, <2>1
<1>6. /\ Laid([k EXCEPT !.mem = w], z, W, DOMAIN z \ W)
      /\ \A r \in DOMAIN z \ {q} : \A a \in r..(r + z[r]) - 3 : w[a] = k.mem[a]
  BY <1>1, <1>4, Inside
<1> QED
  BY <1>1, <1>5, <1>6 DEF Good

-----------------------------------------------------------------------------
(* A request                                                               *)

Usable == Index \ Gone(trace, op)
Target == IF req.type = "a" THEN NULL ELSE BlockOf(req.index)
Asked == IF req.type = "f" THEN 0 ELSE req.size

Tables == blocks \in [Index -> Nat] /\ sizes \in [Index -> Nat]

(* There is a request to be run, and the heap is that of the blocks.       *)
Ready(sz, U) == Good(arena, sz, U) /\ Serves(blocks, sizes, Usable, sz, U)
Running == Orderly(trace, Sizes) /\ op \in Nat \ {0} /\ Tables

LEMMA Requested ==
  ASSUME Running, op <= Len(trace)
  PROVE  /\ op \in 1..Len(trace) /\ req \in Request /\ trace \in Seq(Request)
         /\ req.type \in {"a", "r", "f"} /\ req.size \in Requests \cup {0} /\ Asked \in Requests \cup {0}
         /\ Asked \in Nat /\ req.size \in Nat
         /\ req.type # "f" => req.index \in Index
         /\ req.index \in Index \/ req.index = NoIndex
         /\ req.type # "a" /\ req.index \in Index => req.index \in Usable
<1>1. trace \in Seq(Request) /\ op \in 1..Len(trace) /\ op \in DOMAIN trace
  BY DEF Running, Orderly, Request
<1>2. req \in Request
  BY <1>1 DEF req
<1>3. /\ req.type # "f" => req.index \in Index
      /\ req.type # "a" => req.index \notin Gone(trace, op)
  BY <1>1 DEF Running, Orderly, req, Request
<1>4. /\ req.type \in {"a", "r", "f"} /\ req.size \in Requests \cup {0}
      /\ req.index \in Index \cup {NoIndex}
  BY <1>2 DEF Request, RequestOf, Sizes
<1>5. req.size \in Nat
  BY <1>4, AllocSize
<1>6. Asked \in Requests \cup {0} /\ Asked \in Nat
  BY <1>4, <1>5 DEF Asked
<1>7. req.type # "a" /\ req.index \in Index => req.index \in Usable
  BY <1>3 DEF Usable
<1> QED
  BY <1>1, <1>2, <1>3, <1>4, <1>5, <1>6, <1>7

LEMMA CallReallocs ==
  ASSUME Running, op <= Len(trace)
  PROVE  Call = mm_realloc(arena, Target, Asked)
<1>1. /\ req.type \in {"a", "r", "f"}
      /\ req.type # "f" => req.index \in Index
  BY Requested
<1>2. CASE req.type = "a"
  BY <1>2 DEF Call, Target, Asked, mm_realloc
<1>3. CASE req.type = "r"
  BY <1>1, <1>3, MdriverAssumption DEF Call, Target, Asked, BlockOf
<1>4. CASE req.type = "f"
  <2>1. Call = [ptr |-> NULL, heap |-> mm_free(arena, Target)] /\ Asked = 0
    BY <1>4 DEF Call, Target, Asked
  <2>2. CASE Target = NULL
    BY <2>1, <2>2 DEF mm_realloc, mm_malloc, mm_free, Failed
  <2>3. CASE Target # NULL
    BY <2>1, <2>3 DEF mm_realloc
  <2> QED
    BY <2>2, <2>3
<1> QED
  BY <1>1, <1>2, <1>3, <1>4

LEMMA TargetServed ==
  ASSUME Running, op <= Len(trace), NEW sz, NEW U, Ready(sz, U)
  PROVE  Target = NULL \/ Target \in U
<1>1. CASE req.type = "a" \/ req.index = NoIndex
  BY <1>1 DEF Target, BlockOf
<1>2. CASE req.type # "a" /\ req.index # NoIndex
  <2>1. req.index \in Usable /\ Target = blocks[req.index]
    BY <1>2, Requested DEF Target, BlockOf
  <2> QED
    BY <2>1 DEF Ready, Serves
<1> QED
  BY <1>1, <1>2

(* A call is refused or it is answered.                                    *)
LEMMA Called ==
  ASSUME Running, op <= Len(trace), NEW sz, NEW U, Ready(sz, U)
  PROVE  \/ Refused(Call) /\ Call.heap.mem \in Memory
         \/ ~Refused(Call) /\ \E z : Answered(arena, sz, U, Target, Asked, Call, z)
<1>1. /\ req.type \in {"a", "r", "f"} /\ Asked \in Requests \cup {0}
  BY Requested
<1>2. Good(arena, sz, U) /\ (Target = NULL \/ Target \in U)
  BY TargetServed DEF Ready
<1> DEFINE r == mm_realloc(arena, Target, Asked)
<1>3. \/ r.ptr = NULL /\ Asked # 0 /\ r.heap.mem \in Memory
      \/ \E z : Answered(arena, sz, U, Target, Asked, r, z)
  BY <1>1, <1>2, Answers
<1>4. Call = r
  BY CallReallocs
<1> HIDE DEF r
<1>5. CASE r.ptr = NULL /\ Asked # 0 /\ r.heap.mem \in Memory
  <2>1. req.type # "f" /\ Asked = req.size
    BY <1>5 DEF Asked
  <2> QED
    BY <1>1, <1>4, <1>5, <2>1 DEF Refused
<1>6. ASSUME NEW z, Answered(arena, sz, U, Target, Asked, r, z)
      PROVE  \/ Refused(Call) /\ Call.heap.mem \in Memory
             \/ ~Refused(Call) /\ \E y : Answered(arena, sz, U, Target, Asked, Call, y)
  <2>1. Good(r.heap, z, ((U \ {Target}) \cup {r.ptr}) \ {NULL})
    BY <1>6 DEF Answered
  <2>2. r.heap.mem \in Memory
    BY <2>1, GoodBlocks
  <2> QED
    BY <1>4, <1>6, <2>2
<1> QED
  BY <1>3, <1>5, <1>6

(* The tables after a request.                                             *)
LEMMA Remembered ==
  ASSUME Running, op <= Len(trace), NEW sz, NEW U, Ready(sz, U), NEW z,
         Answered(arena, sz, U, Target, Asked, Call, z),
         Remember(Call), op' = op + 1, UNCHANGED <<suite, tracenum>>
  PROVE  /\ Tables' /\ Running'
         /\ Serves(blocks', sizes', Usable', z, After(U, Target, Call))
         /\ \A j \in Usable' \ {req.index} :
              /\ j \in Usable /\ blocks'[j] = blocks[j] /\ sizes'[j] = sizes[j]
              /\ blocks[j] # NULL => blocks[j] # Target
         /\ req.index \in Usable' =>
              /\ req.type # "f" /\ Asked = req.size
              /\ blocks'[req.index] = Call.ptr /\ sizes'[req.index] = Asked
<1>1. /\ op \in 1..Len(trace) /\ trace \in Seq(Request) /\ req.type \in {"a", "r", "f"}
      /\ Asked \in Nat /\ req.size \in Nat
      /\ req.type # "f" => req.index \in Index
      /\ req.index \in Index \/ req.index = NoIndex
      /\ req.type # "a" /\ req.index \in Index => req.index \in Usable
  BY Requested
<1>2. trace' = trace
  BY DEF trace
<1>3. Call.ptr \in Nat
  BY DEF Answered
<1>4. Tables'
  BY <1>1, <1>3 DEF Remember, Running, Tables
<1>5. Running'
  BY <1>2, <1>4 DEF Running
<1>6. Usable' = Index \ Gone(trace, op + 1)
  BY <1>2 DEF Usable
<1>7. /\ \A j \in Usable' : j # req.index => j \in Usable
      /\ req.type = "f" => req.index \notin Usable'
  BY <1>1, <1>6, GoneNext DEF Usable, req
<1>8. ASSUME NEW j \in Usable' \ {req.index}
      PROVE  /\ j \in Usable /\ blocks'[j] = blocks[j] /\ sizes'[j] = sizes[j]
             /\ blocks[j] # NULL => blocks[j] # Target
  <2>1. j \in Usable /\ j \in Index
    BY <1>6, <1>7
  <2>2. blocks'[j] = blocks[j] /\ sizes'[j] = sizes[j]
    BY <2>1 DEF Remember, Running, Tables
  <2>3. ASSUME blocks[j] # NULL, blocks[j] = Target
        PROVE  FALSE
    <3>1. req.index \in Usable /\ Target = blocks[req.index]
      BY <1>1, <2>3 DEF Target, BlockOf
    <3> QED
      BY <2>1, <2>3, <3>1 DEF Ready, Serves
  <2> QED
    BY <2>1, <2>2, <2>3
<1>9. ASSUME req.index \in Usable'
      PROVE  /\ req.type # "f" /\ Asked = req.size
             /\ blocks'[req.index] = Call.ptr /\ sizes'[req.index] = Asked
  BY <1>1, <1>6, <1>7, <1>9 DEF Remember, Running, Tables, Asked
<1>10. Serves(blocks', sizes', Usable', z, After(U, Target, Call))
  <2> DEFINE V == Usable
             W == Usable'
             cl == blocks'
             ti == sizes'
             i == req.index
             p == Target
  <2>1. \A j \in W \ {i} : /\ j \in V /\ cl[j] = blocks[j] /\ ti[j] = sizes[j]
                           /\ blocks[j] # NULL => blocks[j] # p
    BY <1>8
  <2>2. i \in W => cl[i] = Call.ptr /\ ti[i] = Asked
    BY <1>9
  <2>3. Serves(blocks, sizes, V, sz, U) /\ Good(arena, sz, U)
    BY DEF Ready
  <2> HIDE DEF V, W, cl, ti, i, p
  <2>4. Answered(arena, sz, U, p, Asked, Call, z)
    BY DEF p
  <2>5. Serves(cl, ti, W, z, After(U, p, Call))
    BY <1>1, <2>1, <2>2, <2>3, <2>4, ServesNext
  <2> QED
    BY <2>5 DEF W, cl, ti, p
<1> QED
  BY <1>4, <1>5, <1>8, <1>9, <1>10

-----------------------------------------------------------------------------
(* The payloads that the checks know of                                    *)

Extent == [lo : Nat, hi : Nat]

(* They are in blocks that are in use, one in a block.                     *)
Ranged(rs, sz, U) ==
  /\ rs \in Seq(Extent)
  /\ \A k \in DOMAIN rs : /\ rs[k].lo \in U /\ rs[k].lo <= rs[k].hi
                          /\ rs[k].hi + 3 <= rs[k].lo + sz[rs[k].lo]
  /\ \A j, k \in DOMAIN rs : rs[j].lo = rs[k].lo => j = k

LEMMA RangesRemoved ==
  ASSUME NEW sz, NEW U, Ranged(ranges, sz, U), NEW p
  PROVE  Ranged(Without(p), sz, U \ {p})
<1> DEFINE at == {k \in DOMAIN ranges : ranges[k].lo = p}
           i == CHOOSE k \in at : \A j \in at : k <= j
           t == [j \in 1..Len(ranges) - 1 |-> IF j < i THEN ranges[j] ELSE ranges[j + 1]]
<1>1. /\ Len(ranges) \in Nat /\ DOMAIN ranges = 1..Len(ranges)
      /\ \A j \in 1..Len(ranges) : ranges[j] \in Extent
  BY DEF Ranged
<1>2. CASE at = {}
  <2>1. Without(p) = ranges
    BY <1>2 DEF Without
  <2>2. \A k \in DOMAIN ranges : ranges[k].lo # p
    BY <1>2
  <2> QED
    BY <2>1, <2>2 DEF Ranged
<1>3. CASE at # {}
  <2>1. PICK k \in at : TRUE
    BY <1>3
  <2>2. \A j \in at : j = k /\ k <= j
    BY <1>1, <2>1 DEF Ranged
  <2>3. i \in at
    <3>1. \E m \in at : \A j \in at : m <= j
      BY <2>2
    <3> QED
      BY <3>1
  <2>4. i \in DOMAIN ranges /\ ranges[i].lo = p
    BY <2>3
  <2>5. Without(p) = t
    BY <1>3 DEF Without
  <2> HIDE DEF at, i
  <2>6. \A j \in DOMAIN ranges : j # i => ranges[j].lo # p
    BY <2>4 DEF Ranged
  <2>7. t \in Seq(Extent) /\ DOMAIN t = 1..Len(ranges) - 1
    BY <1>1, <2>4
  <2> DEFINE old(j) == IF j < i THEN j ELSE j + 1
  <2>8. \A j \in DOMAIN t : old(j) \in DOMAIN ranges /\ old(j) # i /\ t[j] = ranges[old(j)]
    BY <1>1, <2>4, <2>7
  <2>9. \A j, k2 \in DOMAIN t : old(j) = old(k2) => j = k2
    BY <1>1, <2>4, <2>7
  <2> HIDE DEF t, old
  <2>10. \A j \in DOMAIN t : /\ t[j].lo \in U \ {p} /\ t[j].lo <= t[j].hi
                             /\ t[j].hi + 3 <= t[j].lo + sz[t[j].lo]
    BY <2>6, <2>8 DEF Ranged
  <2>11. \A j, k2 \in DOMAIN t : t[j].lo = t[k2].lo => j = k2
    BY <2>8, <2>9 DEF Ranged
  <2> QED
    BY <2>5, <2>7, <2>10, <2>11 DEF Ranged
<1> QED
  BY <1>2, <1>3

LEMMA RangesKept ==
  ASSUME NEW h, NEW sz, NEW U, NEW p, NEW n \in Nat, NEW r, NEW z,
         Good(h, sz, U), Answered(h, sz, U, p, n, r, z), NEW rs, Ranged(rs, sz, U \ {p})
  PROVE  Ranged(rs, z, After(U, p, r)) /\ \A k \in DOMAIN rs : rs[k].lo # r.ptr
<1>1. NULL \notin U
  BY GoodBlocks
<1>2. \A q \in U \ {p} : z[q] = sz[q] /\ q \in After(U, p, r) /\ q # r.ptr
  BY <1>1 DEF Answered, After
<1> QED
  BY <1>2 DEF Ranged

LEMMA RangesAdded ==
  ASSUME NEW sz, NEW U, NEW rs, Ranged(rs, sz, U), NEW p \in U, p \in Nat, sz[p] \in Nat,
         \A k \in DOMAIN rs : rs[k].lo # p, NEW n \in Nat, n # 0, n + 2 <= sz[p]
  PROVE  Ranged(<<[lo |-> p, hi |-> p + n - 1]>> \o rs, sz, U)
<1> DEFINE e == [lo |-> p, hi |-> p + n - 1]
           t == <<e>> \o rs
<1>1. e \in Extent /\ e.lo = p /\ e.lo <= e.hi /\ e.hi + 3 <= e.lo + sz[p]
  BY DEF Extent
<1> HIDE DEF e
<1>2. rs \in Seq(Extent) /\ Len(rs) \in Nat /\ DOMAIN rs = 1..Len(rs)
  BY DEF Ranged
<1>3. t \in Seq(Extent) /\ DOMAIN t = 1..Len(rs) + 1
  BY <1>1, <1>2
<1>4. \A j \in DOMAIN t : t[j] = IF j = 1 THEN e ELSE rs[j - 1]
  BY <1>2
<1> HIDE DEF t
<1>5. \A j \in DOMAIN t : j # 1 => j - 1 \in DOMAIN rs /\ t[j] = rs[j - 1]
  BY <1>2, <1>3, <1>4
<1>6. 1 \in DOMAIN t /\ t[1] = e
  BY <1>2, <1>3, <1>4
<1>7. \A j \in DOMAIN t : /\ t[j].lo \in U /\ t[j].lo <= t[j].hi
                          /\ t[j].hi + 3 <= t[j].lo + sz[t[j].lo]
  BY <1>1, <1>5, <1>6 DEF Ranged
<1>8. ASSUME NEW j \in DOMAIN t, NEW k \in DOMAIN t, t[j].lo = t[k].lo
      PROVE  j = k
  <2>1. CASE j = 1 \/ k = 1
    BY <1>1, <1>5, <1>6, <1>8, <2>1
  <2>2. CASE j # 1 /\ k # 1
    <3>1. j - 1 = k - 1
      BY <1>5, <1>8, <2>2 DEF Ranged
    <3> QED
      BY <1>2, <1>3, <3>1
  <2> QED
    BY <2>1, <2>2
<1> QED
  BY <1>3, <1>7, <1>8 DEF Ranged, t, e

(* The ranges that add_range sees.                                         *)
Known == IF req.type = "r" \/ (req.type = "f" /\ req.index # NoIndex)
         THEN Without(blocks[req.index]) ELSE ranges

LEMMA KnownRanged ==
  ASSUME Running, op <= Len(trace), NEW sz, NEW U, Ready(sz, U), Ranged(ranges, sz, U)
  PROVE  Ranged(Known, sz, U \ {Target})
<1>1. /\ req.type \in {"a", "r", "f"}
      /\ req.type # "f" => req.index \in Index
      /\ NULL \notin U
  BY Requested, GoodBlocks DEF Ready
<1>2. CASE Known = ranges /\ Target = NULL
  <2>1. U \ {Target} = U
    BY <1>1, <1>2
  <2> QED
    BY <1>2, <2>1
<1>3. CASE Known = Without(Target)
  BY <1>3, RangesRemoved
<1>4. (Known = ranges /\ Target = NULL) \/ Known = Without(Target)
  BY <1>1, MdriverAssumption DEF Known, Target, BlockOf
<1> QED
  BY <1>2, <1>3, <1>4

(* The checks accept what a call gives.                                    *)
LEMMA Accepted ==
  ASSUME Running, op <= Len(trace), req.type # "f", NEW sz, NEW U, Ready(sz, U),
         Contains(arena.mem, blocks, sizes, Usable),
         NEW z, Answered(arena, sz, U, Target, Asked, Call, z), ~Refused(Call),
         NEW rs, Ranged(rs, sz, U \ {Target})
  PROVE  Verdict(Call, rs) = "none"
<1> DEFINE p == Call.ptr
           n == req.size
           h == Call.heap
           W == After(U, Target, Call)
<1>1. /\ Asked = n /\ n \in Nat /\ req.index \in Index
      /\ req.type \in {"a", "r"}
      /\ req.type = "r" => req.index \in Usable
  BY Requested DEF Asked
<1>2. /\ p \in Nat /\ Good(h, z, W) /\ (n # 0 => p \in W /\ n + 2 <= z[p])
      /\ \A q \in U \ {Target} : z[q] = sz[q] /\ q \in W /\ q # p
  <2>1. NULL \notin U
    BY GoodBlocks DEF Ready
  <2> QED
    BY <1>1, <2>1 DEF Answered, After
<1>3. ASSUME n > 0
      PROVE  AddFault(rs, p, p + n - 1, h.end) = "none"
  <2>1. /\ p \in DOMAIN z /\ p % 2 = 0 /\ z[p] \in Nat /\ p + z[p] <= h.end /\ h.end \in Nat
        /\ n + 2 <= z[p]
    BY <1>1, <1>2, <1>3, GoodBlocks
  <2>2. {p, p + n - 1} \subseteq 0..h.end - 1
    <3> HIDE DEF p, n, h
    <3>1. p + n + 1 < h.end
      BY <1>1, <1>2, <1>3, <2>1
    <3> QED
      BY <1>1, <1>2, <1>3, <2>1, <3>1
  <2>3. ASSUME NEW k \in DOMAIN rs
        PROVE  {p, p + n - 1} \cap (rs[k].lo..rs[k].hi) = {}
    <3> DEFINE a == rs[k].lo
               b == rs[k].hi
    <3>1. a \in U \ {Target} /\ b + 3 <= a + sz[a] /\ a \in Nat /\ b \in Nat
      <4>1. rs[k] \in Extent
        BY DEF Ranged
      <4> QED
        BY <4>1 DEF Ranged, Extent
    <3>2. z[a] = sz[a] /\ a \in W /\ a # p
      BY <1>2, <3>1
    <3>3. a \in DOMAIN z /\ z[a] \in Nat
      BY <1>2, <3>2, GoodBlocks
    <3>4. a + z[a] <= p \/ p + z[p] <= a
      BY <1>2, <2>1, <3>2, <3>3, GoodBlocks
    <3> HIDE DEF a, b, p, n
    <3>5. {p, p + n - 1} \cap (a..b) = {}
      BY <1>1, <1>2, <1>3, <2>1, <3>1, <3>2, <3>3, <3>4
    <3> QED
      BY <3>5 DEF a, b
  <2> QED
    BY <2>1, <2>2, <2>3 DEF AddFault
<1>4. ASSUME req.type = "r"
      PROVE  Kept(Call)
  <2> DEFINE i == req.index
             s == sizes[i]
  <2>1. i \in Usable /\ Target = blocks[i] /\ s \in Nat /\ blocks[i] \in Nat
    BY <1>1, <1>4, MdriverAssumption DEF Target, BlockOf, Running, Tables
  <2>2. CASE Target = NULL
    <3>1. s = 0
      BY <2>1, <2>2 DEF Ready, Serves
    <3>2. 0..(IF s < n THEN s ELSE n) - 1 = {}
      BY <1>1, <3>1
    <3> QED
      BY <3>2 DEF Kept
  <2>3. CASE Target # NULL
    <3>1. Target \in U /\ s + 2 <= sz[Target]
      BY <2>1, <2>3 DEF Ready, Serves
    <3>2. sz[Target] \in Nat
      BY <3>1, GoodBlocks DEF Ready
    <3> HIDE DEF s, i, p, n
    <3>3. \A k \in 0..(IF s < n THEN s ELSE n) - 1 :
            /\ k \in 0..sz[Target] - 3 /\ k < n
            /\ Target + k \in Target..(Target + s) - 1
      <4>1. s \in Nat /\ n \in Nat /\ Target \in Nat
        BY <1>1, <2>1
      <4>2. \A k \in 0..(IF s < n THEN s ELSE n) - 1 : k \in Nat /\ k < s /\ k < n
        BY <4>1
      <4> QED
        BY <3>1, <3>2, <4>1, <4>2
    <3>4. \A k \in 0..(IF s < n THEN s ELSE n) - 1 : h.mem[p + k] = i
      <4>1. \A k \in 0..sz[Target] - 3 : k < n => h.mem[p + k] = arena.mem[Target + k]
        BY <1>1, <2>3 DEF Answered, p
      <4>2. \A a \in Target..(Target + s) - 1 : arena.mem[a] = i
        BY <2>1 DEF Contains, s
      <4> QED
        BY <3>3, <4>1, <4>2
    <3> QED
      BY <3>4 DEF Kept, s, i, p, n
  <2> QED
    BY <2>2, <2>3
<1> HIDE DEF p, n, h
<1> QED
  BY <1>3, <1>4 DEF Verdict, p, n, h

-----------------------------------------------------------------------------
(* The driver finds no fault                                               *)

Passes == {"valid", "util", "speed"}

Checked(sz, U) ==
  Ranged(ranges, sz, U) /\ Contains(arena.mem, blocks, sizes, Usable)

DriverInv ==
  /\ suite \in Suites /\ tracenum \in Nat \ {0}
  /\ arena.mem \in Memory
  /\ errors \in Seq({"exhausted"}) /\ correct \in Nat
  /\ stage \in {"read", "valid"} => correct + Len(errors) = tracenum - 1
  /\ stage \in {"util", "speed"} => correct + Len(errors) = tracenum
  /\ stage \in Passes => /\ Running
                         /\ \E sz, U : Ready(sz, U) /\ (stage = "valid" => Checked(sz, U))

LEMMA Restarts ==
  ASSUME arena.mem \in Memory, Orderly(trace, Sizes), NEW pass, Restart(pass),
         UNCHANGED <<suite, tracenum>>
  PROVE  /\ Running' /\ arena'.mem \in Memory
         /\ \E sz, U : /\ Ready(sz, U)' /\ Ranged(<<>>, sz, U)
                       /\ Contains(arena'.mem, blocks', sizes', Usable')
<1> DEFINE g == [arena EXCEPT !.end = 0]
<1>1. g.mem \in Memory
  OBVIOUS
<1>2. /\ op' = 1 /\ arena' = mm_init(g)
      /\ blocks' = [i \in Index |-> NULL] /\ sizes' = [i \in Index |-> 0]
  BY DEF Restart
<1> HIDE DEF g
<1>3. Good(arena', Fresh, {})
  BY <1>1, <1>2, Starts
<1>4. arena'.mem \in Memory
  BY <1>3, GoodBlocks
<1>5. trace' = trace
  BY DEF trace
<1>6. Running'
  BY <1>2, <1>5 DEF Running, Tables, NULL
<1>7. Usable' \subseteq Index
  BY DEF Usable
<1>8. \A i \in Usable' : blocks'[i] = NULL /\ sizes'[i] = 0
  BY <1>2, <1>7
<1>9. Serves(blocks', sizes', Usable', Fresh, {})
  BY <1>8 DEF Serves
<1>10. Contains(arena'.mem, blocks', sizes', Usable')
  <2>1. NULL..(NULL + 0) - 1 = {}
    BY DEF NULL
  <2> QED
    BY <1>8, <2>1 DEF Contains
<1>11. Ranged(<<>>, Fresh, {})
  BY DEF Ranged
<1> QED
  BY <1>3, <1>4, <1>6, <1>9, <1>10, <1>11 DEF Ready

(* A request of the later passes.                                          *)
LEMMA Runs ==
  ASSUME Running, op <= Len(trace), NEW sz, NEW U, Ready(sz, U),
         ~Refused(Call), Remember(Call), op' = op + 1, arena' = Call.heap,
         UNCHANGED <<suite, tracenum>>
  PROVE  Running' /\ arena'.mem \in Memory /\ \E z, W : Ready(z, W)'
<1>1. PICK z : Answered(arena, sz, U, Target, Asked, Call, z)
  BY Called
<1>2. /\ Running'
      /\ Serves(blocks', sizes', Usable', z, After(U, Target, Call))
  BY <1>1, Remembered
<1>3. Good(arena', z, After(U, Target, Call))
  BY <1>1 DEF Answered, After
<1>4. arena'.mem \in Memory
  BY <1>3, GoodBlocks
<1> QED
  BY <1>2, <1>3, <1>4 DEF Ready

(* What the other blocks hold after a request.                             *)
LEMMA OthersContain ==
  ASSUME Running, op <= Len(trace), NEW sz, NEW U, Ready(sz, U), Checked(sz, U),
         NEW z, Answered(arena, sz, U, Target, Asked, Call, z),
         NEW j \in Usable, blocks[j] # NULL => blocks[j] # Target
  PROVE  /\ \A a \in blocks[j]..(blocks[j] + sizes[j]) - 1 : Call.heap.mem[a] = j
         /\ blocks[j] # NULL => /\ blocks[j] \in DOMAIN z /\ blocks[j] \in U \ {Target}
                                /\ sizes[j] + 2 <= z[blocks[j]]
<1>1. blocks[j] \in Nat /\ sizes[j] \in Nat /\ Asked \in Nat
  BY Requested DEF Running, Tables, Usable
<1>2. Good(arena, sz, U) /\ Serves(blocks, sizes, Usable, sz, U)
      /\ Contains(arena.mem, blocks, sizes, Usable)
  BY DEF Ready, Checked
<1>3. blocks[j] # Target \/ blocks[j] = NULL
  OBVIOUS
<1> QED
  BY <1>1, <1>2, <1>3, ContainsNext, ZenonT(40)

LEMMA Frees ==
  ASSUME Running, NEW sz, NEW U, Ready(sz, U), Checked(sz, U), CheckedFree
  PROVE  /\ Running' /\ arena'.mem \in Memory
         /\ \E z, W : Ready(z, W)' /\ Checked(z, W)'
<1>1. /\ op <= Len(trace) /\ req.type = "f" /\ op' = op + 1 /\ arena' = Call.heap
      /\ ranges' = Known /\ UNCHANGED <<suite, tracenum, blocks, sizes>>
  BY DEF CheckedFree, Known
<1>2. ~Refused(Call) /\ Remember(Call)
  BY <1>1 DEF Refused, Remember
<1>3. PICK z : Answered(arena, sz, U, Target, Asked, Call, z)
  BY <1>1, <1>2, Called
<1> DEFINE W == After(U, Target, Call)
<1>4. /\ Running' /\ Serves(blocks', sizes', Usable', z, W)
      /\ \A j \in Usable' \ {req.index} :
           /\ j \in Usable /\ blocks'[j] = blocks[j] /\ sizes'[j] = sizes[j]
           /\ blocks[j] # NULL => blocks[j] # Target
      /\ req.index \notin Usable'
  BY <1>1, <1>2, <1>3, Remembered
<1>5. Good(arena', z, W)
  BY <1>1, <1>3 DEF Answered, After
<1>6. arena'.mem \in Memory
  BY <1>5, GoodBlocks
<1>7. Ranged(ranges', z, W)
  <2>1. Ranged(Known, sz, U \ {Target}) /\ Asked \in Nat /\ Good(arena, sz, U)
    BY <1>1, KnownRanged, Requested DEF Checked, Ready
  <2> QED
    BY <1>1, <1>3, <2>1, RangesKept
<1>8. Contains(arena'.mem, blocks', sizes', Usable')
  <2>1. ASSUME NEW j \in Usable'
        PROVE  \A a \in blocks'[j]..(blocks'[j] + sizes'[j]) - 1 : arena'.mem[a] = j
    <3>1. /\ j \in Usable /\ blocks'[j] = blocks[j] /\ sizes'[j] = sizes[j]
          /\ blocks[j] # NULL => blocks[j] # Target
      BY <1>4
    <3> QED
      BY <1>1, <1>3, <3>1, OthersContain
  <2> QED
    BY <2>1 DEF Contains
<1> QED
  BY <1>4, <1>5, <1>6, <1>7, <1>8 DEF Ready, Checked

(* A call that passes the checks, and the filling of what it gave.         *)
LEMMA Obtains ==
  ASSUME Running, op <= Len(trace), req.type # "f", NEW sz, NEW U, Ready(sz, U), Checked(sz, U),
         NEW z, Answered(arena, sz, U, Target, Asked, Call, z),
         arena' = [Call.heap EXCEPT !.mem = Filled(@, Call.ptr)],
         ranges' = (IF req.size = 0 THEN <<>>
                    ELSE <<[lo |-> Call.ptr, hi |-> Call.ptr + req.size - 1]>>) \o Known,
         Remember(Call), op' = op + 1, UNCHANGED <<suite, tracenum>>, Index \subseteq Ids
  PROVE  /\ Running' /\ arena'.mem \in Memory
         /\ \E y, W : Ready(y, W)' /\ Checked(y, W)'
<1> DEFINE p == Call.ptr
           n == req.size
           k == Call.heap
           i == req.index
           W == After(U, Target, Call)
           w == Filled(k.mem, p)
<1>1. Asked = n /\ n \in Nat /\ i \in Ids
  BY Requested DEF Asked
<1>2. /\ Running' /\ Serves(blocks', sizes', Usable', z, W)
      /\ \A j \in Usable' \ {i} :
           /\ j \in Usable /\ blocks'[j] = blocks[j] /\ sizes'[j] = sizes[j]
           /\ blocks[j] # NULL => blocks[j] # Target
      /\ i \in Usable' => blocks'[i] = p /\ sizes'[i] = n
  BY <1>1, Remembered
<1>3. /\ p \in Nat /\ Good(k, z, W) /\ (p = NULL <=> n = 0) /\ p \notin U \ {Target}
      /\ n # 0 => p \in W /\ n + 2 <= z[p]
  BY <1>1 DEF Answered, After
<1>4. /\ w \in Memory
      /\ \A a \in -1..MAX_HEAP - 1 : /\ a \in p..p + n - 1 => w[a] = i
                                     /\ a \notin p..p + n - 1 => w[a] = k.mem[a]
  <2>1. w = [a \in DOMAIN k.mem |-> IF a \in p..p + n - 1 THEN i ELSE k.mem[a]]
    BY DEF Filled
  <2>2. k.mem \in Memory /\ i \in Contents
    BY <1>1, <1>3, GoodBlocks DEF Contents
  <2> HIDE DEF w, p, n, k, i
  <2> QED
    BY <2>1, <2>2 DEF Memory
<1>5. arena' = [k EXCEPT !.mem = w] /\ k \in Heaps
  BY <1>3 DEF Good, Laid
<1>6. arena'.mem = w
  BY <1>5 DEF Heaps
<1> HIDE DEF p, n, k, i, W, w
<1>7. /\ Good(arena', z, W)
      /\ \A a \in p..(p + n) - 1 : w[a] = i
      /\ \A r \in DOMAIN z \ {p} : \A a \in r..(r + z[r]) - 3 : w[a] = k.mem[a]
  <2>1. CASE n = 0
    <3>1. p..p + n - 1 = {} /\ p..(p + n) - 1 = {}
      BY <1>3, <2>1
    <3>2. k.mem \in Memory
      BY <1>5 DEF Heaps
    <3>3. w = k.mem
      <4>1. \A a \in -1..MAX_HEAP - 1 : w[a] = k.mem[a]
        <5>1. \A a : a \notin p..p + n - 1
          BY <3>1
        <5> QED
          BY <1>4, <5>1
      <4>2. w \in Memory /\ k.mem \in Memory
        BY <1>4, <3>2
      <4>3. /\ w = [a \in -1..MAX_HEAP - 1 |-> w[a]]
            /\ k.mem = [a \in -1..MAX_HEAP - 1 |-> k.mem[a]]
        BY <4>2 DEF Memory
      <4> QED
        BY <4>1, <4>3
    <3>4. arena' = k
      BY <1>5, <3>3 DEF Heaps
    <3> QED
      BY <1>3, <3>1, <3>3, <3>4
  <2>2. CASE n # 0
    <3>1. Good(k, z, W) /\ p \in W /\ n \in Nat /\ n + 2 <= z[p] /\ i \in Ids
      BY <1>1, <1>3, <2>2
    <3>2. /\ Good([k EXCEPT !.mem = w], z, W)
          /\ \A a \in p..(p + n) - 1 : w[a] = i
          /\ \A r \in DOMAIN z \ {p} : \A a \in r..(r + z[r]) - 3 : w[a] = k.mem[a]
      BY <1>4, <3>1, Fillings, SMTT(20)
    <3> QED
      BY <1>5, <3>2
  <2> QED
    BY <2>1, <2>2
<1>8. Ranged(ranges', z, W)
  <2>1. Ranged(Known, sz, U \ {Target}) /\ Good(arena, sz, U)
    BY KnownRanged DEF Checked, Ready
  <2>2. Ranged(Known, z, W) /\ \A j \in DOMAIN Known : Known[j].lo # p
    BY <1>1, <2>1, RangesKept DEF W, p
  <2>3. CASE n = 0
    <3>1. Known \in Seq(Extent)
      BY <2>2 DEF Ranged
    <3>2. ranges' = Known
      BY <2>3, <3>1 DEF n
    <3> QED
      BY <2>2, <3>2
  <2>4. CASE n # 0
    <3>1. p \in W /\ n + 2 <= z[p] /\ z[p] \in Nat
      BY <1>3, <2>4, GoodBlocks
    <3>2. Ranged(<<[lo |-> p, hi |-> p + n - 1]>> \o Known, z, W)
      BY <1>1, <1>3, <2>2, <2>4, <3>1, RangesAdded
    <3> QED
      BY <2>4, <3>2 DEF n, p
  <2> QED
    BY <2>3, <2>4
<1>9. Contains(arena'.mem, blocks', sizes', Usable')
  <2>1. ASSUME NEW j \in Usable', j # i
        PROVE  \A a \in blocks'[j]..(blocks'[j] + sizes'[j]) - 1 : w[a] = j
    <3> DEFINE q == blocks[j]
               s == sizes[j]
    <3>1. /\ j \in Usable /\ blocks'[j] = q /\ sizes'[j] = s
          /\ q # NULL => q # Target
      BY <1>2, <2>1
    <3>2. /\ \A a \in q..(q + s) - 1 : k.mem[a] = j
          /\ q # NULL => q \in DOMAIN z /\ q \in U \ {Target} /\ s + 2 <= z[q]
      BY <3>1, OthersContain DEF k
    <3>3. q \in Nat /\ s \in Nat
      BY <3>1 DEF Running, Tables, Usable
    <3>4. q = NULL => s = 0
      BY <3>1 DEF Ready, Serves
    <3> HIDE DEF q, s
    <3>5. CASE q = NULL
      <4>1. q..(q + s) - 1 = {}
        BY <3>3, <3>4, <3>5
      <4> QED
        BY <3>1, <4>1
    <3>6. CASE q # NULL
      <4>1. q \in DOMAIN z \ {p} /\ s + 2 <= z[q] /\ z[q] \in Nat
        BY <1>3, <3>2, <3>6, GoodBlocks
      <4>2. \A a \in q..(q + s) - 1 : a \in q..(q + z[q]) - 3
        BY <3>3, <4>1
      <4>3. \A a \in q..(q + s) - 1 : w[a] = k.mem[a]
        BY <1>7, <4>1, <4>2
      <4> QED
        BY <3>1, <3>2, <4>3
    <3> QED
      BY <3>5, <3>6
  <2>2. i \in Usable' => \A a \in blocks'[i]..(blocks'[i] + sizes'[i]) - 1 : w[a] = i
    BY <1>2, <1>7
  <2> QED
    BY <1>6, <2>1, <2>2 DEF Contains
<1> QED
  BY <1>2, <1>4, <1>6, <1>7, <1>8, <1>9 DEF Ready, Checked

LEMMA DriverInvInit ==
  ASSUME DriverInit
  PROVE  DriverInv
<1>1. arena.mem \in Memory
  BY NewMemory DEF DriverInit
<1>2. errors \in Seq({"exhausted"}) /\ Len(errors) = 0
  BY DEF DriverInit
<1> QED
  BY <1>1, <1>2 DEF DriverInit, DriverInv, Passes

LEMMA ObtainChecked ==
  ASSUME DriverInv, CheckedObtain, Index \subseteq Ids
  PROVE  DriverInv'
<1>1. /\ stage = "valid" /\ op <= Len(trace) /\ req.type # "f" /\ Running
      /\ UNCHANGED <<suite, correct>> /\ suite \in Suites /\ tracenum \in Nat \ {0}
      /\ errors \in Seq({"exhausted"}) /\ correct \in Nat
      /\ correct + Len(errors) = tracenum - 1
  BY DEF CheckedObtain, DriverInv, Passes
<1>2. PICK sz, U : Ready(sz, U) /\ Checked(sz, U)
  BY <1>1 DEF DriverInv, Passes
<1>3. Known = IF req.type = "r" THEN Without(blocks[req.index]) ELSE ranges
  <2> DEFINE moved == req.type = "r" \/ (req.type = "f" /\ req.index # NoIndex)
  <2>1. moved <=> req.type = "r"
    BY <1>1
  <2>2. Known = IF moved THEN Without(blocks[req.index]) ELSE ranges
    BY DEF Known
  <2> HIDE DEF moved
  <2> QED
    BY <2>1, <2>2
<1> DEFINE extent == IF req.size = 0 THEN <<>>
                     ELSE <<[lo |-> Call.ptr, hi |-> Call.ptr + req.size - 1]>>
<1>4. IF Verdict(Call, Known) = "none"
      THEN /\ arena' = [Call.heap EXCEPT !.mem = Filled(@, Call.ptr)]
           /\ ranges' = extent \o Known
           /\ Remember(Call)
           /\ op' = op + 1
           /\ UNCHANGED <<stage, tracenum, errors>>
      ELSE /\ arena' = Call.heap
           /\ errors' = Append(errors, Verdict(Call, Known))
           /\ NextTrace
           /\ UNCHANGED ranges
  BY <1>3 DEF CheckedObtain
<1>5. CASE Refused(Call) /\ Call.heap.mem \in Memory
  <2>1. Verdict(Call, Known) = "exhausted"
    BY <1>5 DEF Verdict
  <2>2. /\ arena' = Call.heap /\ errors' = Append(errors, "exhausted")
        /\ stage' = "read" /\ tracenum' = tracenum + 1
    BY <1>4, <2>1 DEF NextTrace
  <2>3. errors' \in Seq({"exhausted"}) /\ Len(errors') = Len(errors) + 1 /\ Len(errors) \in Nat
    BY <1>1, <2>2
  <2> QED
    BY <1>1, <1>5, <2>2, <2>3 DEF DriverInv, Passes
<1>6. ASSUME NEW z, ~Refused(Call), Answered(arena, sz, U, Target, Asked, Call, z)
      PROVE  DriverInv'
  <2>1. Ranged(Known, sz, U \ {Target})
    BY <1>1, <1>2, KnownRanged DEF Checked
  <2>2. Verdict(Call, Known) = "none"
    BY <1>1, <1>2, <1>6, <2>1, Accepted DEF Checked
  <2>3. /\ arena' = [Call.heap EXCEPT !.mem = Filled(@, Call.ptr)]
        /\ ranges' = (IF req.size = 0 THEN <<>>
                      ELSE <<[lo |-> Call.ptr, hi |-> Call.ptr + req.size - 1]>>) \o Known
        /\ Remember(Call)
        /\ op' = op + 1
        /\ UNCHANGED <<stage, tracenum, errors>>
    BY <1>4, <2>2
  <2>4. /\ Running' /\ arena'.mem \in Memory
        /\ \E y, W : Ready(y, W)' /\ Checked(y, W)'
    BY <1>1, <1>2, <1>6, <2>3, Obtains
  <2> QED
    BY <1>1, <2>3, <2>4 DEF DriverInv, Passes
<1> QED
  BY <1>1, <1>2, <1>5, <1>6, Called

(* Measure and Time.                                                       *)
LEMMA LaterChecked ==
  ASSUME DriverInv, stage \in {"util", "speed"}, op <= Len(trace), arena' = Call.heap,
         \/ Refused(Call) /\ stage' = "exited"
         \/ ~Refused(Call) /\ Remember(Call) /\ op' = op + 1 /\ stage' = stage,
         UNCHANGED <<suite, tracenum, errors, correct>>
  PROVE  DriverInv'
<1>1. /\ Running /\ suite \in Suites /\ tracenum \in Nat \ {0}
      /\ errors \in Seq({"exhausted"}) /\ correct \in Nat
      /\ correct + Len(errors) = tracenum
  BY DEF DriverInv, Passes
<1>2. PICK sz, U : Ready(sz, U)
  BY DEF DriverInv, Passes
<1>3. CASE Refused(Call)
  <2>1. arena'.mem \in Memory
    BY <1>1, <1>2, <1>3, Called
  <2> QED
    BY <1>1, <1>3, <2>1 DEF DriverInv, Passes
<1>4. CASE ~Refused(Call)
  <2>1. Running' /\ arena'.mem \in Memory /\ \E z, W : Ready(z, W)'
    BY <1>1, <1>2, <1>4, Runs
  <2> QED
    BY <1>1, <1>4, <2>1 DEF DriverInv, Passes
<1> QED
  BY <1>3, <1>4

(* From one pass to the next.                                              *)
LEMMA RestartChecked ==
  ASSUME DriverInv, Orderly(trace, Sizes), NEW pass \in Passes, Restart(pass),
         pass = "valid" => ranges' = <<>>,
         UNCHANGED <<suite, tracenum, errors>>, correct' \in Nat,
         correct' + Len(errors) = IF pass = "valid" THEN tracenum - 1 ELSE tracenum
  PROVE  DriverInv'
<1>1. stage' = pass
  BY DEF Restart
<1>2. /\ Running' /\ arena'.mem \in Memory
      /\ \E sz, U : /\ Ready(sz, U)' /\ Ranged(<<>>, sz, U)
                    /\ Contains(arena'.mem, blocks', sizes', Usable')
  BY Restarts DEF DriverInv
<1>3. \E sz, U : Ready(sz, U)' /\ (pass = "valid" => Checked(sz, U)')
  BY <1>2 DEF Checked
<1> QED
  BY <1>1, <1>2, <1>3 DEF DriverInv, Passes

LEMMA DriverInvNext ==
  ASSUME Index \subseteq Ids, TracesOrderly(Sizes), DriverInv, [DriverNext]_dvars
  PROVE  DriverInv'
<1>1. CASE ReadFails
  BY <1>1 DEF ReadFails, DriverInv, Passes
<1>2. CASE StartValid
  <2>1. Orderly(trace, Sizes)
    <3>1. tracenum \in 1..Len(suite) /\ Readable(suite[tracenum])
      BY <1>2 DEF StartValid, DriverInv, TracesOrderly
    <3> QED
      BY <3>1 DEF TracesOrderly, DriverInv, trace
  <2>2. /\ Restart("valid") /\ ranges' = <<>> /\ UNCHANGED <<suite, tracenum, errors, correct>>
        /\ stage = "read"
    BY <1>2 DEF StartValid
  <2>3. correct' \in Nat /\ correct' + Len(errors) = tracenum - 1
    BY <2>2 DEF DriverInv
  <2>4. "valid" \in Passes
    BY DEF Passes
  <2> QED
    BY <2>1, <2>2, <2>3, <2>4, RestartChecked
<1>3. CASE CheckedObtain
  BY <1>3, ObtainChecked
<1>4. CASE CheckedFree
  <2>1. stage = "valid" /\ UNCHANGED <<suite, tracenum, stage, errors, correct>>
    BY <1>4 DEF CheckedFree
  <2>2. PICK sz, U : Running /\ Ready(sz, U) /\ Checked(sz, U)
    BY <2>1 DEF DriverInv, Passes
  <2>3. Running' /\ arena'.mem \in Memory /\ \E z, W : Ready(z, W)' /\ Checked(z, W)'
    BY <1>4, <2>2, Frees
  <2> QED
    BY <2>1, <2>3 DEF DriverInv, Passes
<1>5. CASE StartUtil
  <2>1. /\ Restart("util") /\ UNCHANGED <<suite, tracenum, errors>> /\ correct' = correct + 1
        /\ stage = "valid"
    BY <1>5 DEF StartUtil
  <2>2. Orderly(trace, Sizes) /\ correct \in Nat /\ correct + Len(errors) = tracenum - 1
        /\ tracenum \in Nat /\ errors \in Seq({"exhausted"})
    BY <2>1 DEF DriverInv, Passes, Running
  <2>3. correct' \in Nat /\ correct' + Len(errors) = tracenum
    BY <2>1, <2>2
  <2>4. "util" \in Passes
    BY DEF Passes
  <2> QED
    BY <2>1, <2>2, <2>3, <2>4, RestartChecked
<1>6. CASE Measure
  BY <1>6, LaterChecked DEF Measure, Exit
<1>7. CASE StartSpeed
  <2>1. /\ Restart("speed") /\ UNCHANGED <<suite, tracenum, errors, correct>>
        /\ stage \in {"util", "speed"}
    BY <1>7 DEF StartSpeed
  <2>2. Orderly(trace, Sizes) /\ correct' \in Nat /\ correct' + Len(errors) = tracenum
    BY <2>1 DEF DriverInv, Passes, Running
  <2>3. "speed" \in Passes
    BY DEF Passes
  <2> QED
    BY <2>1, <2>2, <2>3, RestartChecked
<1>8. CASE Time
  BY <1>8, LaterChecked DEF Time, Exit
<1>9. CASE FreeTrace
  <2>1. /\ UNCHANGED <<suite, arena, errors, correct>> /\ stage = "speed"
        /\ stage' = "read" /\ tracenum' = tracenum + 1
    BY <1>9 DEF FreeTrace, NextTrace
  <2> QED
    BY <2>1 DEF DriverInv, Passes
<1>10. CASE UNCHANGED dvars
  <2>1. UNCHANGED <<suite, tracenum, stage, op, arena, blocks, sizes, ranges, errors, correct>>
    BY <1>10 DEF dvars
  <2>2. trace' = trace
    BY <2>1 DEF trace
  <2>3. Running' = Running
    BY <2>1, <2>2 DEF Running, Tables
  <2>4. Usable' = Usable
    BY <2>1, <2>2 DEF Usable
  <2>5. ASSUME NEW sz, NEW U
        PROVE  Ready(sz, U)' = Ready(sz, U) /\ Checked(sz, U)' = Checked(sz, U)
    BY <2>1, <2>4 DEF Ready, Checked
  <2> QED
    BY <2>1, <2>3, <2>5 DEF DriverInv
<1> QED
  BY <1>1, <1>2, <1>3, <1>4, <1>5, <1>6, <1>7, <1>8, <1>9, <1>10 DEF DriverNext

(* The checks of the driver report nothing but that the memory is used up, *)
(* and each trace is counted once (mdriver.c, eval_mm_valid), whatever     *)
(* traces it runs that do not use a block after it is freed: a realloc     *)
(* that fails may damage the heap, but mem_reset_brk and mm_init need only *)
(* its memory for the next trace.                                          *)
THEOREM DriverFindsNoFault ==
  ASSUME Index \subseteq Ids, TracesOrderly(Requests \cup {0})
  PROVE  DriverInit /\ [][DriverNext]_dvars => []FindsNoFault
<1>1. DriverInit => DriverInv
  BY DriverInvInit
<1>2. DriverInv /\ [DriverNext]_dvars => DriverInv'
  BY DriverInvNext DEF Sizes
<1>3. DriverInv => FindsNoFault
  BY DEF DriverInv, FindsNoFault
<1> QED
  BY <1>1, <1>2, <1>3, PTL
=============================================================================
