-------------------------- MODULE GalleryLimitProofs --------------------------
(***************************************************************************)
(* How far the album may exceed its limit, and what is deleted for a copy, *)
(* for any number of copies at a time, files, sizes and limits: facts      *)
(* about sums and lists, the inductive invariant, what each action does to *)
(* its parts.                                                              *)
(***************************************************************************)
EXTENDS GalleryLimit, SequenceTheorems, FiniteSetTheorems, WellFoundedInduction, TLAPS

-----------------------------------------------------------------------------
(* Numbers.                                                                *)
LEMMA LeastNatural ==
  ASSUME NEW T \in SUBSET Nat, T # {}
  PROVE  \E m \in T : \A o \in T : m <= o
<1>1. PICK m \in T : \A o \in T : ~(<<o, m>> \in OpToRel(<, Nat))
  BY NatLessThanWellFounded, WFMin, Zenon
<1>2. \A o \in T : ~(o < m)
  BY <1>1 DEF OpToRel
<1> QED
  BY <1>2

(* What holds at first, and goes over from each number to the next, holds. *)
LEMMA NumbersInduction ==
  ASSUME NEW N \in Nat, NEW Good \in SUBSET (0 .. N), 0 \in Good,
         \A n \in 1 .. N : n - 1 \in Good => n \in Good
  PROVE  \A n \in 0 .. N : n \in Good
<1> DEFINE Bad == (0 .. N) \ Good
<1> SUFFICES ASSUME Bad # {} PROVE FALSE
  OBVIOUS
<1>0. Bad \in SUBSET Nat
  OBVIOUS
<1> HIDE DEF Bad
<1>1. PICK m \in Bad : \A o \in Bad : m <= o
  BY <1>0, LeastNatural
<1>2. m \in 1 .. N /\ m - 1 \in 0 .. N
  BY DEF Bad
<1> QED
  BY <1>1, <1>2 DEF Bad

-----------------------------------------------------------------------------
(* Sums.  Total is the sum of the sizes of files; a sum is what taking one *)
(* element away after the other makes of it.                               *)

SumOf(g, S) == MapThenSumSet(LAMBDA f : g[f], S)

IsSum(F, g, n) ==
  /\ F \in [SUBSET (1 .. n) -> Nat] /\ F[{}] = 0
  /\ \A S \in SUBSET (1 .. n) : \A x \in S : F[S] = g[x] + F[S \ {x}]

LEMMA SumGoesOn ==
  ASSUME NEW n \in Nat, n # 0, NEW g, \A x \in 1 .. n : g[x] \in Nat,
         NEW F, IsSum(F, g, n - 1)
  PROVE  \E G : IsSum(G, g, n)
<1> DEFINE G == [S \in SUBSET (1 .. n) |->
                   IF n \in S THEN g[n] + F[S \ {n}] ELSE F[S]]
<1>1. \A S \in SUBSET (1 .. n) : S \ {n} \in SUBSET (1 .. n - 1)
  OBVIOUS
<1>2. \A S \in SUBSET (1 .. n) : n \notin S => S \in SUBSET (1 .. n - 1)
  OBVIOUS
<1>3. n \in 1 .. n /\ g[n] \in Nat
  OBVIOUS
<1>4. \A S \in SUBSET (1 .. n - 1) : F[S] \in Nat
  BY DEF IsSum
<1>5. \A S \in SUBSET (1 .. n) :
        /\ n \in S => G[S] = g[n] + F[S \ {n}]
        /\ n \notin S => G[S] = F[S]
  OBVIOUS
<1>6. G \in [SUBSET (1 .. n) -> Nat]
  <2>1. \A S \in SUBSET (1 .. n) : (IF n \in S THEN g[n] + F[S \ {n}] ELSE F[S]) \in Nat
    BY <1>1, <1>2, <1>3, <1>4
  <2> QED
    BY <2>1
<1>7. G[{}] = 0
  BY <1>5 DEF IsSum
<1> HIDE DEF G
<1>8. ASSUME NEW S \in SUBSET (1 .. n), NEW x \in S
      PROVE  G[S] = g[x] + G[S \ {x}]
  <2>0. g[x] \in Nat /\ S \ {x} \in SUBSET (1 .. n)
    OBVIOUS
  <2>1. CASE x = n
    <3>1. n \notin S \ {x} /\ G[S \ {x}] = F[S \ {x}]
      BY <1>5, <2>0, <2>1
    <3> QED
      BY <1>5, <2>1, <3>1
  <2>2. CASE x # n /\ n \notin S
    <3>1. G[S] = F[S] /\ G[S \ {x}] = F[S \ {x}]
      BY <1>5, <2>0, <2>2
    <3> QED
      BY <1>2, <2>2, <3>1 DEF IsSum
  <2>3. CASE x # n /\ n \in S
    <3>1. G[S] = g[n] + F[S \ {n}] /\ G[S \ {x}] = g[n] + F[(S \ {x}) \ {n}]
      BY <1>5, <2>0, <2>3
    <3>2. S \ {n} \in SUBSET (1 .. n - 1) /\ x \in S \ {n}
      BY <1>1, <2>3
    <3>3. F[S \ {n}] = g[x] + F[(S \ {n}) \ {x}]
      BY <3>2 DEF IsSum
    <3>4. (S \ {n}) \ {x} = (S \ {x}) \ {n}
      OBVIOUS
    <3>5. F[(S \ {x}) \ {n}] \in Nat
      BY <1>1, <1>4, <2>0
    <3>6. F[S \ {n}] = g[x] + F[(S \ {x}) \ {n}]
      BY <3>3, <3>4
    <3> QED
      BY <1>3, <2>0, <3>1, <3>5, <3>6
  <2> QED
    BY <2>1, <2>2, <2>3
<1> QED
  BY <1>6, <1>7, <1>8 DEF IsSum

LEMMA SumExists ==
  ASSUME NEW N \in Nat, NEW g, \A x \in 1 .. N : g[x] \in Nat
  PROVE  \E F : IsSum(F, g, N)
<1> DEFINE Good == {n \in 0 .. N : \E F : IsSum(F, g, n)}
<1>1. 0 \in Good
  <2>1. SUBSET (1 .. 0) = {{}}
    OBVIOUS
  <2>2. IsSum([S \in {{}} |-> 0], g, 0)
    BY <2>1 DEF IsSum
  <2> QED
    BY <2>2
<1>2. ASSUME NEW n \in 1 .. N, n - 1 \in Good PROVE n \in Good
  <2>1. PICK F : IsSum(F, g, n - 1)
    BY <1>2
  <2>2. n \in Nat /\ n # 0 /\ \A x \in 1 .. n : g[x] \in Nat
    OBVIOUS
  <2>3. \E G : IsSum(G, g, n)
    BY <2>1, <2>2, SumGoesOn
  <2> QED
    BY <2>3
<1>3. Good \in SUBSET (0 .. N)
  OBVIOUS
<1> HIDE DEF Good
<1>4. N \in Good
  BY <1>1, <1>2, <1>3, NumbersInduction
<1> QED
  BY <1>4 DEF Good

LEMMA CountUpTo ==
  ASSUME NEW N \in Nat, NEW S \in SUBSET (1 .. N)
  PROVE  IsFiniteSet(S) /\ Cardinality(S) \in 0 .. N
<1>1. IsFiniteSet(1 .. N) /\ Cardinality(1 .. N) = N
  BY FS_Interval
<1>2. IsFiniteSet(S) /\ Cardinality(S) <= N
  BY <1>1, FS_Subset
<1> QED
  BY <1>2, FS_CardinalityType

(* The sum of sizes is what the recursion of the library makes of it.      *)
LEMMA SumIs ==
  ASSUME NEW N \in Nat, NEW g, NEW F, IsSum(F, g, N), NEW S \in SUBSET (1 .. N)
  PROVE  SumOf(g, S) = F[S]
<1> DEFINE Steps(h) == h = [s \in SUBSET S |->
                 IF s = {} THEN 0
                 ELSE g[CHOOSE x \in s : TRUE] + h[s \ {CHOOSE x \in s : TRUE}]]
<1>1. \A s \in SUBSET S : s # {} => (CHOOSE x \in s : TRUE) \in s
  OBVIOUS
<1>2. \A s \in SUBSET S : s \in SUBSET (1 .. N)
  OBVIOUS
<1>3. Steps([s \in SUBSET S |-> F[s]])
  <2> DEFINE h == [s \in SUBSET S |-> F[s]]
  <2>1. ASSUME NEW s \in SUBSET S
        PROVE  h[s] = IF s = {} THEN 0
                      ELSE g[CHOOSE x \in s : TRUE] + h[s \ {CHOOSE x \in s : TRUE}]
    <3>1. s \ {CHOOSE x \in s : TRUE} \in SUBSET S
      OBVIOUS
    <3>2. CASE s = {}
      BY <3>2 DEF IsSum
    <3>3. CASE s # {}
      <4>1. F[s] = g[CHOOSE x \in s : TRUE] + F[s \ {CHOOSE x \in s : TRUE}]
        BY <1>1, <1>2, <3>3 DEF IsSum
      <4> QED
        BY <3>1, <3>3, <4>1
    <3> QED
      BY <3>2, <3>3
  <2> QED
    BY <2>1
<1> DEFINE it == CHOOSE h : Steps(h)
<1>4. Steps(it)
  BY <1>3
<1>5. SumOf(g, S) = it[S]
  BY DEF SumOf, MapThenSumSet, MapThenFoldSet
<1> HIDE DEF it
<1>6. /\ it[{}] = 0
      /\ \A s \in SUBSET S : s # {} => \E x \in s : it[s] = g[x] + it[s \ {x}]
  BY <1>1, <1>4
<1> HIDE DEF Steps
<1>8. \A s \in SUBSET S : IsFiniteSet(s) /\ Cardinality(s) \in 0 .. N
  BY <1>2, CountUpTo
<1> DEFINE Good == {n \in 0 .. N : \A s \in SUBSET S : Cardinality(s) = n => it[s] = F[s]}
<1>9. 0 \in Good
  <2>1. \A s \in SUBSET S : Cardinality(s) = 0 => s = {}
    BY <1>8, FS_EmptySet
  <2>2. it[{}] = F[{}]
    BY <1>6 DEF IsSum
  <2>3. ASSUME NEW s \in SUBSET S, Cardinality(s) = 0 PROVE it[s] = F[s]
    BY <2>1, <2>2, <2>3
  <2>4. 0 \in 0 .. N
    OBVIOUS
  <2> QED
    BY <2>3, <2>4
<1>10. ASSUME NEW n \in 1 .. N, n - 1 \in Good PROVE n \in Good
  <2>1. ASSUME NEW s \in SUBSET S, Cardinality(s) = n PROVE it[s] = F[s]
    <3>1. s # {}
      BY <1>8, <2>1, FS_EmptySet
    <3>2. PICK x \in s : it[s] = g[x] + it[s \ {x}]
      BY <1>6, <3>1
    <3>3. s \ {x} \in SUBSET S /\ Cardinality(s \ {x}) = n - 1
      BY <1>8, <2>1, FS_RemoveElement
    <3>4. it[s \ {x}] = F[s \ {x}]
      BY <1>10, <3>3
    <3>5. F[s] = g[x] + F[s \ {x}]
      BY <1>2 DEF IsSum
    <3> QED
      BY <3>2, <3>4, <3>5
  <2> QED
    BY <2>1
<1>11. Good \in SUBSET (0 .. N)
  OBVIOUS
<1> HIDE DEF Good
<1>12. \A n \in 0 .. N : n \in Good
  BY <1>9, <1>10, <1>11, NumbersInduction
<1>13. Cardinality(S) \in Good
  BY <1>8, <1>12
<1> QED
  BY <1>5, <1>13 DEF Good

Counts(g, N) == \A x \in 1 .. N : g[x] \in Nat

Additive(g, N) ==
  /\ SumOf(g, {}) = 0
  /\ \A S \in SUBSET (1 .. N) :
       /\ SumOf(g, S) \in Nat
       /\ \A x \in S : SumOf(g, S) = g[x] + SumOf(g, S \ {x})

LEMMA SumSteps ==
  ASSUME NEW N \in Nat, NEW g, Counts(g, N)
  PROVE  Additive(g, N)
<1>1. PICK F : IsSum(F, g, N)
  BY SumExists DEF Counts
<1>2. \A S \in SUBSET (1 .. N) : SumOf(g, S) = F[S] /\ S \ {} \in SUBSET (1 .. N)
  BY <1>1, SumIs
<1>3. {} \in SUBSET (1 .. N) /\ \A S \in SUBSET (1 .. N) : \A x \in S : S \ {x} \in SUBSET (1 .. N)
  OBVIOUS
<1> QED
  BY <1>1, <1>2, <1>3 DEF IsSum, Additive

(* A set of which all but d are in another one has d times the greatest    *)
(* size more at most, and no less.                                         *)
LEMMA SumMore ==
  ASSUME NEW N \in Nat, NEW g, NEW L \in Nat, \A x \in 1 .. N : g[x] \in 0 .. L,
         NEW T \in SUBSET (1 .. N), NEW S \in SUBSET T
  PROVE  /\ SumOf(g, S) <= SumOf(g, T)
         /\ SumOf(g, T) <= SumOf(g, S) + Cardinality(T \ S) * L
<1>1. Additive(g, N)
  BY SumSteps DEF Counts
<1>2. \A U \in SUBSET T : IsFiniteSet(U) /\ Cardinality(U) \in 0 .. N
  BY CountUpTo
<1>3. /\ \A U \in SUBSET T : SumOf(g, U) \in Nat
      /\ \A U \in SUBSET T : \A x \in U : SumOf(g, U) = g[x] + SumOf(g, U \ {x})
  <2>1. \A U \in SUBSET T : U \in SUBSET (1 .. N)
    OBVIOUS
  <2> QED
    BY <1>1, <2>1 DEF Additive
<1> DEFINE Good == {n \in 0 .. N : \A U \in SUBSET T :
                      S \subseteq U /\ Cardinality(U \ S) = n
                        => /\ SumOf(g, S) <= SumOf(g, U)
                           /\ SumOf(g, U) <= SumOf(g, S) + n * L}
<1>4. 0 \in Good
  <2>1. ASSUME NEW U \in SUBSET T, S \subseteq U, Cardinality(U \ S) = 0 PROVE U = S
    <3>1. U \ S = {}
      BY <1>2, <2>1, FS_EmptySet
    <3> QED
      BY <2>1, <3>1
  <2>2. SumOf(g, S) <= SumOf(g, S) /\ SumOf(g, S) <= SumOf(g, S) + 0 * L
    BY <1>3
  <2>3. \A U \in SUBSET T : S \subseteq U /\ Cardinality(U \ S) = 0
          => SumOf(g, S) <= SumOf(g, U) /\ SumOf(g, U) <= SumOf(g, S) + 0 * L
    BY <2>1, <2>2
  <2>4. 0 \in 0 .. N
    OBVIOUS
  <2> QED
    BY <2>3, <2>4
<1>5. ASSUME NEW n \in 1 .. N, n - 1 \in Good PROVE n \in Good
  <2>1. ASSUME NEW U \in SUBSET T, S \subseteq U, Cardinality(U \ S) = n
        PROVE  SumOf(g, S) <= SumOf(g, U) /\ SumOf(g, U) <= SumOf(g, S) + n * L
    <3>0. U \ S \in SUBSET T
      OBVIOUS
    <3>1. U \ S # {}
      BY <1>2, <2>1, <3>0, FS_EmptySet
    <3>2. PICK x \in U \ S : TRUE
      BY <3>1
    <3>3. U \ {x} \in SUBSET T /\ S \subseteq U \ {x} /\ (U \ {x}) \ S = (U \ S) \ {x}
      BY <2>1
    <3>4. Cardinality((U \ {x}) \ S) = n - 1
      <4>1. IsFiniteSet(U \ S) /\ x \in U \ S
        BY <1>2, <3>0, <3>2
      <4>2. Cardinality((U \ S) \ {x}) = Cardinality(U \ S) - 1
        BY <4>1, FS_RemoveElement
      <4> QED
        BY <2>1, <3>3, <4>2
    <3>5. /\ SumOf(g, S) <= SumOf(g, U \ {x})
          /\ SumOf(g, U \ {x}) <= SumOf(g, S) + (n - 1) * L
      BY <1>5, <3>3, <3>4
    <3>6. SumOf(g, U) = g[x] + SumOf(g, U \ {x}) /\ g[x] \in 0 .. L
      BY <1>3, <2>1
    <3>7. /\ SumOf(g, S) \in Nat /\ SumOf(g, U) \in Nat /\ SumOf(g, U \ {x}) \in Nat
          /\ g[x] \in Nat /\ g[x] <= L
      BY <1>3, <3>3, <3>6
    <3>8. (n - 1) * L + L = n * L
      OBVIOUS
    <3> QED
      BY <3>5, <3>6, <3>7, <3>8
  <2> QED
    BY <2>1
<1>6. Good \in SUBSET (0 .. N)
  OBVIOUS
<1> HIDE DEF Good
<1>7. \A n \in 0 .. N : n \in Good
  BY <1>4, <1>5, <1>6, NumbersInduction
<1>8. Cardinality(T \ S) \in Good
  BY <1>2, <1>7
<1> QED
  BY <1>8 DEF Good

(* The sum depends on the sizes of the set's files only.                   *)
LEMMA SumSame ==
  ASSUME NEW N \in Nat, NEW g, NEW h, Counts(g, N), Counts(h, N),
         NEW S \in SUBSET (1 .. N), \A x \in S : g[x] = h[x]
  PROVE  SumOf(g, S) = SumOf(h, S)
<1>1. Additive(g, N) /\ Additive(h, N)
  BY SumSteps
<1>2. \A U \in SUBSET S : IsFiniteSet(U) /\ Cardinality(U) \in 0 .. N
  BY CountUpTo
<1>3. /\ \A U \in SUBSET S : \A x \in U : SumOf(g, U) = g[x] + SumOf(g, U \ {x})
      /\ SumOf(g, {}) = 0
  <2>1. \A U \in SUBSET S : U \in SUBSET (1 .. N)
    OBVIOUS
  <2> QED
    BY <1>1, <2>1 DEF Additive
<1>4. /\ \A U \in SUBSET S : \A x \in U : SumOf(h, U) = h[x] + SumOf(h, U \ {x})
      /\ SumOf(h, {}) = 0
  <2>1. \A U \in SUBSET S : U \in SUBSET (1 .. N)
    OBVIOUS
  <2> QED
    BY <1>1, <2>1 DEF Additive
<1> DEFINE Good == {n \in 0 .. N : \A U \in SUBSET S :
                      Cardinality(U) = n => SumOf(g, U) = SumOf(h, U)}
<1>5. 0 \in Good
  BY <1>2, <1>3, <1>4, FS_EmptySet
<1>6. ASSUME NEW n \in 1 .. N, n - 1 \in Good PROVE n \in Good
  <2>1. ASSUME NEW U \in SUBSET S, Cardinality(U) = n PROVE SumOf(g, U) = SumOf(h, U)
    <3>0. U # {}
      BY <1>2, <2>1, FS_EmptySet
    <3>1. PICK x \in U : TRUE
      BY <3>0
    <3>2. U \ {x} \in SUBSET S /\ Cardinality(U \ {x}) = n - 1
      BY <1>2, <2>1, FS_RemoveElement
    <3>3. SumOf(g, U \ {x}) = SumOf(h, U \ {x})
      BY <1>6, <3>2
    <3> QED
      BY <1>3, <1>4, <3>3
  <2> QED
    BY <2>1
<1>7. Good \in SUBSET (0 .. N)
  OBVIOUS
<1> HIDE DEF Good
<1>8. \A n \in 0 .. N : n \in Good
  BY <1>5, <1>6, <1>7, NumbersInduction
<1>9. Cardinality(S) \in Good
  BY <1>2, <1>8
<1> QED
  BY <1>9 DEF Good
-----------------------------------------------------------------------------
(* Recursion.  A recursive function is the run of its steps; there is one, *)
(* and it has the values that its equations give.                          *)

Run(f, S, v, step, n) ==
  /\ f \in [0 .. n -> S] /\ f[0] = v
  /\ \A i \in 1 .. n : f[i] = step[i][f[i - 1]]

LEMMA RunGoesOn ==
  ASSUME NEW N \in Nat, NEW S, NEW v \in S, NEW step \in [1 .. N -> [S -> S]],
         NEW n \in 1 .. N, NEW f, Run(f, S, v, step, n - 1)
  PROVE  \E g : Run(g, S, v, step, n)
<1> DEFINE g == [i \in 0 .. n |-> IF i = n THEN step[n][f[n - 1]] ELSE f[i]]
<1>1. f \in [0 .. n - 1 -> S] /\ n - 1 \in 0 .. n - 1
  BY DEF Run
<1>2. step[n][f[n - 1]] \in S
  BY <1>1
<1>3. /\ g \in [0 .. n -> S] /\ g[n] = step[n][f[n - 1]]
      /\ \A i \in 0 .. n - 1 : g[i] = f[i]
  BY <1>1, <1>2
<1> HIDE DEF g
<1>4. g[0] = v /\ \A i \in 1 .. n - 1 : g[i] = step[i][g[i - 1]]
  BY <1>3 DEF Run
<1>5. g[n] = step[n][g[n - 1]]
  BY <1>3
<1> QED
  BY <1>3, <1>4, <1>5 DEF Run

LEMMA RunExists ==
  ASSUME NEW N \in Nat, NEW S, NEW v \in S, NEW step \in [1 .. N -> [S -> S]]
  PROVE  \E f : Run(f, S, v, step, N)
<1> DEFINE Good == {n \in 0 .. N : \E f : Run(f, S, v, step, n)}
<1>1. 0 \in Good
  <2>1. Run([i \in 0 .. 0 |-> v], S, v, step, 0)
    BY DEF Run
  <2> QED
    BY <2>1
<1>2. \A n \in 1 .. N : n - 1 \in Good => n \in Good
  BY RunGoesOn
<1>3. Good \in SUBSET (0 .. N)
  OBVIOUS
<1> HIDE DEF Good
<1>4. \A n \in 0 .. N : n \in Good
  BY <1>1, <1>2, <1>3, NumbersInduction
<1> QED
  BY <1>4 DEF Good

-----------------------------------------------------------------------------
(* Lists.                                                                  *)

(* What is left of a list is built file by file.                           *)
Builds(f, E, fs, S) ==
  /\ f \in [0 .. Len(fs) -> Seq(E)] /\ f[0] = <<>>
  /\ \A n \in 1 .. Len(fs) :
       f[n] = IF fs[n] \in S THEN f[n - 1] ELSE Append(f[n - 1], fs[n])
  /\ Without(fs, S) = f[Len(fs)]

LEMMA WithoutSteps ==
  ASSUME NEW E, NEW fs \in Seq(E), NEW S
  PROVE  \E f : Builds(f, E, fs, S)
<1> DEFINE Is(f) == f = [n \in 0 .. Len(fs) |->
              IF n = 0 THEN <<>>
              ELSE IF fs[n] \in S THEN f[n - 1] ELSE Append(f[n - 1], fs[n])]
           step == [n \in 1 .. Len(fs) |-> [q \in Seq(E) |->
                      IF fs[n] \in S THEN q ELSE Append(q, fs[n])]]
<1>0. Len(fs) \in Nat /\ <<>> \in Seq(E) /\ \A n \in 1 .. Len(fs) : fs[n] \in E
  BY LenProperties, EmptySeq, ElementOfSeq
<1>1. \A n \in 1 .. Len(fs) : \A q \in Seq(E) : Append(q, fs[n]) \in Seq(E)
  BY <1>0, AppendProperties
<1>2. step \in [1 .. Len(fs) -> [Seq(E) -> Seq(E)]]
  BY <1>1
<1>3. PICK g : Run(g, Seq(E), <<>>, step, Len(fs))
  <2> HIDE DEF step
  <2> QED
    BY <1>0, <1>2, RunExists
<1>4. Is(g)
  <2>1. g = [n \in 0 .. Len(fs) |-> g[n]]
    BY <1>3 DEF Run
  <2>2. ASSUME NEW n \in 0 .. Len(fs), n # 0
        PROVE  g[n] = IF fs[n] \in S THEN g[n - 1] ELSE Append(g[n - 1], fs[n])
    <3>1. n \in 1 .. Len(fs) /\ n - 1 \in 0 .. Len(fs)
      BY <1>0, <2>2
    <3>2. g[n] = step[n][g[n - 1]] /\ g[n - 1] \in Seq(E)
      BY <1>3, <3>1 DEF Run
    <3> QED
      BY <3>1, <3>2
  <2> QED
    BY <1>3, <2>1, <2>2 DEF Run
<1> DEFINE f == CHOOSE h : Is(h)
<1>5. Is(f) /\ Without(fs, S) = f[Len(fs)]
  BY <1>4 DEF Without
<1> HIDE DEF f
<1>8. /\ f[0] = <<>>
      /\ \A n \in 1 .. Len(fs) :
           f[n] = IF fs[n] \in S THEN f[n - 1] ELSE Append(f[n - 1], fs[n])
  <2>1. f[0] = <<>>
    BY <1>0, <1>5
  <2>2. ASSUME NEW n \in 1 .. Len(fs)
        PROVE  f[n] = IF fs[n] \in S THEN f[n - 1] ELSE Append(f[n - 1], fs[n])
    <3>1. n \in 0 .. Len(fs) /\ n # 0
      BY <1>0
    <3> QED
      BY <1>5, <3>1
  <2> QED
    BY <2>1, <2>2
<1>6. \A n \in 0 .. Len(fs) : f[n] \in Seq(E)
  <2> DEFINE Good == {n \in 0 .. Len(fs) : f[n] \in Seq(E)}
  <2>1. 0 \in Good
    <3>1. f[0] \in Seq(E)
      BY <1>0, <1>8, Zenon
    <3> QED
      BY <1>0, <3>1
  <2>2. ASSUME NEW n \in 1 .. Len(fs), n - 1 \in Good
        PROVE  n \in Good
    <3>1. f[n] \in Seq(E)
      BY <1>1, <1>8, <2>2
    <3> QED
      BY <1>0, <3>1
  <2>3. Good \in SUBSET (0 .. Len(fs))
    OBVIOUS
  <2> HIDE DEF Good
  <2>4. \A n \in 0 .. Len(fs) : n \in Good
    BY <1>0, <2>1, <2>2, <2>3, NumbersInduction
  <2> QED
    BY <2>4 DEF Good
<1>7. f \in [0 .. Len(fs) -> Seq(E)]
  BY <1>5, <1>6
<1>9. Builds(f, E, fs, S)
  BY <1>5, <1>7, <1>8 DEF Builds
<1> QED
  BY <1>9

(* The i-th file that is left stood at h[i]: the order is that of the      *)
(* list, and every file of it that is not in S is there.                   *)
Picks(h, W, fs, S, n) ==
  /\ h \in [1 .. Len(W) -> 1 .. n]
  /\ \A i, j \in 1 .. Len(W) : i < j => h[i] < h[j]
  /\ \A i \in 1 .. Len(W) : W[i] = fs[h[i]] /\ fs[h[i]] \notin S
  /\ \A j \in 1 .. n : fs[j] \notin S => \E i \in 1 .. Len(W) : h[i] = j

LEMMA PicksOneMore ==
  ASSUME NEW E, NEW fs \in Seq(E), NEW S, NEW n \in 1 .. Len(fs), NEW W \in Seq(E),
         NEW h, Picks(h, W, fs, S, n - 1), fs[n] \notin S
  PROVE  \E g : Picks(g, Append(W, fs[n]), fs, S, n)
<1> DEFINE V == Append(W, fs[n])
           g == [i \in 1 .. Len(W) + 1 |-> IF i = Len(W) + 1 THEN n ELSE h[i]]
<1>1. Len(W) \in Nat /\ Len(fs) \in Nat /\ fs[n] \in E
  BY LenProperties, ElementOfSeq
<1>2. /\ Len(V) = Len(W) + 1 /\ V[Len(W) + 1] = fs[n]
      /\ \A i \in 1 .. Len(W) : V[i] = W[i]
  BY <1>1, AppendProperties
<1> HIDE DEF V
<1>3. /\ \A i \in 1 .. Len(W) : h[i] \in 1 .. n - 1 /\ h[i] \in 1 .. n /\ h[i] < n
      /\ \A i \in 1 .. Len(W) + 1 : i \in 1 .. Len(W) \/ i = Len(W) + 1
      /\ \A i \in 1 .. Len(W) : i \in 1 .. Len(W) + 1 /\ i # Len(W) + 1
      /\ Len(W) + 1 \in 1 .. Len(W) + 1 /\ n \in 1 .. n
  <2>1. h \in [1 .. Len(W) -> 1 .. n - 1] /\ n \in Nat
    BY <1>1 DEF Picks
  <2>2. \A i \in 1 .. n - 1 : i \in 1 .. n /\ i < n
    BY <2>1
  <2>3. \A i \in 1 .. Len(W) : h[i] \in 1 .. n - 1 /\ h[i] \in 1 .. n /\ h[i] < n
    BY <2>1, <2>2
  <2>4. n \in 1 .. n
    BY <1>1
  <2> QED
    BY <1>1, <2>3, <2>4
<1>4. /\ g \in [1 .. Len(W) + 1 -> 1 .. n] /\ g[Len(W) + 1] = n
      /\ \A i \in 1 .. Len(W) : g[i] = h[i]
  BY <1>3
<1> HIDE DEF g
<1>5. ASSUME NEW i \in 1 .. Len(W) + 1, NEW j \in 1 .. Len(W) + 1, i < j
      PROVE  g[i] < g[j]
  <2>1. i \in 1 .. Len(W)
    BY <1>1, <1>5
  <2>2. CASE j = Len(W) + 1
    BY <1>3, <1>4, <2>1, <2>2
  <2>3. CASE j \in 1 .. Len(W)
    BY <1>4, <1>5, <2>1, <2>3 DEF Picks
  <2> QED
    BY <1>3, <2>2, <2>3
<1>6. ASSUME NEW i \in 1 .. Len(W) + 1
      PROVE  V[i] = fs[g[i]] /\ fs[g[i]] \notin S
  BY <1>2, <1>3, <1>4 DEF Picks
<1>7. ASSUME NEW j \in 1 .. n, fs[j] \notin S
      PROVE  \E i \in 1 .. Len(W) + 1 : g[i] = j
  <2>1. CASE j = n
    BY <1>3, <1>4, <2>1
  <2>2. CASE j # n
    <3>1. j \in 1 .. n - 1
      BY <2>2
    <3>2. PICK i \in 1 .. Len(W) : h[i] = j
      BY <1>7, <3>1 DEF Picks
    <3> QED
      BY <1>3, <1>4, <3>2
  <2> QED
    BY <2>1, <2>2
<1>8. Picks(g, V, fs, S, n)
  BY <1>2, <1>4, <1>5, <1>6, <1>7 DEF Picks
<1> QED
  BY <1>8 DEF V

LEMMA WithoutPicks ==
  ASSUME NEW E, NEW fs \in Seq(E), NEW S
  PROVE  /\ Without(fs, S) \in Seq(E)
         /\ \E h : Picks(h, Without(fs, S), fs, S, Len(fs))
<1>0. Len(fs) \in Nat
  BY LenProperties
<1>10. PICK f : Builds(f, E, fs, S)
  BY WithoutSteps
<1>1. /\ f \in [0 .. Len(fs) -> Seq(E)] /\ f[0] = <<>>
      /\ \A n \in 1 .. Len(fs) :
           f[n] = IF fs[n] \in S THEN f[n - 1] ELSE Append(f[n - 1], fs[n])
      /\ Without(fs, S) = f[Len(fs)]
  BY <1>10 DEF Builds
<1> DEFINE Good == {n \in 0 .. Len(fs) : \E h : Picks(h, f[n], fs, S, n)}
<1>2. 0 \in Good
  <2>1. Len(f[0]) = 0
    BY <1>1, EmptySeq
  <2>2. Picks([i \in {} |-> 0], f[0], fs, S, 0)
    <3>1. 1 .. Len(f[0]) = {} /\ 1 .. 0 = {}
      BY <2>1
    <3> QED
      BY <3>1 DEF Picks
  <2>3. 0 \in 0 .. Len(fs)
    BY <1>0
  <2> QED
    BY <2>2, <2>3
<1>3. ASSUME NEW n \in 1 .. Len(fs), n - 1 \in Good PROVE n \in Good
  <2>1. PICK h : Picks(h, f[n - 1], fs, S, n - 1)
    BY <1>3
  <2>0. n \in 0 .. Len(fs) /\ n - 1 \in 0 .. Len(fs)
    BY <1>0
  <2>2. n \in 0 .. Len(fs) /\ n - 1 \in 0 .. Len(fs) /\ f[n - 1] \in Seq(E)
    BY <1>1, <2>0
  <2>3. CASE fs[n] \in S
    <3>1. f[n] = f[n - 1]
      BY <1>1, <2>3
    <3>2. Picks(h, f[n - 1], fs, S, n)
      <4>1. \A j \in 1 .. n : fs[j] \notin S => j \in 1 .. n - 1
        BY <2>3
      <4>2. \A j \in 1 .. n - 1 : j \in 1 .. n
        OBVIOUS
      <4>3. h \in [1 .. Len(f[n - 1]) -> 1 .. n]
        BY <2>1, <4>2 DEF Picks
      <4> QED
        BY <2>1, <4>1, <4>3 DEF Picks
    <3> QED
      BY <2>2, <3>1, <3>2
  <2>4. CASE fs[n] \notin S
    <3>1. f[n] = Append(f[n - 1], fs[n])
      BY <1>1, <2>4
    <3>2. \E g : Picks(g, Append(f[n - 1], fs[n]), fs, S, n)
      BY <2>1, <2>2, <2>4, PicksOneMore
    <3> QED
      BY <2>2, <3>1, <3>2
  <2> QED
    BY <2>3, <2>4
<1>4. Good \in SUBSET (0 .. Len(fs))
  OBVIOUS
<1> HIDE DEF Good
<1>8. \A n \in 0 .. Len(fs) : n \in Good
  BY <1>0, <1>2, <1>3, <1>4, NumbersInduction
<1>5. Len(fs) \in Good
  BY <1>0, <1>8
<1>6. \E h : Picks(h, f[Len(fs)], fs, S, Len(fs))
  BY <1>5 DEF Good
<1>7. f[Len(fs)] \in Seq(E)
  BY <1>0, <1>1
<1> QED
  BY <1>1, <1>6, <1>7

-----------------------------------------------------------------------------
(* Of a list without repetitions.                                          *)

Distinct(q) == \A i, j \in 1 .. Len(q) : i # j => q[i] # q[j]

(* g comes before f in the list q.                                         *)
Before(q, g, f) == \E i, j \in 1 .. Len(q) : i < j /\ q[i] = g /\ q[j] = f

LEMMA WithoutIs ==
  ASSUME NEW E, NEW fs \in Seq(E), NEW S
  PROVE  /\ Without(fs, S) \in Seq(E)
         /\ ToSet(Without(fs, S)) = ToSet(fs) \ S
         /\ Distinct(fs) => Distinct(Without(fs, S))
         /\ \A g, f : Before(Without(fs, S), g, f) <=> Before(fs, g, f) /\ g \notin S /\ f \notin S
<1> DEFINE W == Without(fs, S)
<1>1. PICK h : Picks(h, W, fs, S, Len(fs))
  BY WithoutPicks
<1>2. W \in Seq(E) /\ Len(W) \in Nat /\ Len(fs) \in Nat
  BY WithoutPicks, LenProperties
<1> HIDE DEF W
<1>3. DOMAIN W = 1 .. Len(W) /\ DOMAIN fs = 1 .. Len(fs)
  BY <1>2, LenProperties
<1>4. ToSet(W) = ToSet(fs) \ S
  <2>1. ASSUME NEW x \in ToSet(W) PROVE x \in ToSet(fs) \ S
    BY <1>1, <1>3, <2>1 DEF ToSet, Picks
  <2>2. ASSUME NEW x \in ToSet(fs) \ S PROVE x \in ToSet(W)
    BY <1>1, <1>3, <2>2 DEF ToSet, Picks
  <2> QED
    BY <2>1, <2>2
<1>5. Distinct(fs) => Distinct(W)
  <2>1. ASSUME Distinct(fs), NEW i \in 1 .. Len(W), NEW j \in 1 .. Len(W), i # j
        PROVE  W[i] # W[j]
    <3>1. h[i] \in 1 .. Len(fs) /\ h[j] \in 1 .. Len(fs)
      BY <1>1 DEF Picks
    <3>2. h[i] # h[j]
      <4>1. i < j \/ j < i
        BY <1>2, <2>1
      <4> QED
        BY <1>1, <3>1, <4>1 DEF Picks
    <3> QED
      BY <1>1, <2>1, <3>1, <3>2 DEF Picks, Distinct
  <2> QED
    BY <2>1 DEF Distinct
<1>6. ASSUME NEW g, NEW f, Before(W, g, f)
      PROVE  Before(fs, g, f) /\ g \notin S /\ f \notin S
  <2>1. PICK i \in 1 .. Len(W), j \in 1 .. Len(W) : i < j /\ W[i] = g /\ W[j] = f
    BY <1>6 DEF Before
  <2>2. /\ h[i] \in 1 .. Len(fs) /\ h[j] \in 1 .. Len(fs) /\ h[i] < h[j]
        /\ fs[h[i]] = g /\ fs[h[j]] = f /\ g \notin S /\ f \notin S
    BY <1>1, <2>1 DEF Picks
  <2> QED
    BY <2>2 DEF Before
<1>7. ASSUME NEW g, NEW f, Before(fs, g, f), g \notin S, f \notin S
      PROVE  Before(W, g, f)
  <2>1. PICK i \in 1 .. Len(fs), j \in 1 .. Len(fs) : i < j /\ fs[i] = g /\ fs[j] = f
    BY <1>7 DEF Before
  <2>2. PICK p \in 1 .. Len(W) : h[p] = i
    BY <1>1, <1>7, <2>1 DEF Picks
  <2>3. PICK q \in 1 .. Len(W) : h[q] = j
    BY <1>1, <1>7, <2>1 DEF Picks
  <2>4. p < q
    <3>1. ~(q < p)
      BY <1>1, <2>1, <2>2, <2>3 DEF Picks
    <3>2. p # q
      BY <2>1, <2>2, <2>3
    <3> QED
      BY <1>2, <3>1, <3>2
  <2>5. W[p] = g /\ W[q] = f
    BY <1>1, <2>1, <2>2, <2>3 DEF Picks
  <2> QED
    BY <2>4, <2>5 DEF Before
<1> QED
  BY <1>2, <1>4, <1>5, <1>6, <1>7 DEF W

LEMMA WithoutNothing ==
  ASSUME NEW E, NEW fs \in Seq(E), NEW x, x \notin ToSet(fs)
  PROVE  Without(fs, {x}) = fs
<1> DEFINE W == Without(fs, {x})
<1>1. PICK f : Builds(f, E, fs, {x})
  BY WithoutSteps
<1>2. /\ Len(fs) \in Nat /\ DOMAIN fs = 1 .. Len(fs)
      /\ \A n \in 1 .. Len(fs) : fs[n] \in E /\ fs[n] # x
  BY LenProperties, ElementOfSeq DEF ToSet
<1>3. /\ f[0] = <<>> /\ f \in [0 .. Len(fs) -> Seq(E)] /\ W = f[Len(fs)]
      /\ \A n \in 1 .. Len(fs) : f[n] = Append(f[n - 1], fs[n])
  BY <1>1, <1>2 DEF Builds
<1> DEFINE Good == {n \in 0 .. Len(fs) :
                      Len(f[n]) = n /\ \A i \in 1 .. n : f[n][i] = fs[i]}
<1>4. 0 \in Good
  BY <1>2, <1>3, EmptySeq
<1>5. ASSUME NEW n \in 1 .. Len(fs), n - 1 \in Good PROVE n \in Good
  <2>5. n \in 0 .. Len(fs) /\ n - 1 \in 0 .. Len(fs) /\ f[n - 1] \in Seq(E)
    <3>1. n \in 0 .. Len(fs) /\ n - 1 \in 0 .. Len(fs)
      BY <1>2
    <3> QED
      BY <1>3, <3>1
  <2>1. /\ n \in 0 .. Len(fs) /\ f[n - 1] \in Seq(E)
        /\ Len(f[n - 1]) = n - 1 /\ \A i \in 1 .. n - 1 : f[n - 1][i] = fs[i]
    BY <1>5, <2>5, Zenon
  <2>2. f[n] = Append(f[n - 1], fs[n]) /\ fs[n] \in E
    BY <1>2, <1>3
  <2>3. /\ Len(f[n]) = n /\ f[n][n] = fs[n]
        /\ \A i \in 1 .. n - 1 : f[n][i] = f[n - 1][i]
    <3>1. /\ Len(Append(f[n - 1], fs[n])) = Len(f[n - 1]) + 1
          /\ Append(f[n - 1], fs[n])[Len(f[n - 1]) + 1] = fs[n]
          /\ \A i \in 1 .. Len(f[n - 1]) : Append(f[n - 1], fs[n])[i] = f[n - 1][i]
      BY <2>1, <2>2, AppendProperties
    <3> QED
      BY <1>2, <2>1, <2>2, <3>1
  <2>4. \A i \in 1 .. n : i = n \/ i \in 1 .. n - 1
    BY <1>2
  <2> QED
    BY <2>1, <2>3, <2>4
<1>6. Good \in SUBSET (0 .. Len(fs))
  OBVIOUS
<1> HIDE DEF Good
<1>7. \A n \in 0 .. Len(fs) : n \in Good
  BY <1>2, <1>4, <1>5, <1>6, NumbersInduction
<1>8. Len(W) = Len(fs) /\ \A i \in 1 .. Len(fs) : W[i] = fs[i]
  <2>1. Len(fs) \in Good
    BY <1>2, <1>7
  <2>2. Len(f[Len(fs)]) = Len(fs) /\ \A i \in 1 .. Len(fs) : f[Len(fs)][i] = fs[i]
    BY <2>1, Zenon DEF Good
  <2> HIDE DEF W
  <2> QED
    BY <1>3, <2>2, Zenon
<1>9. W \in Seq(E)
  BY <1>2, <1>3
<1> HIDE DEF W
<1>10. W = fs
  BY <1>8, <1>9, SeqEqual
<1> QED
  BY <1>10 DEF W

LEMMA AppendIs ==
  ASSUME NEW E, NEW fs \in Seq(E), NEW x \in E
  PROVE  /\ Append(fs, x) \in Seq(E)
         /\ ToSet(Append(fs, x)) = ToSet(fs) \cup {x}
         /\ Distinct(fs) /\ x \notin ToSet(fs) => Distinct(Append(fs, x))
         /\ \A g, f : Before(Append(fs, x), g, f) <=> Before(fs, g, f) \/ (g \in ToSet(fs) /\ f = x)
<1> DEFINE A == Append(fs, x)
<1>1. /\ A \in Seq(E) /\ Len(A) = Len(fs) + 1 /\ A[Len(fs) + 1] = x
      /\ \A i \in 1 .. Len(fs) : A[i] = fs[i]
  BY AppendProperties
<1>2. Len(fs) \in Nat /\ DOMAIN fs = 1 .. Len(fs) /\ DOMAIN A = 1 .. Len(A)
  BY <1>1, LenProperties
<1> HIDE DEF A
<1>3. /\ \A i \in 1 .. Len(A) : i \in 1 .. Len(fs) \/ i = Len(fs) + 1
      /\ \A i \in 1 .. Len(fs) : i \in 1 .. Len(A) /\ i < Len(fs) + 1
      /\ Len(fs) + 1 \in 1 .. Len(A)
  BY <1>1, <1>2
<1>4. ToSet(A) = ToSet(fs) \cup {x}
  <2>1. ASSUME NEW y \in ToSet(A) PROVE y \in ToSet(fs) \cup {x}
    BY <1>1, <1>2, <1>3, <2>1 DEF ToSet
  <2>2. ASSUME NEW y \in ToSet(fs) \cup {x} PROVE y \in ToSet(A)
    BY <1>1, <1>2, <1>3, <2>2 DEF ToSet
  <2> QED
    BY <2>1, <2>2
<1>5. Distinct(fs) /\ x \notin ToSet(fs) => Distinct(A)
  BY <1>1, <1>2, <1>3 DEF Distinct, ToSet
<1>6. ASSUME NEW g, NEW f, Before(A, g, f)
      PROVE  Before(fs, g, f) \/ (g \in ToSet(fs) /\ f = x)
  <2>1. PICK i \in 1 .. Len(A), j \in 1 .. Len(A) : i < j /\ A[i] = g /\ A[j] = f
    BY <1>6 DEF Before
  <2>2. i \in 1 .. Len(fs)
    BY <1>1, <1>2, <2>1
  <2> QED
    BY <1>1, <1>2, <1>3, <2>1, <2>2 DEF Before, ToSet
<1>7. ASSUME NEW g, NEW f, Before(fs, g, f) PROVE Before(A, g, f)
  BY <1>1, <1>3, <1>7 DEF Before
<1>8. ASSUME NEW g \in ToSet(fs) PROVE Before(A, g, x)
  BY <1>1, <1>2, <1>3, <1>8 DEF Before, ToSet
<1> QED
  BY <1>1, <1>4, <1>5, <1>6, <1>7, <1>8 DEF A

LEMMA TailIs ==
  ASSUME NEW E, NEW fs \in Seq(E), fs # <<>>, Distinct(fs)
  PROVE  /\ fs[1] \in ToSet(fs) /\ Tail(fs) \in Seq(E)
         /\ ToSet(Tail(fs)) = ToSet(fs) \ {fs[1]}
         /\ Distinct(Tail(fs))
         /\ \A g : ~Before(fs, g, fs[1])
         /\ \A g, f : Before(fs, g, f) /\ g # fs[1] => Before(Tail(fs), g, f)
<1> DEFINE A == Tail(fs)
<1>1. /\ A \in Seq(E) /\ Len(A) = Len(fs) - 1 /\ Len(fs) \in Nat /\ Len(fs) # 0
      /\ \A i \in 1 .. Len(A) : A[i] = fs[i + 1]
  BY EmptySeq, LenProperties, HeadTailProperties
<1>2. DOMAIN fs = 1 .. Len(fs) /\ DOMAIN A = 1 .. Len(A)
  BY <1>1, LenProperties
<1> HIDE DEF A
<1>3. /\ \A i \in 1 .. Len(A) : i + 1 \in 1 .. Len(fs) /\ i + 1 # 1
      /\ \A i \in 1 .. Len(fs) : i = 1 \/ (i - 1 \in 1 .. Len(A) /\ i - 1 + 1 = i)
      /\ 1 \in 1 .. Len(fs)
  BY <1>1
<1>4. ToSet(A) = ToSet(fs) \ {fs[1]}
  <2>1. ASSUME NEW y \in ToSet(A) PROVE y \in ToSet(fs) \ {fs[1]}
    BY <1>1, <1>2, <1>3, <2>1 DEF ToSet, Distinct
  <2>2. ASSUME NEW y \in ToSet(fs), y # fs[1] PROVE y \in ToSet(A)
    <3>1. PICK i \in 1 .. Len(fs) : fs[i] = y
      BY <1>2 DEF ToSet
    <3>2. i - 1 \in 1 .. Len(A) /\ i - 1 + 1 = i
      BY <1>3, <2>2, <3>1
    <3> QED
      BY <1>1, <1>2, <3>1, <3>2 DEF ToSet
  <2> QED
    BY <2>1, <2>2
<1>5. Distinct(A)
  <2>1. ASSUME NEW i \in 1 .. Len(A), NEW j \in 1 .. Len(A), i # j PROVE A[i] # A[j]
    <3>1. i + 1 # j + 1
      BY <1>1, <2>1
    <3> QED
      BY <1>1, <1>3, <3>1 DEF Distinct
  <2> QED
    BY <2>1 DEF Distinct
<1>6. ASSUME NEW g PROVE ~Before(fs, g, fs[1])
  <2>1. ASSUME NEW i \in 1 .. Len(fs), NEW j \in 1 .. Len(fs), i < j, fs[j] = fs[1] PROVE FALSE
    <3>1. j # 1
      BY <1>1, <2>1
    <3> QED
      BY <1>3, <2>1, <3>1 DEF Distinct
  <2> QED
    BY <2>1 DEF Before
<1>7. ASSUME NEW g, NEW f, Before(fs, g, f), g # fs[1] PROVE Before(A, g, f)
  <2>1. PICK i \in 1 .. Len(fs), j \in 1 .. Len(fs) : i < j /\ fs[i] = g /\ fs[j] = f
    BY <1>7 DEF Before
  <2>2. i # 1 /\ j # 1
    BY <1>1, <1>7, <2>1
  <2>3. i - 1 \in 1 .. Len(A) /\ j - 1 \in 1 .. Len(A) /\ i - 1 < j - 1
    BY <1>1, <1>3, <2>1, <2>2
  <2>4. A[i - 1] = g /\ A[j - 1] = f
    BY <1>1, <1>3, <2>1, <2>2, <2>3
  <2> QED
    BY <2>3, <2>4 DEF Before
<1>8. fs[1] \in ToSet(fs)
  BY <1>2, <1>3 DEF ToSet
<1> QED
  BY <1>1, <1>4, <1>5, <1>6, <1>7, <1>8 DEF A
-----------------------------------------------------------------------------
(* The greatest of finitely many numbers.                                  *)

HasGreatest(A) == \E m \in A : \A x \in A : x <= m

LEMMA GreatestExists ==
  ASSUME NEW S \in SUBSET Nat, IsFiniteSet(S), S # {}
  PROVE  HasGreatest(S)
<1> DEFINE Wrong(A) == A # {} /\ ~HasGreatest(A)
           Bad == {Cardinality(A) : A \in {B \in SUBSET S : Wrong(B)}}
<1>1. \A A \in SUBSET S : IsFiniteSet(A) /\ Cardinality(A) \in Nat
  BY FS_Subset, FS_CardinalityType
<1> SUFFICES ASSUME Wrong(S) PROVE FALSE
  OBVIOUS
<1>2. Bad \in SUBSET Nat /\ Bad # {}
  BY <1>1
<1>3. PICK m \in Bad : \A o \in Bad : m <= o
  <2> HIDE DEF Bad
  <2> QED
    BY <1>2, LeastNatural
<1>4. PICK A \in SUBSET S : Wrong(A) /\ Cardinality(A) = m
  BY <1>3
<1>5. PICK x \in A : TRUE
  BY <1>4
<1>6. A \ {x} \in SUBSET S /\ Cardinality(A \ {x}) = m - 1 /\ m \in Nat
  BY <1>1, <1>4, <1>5, FS_RemoveElement
<1>7. ~Wrong(A \ {x})
  <2>1. ASSUME Wrong(A \ {x}) PROVE m <= m - 1
    BY <1>3, <1>6, <2>1
  <2> QED
    BY <1>6, <2>1
<1>8. CASE A \ {x} = {}
  <2>1. \A y \in A : y <= x
    BY <1>8
  <2> QED
    BY <1>4, <1>5, <2>1 DEF HasGreatest
<1>9. CASE A \ {x} # {}
  <2>1. PICK y \in A \ {x} : \A z \in A \ {x} : z <= y
    BY <1>7, <1>9 DEF HasGreatest
  <2>2. x \in Nat /\ y \in Nat /\ \A z \in A : z \in Nat
    BY <1>5
  <2>3. CASE x <= y
    BY <1>4, <2>1, <2>2, <2>3 DEF HasGreatest
  <2>4. CASE y <= x
    BY <1>4, <1>5, <2>1, <2>2, <2>4 DEF HasGreatest
  <2> QED
    BY <2>2, <2>3, <2>4
<1> QED
  BY <1>8, <1>9

LEMMA MaxIs ==
  ASSUME NEW S \in SUBSET Nat, IsFiniteSet(S), S # {}
  PROVE  Max(S) \in S /\ Max(S) \in Nat /\ \A x \in S : x <= Max(S)
<1>1. \E m \in S : \A x \in S : m >= x
  <2>1. PICK m \in S : \A x \in S : x <= m
    BY GreatestExists DEF HasGreatest
  <2> QED
    BY <2>1
<1>2. Max(S) \in S /\ \A x \in S : Max(S) >= x
  BY <1>1 DEF Max
<1> QED
  BY <1>2

-----------------------------------------------------------------------------
(* The inductive invariant of the types.                                   *)

Making == {c \in Copiers : stage[c] \in {"query", "delete"}}

(* A file can still be made for each copy that has begun.                  *)
MadeInv == made + Cardinality(Making) <= MaxFiles

(* What a copy knows at each of its stages.                                *)
CopyInv == videos \in [Copiers -> Seq(Files)] /\
  \A c \in Copiers :
    /\ Distinct(videos[c])
    /\ c \in Making => limit[c] \in Limits /\ new[c] \in Sizes
    /\ stage[c] = "write" => limit[c] \in Limits /\ new[c] \in writing
    /\ stage[c] # "delete" => videos[c] = <<>> /\ totalSize[c] = 0

(* Each file has one writer; in writing without one are only those that a  *)
(* failure left pending in MediaStore.                                     *)
AlbumInv ==
  /\ album \in Seq(Files) /\ Distinct(album) /\ writing \subseteq 1 .. made
  /\ \A c, d \in Copiers : stage[c] = "write" /\ stage[d] = "write" /\ new[c] = new[d] => c = d
  /\ legacy \/ failures = 0 =>
       \A f \in writing : \E c \in Copiers : stage[c] = "write" /\ new[c] = f

(* In MediaStore the total is that of the files still on the list, and of  *)
(* those whose deletion has failed.                                        *)
ListInv == ~legacy =>
  \A c \in Copiers : stage[c] = "delete" =>
    /\ ToSet(videos[c]) \cap writing = {}
    /\ totalSize[c] >= SumOf(size, ToSet(videos[c]))
    /\ failures = 0 => totalSize[c] = SumOf(size, ToSet(videos[c]))

IInv == TypeOK /\ MadeInv /\ CopyInv /\ AlbumInv /\ ListInv

LEMMA Bounds ==
  /\ MaxFiles \in Nat /\ MaxFailures \in Nat /\ Sizes \cup {0} \subseteq Nat
  /\ Limits \subseteq Nat /\ 0 \in Sizes \cup {0}
BY GalleryAssumption

LEMMA LargestIs == Largest \in Nat /\ \A s \in Sizes : s <= Largest
BY GalleryAssumption, MaxIs DEF Largest

(* Facts about the sums of the files' sizes.                               *)
Sized == [Files -> Sizes \cup {0}]

LEMMA SizesCount ==
  ASSUME NEW g \in Sized
  PROVE  Counts(g, MaxFiles)
<1>1. \A f \in Files : g[f] \in Nat
  BY Bounds DEF Sized
<1> QED
  BY <1>1 DEF Counts, Files

LEMMA SizesSum ==
  ASSUME NEW g \in Sized
  PROVE  /\ SumOf(g, {}) = 0
         /\ \A S \in SUBSET Files :
              /\ SumOf(g, S) \in Nat
              /\ \A x \in S : g[x] \in Nat /\ SumOf(g, S) = g[x] + SumOf(g, S \ {x})
<1>1. Additive(g, MaxFiles)
  BY Bounds, SizesCount, SumSteps
<1> QED
  BY <1>1, SizesCount DEF Additive, Files, Counts

LEMMA SizesAdd ==
  ASSUME NEW g \in Sized, NEW S \in SUBSET Files, NEW x \in Files, x \notin S
  PROVE  SumOf(g, S \cup {x}) = g[x] + SumOf(g, S) /\ SumOf(g, S) \in Nat /\ g[x] \in Nat
<1>1. S \cup {x} \in SUBSET Files /\ x \in S \cup {x} /\ (S \cup {x}) \ {x} = S
  OBVIOUS
<1>2. \A U \in SUBSET Files :
        SumOf(g, U) \in Nat /\ \A y \in U : g[y] \in Nat /\ SumOf(g, U) = g[y] + SumOf(g, U \ {y})
  BY SizesSum
<1>3. g[x] \in Nat /\ SumOf(g, S \cup {x}) = g[x] + SumOf(g, (S \cup {x}) \ {x})
  BY <1>1, <1>2
<1> QED
  BY <1>1, <1>2, <1>3

LEMMA SizesMonotone ==
  ASSUME NEW g \in Sized, NEW T \in SUBSET Files, NEW S \in SUBSET T
  PROVE  /\ SumOf(g, S) <= SumOf(g, T)
         /\ SumOf(g, T) <= SumOf(g, S) + Cardinality(T \ S) * Largest
<1>1. ASSUME NEW f \in 1 .. MaxFiles PROVE g[f] \in 0 .. Largest
  <2>1. g[f] \in Sizes \cup {0}
    BY DEF Sized, Files
  <2>2. \A x \in Sizes \cup {0} : x \in 0 .. Largest
    BY GalleryAssumption, LargestIs
  <2> QED
    BY <2>1, <2>2
<1> QED
  BY <1>1, Bounds, LargestIs, SumMore DEF Files

LEMMA SizesSame ==
  ASSUME NEW g \in Sized, NEW h \in Sized,
         NEW S \in SUBSET Files, \A f \in S : g[f] = h[f]
  PROVE  SumOf(g, S) = SumOf(h, S)
<1>1. Counts(g, MaxFiles) /\ Counts(h, MaxFiles)
  BY SizesCount
<1> QED
  BY <1>1, Bounds, SumSame DEF Files

LEMMA TotalIs == \A S : Total(S) = SumOf(size, S)
BY DEF Total, SumOf

LEMMA ListedIs ==
  ASSUME IInv
  PROVE  /\ Listed \in Seq(Files) /\ Distinct(Listed)
         /\ ToSet(Listed) = IF legacy THEN Present ELSE Present \ writing
         /\ \A g, f : Before(Listed, g, f) <=> Before(album, g, f) /\
                                             (legacy \/ (g \notin writing /\ f \notin writing))
<1>1. album \in Seq(Files) /\ Distinct(album) /\ Present = ToSet(album)
  BY DEF IInv, AlbumInv, Present
<1>2. CASE legacy
  BY <1>1, <1>2 DEF Listed
<1>3. CASE ~legacy
  <2>1. Listed = Without(album, writing)
    BY <1>3 DEF Listed
  <2> QED
    BY <1>1, <1>3, <2>1, WithoutIs
<1> QED
  BY <1>2, <1>3

LEMMA PrimedListed ==
  ASSUME IInv'
  PROVE  ToSet(Listed') = IF legacy' THEN Present' ELSE Present' \ writing'
<1>1. album' \in Seq(Files) /\ Present' = ToSet(album')
  BY DEF IInv, AlbumInv, Present
<1>2. Listed' = IF legacy' THEN album' ELSE Without(album', writing')
  BY DEF Listed, Without
<1> QED
  BY <1>1, <1>2, WithoutIs

-----------------------------------------------------------------------------
(* The types are kept.                                                     *)

LEMMA CopyBeginsKeeps ==
  ASSUME IInv, NEW c \in Copiers, CopyBegins(c)
  PROVE  IInv'
<1>0. /\ album' = album /\ writing' = writing /\ size' = size /\ made' = made
      /\ legacy' = legacy /\ failures' = failures /\ videos' = videos
      /\ totalSize' = totalSize /\ kept' = kept /\ late' = late
  BY DEF CopyBegins, albumVars
<1>1. PICK l \in Limits, s \in Sizes :
        limit' = [limit EXCEPT ![c] = l] /\ new' = [new EXCEPT ![c] = s]
  BY DEF CopyBegins
<1>2. stage[c] = "idle" /\ stage' = [stage EXCEPT ![c] = "query"]
  BY DEF CopyBegins
<1>3. TypeOK'
  <2>1. Present' = Present /\ s \in Nat
    BY <1>0, Bounds DEF Present
  <2>2. met' \in [Copiers -> BOOLEAN]
    BY DEF CopyBegins, IInv, TypeOK
  <2> QED
    BY <1>0, <1>1, <1>2, <2>1, <2>2 DEF IInv, TypeOK
<1>4. MadeInv'
  <2>1. IsFiniteSet(Copiers)
    BY GalleryAssumption
  <2>2. Making' = Making \cup {c} /\ c \notin Making
    BY <1>2 DEF Making, IInv, TypeOK
  <2>3. Making \in SUBSET Busy /\ IsFiniteSet(Busy) /\ IsFiniteSet(Making)
    BY <2>1, FS_Subset DEF Making, Busy
  <2>4. Cardinality(Making) <= Cardinality(Busy)
    BY <2>3, FS_Subset
  <2>5. Cardinality(Making \cup {c}) = Cardinality(Making) + 1
    BY <2>2, <2>3, FS_AddElement
  <2>6. Cardinality(Making) \in Nat /\ Cardinality(Busy) \in Nat /\ made \in Nat /\ MaxFiles \in Nat
    BY <2>3, Bounds, FS_CardinalityType DEF IInv, TypeOK
  <2>7. made + Cardinality(Busy) < MaxFiles
    BY DEF CopyBegins
  <2>8. made + Cardinality(Making') <= MaxFiles
    BY <2>2, <2>4, <2>5, <2>6, <2>7
  <2> QED
    BY <1>0, <2>8 DEF MadeInv
<1>5. CopyInv'
  BY <1>0, <1>1, <1>2 DEF IInv, TypeOK, CopyInv, Making
<1>6. AlbumInv'
  BY <1>0, <1>1, <1>2 DEF IInv, TypeOK, AlbumInv
<1>7. ListInv'
  BY <1>0, <1>2 DEF IInv, TypeOK, ListInv
<1> QED
  BY <1>3, <1>4, <1>5, <1>6, <1>7 DEF IInv

LEMMA PresentIs ==
  ASSUME TypeOK
  PROVE  /\ 1 .. made \subseteq Files /\ Present \subseteq 1 .. made /\ Present \subseteq Files
         /\ \A c \in Copiers : ToSet(videos[c]) \subseteq Files
<1>1. made \in 0 .. MaxFiles /\ MaxFiles \in Nat
  BY Bounds DEF TypeOK
<1>2. 1 .. made \subseteq Files
  BY <1>1 DEF Files
<1> QED
  BY <1>2 DEF TypeOK

LEMMA MakingFewer ==
  ASSUME IInv, made' = made, Making' \subseteq Making
  PROVE  MadeInv'
<1>1. IsFiniteSet(Making)
  BY GalleryAssumption, FS_Subset DEF Making
<1>2. IsFiniteSet(Making') /\ Cardinality(Making') <= Cardinality(Making)
  BY <1>1, FS_Subset
<1>3. Cardinality(Making) \in Nat /\ Cardinality(Making') \in Nat /\ made \in Nat /\ MaxFiles \in Nat
  BY <1>1, <1>2, Bounds, FS_CardinalityType DEF IInv, TypeOK
<1> QED
  BY <1>2, <1>3 DEF IInv, MadeInv

LEMMA QueryKeeps ==
  ASSUME IInv, NEW c \in Copiers, Query(c)
  PROVE  IInv'
<1>0. /\ album' = album /\ writing' = writing /\ size' = size /\ made' = made
      /\ legacy' = legacy /\ failures' = failures /\ kept' = kept
      /\ limit' = limit /\ new' = new /\ met' = met /\ late' = late \cup writing
  BY DEF Query, albumVars
<1>1. PICK empty \in SUBSET (ToSet(Listed) \cap writing) :
        totalSize' = [totalSize EXCEPT ![c] = SumOf(size, ToSet(Listed) \ empty)]
  BY TotalIs DEF Query
<1>2. /\ stage[c] = "query" /\ stage' = [stage EXCEPT ![c] = "delete"]
      /\ videos' = [videos EXCEPT ![c] = Listed]
  BY DEF Query
<1>3. size \in Sized /\ writing \subseteq Files
  BY DEF IInv, TypeOK, Sized
<1>4. /\ Listed \in Seq(Files) /\ Distinct(Listed) /\ ToSet(Listed) \subseteq Present
      /\ ~legacy => ToSet(Listed) \cap writing = {}
  BY ListedIs
<1>5. ToSet(Listed) \in SUBSET (1 .. made) /\ ToSet(Listed) \in SUBSET Files
  BY <1>4, PresentIs DEF IInv
<1>6. SumOf(size, ToSet(Listed) \ empty) \in Nat
  BY <1>3, <1>5, SizesSum
<1> HIDE DEF Listed
<1>7. TypeOK'
  <2>1. Present' = Present
    BY <1>0 DEF Present
  <2>2. ASSUME NEW d \in Copiers
        PROVE  ToSet(videos'[d]) \subseteq 1 .. made' /\ (~legacy' => totalSize'[d] >= 0)
    BY <1>0, <1>1, <1>2, <1>5, <1>6 DEF IInv, TypeOK
  <2>3. totalSize' \in [Copiers -> Int]
    BY <1>1, <1>6 DEF IInv, TypeOK
  <2>4. late' \subseteq Files /\ stage' \in [Copiers -> {"idle", "query", "delete", "write"}]
    BY <1>0, <1>2, <1>3 DEF IInv, TypeOK
  <2> QED
    BY <1>0, <2>1, <2>2, <2>3, <2>4 DEF IInv, TypeOK
<1>8. MadeInv'
  <2>1. Making' \subseteq Making
    BY <1>2 DEF Making, IInv, TypeOK
  <2> QED
    BY <1>0, <2>1, MakingFewer
<1>9. CopyInv'
  BY <1>0, <1>1, <1>2, <1>4 DEF IInv, TypeOK, CopyInv, Making
<1>10. AlbumInv'
  BY <1>0, <1>2 DEF IInv, TypeOK, AlbumInv
<1>11. ListInv'
  <2> SUFFICES ASSUME ~legacy, NEW d \in Copiers, stage'[d] = "delete"
               PROVE  /\ ToSet(videos'[d]) \cap writing' = {}
                      /\ totalSize'[d] >= SumOf(size', ToSet(videos'[d]))
                      /\ failures' = 0 => totalSize'[d] = SumOf(size', ToSet(videos'[d]))
    BY <1>0 DEF ListInv
  <2>1. CASE d = c
    <3>1. ToSet(Listed) \ empty = ToSet(Listed)
      BY <1>4
    <3>2. videos'[d] = Listed /\ totalSize'[d] = SumOf(size, ToSet(Listed))
      BY <1>1, <1>2, <2>1, <3>1 DEF IInv, TypeOK, CopyInv
    <3>3. ToSet(Listed) \cap writing = {} /\ SumOf(size, ToSet(Listed)) \in Nat
      BY <1>4, <1>6, <3>1
    <3> QED
      BY <1>0, <3>2, <3>3
  <2>2. CASE d # c
    BY <1>0, <1>1, <1>2, <2>2 DEF IInv, ListInv
  <2> QED
    BY <2>1, <2>2
<1> QED
  BY <1>7, <1>8, <1>9, <1>10, <1>11 DEF IInv

LEMMA FailCounts ==
  ASSUME TypeOK, Fail
  PROVE  failures' \in 0 .. MaxFailures /\ failures' # 0
<1>1. failures \in 0 .. MaxFailures /\ MaxFailures \in Nat
  BY Bounds DEF TypeOK
<1> QED
  BY <1>1 DEF Fail

LEMMA QueryFailsKeeps ==
  ASSUME IInv, NEW c \in Copiers, QueryFails(c)
  PROVE  IInv'
<1>0. /\ album' = album /\ writing' = writing /\ size' = size /\ made' = made
      /\ legacy' = legacy /\ limit' = limit /\ new' = new /\ met' = met /\ late' = late
      /\ videos' = videos /\ totalSize' = totalSize
      /\ kept' = [kept EXCEPT ![c] = ToSet(Listed)]
      /\ stage[c] = "query" /\ stage' = [stage EXCEPT ![c] = "delete"]
  BY DEF QueryFails, albumVars
<1>1. failures' \in 0 .. MaxFailures /\ failures' # 0
  BY FailCounts DEF QueryFails, IInv
<1>2. ToSet(Listed) \subseteq Files
  BY ListedIs, PresentIs DEF IInv
<1> HIDE DEF Listed
<1>3. TypeOK'
  <2>1. Present' = Present
    BY <1>0 DEF Present
  <2>2. kept' \in [Copiers -> SUBSET Files]
    BY <1>0, <1>2 DEF IInv, TypeOK
  <2> QED
    BY <1>0, <1>1, <2>1, <2>2 DEF IInv, TypeOK
<1>4. MadeInv'
  <2>1. Making' \subseteq Making
    BY <1>0 DEF Making, IInv, TypeOK
  <2> QED
    BY <1>0, <2>1, MakingFewer
<1>5. CopyInv'
  BY <1>0 DEF IInv, TypeOK, CopyInv, Making
<1>6. AlbumInv'
  <2>1. failures' # 0 /\ \A d \in Copiers : stage'[d] = "write" <=> stage[d] = "write"
    BY <1>0, <1>1 DEF IInv, TypeOK
  <2>2. failures = 0 \/ failures # 0
    OBVIOUS
  <2> QED
    BY <1>0, <2>1 DEF IInv, AlbumInv
<1>7. ListInv'
  <2>1. videos[c] = <<>> /\ totalSize[c] = 0
    BY <1>0 DEF IInv, CopyInv
  <2>2. ToSet(videos[c]) = {}
    BY <2>1 DEF ToSet
  <2>3. SumOf(size, {}) = 0
    BY SizesSum DEF IInv, TypeOK, Sized
  <2> SUFFICES ASSUME ~legacy, NEW d \in Copiers, stage'[d] = "delete"
               PROVE  /\ ToSet(videos'[d]) \cap writing' = {}
                      /\ totalSize'[d] >= SumOf(size', ToSet(videos'[d]))
    BY <1>0, <1>1 DEF ListInv
  <2>4. CASE d = c
    <3>1. ToSet(videos'[d]) = {} /\ totalSize'[d] = 0
      BY <1>0, <2>1, <2>2, <2>4
    <3>2. SumOf(size', ToSet(videos'[d])) = 0
      BY <1>0, <2>3, <3>1
    <3> QED
      BY <3>1, <3>2
  <2>5. CASE d # c
    <3>1. stage[d] = "delete"
      BY <1>0, <2>5 DEF IInv, TypeOK
    <3> QED
      BY <1>0, <3>1 DEF IInv, ListInv
  <2> QED
    BY <2>4, <2>5
<1> QED
  BY <1>3, <1>4, <1>5, <1>6, <1>7 DEF IInv

(* The first file of a list, and what is left after it.                    *)
LEMMA OldestIs ==
  ASSUME IInv, NEW c \in Copiers, videos[c] # <<>>
  PROVE  /\ Oldest(c) \in ToSet(videos[c]) /\ Oldest(c) \in 1 .. made /\ Oldest(c) \in Files
         /\ Tail(videos[c]) \in Seq(Files) /\ Distinct(Tail(videos[c]))
         /\ ToSet(Tail(videos[c])) = ToSet(videos[c]) \ {Oldest(c)}
         /\ size[Oldest(c)] \in Nat
         /\ SumOf(size, ToSet(videos[c]))
              = size[Oldest(c)] + SumOf(size, ToSet(Tail(videos[c])))
         /\ SumOf(size, ToSet(Tail(videos[c]))) \in Nat
         /\ \A g : ~Before(videos[c], g, Oldest(c))
         /\ \A g, f : Before(videos[c], g, f) /\ g # Oldest(c) => Before(Tail(videos[c]), g, f)
<1>1. videos[c] \in Seq(Files) /\ Distinct(videos[c])
  BY DEF IInv, CopyInv
<1>2. /\ Oldest(c) \in ToSet(videos[c])
      /\ Tail(videos[c]) \in Seq(Files) /\ Distinct(Tail(videos[c]))
      /\ ToSet(Tail(videos[c])) = ToSet(videos[c]) \ {Oldest(c)}
      /\ \A g : ~Before(videos[c], g, Oldest(c))
      /\ \A g, f : Before(videos[c], g, f) /\ g # Oldest(c) => Before(Tail(videos[c]), g, f)
  BY <1>1, TailIs DEF Oldest
<1>3. ToSet(videos[c]) \in SUBSET Files /\ ToSet(videos[c]) \subseteq 1 .. made
  BY PresentIs DEF IInv, TypeOK
<1>4. size \in Sized
  BY DEF IInv, TypeOK, Sized
<1> QED
  <2> DEFINE T == ToSet(videos[c])
             U == ToSet(Tail(videos[c]))
  <2>1. U = T \ {Oldest(c)} /\ Oldest(c) \in T /\ T \in SUBSET Files /\ U \in SUBSET Files
    BY <1>2, <1>3
  <2>2. Oldest(c) \in 1 .. made /\ Oldest(c) \in Files
    BY <1>2, <1>3
  <2> HIDE DEF T, U
  <2>3. /\ size[Oldest(c)] \in Nat /\ SumOf(size, U) \in Nat
        /\ SumOf(size, T) = size[Oldest(c)] + SumOf(size, U)
    BY <1>4, <2>1, <2>2, SizesSum
  <2> QED
    BY <1>2, <2>2, <2>3 DEF T, U

(* A deletion, whoever it is for.                                          *)
LEMMA DeleteOldestSteps ==
  ASSUME IInv, NEW c \in Copiers, DeleteOldest(c)
  PROVE  /\ stage[c] = "delete" /\ NeedsRoom(c) /\ videos[c] # <<>>
         /\ writing' = writing /\ size' = size /\ made' = made /\ stage' = stage
         /\ legacy' = legacy /\ failures' = failures /\ limit' = limit /\ new' = new
         /\ kept' = kept /\ met' = met /\ late' = late
         /\ videos' = [videos EXCEPT ![c] = Tail(videos[c])]
         /\ album' = Without(album, {Oldest(c)}) /\ Present' = Present \ {Oldest(c)}
         /\ album' \in Seq(Files) /\ Distinct(album')
         /\ \A g, f : Before(album', g, f) => Before(album, g, f)
         /\ \E freed \in {0, size[Oldest(c)]} :
              /\ totalSize' = [totalSize EXCEPT ![c] = totalSize[c] - freed]
              /\ ~legacy => freed = size[Oldest(c)]
              /\ legacy /\ Oldest(c) \notin Present => freed = 0
              /\ Oldest(c) \notin writing /\ Oldest(c) \in Present => freed = size[Oldest(c)]
<1>1. album \in Seq(Files) /\ Distinct(album)
  BY DEF IInv, AlbumInv
<1>2. /\ stage[c] = "delete" /\ NeedsRoom(c) /\ videos[c] # <<>>
      /\ writing' = writing /\ size' = size /\ made' = made /\ stage' = stage
      /\ legacy' = legacy /\ failures' = failures /\ limit' = limit /\ new' = new
      /\ kept' = kept /\ met' = met /\ late' = late
      /\ videos' = [videos EXCEPT ![c] = Tail(videos[c])]
      /\ album' = Without(album, {Oldest(c)})
  BY DEF DeleteOldest, NeedsRoom, histVars
<1>3. /\ album' \in Seq(Files) /\ Distinct(album') /\ Present' = Present \ {Oldest(c)}
      /\ \A g, f : Before(album', g, f) => Before(album, g, f)
  BY <1>1, <1>2, WithoutIs DEF Present
<1>4. PICK freed \in Freed(c, Oldest(c)) :
        totalSize' = [totalSize EXCEPT ![c] = totalSize[c] - freed]
  BY DEF DeleteOldest
<1>5. /\ freed \in {0, size[Oldest(c)]}
      /\ ~legacy => freed = size[Oldest(c)]
      /\ legacy /\ Oldest(c) \notin Present => freed = 0
      /\ Oldest(c) \notin writing /\ Oldest(c) \in Present => freed = size[Oldest(c)]
  BY <1>4 DEF Freed
<1> QED
  BY <1>2, <1>3, <1>4, <1>5

LEMMA DeleteOldestKeeps ==
  ASSUME IInv, NEW c \in Copiers, DeleteOldest(c)
  PROVE  IInv'
<1>1. /\ stage[c] = "delete" /\ videos[c] # <<>>
      /\ writing' = writing /\ size' = size /\ made' = made /\ stage' = stage
      /\ legacy' = legacy /\ failures' = failures /\ limit' = limit /\ new' = new
      /\ kept' = kept /\ met' = met /\ late' = late
      /\ videos' = [videos EXCEPT ![c] = Tail(videos[c])]
      /\ Present' = Present \ {Oldest(c)} /\ album' \in Seq(Files) /\ Distinct(album')
  BY DeleteOldestSteps
<1>2. PICK freed \in {0, size[Oldest(c)]} :
        /\ totalSize' = [totalSize EXCEPT ![c] = totalSize[c] - freed]
        /\ ~legacy => freed = size[Oldest(c)]
  BY DeleteOldestSteps
<1>3. /\ Tail(videos[c]) \in Seq(Files) /\ Distinct(Tail(videos[c]))
      /\ ToSet(Tail(videos[c])) \subseteq ToSet(videos[c])
      /\ size[Oldest(c)] \in Nat
      /\ SumOf(size, ToSet(videos[c])) = size[Oldest(c)] + SumOf(size, ToSet(Tail(videos[c])))
      /\ SumOf(size, ToSet(Tail(videos[c]))) \in Nat
  BY <1>1, OldestIs
<1>4. totalSize[c] \in Int /\ freed \in Nat /\ totalSize[c] - freed \in Int
  BY <1>2, <1>3 DEF IInv, TypeOK
<1>5. videos \in [Copiers -> Seq(Files)]
  BY DEF IInv, CopyInv
<1>6. ListInv'
  <2> SUFFICES ASSUME ~legacy, NEW d \in Copiers, stage[d] = "delete"
               PROVE  /\ ToSet(videos'[d]) \cap writing' = {}
                      /\ totalSize'[d] >= SumOf(size', ToSet(videos'[d]))
                      /\ failures' = 0 => totalSize'[d] = SumOf(size', ToSet(videos'[d]))
    BY <1>1 DEF ListInv
  <2>1. /\ ToSet(videos[d]) \cap writing = {}
        /\ totalSize[d] >= SumOf(size, ToSet(videos[d]))
        /\ failures = 0 => totalSize[d] = SumOf(size, ToSet(videos[d]))
    BY DEF IInv, ListInv
  <2>2. CASE d = c
    <3>1. videos'[d] = Tail(videos[c]) /\ totalSize'[d] = totalSize[c] - size[Oldest(c)]
      BY <1>1, <1>2, <1>5, <2>2 DEF IInv, TypeOK
    <3>2. ToSet(videos'[d]) \cap writing' = {}
      BY <1>1, <1>3, <2>1, <2>2, <3>1
    <3>3. /\ totalSize[c] - size[Oldest(c)] >= SumOf(size, ToSet(Tail(videos[c])))
          /\ failures = 0 => totalSize[c] - size[Oldest(c)] = SumOf(size, ToSet(Tail(videos[c])))
      BY <1>3, <1>4, <2>1, <2>2
    <3> QED
      BY <1>1, <3>1, <3>2, <3>3
  <2>3. CASE d # c
    BY <1>1, <1>2, <2>1, <2>3
  <2> QED
    BY <2>2, <2>3
<1>7. TypeOK'
  <2>1. ASSUME NEW d \in Copiers
        PROVE  ToSet(videos'[d]) \subseteq 1 .. made' /\ (~legacy' => totalSize'[d] >= 0)
    <3>1. CASE d = c
      <4>1. ToSet(videos'[d]) \subseteq 1 .. made'
        BY <1>1, <1>3, <1>5, <3>1 DEF IInv, TypeOK
      <4>2. ASSUME ~legacy PROVE totalSize'[d] >= 0
        <5>1. totalSize'[d] >= SumOf(size', ToSet(videos'[d])) /\ totalSize'[d] \in Int
          BY <1>1, <1>2, <1>4, <1>6, <3>1, <4>2 DEF ListInv, IInv, TypeOK
        <5>2. SumOf(size', ToSet(videos'[d])) \in Nat
          BY <1>1, <1>3, <1>5, <3>1
        <5> QED
          BY <5>1, <5>2
      <4> QED
        BY <1>1, <4>1, <4>2
    <3>2. CASE d # c
      BY <1>1, <1>2, <3>2 DEF IInv, TypeOK
    <3> QED
      BY <3>1, <3>2
  <2>2. totalSize' \in [Copiers -> Int]
    BY <1>2, <1>4 DEF IInv, TypeOK
  <2> QED
    BY <1>1, <2>1, <2>2 DEF IInv, TypeOK
<1>8. MadeInv'
  BY <1>1 DEF IInv, MadeInv, Making
<1>9. CopyInv'
  <2>1. videos' \in [Copiers -> Seq(Files)] /\ \A d \in Copiers : Distinct(videos'[d])
    BY <1>1, <1>3, <1>5 DEF IInv, CopyInv
  <2>2. \A d \in Copiers : stage[d] # "delete"
          => videos'[d] = videos[d] /\ totalSize'[d] = totalSize[d]
    BY <1>1, <1>2
  <2> QED
    BY <1>1, <2>1, <2>2 DEF IInv, CopyInv, Making
<1>10. AlbumInv'
  BY <1>1 DEF IInv, AlbumInv
<1> QED
  BY <1>6, <1>7, <1>8, <1>9, <1>10 DEF IInv

LEMMA DeleteFailsKeeps ==
  ASSUME IInv, NEW c \in Copiers, DeleteFails(c)
  PROVE  IInv'
<1>1. /\ stage[c] = "delete" /\ videos[c] # <<>>
      /\ album' = album /\ writing' = writing /\ size' = size /\ made' = made
      /\ stage' = stage /\ legacy' = legacy /\ limit' = limit /\ new' = new
      /\ met' = met /\ late' = late
      /\ videos' = [videos EXCEPT ![c] = Tail(videos[c])]
      /\ totalSize' = [totalSize EXCEPT ![c] = totalSize[c] - 0]
      /\ kept' = [kept EXCEPT ![c] = @ \cup {Oldest(c)}]
  BY DEF DeleteFails, NeedsRoom, CountedOnFailure, albumVars
<1>2. failures' \in 0 .. MaxFailures /\ failures' # 0
  BY FailCounts DEF DeleteFails, IInv
<1>3. /\ Oldest(c) \in Files /\ Tail(videos[c]) \in Seq(Files) /\ Distinct(Tail(videos[c]))
      /\ ToSet(Tail(videos[c])) \subseteq ToSet(videos[c])
      /\ size[Oldest(c)] \in Nat
      /\ SumOf(size, ToSet(videos[c])) = size[Oldest(c)] + SumOf(size, ToSet(Tail(videos[c])))
      /\ SumOf(size, ToSet(Tail(videos[c]))) \in Nat
  BY <1>1, OldestIs
<1>4. totalSize' = totalSize
  BY <1>1 DEF IInv, TypeOK
<1>5. videos \in [Copiers -> Seq(Files)]
  BY DEF IInv, CopyInv
<1>6. /\ videos'[c] = Tail(videos[c])
      /\ \A d \in Copiers : d # c => videos'[d] = videos[d]
  BY <1>1, <1>5
<1>7. TypeOK'
  <2>1. \A d \in Copiers : ToSet(videos'[d]) \subseteq 1 .. made
    BY <1>3, <1>6 DEF IInv, TypeOK
  <2>2. kept' \in [Copiers -> SUBSET Files]
    BY <1>1, <1>3 DEF IInv, TypeOK
  <2>3. Present' = Present
    BY <1>1 DEF Present
  <2> QED
    BY <1>1, <1>2, <1>4, <2>1, <2>2, <2>3 DEF IInv, TypeOK
<1>8. MadeInv'
  BY <1>1 DEF IInv, MadeInv, Making
<1>9. CopyInv'
  <2>1. videos' \in [Copiers -> Seq(Files)] /\ \A d \in Copiers : Distinct(videos'[d])
    BY <1>1, <1>3, <1>5, <1>6 DEF IInv, CopyInv
  <2>2. \A d \in Copiers : stage[d] # "delete" => videos'[d] = videos[d]
    BY <1>1, <1>6
  <2> QED
    BY <1>1, <1>4, <2>1, <2>2 DEF IInv, CopyInv, Making
<1>10. AlbumInv'
  <2>1. failures = 0 \/ failures # 0
    OBVIOUS
  <2> QED
    BY <1>1, <1>2 DEF IInv, AlbumInv
<1>11. ListInv'
  <2> SUFFICES ASSUME ~legacy, NEW d \in Copiers, stage[d] = "delete"
               PROVE  /\ ToSet(videos'[d]) \cap writing = {}
                      /\ totalSize[d] >= SumOf(size, ToSet(videos'[d]))
    BY <1>1, <1>2, <1>4 DEF ListInv
  <2>1. /\ ToSet(videos[d]) \cap writing = {}
        /\ totalSize[d] >= SumOf(size, ToSet(videos[d]))
        /\ totalSize[d] \in Int
    BY DEF IInv, ListInv, TypeOK
  <2>2. CASE d = c
    <3>1. ToSet(videos'[d]) \cap writing = {}
      BY <1>3, <1>6, <2>1, <2>2
    <3>2. totalSize[c] >= SumOf(size, ToSet(Tail(videos[c])))
      BY <1>3, <2>1, <2>2
    <3> QED
      BY <1>6, <2>2, <3>1, <3>2
  <2>3. CASE d # c
    BY <1>6, <2>1, <2>3
  <2> QED
    BY <2>2, <2>3
<1> QED
  BY <1>7, <1>8, <1>9, <1>10, <1>11 DEF IInv

LEMMA InsertSteps ==
  ASSUME IInv, NEW c \in Copiers, Insert(c)
  PROVE  /\ stage[c] = "delete" /\ ~NeedsRoom(c)
         /\ stage' = [stage EXCEPT ![c] = "write"] /\ made' = made + 1
         /\ made + 1 \in Files /\ made \in Nat
         /\ made + 1 \notin Present /\ made + 1 \notin writing
         /\ size' = [size EXCEPT ![made + 1] = new[c]] /\ size' \in Sized
         /\ new[c] \in Sizes /\ new[c] \in Nat
         /\ album' = Append(album, made + 1) /\ album' \in Seq(Files) /\ Distinct(album')
         /\ Present' = Present \cup {made + 1} /\ writing' = writing \cup {made + 1}
         /\ new' = [new EXCEPT ![c] = made + 1] /\ videos' = [videos EXCEPT ![c] = <<>>]
         /\ totalSize' = [totalSize EXCEPT ![c] = 0]
         /\ legacy' = legacy /\ limit' = limit /\ failures' = failures
         /\ kept' = kept /\ met' = met /\ late' = late
<1>1. /\ stage[c] = "delete" /\ ~NeedsRoom(c)
      /\ stage' = [stage EXCEPT ![c] = "write"] /\ made' = made + 1
      /\ size' = [size EXCEPT ![made + 1] = new[c]]
      /\ album' = Append(album, made + 1) /\ writing' = writing \cup {made + 1}
      /\ new' = [new EXCEPT ![c] = made + 1] /\ videos' = [videos EXCEPT ![c] = <<>>]
      /\ totalSize' = [totalSize EXCEPT ![c] = 0]
      /\ legacy' = legacy /\ limit' = limit /\ failures' = failures
      /\ kept' = kept /\ met' = met /\ late' = late
  BY DEF Insert, histVars
<1>2. made \in Nat /\ MaxFiles \in Nat
  BY Bounds DEF IInv, TypeOK
<1>3. made + 1 \in Files
  <2>1. c \in Making /\ IsFiniteSet(Making)
    BY <1>1, GalleryAssumption, FS_Subset DEF Making
  <2>2. Cardinality(Making) \in Nat /\ Cardinality(Making) # 0
    BY <2>1, FS_EmptySet, FS_CardinalityType
  <2>3. made + Cardinality(Making) <= MaxFiles
    BY DEF IInv, MadeInv
  <2> QED
    BY <1>2, <2>2, <2>3 DEF Files
<1>4. made + 1 \notin Present /\ made + 1 \notin writing
  BY <1>2 DEF IInv, TypeOK, AlbumInv
<1>5. new[c] \in Sizes /\ new[c] \in Nat
  BY <1>1, Bounds DEF IInv, CopyInv, Making
<1>6. size' \in Sized
  BY <1>1, <1>5 DEF IInv, TypeOK, Sized
<1>7. /\ album' \in Seq(Files) /\ Distinct(album')
      /\ Present' = Present \cup {made + 1}
  <2>1. album \in Seq(Files) /\ Distinct(album) /\ Present = ToSet(album)
    BY DEF IInv, AlbumInv, Present
  <2>2. Present' = ToSet(album')
    BY DEF Present
  <2> QED
    BY <1>1, <1>3, <1>4, <2>1, <2>2, AppendIs
<1> QED
  BY <1>1, <1>2, <1>3, <1>4, <1>5, <1>6, <1>7

LEMMA InsertKeeps ==
  ASSUME IInv, NEW c \in Copiers, Insert(c)
  PROVE  IInv'
<1>1. /\ stage[c] = "delete" /\ stage' = [stage EXCEPT ![c] = "write"]
      /\ made' = made + 1 /\ made + 1 \in Files /\ made \in Nat
      /\ made + 1 \notin Present /\ made + 1 \notin writing
      /\ size' = [size EXCEPT ![made + 1] = new[c]] /\ size' \in Sized
      /\ album' \in Seq(Files) /\ Distinct(album')
      /\ Present' = Present \cup {made + 1} /\ writing' = writing \cup {made + 1}
      /\ new' = [new EXCEPT ![c] = made + 1] /\ videos' = [videos EXCEPT ![c] = <<>>]
      /\ totalSize' = [totalSize EXCEPT ![c] = 0]
      /\ legacy' = legacy /\ limit' = limit /\ failures' = failures
      /\ kept' = kept /\ met' = met /\ late' = late
  BY InsertSteps
<1>2. /\ MaxFiles \in Nat /\ made' \in 0 .. MaxFiles /\ 1 .. made \subseteq 1 .. made'
      /\ made + 1 \in 1 .. made'
  BY <1>1, Bounds DEF Files
<1>3. videos \in [Copiers -> Seq(Files)] /\ <<>> \in Seq(Files) /\ ToSet(<<>>) = {}
  BY DEF IInv, CopyInv, ToSet
<1>4. TypeOK'
  <2>1. \A d \in Copiers : ToSet(videos'[d]) \subseteq 1 .. made'
    BY <1>1, <1>2, <1>3 DEF IInv, TypeOK
  <2>2. Present' \subseteq 1 .. made' /\ writing' \subseteq Files
    BY <1>1, <1>2 DEF IInv, TypeOK
  <2>3. new' \in [Copiers -> Nat] /\ totalSize' \in [Copiers -> Int]
        /\ \A d \in Copiers : ~legacy' => totalSize'[d] >= 0
    BY <1>1 DEF IInv, TypeOK
  <2>4. stage' \in [Copiers -> {"idle", "query", "delete", "write"}]
    BY <1>1 DEF IInv, TypeOK
  <2> QED
    BY <1>1, <1>2, <2>1, <2>2, <2>3, <2>4 DEF IInv, TypeOK, Sized
<1>5. MadeInv'
  <2>1. c \in Making /\ IsFiniteSet(Making)
    BY <1>1, GalleryAssumption, FS_Subset DEF Making
  <2>2. Making' = Making \ {c}
    BY <1>1 DEF Making, IInv, TypeOK
  <2>3. Cardinality(Making \ {c}) = Cardinality(Making) - 1 /\ Cardinality(Making) \in Nat
    BY <2>1, FS_RemoveElement, FS_CardinalityType
  <2>4. made + Cardinality(Making) <= MaxFiles
    BY DEF IInv, MadeInv
  <2> QED
    BY <1>1, <1>2, <2>2, <2>3, <2>4 DEF MadeInv
<1>6. CopyInv'
  <2>1. videos' \in [Copiers -> Seq(Files)] /\ Distinct(<<>>)
    BY <1>1, <1>3 DEF Distinct
  <2>2. ASSUME NEW d \in Copiers
        PROVE  /\ Distinct(videos'[d])
               /\ d \in Making' => limit'[d] \in Limits /\ new'[d] \in Sizes
               /\ stage'[d] = "write" => limit'[d] \in Limits /\ new'[d] \in writing'
               /\ stage'[d] # "delete" => videos'[d] = <<>> /\ totalSize'[d] = 0
    <3>1. CASE d = c
      BY <1>1, <1>3, <2>1, <3>1 DEF IInv, TypeOK, CopyInv, Making
    <3>2. CASE d # c
      BY <1>1, <1>3, <3>2 DEF IInv, TypeOK, CopyInv, Making
    <3> QED
      BY <3>1, <3>2
  <2> QED
    BY <2>1, <2>2 DEF CopyInv
<1>7. AlbumInv'
  <2>1. \A d \in Copiers : d # c /\ stage'[d] = "write"
          => stage[d] = "write" /\ new'[d] = new[d] /\ new[d] \in writing
    BY <1>1 DEF IInv, TypeOK, CopyInv
  <2>2. new'[c] = made + 1 /\ stage'[c] = "write"
    BY <1>1 DEF IInv, TypeOK
  <2>3. ASSUME NEW d \in Copiers, NEW e \in Copiers,
               stage'[d] = "write", stage'[e] = "write", new'[d] = new'[e]
        PROVE  d = e
    BY <1>1, <2>1, <2>2, <2>3 DEF IInv, AlbumInv
  <2>4. ASSUME legacy \/ failures = 0, NEW f \in writing'
        PROVE  \E d \in Copiers : stage'[d] = "write" /\ new'[d] = f
    <3>1. CASE f = made + 1
      BY <2>2, <3>1
    <3>2. CASE f \in writing
      <4>1. PICK d \in Copiers : stage[d] = "write" /\ new[d] = f
        BY <2>4, <3>2 DEF IInv, AlbumInv
      <4> QED
        BY <1>1, <4>1
    <3> QED
      BY <1>1, <3>1, <3>2
  <2>5. writing' \subseteq 1 .. made'
    BY <1>1, <1>2 DEF IInv, AlbumInv
  <2> QED
    BY <1>1, <2>3, <2>4, <2>5 DEF AlbumInv
<1>8. ListInv'
  <2> SUFFICES ASSUME ~legacy, NEW d \in Copiers, stage'[d] = "delete"
               PROVE  /\ ToSet(videos'[d]) \cap writing' = {}
                      /\ totalSize'[d] >= SumOf(size', ToSet(videos'[d]))
                      /\ failures = 0 => totalSize'[d] = SumOf(size', ToSet(videos'[d]))
    BY <1>1 DEF ListInv
  <2>1. d # c /\ stage[d] = "delete" /\ videos'[d] = videos[d] /\ totalSize'[d] = totalSize[d]
    BY <1>1 DEF IInv, TypeOK
  <2>2. /\ ToSet(videos[d]) \cap writing = {}
        /\ totalSize[d] >= SumOf(size, ToSet(videos[d]))
        /\ failures = 0 => totalSize[d] = SumOf(size, ToSet(videos[d]))
    BY <2>1 DEF IInv, ListInv
  <2>3. ToSet(videos[d]) \in SUBSET Files /\ made + 1 \notin ToSet(videos[d])
    <3>1. ToSet(videos[d]) \in SUBSET Files
      BY PresentIs DEF IInv
    <3>2. ToSet(videos[d]) \subseteq 1 .. made
      BY DEF IInv, TypeOK
    <3> QED
      BY <1>1, <3>1, <3>2
  <2>4. size \in Sized /\ \A f \in ToSet(videos[d]) : size[f] = size'[f]
    BY <1>1, <2>3 DEF IInv, TypeOK, Sized
  <2>5. SumOf(size, ToSet(videos[d])) = SumOf(size', ToSet(videos[d]))
    BY <1>1, <2>3, <2>4, SizesSame
  <2> QED
    BY <1>1, <2>1, <2>2, <2>3, <2>5
<1> QED
  BY <1>4, <1>5, <1>6, <1>7, <1>8 DEF IInv

(* A copy that ends, whatever has become of the file it wrote.             *)
LEMMA IdleKeeps ==
  ASSUME IInv, NEW c \in Copiers, Idle(c),
         made' = made, legacy' = legacy, failures' \in 0 .. MaxFailures,
         failures' = 0 => failures = 0,
         size' \in Sized, ~legacy => size' = size,
         album' \in Seq(Files), Distinct(album'), Present' \subseteq 1 .. made,
         late' \subseteq Files, writing' \subseteq writing,
         \A d \in Copiers : d # c /\ stage[d] = "write" => new[d] \in writing',
         (legacy \/ failures' = 0) /\ stage[c] = "write" => new[c] \notin writing'
  PROVE  IInv'
<1>1. /\ stage' = [stage EXCEPT ![c] = "idle"] /\ limit' = [limit EXCEPT ![c] = None]
      /\ new' = [new EXCEPT ![c] = 0] /\ met' = [met EXCEPT ![c] = FALSE]
      /\ videos' = [videos EXCEPT ![c] = <<>>]
      /\ totalSize' = [totalSize EXCEPT ![c] = 0] /\ kept' = [kept EXCEPT ![c] = {}]
  BY DEF Idle
<1>2. videos \in [Copiers -> Seq(Files)] /\ <<>> \in Seq(Files) /\ ToSet(<<>>) = {}
  BY DEF IInv, CopyInv, ToSet
<1>3. TypeOK'
  <2>1. \A d \in Copiers : ToSet(videos'[d]) \subseteq 1 .. made'
    BY <1>1, <1>2 DEF IInv, TypeOK
  <2>2. new' \in [Copiers -> Nat] /\ totalSize' \in [Copiers -> Int]
        /\ \A d \in Copiers : ~legacy' => totalSize'[d] >= 0
    BY <1>1 DEF IInv, TypeOK
  <2>3. stage' \in [Copiers -> {"idle", "query", "delete", "write"}]
        /\ limit' \in [Copiers -> Limits \cup {None}]
        /\ met' \in [Copiers -> BOOLEAN] /\ kept' \in [Copiers -> SUBSET Files]
    BY <1>1 DEF IInv, TypeOK
  <2>4. legacy' \in BOOLEAN /\ made' \in 0 .. MaxFiles /\ Present' \subseteq 1 .. made'
        /\ writing' \subseteq Files
    BY DEF IInv, TypeOK
  <2> QED
    BY <2>1, <2>2, <2>3, <2>4 DEF TypeOK, Sized
<1>4. MadeInv'
  <2>1. Making' \subseteq Making
    BY <1>1 DEF Making, IInv, TypeOK
  <2> QED
    BY <2>1, MakingFewer
<1>5. CopyInv'
  <2>1. videos' \in [Copiers -> Seq(Files)] /\ Distinct(<<>>)
    BY <1>1, <1>2 DEF Distinct
  <2>2. ASSUME NEW d \in Copiers
        PROVE  /\ Distinct(videos'[d])
               /\ d \in Making' => limit'[d] \in Limits /\ new'[d] \in Sizes
               /\ stage'[d] = "write" => limit'[d] \in Limits /\ new'[d] \in writing'
               /\ stage'[d] # "delete" => videos'[d] = <<>> /\ totalSize'[d] = 0
    <3>1. CASE d = c
      BY <1>1, <1>2, <2>1, <3>1 DEF IInv, TypeOK, CopyInv, Making
    <3>2. CASE d # c
      BY <1>1, <1>2, <3>2 DEF IInv, TypeOK, CopyInv, Making
    <3> QED
      BY <3>1, <3>2
  <2> QED
    BY <2>1, <2>2 DEF CopyInv
<1>6. AlbumInv'
  <2>1. \A d \in Copiers : stage'[d] = "write" => d # c /\ stage[d] = "write" /\ new'[d] = new[d]
    BY <1>1 DEF IInv, TypeOK
  <2>2. ASSUME legacy \/ failures' = 0, NEW f \in writing'
        PROVE  \E d \in Copiers : stage'[d] = "write" /\ new'[d] = f
    <3>1. PICK d \in Copiers : stage[d] = "write" /\ new[d] = f
      BY <2>2 DEF IInv, AlbumInv
    <3>2. d # c
      BY <2>2, <3>1
    <3> QED
      BY <1>1, <3>1, <3>2
  <2>3. writing' \subseteq 1 .. made'
    BY DEF IInv, AlbumInv
  <2>4. ASSUME NEW d \in Copiers, NEW e \in Copiers,
               stage'[d] = "write", stage'[e] = "write", new'[d] = new'[e]
        PROVE  d = e
    BY <2>1, <2>4 DEF IInv, AlbumInv
  <2> QED
    BY <2>2, <2>3, <2>4 DEF AlbumInv
<1>7. ListInv'
  <2>1. \A d \in Copiers : stage'[d] = "delete"
          => stage[d] = "delete" /\ videos'[d] = videos[d] /\ totalSize'[d] = totalSize[d]
    BY <1>1 DEF IInv, TypeOK
  <2> QED
    BY <2>1 DEF IInv, ListInv
<1> QED
  BY <1>3, <1>4, <1>5, <1>6, <1>7 DEF IInv

LEMMA InsertFailsKeeps ==
  ASSUME IInv, NEW c \in Copiers, InsertFails(c)
  PROVE  IInv'
<1>1. /\ stage[c] = "delete" /\ Idle(c) /\ album' = album /\ writing' = writing
      /\ size' = size /\ made' = made /\ legacy' = legacy /\ late' = late
  BY DEF InsertFails, albumVars
<1>2. failures' \in 0 .. MaxFailures /\ failures' # 0
  BY FailCounts DEF InsertFails, IInv
<1>3. /\ Present' = Present /\ Present \subseteq 1 .. made /\ size \in Sized
      /\ late \subseteq Files /\ album \in Seq(Files) /\ Distinct(album)
  BY <1>1 DEF Present, IInv, TypeOK, AlbumInv, Sized
<1>4. \A d \in Copiers : stage[d] = "write" => new[d] \in writing
  BY DEF IInv, CopyInv
<1> QED
  BY <1>1, <1>2, <1>3, <1>4, IdleKeeps

(* The end of a copy: the others' files stay, its own is moved at most.    *)
LEMMA WriteEndsSteps ==
  ASSUME IInv, NEW c \in Copiers, WriteEnds(c)
  PROVE  /\ stage[c] = "write" /\ Idle(c) /\ new[c] \in writing /\ new[c] \in Files
         /\ writing' = writing \ {new[c]} /\ size' = size /\ made' = made
         /\ legacy' = legacy /\ failures' = failures
         /\ late' = IF legacy THEN late \cup writing' ELSE late
         /\ album' \in Seq(Files) /\ Distinct(album') /\ Present' = Present
         /\ ~legacy \/ new[c] \notin Present => album' = album
         /\ \A g, f : Before(album', g, f)
              => Before(album, g, f) \/ (legacy /\ f = new[c])
<1>1. /\ stage[c] = "write" /\ Idle(c)
      /\ writing' = writing \ {new[c]} /\ size' = size /\ made' = made
      /\ legacy' = legacy /\ failures' = failures
      /\ late' = IF legacy THEN late \cup writing' ELSE late
  BY DEF WriteEnds
<1>2. new[c] \in writing /\ new[c] \in Files
  BY <1>1 DEF IInv, CopyInv, TypeOK
<1>3. album \in Seq(Files) /\ Distinct(album) /\ Present = ToSet(album) /\ Present' = ToSet(album')
  BY DEF IInv, AlbumInv, Present
<1>4. CASE legacy /\ new[c] \in Present
  <2> DEFINE W == Without(album, {new[c]})
  <2>1. /\ W \in Seq(Files) /\ Distinct(W) /\ ToSet(W) = Present \ {new[c]}
        /\ \A g, f : Before(W, g, f) => Before(album, g, f)
    BY <1>3, WithoutIs
  <2>2. album' = Append(W, new[c])
    BY <1>4 DEF WriteEnds
  <2> HIDE DEF W
  <2>3. new[c] \notin ToSet(W)
    BY <2>1
  <2>4. /\ album' \in Seq(Files) /\ ToSet(album') = ToSet(W) \cup {new[c]} /\ Distinct(album')
        /\ \A g, f : Before(album', g, f) => Before(W, g, f) \/ f = new[c]
    BY <1>2, <2>1, <2>2, <2>3, AppendIs
  <2> QED
    BY <1>1, <1>2, <1>3, <1>4, <2>1, <2>4
<1>5. CASE ~(legacy /\ new[c] \in Present)
  <2>1. album' = album
    BY <1>5 DEF WriteEnds
  <2> QED
    BY <1>1, <1>2, <1>3, <1>5, <2>1
<1> QED
  BY <1>4, <1>5

LEMMA WriteEndsKeeps ==
  ASSUME IInv, NEW c \in Copiers, WriteEnds(c)
  PROVE  IInv'
<1>1. /\ stage[c] = "write" /\ Idle(c) /\ new[c] \in writing /\ new[c] \in Files
      /\ writing' = writing \ {new[c]} /\ size' = size /\ made' = made
      /\ legacy' = legacy /\ failures' = failures
      /\ late' = IF legacy THEN late \cup writing' ELSE late
      /\ album' \in Seq(Files) /\ Distinct(album') /\ Present' = Present
  BY WriteEndsSteps
<1>2. /\ Present \subseteq 1 .. made /\ size \in Sized /\ failures \in 0 .. MaxFailures
      /\ late' \subseteq Files
  BY <1>1 DEF IInv, TypeOK, Sized
<1>3. \A d \in Copiers : d # c /\ stage[d] = "write" => new[d] \in writing'
  BY <1>1 DEF IInv, CopyInv, AlbumInv
<1> QED
  BY <1>1, <1>2, <1>3, IdleKeeps

LEMMA AbandonSteps ==
  ASSUME IInv, NEW S, Abandon(S)
  PROVE  /\ size' \in Sized
         /\ IF legacy THEN writing' = writing \ S ELSE writing' = writing /\ size' = size
<1>1. size \in Sized /\ 0 \in Sizes \cup {0}
  BY DEF IInv, TypeOK, Sized
<1>2. CASE legacy
  <2>1. PICK empty : size' = [f \in Files |-> IF f \in empty THEN 0 ELSE size[f]]
    BY <1>2 DEF Abandon
  <2>2. size' \in Sized
    BY <1>1, <2>1 DEF Sized
  <2> QED
    BY <1>2, <2>2 DEF Abandon
<1>3. CASE ~legacy
  BY <1>1, <1>3 DEF Abandon
<1> QED
  BY <1>2, <1>3

LEMMA WriteFailsKeeps ==
  ASSUME IInv, NEW c \in Copiers, WriteFails(c)
  PROVE  IInv'
<1>1. /\ stage[c] = "write" /\ Idle(c) /\ Abandon({new[c]}) /\ album' = album
      /\ made' = made /\ legacy' = legacy /\ late' = late
  BY DEF WriteFails
<1>2. failures' \in 0 .. MaxFailures /\ failures' # 0
  BY FailCounts DEF WriteFails, IInv
<1>3. /\ Present' = Present /\ Present \subseteq 1 .. made
      /\ late \subseteq Files /\ album \in Seq(Files) /\ Distinct(album)
  BY <1>1 DEF Present, IInv, TypeOK, AlbumInv
<1>4. /\ size' \in Sized
      /\ IF legacy THEN writing' = writing \ {new[c]} ELSE writing' = writing /\ size' = size
  BY <1>1, AbandonSteps
<1>5. \A d \in Copiers : d # c /\ stage[d] = "write" => new[d] \in writing /\ new[d] # new[c]
  BY <1>1 DEF IInv, CopyInv, AlbumInv
<1>6. \A d \in Copiers : d # c /\ stage[d] = "write" => new[d] \in writing'
  BY <1>4, <1>5
<1>7. writing' \subseteq writing /\ (legacy => new[c] \notin writing')
  BY <1>4
<1> QED
  BY <1>1, <1>2, <1>3, <1>4, <1>6, <1>7, IdleKeeps

LEMMA KillSteps ==
  ASSUME IInv, Kill
  PROVE  /\ album' = album /\ Present' = Present /\ made' = made /\ legacy' = legacy
         /\ late' = late /\ failures' \in 0 .. MaxFailures /\ failures' # 0 /\ size' \in Sized
         /\ stage' = [c \in Copiers |-> "idle"] /\ limit' = [c \in Copiers |-> None]
         /\ new' = [c \in Copiers |-> 0] /\ videos' = [c \in Copiers |-> <<>>]
         /\ totalSize' = [c \in Copiers |-> 0] /\ met' = [c \in Copiers |-> FALSE]
         /\ kept' = [c \in Copiers |-> {}]
         /\ writing' = IF legacy THEN {} ELSE writing
<1>1. /\ album' = album /\ Present' = Present /\ made' = made /\ legacy' = legacy
      /\ late' = late
      /\ stage' = [c \in Copiers |-> "idle"] /\ limit' = [c \in Copiers |-> None]
      /\ new' = [c \in Copiers |-> 0] /\ videos' = [c \in Copiers |-> <<>>]
      /\ totalSize' = [c \in Copiers |-> 0] /\ met' = [c \in Copiers |-> FALSE]
      /\ kept' = [c \in Copiers |-> {}]
  BY DEF Kill, Present
<1>2. failures' \in 0 .. MaxFailures /\ failures' # 0
  BY FailCounts DEF Kill, IInv
<1> DEFINE S == {new[c] : c \in {d \in Copiers : stage[d] = "write"}}
<1>3. /\ size' \in Sized
      /\ IF legacy THEN writing' = writing \ S ELSE writing' = writing
  <2>1. Abandon(S)
    BY DEF Kill
  <2> HIDE DEF S
  <2> QED
    BY <2>1, AbandonSteps
<1>4. legacy => writing \subseteq S
  BY DEF IInv, AlbumInv
<1> HIDE DEF S
<1> QED
  BY <1>1, <1>2, <1>3, <1>4

LEMMA KillKeeps ==
  ASSUME IInv, Kill
  PROVE  IInv'
<1>1. /\ album' = album /\ Present' = Present /\ made' = made /\ legacy' = legacy
      /\ late' = late /\ failures' \in 0 .. MaxFailures /\ failures' # 0 /\ size' \in Sized
      /\ stage' = [c \in Copiers |-> "idle"] /\ limit' = [c \in Copiers |-> None]
      /\ new' = [c \in Copiers |-> 0] /\ videos' = [c \in Copiers |-> <<>>]
      /\ totalSize' = [c \in Copiers |-> 0] /\ met' = [c \in Copiers |-> FALSE]
      /\ kept' = [c \in Copiers |-> {}]
      /\ writing' = IF legacy THEN {} ELSE writing
  BY KillSteps
<1>2. ToSet(<<>>) = {} /\ <<>> \in Seq(Files) /\ Distinct(<<>>)
  BY DEF ToSet, Distinct
<1>3. TypeOK'
  <2>1. \A d \in Copiers : ToSet(videos'[d]) \subseteq 1 .. made'
    BY <1>1, <1>2
  <2>2. writing' \subseteq Files
    BY <1>1 DEF IInv, TypeOK
  <2> QED
    BY <1>1, <2>1, <2>2 DEF IInv, TypeOK, Sized
<1>4. Making' = {}
  BY <1>1 DEF Making
<1>5. MadeInv'
  BY <1>1, <1>4, MakingFewer
<1>6. CopyInv'
  BY <1>1, <1>2, <1>4 DEF CopyInv
<1>7. AlbumInv'
  BY <1>1 DEF IInv, AlbumInv
<1>8. ListInv'
  BY <1>1 DEF ListInv
<1> QED
  BY <1>3, <1>5, <1>6, <1>7, <1>8 DEF IInv

LEMMA InitTypes == Init => IInv
<1> SUFFICES ASSUME Init PROVE IInv
  OBVIOUS
<1>1. /\ legacy \in BOOLEAN /\ made = 0 /\ failures = 0 /\ late = {}
      /\ size = [f \in Files |-> 0] /\ album = <<>> /\ writing = {}
      /\ stage = [c \in Copiers |-> "idle"] /\ limit = [c \in Copiers |-> None]
      /\ new = [c \in Copiers |-> 0] /\ videos = [c \in Copiers |-> <<>>]
      /\ totalSize = [c \in Copiers |-> 0] /\ met = [c \in Copiers |-> FALSE]
      /\ kept = [c \in Copiers |-> {}]
  BY DEF Init
<1>2. ToSet(<<>>) = {} /\ <<>> \in Seq(Files) /\ Distinct(<<>>)
  BY DEF ToSet, Distinct
<1>3. Present = {}
  BY <1>1, <1>2 DEF Present
<1>4. TypeOK
  <2>1. \A d \in Copiers : ToSet(videos[d]) \subseteq 1 .. made
    BY <1>1, <1>2
  <2> QED
    BY <1>1, <1>3, <2>1, Bounds DEF TypeOK
<1>5. Making = {}
  BY <1>1 DEF Making
<1>6. MadeInv
  BY <1>1, <1>5, Bounds, FS_EmptySet DEF MadeInv
<1>7. CopyInv
  BY <1>1, <1>2, <1>5 DEF CopyInv
<1>8. AlbumInv
  BY <1>1, <1>2 DEF AlbumInv
<1>9. ListInv
  BY <1>1 DEF ListInv
<1> QED
  BY <1>4, <1>6, <1>7, <1>8, <1>9 DEF IInv

LEMMA NextTypes ==
  ASSUME IInv, [Next]_vars
  PROVE  IInv'
<1>1. ASSUME NEW c \in Copiers,
             \/ CopyBegins(c) \/ Query(c) \/ QueryFails(c) \/ DeleteOldest(c)
             \/ DeleteFails(c) \/ Insert(c) \/ InsertFails(c) \/ WriteEnds(c) \/ WriteFails(c)
      PROVE  IInv'
  BY <1>1, CopyBeginsKeeps, QueryKeeps, QueryFailsKeeps, DeleteOldestKeeps, DeleteFailsKeeps,
     InsertKeeps, InsertFailsKeeps, WriteEndsKeeps, WriteFailsKeeps
<1>2. CASE Kill
  BY <1>2, KillKeeps
<1>3. CASE UNCHANGED vars
  BY <1>3 DEF vars, albumVars, copyVars, histVars, IInv, TypeOK, MadeInv, CopyInv, AlbumInv,
     ListInv, Making, Present
<1> QED
  BY <1>1, <1>2, <1>3 DEF Next

(* The variables always have their types: the files of the album and of    *)
(* every list have been made, and with MediaStore no total that            *)
(* enforceStorageLimit reckons with falls below zero.                      *)
THEOREM TypesAreKept == Spec => []TypeOK
<1>1. Spec => []IInv
  BY InitTypes, NextTypes, PTL DEF Spec
<1>2. IInv => TypeOK
  BY DEF IInv
<1> QED
  BY <1>1, <1>2, PTL

-----------------------------------------------------------------------------
(* A copy that runs alone.  Its list and what it could not delete are all  *)
(* that is listed, and its total is the size of that; once the new file is *)
(* there, that and the new file are within the limit, or all that is       *)
(* listed has refused to go.                                               *)

AloneDeletes(c) ==
  /\ ToSet(Listed) \subseteq kept[c] \cup ToSet(videos[c])
  /\ ToSet(videos[c]) \subseteq ToSet(Listed)
  /\ \/ totalSize[c] = SumOf(size, ToSet(Listed))
     \/ totalSize[c] = 0 /\ ToSet(Listed) \subseteq kept[c]

Seen(c) == Present \ (writing \ {new[c]})

AloneWrites(c) ==
  SumOf(size, Seen(c)) <= limit[c] \/ Seen(c) \subseteq kept[c] \cup {new[c]}

AloneInv ==
  \A c \in Copiers : ~met[c] /\ c \in Busy =>
    /\ Busy = {c}
    /\ stage[c] = "delete" => AloneDeletes(c)
    /\ stage[c] = "write" => AloneWrites(c)

(* A step of one copy can only disturb what is said of that copy.          *)
LEMMA AloneStep ==
  ASSUME IInv, AloneInv, NEW a \in Copiers, a \in Busy,
         \A c \in Copiers : c # a => stage'[c] = stage[c] /\ met'[c] = met[c],
         ~met'[a] /\ stage'[a] # "idle" => ~met[a],
         ~met'[a] /\ stage'[a] = "delete" => AloneDeletes(a)',
         ~met'[a] /\ stage'[a] = "write" => AloneWrites(a)'
  PROVE  AloneInv'
<1>1. \A c \in Copiers : c # a /\ c \in Busy => met[c]
  BY DEF AloneInv
<1>2. \A c \in Copiers : c # a /\ c \in Busy' => c \in Busy /\ met'[c]
  BY <1>1 DEF Busy
<1>3. \A c \in Copiers : ~met'[c] /\ c \in Busy' => c = a
  BY <1>2
<1>4. ASSUME ~met'[a], a \in Busy' PROVE Busy' = {a}
  <2>1. ~met[a]
    BY <1>4 DEF Busy
  <2>2. Busy = {a}
    BY <2>1 DEF AloneInv
  <2>3. \A c \in Busy' : c \in Copiers
    BY DEF Busy
  <2> QED
    BY <1>2, <1>4, <2>2, <2>3
<1> QED
  BY <1>3, <1>4 DEF AloneInv

(* Nothing that is listed is being written when a copy is alone.           *)
LEMMA AloneListed ==
  ASSUME IInv, AloneInv, NEW c \in Copiers, stage[c] \in {"query", "delete"}, ~met[c]
  PROVE  /\ ToSet(Listed) = Present \ writing /\ ToSet(Listed) \in SUBSET Files
         /\ legacy => writing = {}
         /\ size \in Sized /\ SumOf(size, ToSet(Listed)) \in Nat
<1>1. Busy = {c}
  BY DEF AloneInv, Busy
<1>2. \A d \in Copiers : stage[d] # "write"
  BY <1>1 DEF Busy
<1>3. legacy => writing = {}
  BY <1>2 DEF IInv, AlbumInv
<1>4. ToSet(Listed) = Present \ writing
  BY <1>3, ListedIs
<1>5. ToSet(Listed) \in SUBSET Files /\ size \in Sized
  BY <1>4, PresentIs DEF IInv, TypeOK, Sized
<1> QED
  BY <1>3, <1>4, <1>5, SizesSum

LEMMA CopyBeginsAlone ==
  ASSUME IInv, AloneInv, NEW a \in Copiers, CopyBegins(a)
  PROVE  AloneInv'
<1>1. /\ stage[a] = "idle" /\ stage' = [stage EXCEPT ![a] = "query"]
      /\ met' = [d \in Copiers |-> IF d = a THEN Busy # {} ELSE met[d] \/ d \in Busy]
  BY DEF CopyBegins
<1>2. Busy' = Busy \cup {a}
  BY <1>1 DEF Busy, IInv, TypeOK
<1>3. \A c \in Copiers : ~met'[c] /\ c \in Busy' => c = a /\ Busy = {}
  BY <1>1, <1>2
<1>4. stage'[a] = "query"
  BY <1>1 DEF IInv, TypeOK
<1> QED
  BY <1>2, <1>3, <1>4 DEF AloneInv

LEMMA QueryAlone ==
  ASSUME IInv, AloneInv, NEW a \in Copiers, Query(a)
  PROVE  AloneInv'
<1>1. PICK empty \in SUBSET (ToSet(Listed) \cap writing) :
        totalSize' = [totalSize EXCEPT ![a] = SumOf(size, ToSet(Listed) \ empty)]
  BY TotalIs DEF Query
<1>2. /\ stage[a] = "query" /\ stage' = [stage EXCEPT ![a] = "delete"]
      /\ videos' = [videos EXCEPT ![a] = Listed] /\ met' = met
      /\ album' = album /\ writing' = writing /\ size' = size /\ legacy' = legacy
  BY DEF Query, albumVars
<1>3. a \in Busy /\ \A c \in Copiers : c # a => stage'[c] = stage[c] /\ met'[c] = met[c]
  BY <1>2 DEF Busy, IInv, TypeOK
<1>4. stage'[a] = "delete"
  BY <1>2 DEF IInv, TypeOK
<1>5. ASSUME ~met[a] PROVE AloneDeletes(a)'
  <2>1. ToSet(Listed) = Present \ writing
    BY <1>2, <1>5, AloneListed
  <2>2. Listed' = Listed
    BY <1>2 DEF Listed, Without
  <2>3. ToSet(Listed) \ empty = ToSet(Listed)
    BY <2>1
  <2>4. videos'[a] = Listed /\ totalSize'[a] = SumOf(size, ToSet(Listed))
    BY <1>1, <1>2, <2>3 DEF IInv, TypeOK, CopyInv
  <2> QED
    BY <1>2, <2>2, <2>4 DEF AloneDeletes
<1> QED
  BY <1>2, <1>3, <1>4, <1>5, AloneStep

LEMMA QueryFailsAlone ==
  ASSUME IInv, AloneInv, NEW a \in Copiers, QueryFails(a)
  PROVE  AloneInv'
<1>1. /\ stage[a] = "query" /\ stage' = [stage EXCEPT ![a] = "delete"]
      /\ videos' = videos /\ totalSize' = totalSize /\ met' = met
      /\ album' = album /\ writing' = writing /\ size' = size /\ legacy' = legacy
      /\ kept' = [kept EXCEPT ![a] = ToSet(Listed)]
  BY DEF QueryFails, albumVars
<1>2. a \in Busy /\ \A c \in Copiers : c # a => stage'[c] = stage[c] /\ met'[c] = met[c]
  BY <1>1 DEF Busy, IInv, TypeOK
<1>3. stage'[a] = "delete"
  BY <1>1 DEF IInv, TypeOK
<1>4. AloneDeletes(a)'
  <2>1. Listed' = Listed
    BY <1>1 DEF Listed, Without
  <2>2. videos'[a] = <<>> /\ totalSize'[a] = 0 /\ kept'[a] = ToSet(Listed)
    BY <1>1 DEF IInv, TypeOK, CopyInv
  <2>3. ToSet(<<>>) = {}
    BY DEF ToSet
  <2> QED
    BY <2>1, <2>2, <2>3 DEF AloneDeletes
<1> QED
  BY <1>1, <1>2, <1>3, <1>4, AloneStep

(* A copy that is alone and makes room knows the size of what is listed:   *)
(* the new file alone would fit.                                           *)
LEMMA AloneMakesRoom ==
  ASSUME IInv, AloneInv, NEW c \in Copiers, stage[c] = "delete", NeedsRoom(c), ~met[c]
  PROVE  /\ totalSize[c] = SumOf(size, ToSet(Listed))
         /\ SumOf(size, ToSet(Listed)) + new[c] > limit[c]
<1>1. AloneDeletes(c)
  BY DEF AloneInv, Busy
<1>2. new[c] \in Sizes /\ limit[c] \in Limits
  BY DEF IInv, CopyInv, Making
<1>3. new[c] <= limit[c] /\ new[c] \in Nat /\ limit[c] \in Nat
  BY <1>2, GalleryAssumption
<1>4. totalSize[c] + new[c] > limit[c]
  BY DEF NeedsRoom
<1>5. totalSize[c] # 0
  BY <1>3, <1>4
<1> QED
  BY <1>1, <1>4, <1>5 DEF AloneDeletes

LEMMA DeleteOldestAlone ==
  ASSUME IInv, AloneInv, NEW a \in Copiers, DeleteOldest(a)
  PROVE  AloneInv'
<1>1. /\ stage[a] = "delete" /\ NeedsRoom(a) /\ videos[a] # <<>>
      /\ writing' = writing /\ size' = size /\ stage' = stage
      /\ legacy' = legacy /\ kept' = kept /\ met' = met
      /\ videos' = [videos EXCEPT ![a] = Tail(videos[a])]
      /\ Present' = Present \ {Oldest(a)}
  BY DeleteOldestSteps
<1>2. PICK freed \in {0, size[Oldest(a)]} :
        /\ totalSize' = [totalSize EXCEPT ![a] = totalSize[a] - freed]
        /\ Oldest(a) \notin writing /\ Oldest(a) \in Present => freed = size[Oldest(a)]
  BY DeleteOldestSteps
<1>3. a \in Busy
  BY <1>1 DEF Busy
<1>4. ASSUME ~met[a] PROVE AloneDeletes(a)'
  <2>1. AloneDeletes(a)
    BY <1>1, <1>3, <1>4 DEF AloneInv
  <2>2. /\ ToSet(Listed) = Present \ writing /\ ToSet(Listed) \in SUBSET Files
        /\ legacy => writing = {}
        /\ size \in Sized /\ SumOf(size, ToSet(Listed)) \in Nat
    BY <1>1, <1>4, AloneListed
  <2>3. totalSize[a] = SumOf(size, ToSet(Listed))
    BY <1>1, <1>4, AloneMakesRoom
  <2>4. /\ Oldest(a) \in ToSet(videos[a])
        /\ ToSet(Tail(videos[a])) = ToSet(videos[a]) \ {Oldest(a)}
    BY <1>1, OldestIs
  <2>5. Oldest(a) \in ToSet(Listed) /\ freed = size[Oldest(a)]
    BY <1>2, <2>1, <2>2, <2>4 DEF AloneDeletes
  <2>6. IInv'
    BY DeleteOldestKeeps
  <2>7. ToSet(Listed') = ToSet(Listed) \ {Oldest(a)}
    <3>1. ToSet(Listed') = IF legacy' THEN Present' ELSE Present' \ writing'
      BY <2>6, PrimedListed
    <3> QED
      BY <1>1, <2>2, <3>1
  <2>8. /\ size[Oldest(a)] \in Nat
        /\ SumOf(size, ToSet(Listed))
             = size[Oldest(a)] + SumOf(size, ToSet(Listed) \ {Oldest(a)})
        /\ SumOf(size, ToSet(Listed) \ {Oldest(a)}) \in Nat
    BY <2>2, <2>5, SizesSum
  <2>9. videos'[a] = Tail(videos[a]) /\ totalSize'[a] = totalSize[a] - freed
    BY <1>1, <1>2 DEF IInv, TypeOK, CopyInv
  <2>10. totalSize'[a] = SumOf(size, ToSet(Listed'))
    BY <2>3, <2>5, <2>7, <2>8, <2>9
  <2>11. /\ ToSet(Listed') \subseteq kept'[a] \cup ToSet(videos'[a])
         /\ ToSet(videos'[a]) \subseteq ToSet(Listed')
    BY <1>1, <2>1, <2>4, <2>7, <2>9 DEF AloneDeletes
  <2> QED
    BY <1>1, <2>10, <2>11 DEF AloneDeletes
<1> QED
  BY <1>1, <1>3, <1>4, AloneStep

LEMMA DeleteFailsAlone ==
  ASSUME IInv, AloneInv, NEW a \in Copiers, DeleteFails(a)
  PROVE  AloneInv'
<1>1. /\ stage[a] = "delete" /\ NeedsRoom(a) /\ videos[a] # <<>>
      /\ album' = album /\ writing' = writing /\ size' = size /\ legacy' = legacy
      /\ stage' = stage /\ met' = met
      /\ videos' = [videos EXCEPT ![a] = Tail(videos[a])]
      /\ totalSize' = [totalSize EXCEPT ![a] = totalSize[a] - 0]
      /\ kept' = [kept EXCEPT ![a] = @ \cup {Oldest(a)}]
  BY DEF DeleteFails, NeedsRoom, CountedOnFailure, albumVars
<1>2. a \in Busy
  BY <1>1 DEF Busy
<1>3. ASSUME ~met[a] PROVE AloneDeletes(a)'
  <2>1. AloneDeletes(a)
    BY <1>1, <1>2, <1>3 DEF AloneInv
  <2>2. totalSize[a] = SumOf(size, ToSet(Listed))
    BY <1>1, <1>3, AloneMakesRoom
  <2>3. ToSet(Tail(videos[a])) = ToSet(videos[a]) \ {Oldest(a)}
    BY <1>1, OldestIs
  <2>4. Listed' = Listed
    BY <1>1 DEF Listed, Without
  <2>5. /\ videos'[a] = Tail(videos[a]) /\ totalSize'[a] = totalSize[a]
        /\ kept'[a] = kept[a] \cup {Oldest(a)}
    BY <1>1 DEF IInv, TypeOK, CopyInv
  <2>6. totalSize'[a] = SumOf(size, ToSet(Listed'))
    BY <2>2, <2>4, <2>5
  <2>7. /\ ToSet(Listed') \subseteq kept'[a] \cup ToSet(videos'[a])
        /\ ToSet(videos'[a]) \subseteq ToSet(Listed')
    BY <2>1, <2>3, <2>4, <2>5 DEF AloneDeletes
  <2> QED
    BY <1>1, <2>6, <2>7 DEF AloneDeletes
<1> QED
  BY <1>1, <1>2, <1>3, AloneStep

LEMMA InsertAlone ==
  ASSUME IInv, AloneInv, NEW a \in Copiers, Insert(a)
  PROVE  AloneInv'
<1>1. /\ stage[a] = "delete" /\ ~NeedsRoom(a)
      /\ stage' = [stage EXCEPT ![a] = "write"]
      /\ made + 1 \in Files /\ made + 1 \notin Present /\ made + 1 \notin writing
      /\ size' = [size EXCEPT ![made + 1] = new[a]] /\ size' \in Sized
      /\ new[a] \in Nat
      /\ Present' = Present \cup {made + 1} /\ writing' = writing \cup {made + 1}
      /\ new' = [new EXCEPT ![a] = made + 1]
      /\ limit' = limit /\ kept' = kept /\ met' = met
  BY InsertSteps
<1>2. a \in Busy /\ \A c \in Copiers : c # a => stage'[c] = stage[c] /\ met'[c] = met[c]
  BY <1>1 DEF Busy, IInv, TypeOK
<1>3. stage'[a] = "write"
  BY <1>1 DEF IInv, TypeOK
<1>4. ASSUME ~met[a] PROVE AloneWrites(a)'
  <2>1. AloneDeletes(a)
    BY <1>1, <1>2, <1>4 DEF AloneInv
  <2>2. /\ ToSet(Listed) = Present \ writing /\ ToSet(Listed) \in SUBSET Files
        /\ size \in Sized /\ SumOf(size, ToSet(Listed)) \in Nat
    BY <1>1, <1>4, AloneListed
  <2>3. new'[a] = made + 1
    BY <1>1 DEF IInv, TypeOK
  <2>4. Seen(a)' = ToSet(Listed) \cup {made + 1} /\ made + 1 \notin ToSet(Listed)
    BY <1>1, <2>2, <2>3 DEF Seen
  <2> DEFINE old == ToSet(Listed)
  <2> HIDE DEF old
  <2>5. SumOf(size', Seen(a)') = SumOf(size, old) + new[a]
    <3>1. old \in SUBSET Files /\ made + 1 \notin old
      BY <1>1, <2>2, <2>4 DEF old
    <3>2. /\ SumOf(size', old \cup {made + 1}) = size'[made + 1] + SumOf(size', old)
          /\ SumOf(size', old) \in Nat
      BY <1>1, <3>1, SizesAdd
    <3>3. size'[made + 1] = new[a] /\ \A f \in old : size[f] = size'[f]
      BY <1>1, <2>2, <2>4 DEF old, IInv, TypeOK
    <3>4. SumOf(size, old) = SumOf(size', old)
      BY <1>1, <2>2, <3>3, SizesSame DEF old
    <3> QED
      BY <1>1, <2>4, <3>2, <3>3, <3>4 DEF old
  <2>6. CASE totalSize[a] + new[a] <= limit[a] /\ totalSize[a] = SumOf(size, old)
    BY <1>1, <2>5, <2>6 DEF AloneWrites
  <2>7. CASE old \subseteq kept[a]
    BY <1>1, <2>3, <2>4, <2>7 DEF AloneWrites, old
  <2>8. CASE videos[a] = <<>>
    <3>1. ToSet(videos[a]) = {}
      BY <2>8 DEF ToSet
    <3> QED
      BY <2>1, <2>7, <3>1 DEF AloneDeletes, old
  <2>9. totalSize[a] + new[a] <= limit[a] \/ videos[a] = <<>>
    <3>1. totalSize[a] \in Int /\ limit[a] \in Nat
      BY <1>1, GalleryAssumption DEF IInv, TypeOK, CopyInv, Making
    <3> QED
      BY <1>1, <3>1 DEF NeedsRoom
  <2> QED
    BY <2>1, <2>6, <2>7, <2>8, <2>9 DEF AloneDeletes, old
<1> QED
  BY <1>1, <1>2, <1>3, <1>4, AloneStep

LEMMA IdleAlone ==
  ASSUME IInv, AloneInv, NEW a \in Copiers, stage[a] # "idle", Idle(a)
  PROVE  AloneInv'
<1>1. stage' = [stage EXCEPT ![a] = "idle"] /\ met' = [met EXCEPT ![a] = FALSE]
  BY DEF Idle
<1>2. a \in Busy /\ \A c \in Copiers : c # a => stage'[c] = stage[c] /\ met'[c] = met[c]
  BY <1>1 DEF Busy
<1>3. stage'[a] = "idle"
  BY <1>1 DEF IInv, TypeOK
<1> QED
  BY <1>2, <1>3, AloneStep

LEMMA NextAlone ==
  ASSUME IInv, AloneInv, [Next]_vars
  PROVE  AloneInv'
<1>1. ASSUME NEW c \in Copiers,
             \/ CopyBegins(c) \/ Query(c) \/ QueryFails(c) \/ DeleteOldest(c)
             \/ DeleteFails(c) \/ Insert(c)
      PROVE  AloneInv'
  BY <1>1, CopyBeginsAlone, QueryAlone, QueryFailsAlone, DeleteOldestAlone, DeleteFailsAlone,
     InsertAlone
<1>2. ASSUME NEW c \in Copiers, InsertFails(c) \/ WriteEnds(c) \/ WriteFails(c)
      PROVE  AloneInv'
  <2>1. stage[c] # "idle" /\ Idle(c)
    BY <1>2 DEF InsertFails, WriteEnds, WriteFails
  <2> QED
    BY <2>1, IdleAlone
<1>3. CASE Kill
  <2>1. stage' = [c \in Copiers |-> "idle"]
    BY <1>3 DEF Kill
  <2>2. Busy' = {}
    BY <2>1 DEF Busy
  <2> QED
    BY <2>2 DEF AloneInv
<1>4. CASE UNCHANGED vars
  <2>1. /\ stage' = stage /\ met' = met /\ kept' = kept /\ videos' = videos /\ size' = size
        /\ totalSize' = totalSize /\ new' = new /\ limit' = limit /\ writing' = writing
    BY <1>4 DEF vars, albumVars, copyVars, histVars
  <2>2. Listed' = Listed /\ Present' = Present
    BY <1>4 DEF vars, albumVars, Present, Listed, Without
  <2>3. Busy' = Busy
    BY <2>1 DEF Busy
  <2>4. \A c \in Copiers : (AloneDeletes(c) => AloneDeletes(c)') /\ (AloneWrites(c) => AloneWrites(c)')
    BY <2>1, <2>2 DEF AloneDeletes, AloneWrites, Seen
  <2> QED
    BY <2>1, <2>3, <2>4 DEF AloneInv
<1> QED
  BY <1>1, <1>2, <1>3, <1>4 DEF Next

LEMMA InitAlone == Init => AloneInv
BY DEF Init, AloneInv, Busy

(* A copy that ran alone has left what is listed within the limit it read, *)
(* or nothing but what it could not delete.                                *)
THEOREM AloneStaysWithin == Spec => AloneWithinLimit
<1>1. Spec => [](IInv /\ AloneInv)
  BY InitTypes, NextTypes, InitAlone, NextAlone, PTL DEF Spec
<1> DEFINE Ok == \A c \in Copiers :
       stage[c] = "write" /\ stage'[c] = "idle" /\ ~met[c]
         => LET seen == Present \ (writing \ {new[c]})
            IN  Total(seen) <= limit[c] \/ seen \subseteq kept[c] \cup {new[c]}
<1>2. IInv /\ AloneInv => [Ok]_vars
  <2> SUFFICES ASSUME IInv, AloneInv, NEW c \in Copiers, stage[c] = "write", ~met[c]
               PROVE  LET seen == Present \ (writing \ {new[c]})
                      IN  Total(seen) <= limit[c] \/ seen \subseteq kept[c] \cup {new[c]}
    OBVIOUS
  <2>1. AloneWrites(c)
    BY DEF AloneInv, Busy
  <2> QED
    BY <2>1, TotalIs DEF AloneWrites, Seen
<1> QED
  BY <1>1, <1>2, PTL DEF AloneWithinLimit

-----------------------------------------------------------------------------
(* The order of deletion.  While nothing fails, a file of which an older   *)
(* one is deleted later, or stands behind it in the album or in a list, or *)
(* was completed before it in a directory, is one of a pair of which one   *)
(* was being written when a list was taken or another file completed.      *)

Late(x, y) == x \in late \/ y \in late

GoneInOrder == \A f \in 1 .. made, g \in Present : f \notin Present /\ g < f => Late(f, g)

AlbumInOrder == \A x, y \in Files : Before(album, x, y) /\ y < x => Late(x, y)

WrittenInOrder ==
  legacy => \A x \in writing, y \in (1 .. made) \ writing : x < y => x \in late

ListInOrder ==
  \A c \in Copiers : stage[c] = "delete" =>
    /\ \A f \in ToSet(videos[c]), g \in Present :
         g < f => Late(f, g) \/ Before(videos[c], g, f)
    /\ \A x, y \in Files : Before(videos[c], x, y) /\ y < x => Late(x, y)

OrderInv == failures = 0 => GoneInOrder /\ AlbumInOrder /\ WrittenInOrder /\ ListInOrder

(* Of two files of a list one comes first.                                 *)
LEMMA OneIsFirst ==
  ASSUME NEW E, NEW q \in Seq(E), NEW f \in ToSet(q), NEW g \in ToSet(q), f # g
  PROVE  Before(q, f, g) \/ Before(q, g, f)
<1>1. DOMAIN q = 1 .. Len(q) /\ Len(q) \in Nat
  BY LenProperties
<1>2. PICK i \in 1 .. Len(q) : q[i] = f
  BY <1>1 DEF ToSet
<1>3. PICK j \in 1 .. Len(q) : q[j] = g
  BY <1>1 DEF ToSet
<1>4. i < j \/ j < i
  BY <1>1, <1>2, <1>3
<1> QED
  BY <1>2, <1>3, <1>4 DEF Before

LEMMA TailKeepsOrder ==
  ASSUME NEW E, NEW q \in Seq(E), q # <<>>, NEW f, NEW g, Before(Tail(q), f, g)
  PROVE  Before(q, f, g)
<1> DEFINE A == Tail(q)
<1>1. /\ Len(A) = Len(q) - 1 /\ Len(q) \in Nat /\ Len(q) # 0
      /\ \A i \in 1 .. Len(A) : A[i] = q[i + 1]
  BY EmptySeq, LenProperties, HeadTailProperties
<1> HIDE DEF A
<1>2. PICK i \in 1 .. Len(A), j \in 1 .. Len(A) : i < j /\ A[i] = f /\ A[j] = g
  BY DEF Before, A
<1>3. /\ i + 1 \in 1 .. Len(q) /\ j + 1 \in 1 .. Len(q) /\ i + 1 < j + 1
      /\ q[i + 1] = f /\ q[j + 1] = g
  BY <1>1, <1>2
<1> QED
  BY <1>3 DEF Before

(* The files of a list, in its order, are files of it.                     *)
LEMMA BothListed ==
  ASSUME NEW E, NEW q \in Seq(E), NEW f, NEW g, Before(q, f, g)
  PROVE  f \in ToSet(q) /\ g \in ToSet(q) /\ f \in E /\ g \in E
<1>1. DOMAIN q = 1 .. Len(q) /\ \A i \in 1 .. Len(q) : q[i] \in E
  BY LenProperties, ElementOfSeq
<1>2. PICK i \in 1 .. Len(q), j \in 1 .. Len(q) : q[i] = f /\ q[j] = g
  BY DEF Before
<1> QED
  BY <1>1, <1>2 DEF ToSet

(* A step that touches neither the album nor a list of a copy that makes   *)
(* room.                                                                   *)
LEMMA OrderStep ==
  ASSUME IInv, OrderInv, failures' = 0 => failures = 0,
         made' = made, legacy' = legacy, album' = album, writing' = writing, late' = late,
         \A c \in Copiers : stage'[c] = "delete" => stage[c] = "delete" /\ videos'[c] = videos[c]
  PROVE  OrderInv'
<1> SUFFICES ASSUME failures' = 0
             PROVE  GoneInOrder' /\ AlbumInOrder' /\ WrittenInOrder' /\ ListInOrder'
  BY DEF OrderInv
<1>1. Present' = Present /\ \A x, y : Late(x, y)' <=> Late(x, y)
  BY DEF Present, Late
<1>2. GoneInOrder /\ AlbumInOrder /\ WrittenInOrder /\ ListInOrder
  BY DEF OrderInv
<1>3. GoneInOrder'
  BY <1>1, <1>2 DEF GoneInOrder, Late
<1>4. AlbumInOrder'
  BY <1>1, <1>2 DEF AlbumInOrder, Late
<1>5. WrittenInOrder'
  BY <1>2 DEF WrittenInOrder
<1>6. ListInOrder'
  BY <1>1, <1>2 DEF ListInOrder, Late
<1> QED
  BY <1>3, <1>4, <1>5, <1>6

LEMMA QueryOrder ==
  ASSUME IInv, OrderInv, NEW a \in Copiers, Query(a)
  PROVE  OrderInv'
<1>1. /\ stage' = [stage EXCEPT ![a] = "delete"] /\ videos' = [videos EXCEPT ![a] = Listed]
      /\ album' = album /\ writing' = writing /\ made' = made /\ legacy' = legacy
      /\ failures' = failures /\ late' = late \cup writing
  BY DEF Query, albumVars
<1> SUFFICES ASSUME failures = 0
             PROVE  GoneInOrder' /\ AlbumInOrder' /\ WrittenInOrder' /\ ListInOrder'
  BY <1>1 DEF OrderInv
<1>2. GoneInOrder /\ AlbumInOrder /\ WrittenInOrder /\ ListInOrder
  BY DEF OrderInv
<1>3. Present' = Present
  BY <1>1 DEF Present
<1>4. GoneInOrder'
  BY <1>1, <1>2, <1>3 DEF GoneInOrder, Late
<1>5. AlbumInOrder'
  BY <1>1, <1>2 DEF AlbumInOrder, Late
<1>6. WrittenInOrder'
  BY <1>1, <1>2 DEF WrittenInOrder
<1>7. /\ Listed \in Seq(Files) /\ ToSet(Listed) = IF legacy THEN Present ELSE Present \ writing
      /\ \A g, f : Before(Listed, g, f) => Before(album, g, f)
  BY ListedIs
<1> HIDE DEF Listed
<1>8. ASSUME NEW f \in ToSet(Listed), NEW g \in Present, g < f
      PROVE  Late(f, g)' \/ Before(Listed, g, f)
  <2>1. f \in Nat /\ g \in Nat /\ f \in Files /\ g \in Files
    BY <1>7, PresentIs, Bounds DEF IInv, Files
  <2>2. CASE g \in ToSet(Listed)
    <3>1. Before(Listed, f, g) \/ Before(Listed, g, f)
      BY <1>7, <1>8, <2>1, <2>2, OneIsFirst
    <3>2. Before(Listed, f, g) => Late(f, g)
      BY <1>2, <1>7, <1>8, <2>1 DEF AlbumInOrder
    <3> QED
      BY <1>1, <3>1, <3>2 DEF Late
  <2>3. CASE g \notin ToSet(Listed)
    BY <1>1, <1>7, <2>3 DEF Late
  <2> QED
    BY <2>2, <2>3
<1>9. ASSUME NEW x \in Files, NEW y \in Files, Before(Listed, x, y), y < x
      PROVE  Late(x, y)'
  BY <1>1, <1>2, <1>7, <1>9 DEF AlbumInOrder, Late
<1>10. ListInOrder'
  <2> SUFFICES ASSUME NEW c \in Copiers, stage'[c] = "delete"
               PROVE  /\ \A f \in ToSet(videos'[c]), g \in Present :
                           g < f => Late(f, g)' \/ Before(videos'[c], g, f)
                      /\ \A x, y \in Files : Before(videos'[c], x, y) /\ y < x => Late(x, y)'
    BY <1>3 DEF ListInOrder, Late
  <2>1. CASE c = a
    <3>1. videos'[c] = Listed
      BY <1>1, <2>1 DEF IInv, CopyInv
    <3> QED
      BY <1>8, <1>9, <3>1
  <2>2. CASE c # a
    <3>1. videos'[c] = videos[c] /\ stage[c] = "delete"
      BY <1>1, <2>2 DEF IInv, TypeOK
    <3> QED
      BY <1>1, <1>2, <3>1 DEF ListInOrder, Late
  <2> QED
    BY <2>1, <2>2
<1> QED
  BY <1>4, <1>5, <1>6, <1>10

LEMMA DeleteOldestOrder ==
  ASSUME IInv, OrderInv, NEW a \in Copiers, DeleteOldest(a)
  PROVE  OrderInv'
<1>1. /\ stage[a] = "delete" /\ videos[a] # <<>>
      /\ writing' = writing /\ made' = made /\ stage' = stage
      /\ legacy' = legacy /\ failures' = failures /\ late' = late
      /\ videos' = [videos EXCEPT ![a] = Tail(videos[a])]
      /\ Present' = Present \ {Oldest(a)}
      /\ \A g, f : Before(album', g, f) => Before(album, g, f)
  BY DeleteOldestSteps
<1> SUFFICES ASSUME failures = 0
             PROVE  GoneInOrder' /\ AlbumInOrder' /\ WrittenInOrder' /\ ListInOrder'
  BY <1>1 DEF OrderInv
<1>2. GoneInOrder /\ AlbumInOrder /\ WrittenInOrder /\ ListInOrder
  BY DEF OrderInv
<1>3. /\ Oldest(a) \in ToSet(videos[a])
      /\ ToSet(Tail(videos[a])) = ToSet(videos[a]) \ {Oldest(a)}
      /\ \A g : ~Before(videos[a], g, Oldest(a))
      /\ \A g, f : Before(videos[a], g, f) /\ g # Oldest(a) => Before(Tail(videos[a]), g, f)
  BY <1>1, OldestIs
<1>4. \A g \in Present : g < Oldest(a) => Late(Oldest(a), g)
  BY <1>1, <1>2, <1>3 DEF ListInOrder
<1>5. GoneInOrder'
  BY <1>1, <1>2, <1>4 DEF GoneInOrder, Late
<1>6. AlbumInOrder'
  BY <1>1, <1>2 DEF AlbumInOrder, Late
<1>7. WrittenInOrder'
  BY <1>1, <1>2 DEF WrittenInOrder
<1>8. ListInOrder'
  <2> SUFFICES ASSUME NEW c \in Copiers, stage[c] = "delete"
               PROVE  /\ \A f \in ToSet(videos'[c]), g \in Present \ {Oldest(a)} :
                           g < f => Late(f, g) \/ Before(videos'[c], g, f)
                      /\ \A x, y \in Files : Before(videos'[c], x, y) /\ y < x => Late(x, y)
    BY <1>1 DEF ListInOrder, Late
  <2>1. /\ \A f \in ToSet(videos[c]), g \in Present :
             g < f => Late(f, g) \/ Before(videos[c], g, f)
        /\ \A x, y \in Files : Before(videos[c], x, y) /\ y < x => Late(x, y)
    BY <1>2 DEF ListInOrder
  <2>2. CASE c = a
    <3>1. videos'[c] = Tail(videos[a]) /\ videos[a] \in Seq(Files)
      BY <1>1, <2>2 DEF IInv, CopyInv
    <3>2. \A x, y : Before(Tail(videos[a]), x, y) => Before(videos[a], x, y)
      BY <1>1, <3>1, TailKeepsOrder
    <3> QED
      BY <1>3, <2>1, <2>2, <3>1, <3>2
  <2>3. CASE c # a
    BY <1>1, <2>1, <2>3
  <2> QED
    BY <2>2, <2>3
<1> QED
  BY <1>5, <1>6, <1>7, <1>8

LEMMA InsertOrder ==
  ASSUME IInv, OrderInv, NEW a \in Copiers, Insert(a)
  PROVE  OrderInv'
<1>1. /\ stage' = [stage EXCEPT ![a] = "write"] /\ made' = made + 1
      /\ made + 1 \in Files /\ made \in Nat
      /\ album' = Append(album, made + 1)
      /\ Present' = Present \cup {made + 1} /\ writing' = writing \cup {made + 1}
      /\ videos' = [videos EXCEPT ![a] = <<>>]
      /\ legacy' = legacy /\ failures' = failures /\ late' = late
  BY InsertSteps
<1> SUFFICES ASSUME failures = 0
             PROVE  GoneInOrder' /\ AlbumInOrder' /\ WrittenInOrder' /\ ListInOrder'
  BY <1>1 DEF OrderInv
<1>2. GoneInOrder /\ AlbumInOrder /\ WrittenInOrder /\ ListInOrder
  BY DEF OrderInv
<1>3. /\ \A f \in Present : f \in 1 .. made /\ f \in Nat /\ f <= made
      /\ \A f \in writing : f \in 1 .. made
      /\ \A c \in Copiers : \A f \in ToSet(videos[c]) : f \in Nat /\ f <= made
  <2>1. /\ Present \subseteq 1 .. made /\ writing \subseteq 1 .. made
        /\ \A c \in Copiers : ToSet(videos[c]) \subseteq 1 .. made
    BY DEF IInv, TypeOK, AlbumInv
  <2>2. \A f \in 1 .. made : f \in Nat /\ f <= made
    BY <1>1
  <2> QED
    BY <2>1, <2>2
<1>4. \A f \in 1 .. made' : f \in 1 .. made \/ f = made + 1
  BY <1>1
<1>5. GoneInOrder'
  <2> SUFFICES ASSUME NEW f \in 1 .. made', NEW g \in Present', f \notin Present', g < f
               PROVE  Late(f, g)
    BY <1>1 DEF GoneInOrder, Late
  <2>1. f \in 1 .. made /\ f \notin Present
    BY <1>1, <1>4
  <2>2. g \in Present
    BY <1>1, <2>1
  <2> QED
    BY <1>2, <2>1, <2>2 DEF GoneInOrder
<1>6. AlbumInOrder'
  <2> SUFFICES ASSUME NEW x \in Files, NEW y \in Files, Before(album', x, y), y < x
               PROVE  Late(x, y)
    BY <1>1 DEF AlbumInOrder, Late
  <2>1. album \in Seq(Files) /\ ToSet(album) = Present
    BY DEF IInv, AlbumInv, Present
  <2>2. Before(album, x, y) \/ (x \in Present /\ y = made + 1)
    BY <1>1, <2>1, AppendIs
  <2>3. ~(x \in Present /\ y = made + 1)
    BY <1>1, <1>3
  <2> QED
    BY <1>2, <2>2, <2>3 DEF AlbumInOrder
<1>7. WrittenInOrder'
  <2> SUFFICES ASSUME legacy, NEW x \in writing', NEW y \in (1 .. made') \ writing', x < y
               PROVE  x \in late
    BY <1>1 DEF WrittenInOrder
  <2>1. y \in (1 .. made) \ writing
    BY <1>1, <1>4
  <2>2. x \in writing
    BY <1>1, <2>1
  <2> QED
    BY <1>2, <2>1, <2>2 DEF WrittenInOrder
<1>8. ListInOrder'
  <2> SUFFICES ASSUME NEW c \in Copiers, stage'[c] = "delete"
               PROVE  /\ \A f \in ToSet(videos'[c]), g \in Present' :
                           g < f => Late(f, g) \/ Before(videos'[c], g, f)
                      /\ \A x, y \in Files : Before(videos'[c], x, y) /\ y < x => Late(x, y)
    BY <1>1 DEF ListInOrder, Late
  <2>1. stage[c] = "delete" /\ videos'[c] = videos[c]
    BY <1>1 DEF IInv, TypeOK
  <2>2. /\ \A f \in ToSet(videos[c]), g \in Present :
             g < f => Late(f, g) \/ Before(videos[c], g, f)
        /\ \A x, y \in Files : Before(videos[c], x, y) /\ y < x => Late(x, y)
    BY <1>2, <2>1 DEF ListInOrder
  <2>3. \A f \in ToSet(videos[c]) : ~(made + 1 < f)
    BY <1>1, <1>3
  <2> QED
    BY <1>1, <2>1, <2>2, <2>3
<1> QED
  BY <1>5, <1>6, <1>7, <1>8

LEMMA WriteEndsOrder ==
  ASSUME IInv, OrderInv, NEW a \in Copiers, WriteEnds(a)
  PROVE  OrderInv'
<1>1. /\ stage[a] = "write" /\ Idle(a) /\ new[a] \in writing /\ new[a] \in Files
      /\ writing' = writing \ {new[a]} /\ made' = made
      /\ legacy' = legacy /\ failures' = failures
      /\ late' = IF legacy THEN late \cup writing' ELSE late
      /\ album' \in Seq(Files) /\ Present' = Present
      /\ ~legacy => album' = album
      /\ \A g, f : Before(album', g, f) => Before(album, g, f) \/ (legacy /\ f = new[a])
  BY WriteEndsSteps
<1> SUFFICES ASSUME failures = 0
             PROVE  GoneInOrder' /\ AlbumInOrder' /\ WrittenInOrder' /\ ListInOrder'
  BY <1>1 DEF OrderInv
<1>2. GoneInOrder /\ AlbumInOrder /\ WrittenInOrder /\ ListInOrder
  BY DEF OrderInv
<1>3. \A x, y : Late(x, y) => Late(x, y)'
  BY <1>1 DEF Late
<1>4. GoneInOrder'
  BY <1>1, <1>2, <1>3 DEF GoneInOrder
<1>5. AlbumInOrder'
  <2> SUFFICES ASSUME NEW x \in Files, NEW y \in Files, Before(album', x, y), y < x
               PROVE  Late(x, y)'
    BY DEF AlbumInOrder
  <2>1. CASE Before(album, x, y)
    BY <1>2, <1>3, <2>1 DEF AlbumInOrder
  <2>2. CASE legacy /\ y = new[a]
    <3>1. x \in Present
      <4>1. x \in ToSet(album')
        BY <1>1, BothListed
      <4> QED
        BY <1>1, <4>1 DEF Present
    <3>2. x \in 1 .. made /\ x # y
      BY <3>1, Bounds DEF IInv, TypeOK, Files
    <3>3. CASE x \in writing
      BY <1>1, <2>2, <3>2, <3>3 DEF Late
    <3>4. CASE x \notin writing
      BY <1>1, <1>2, <2>2, <3>2, <3>4 DEF Late, WrittenInOrder
    <3> QED
      BY <3>3, <3>4
  <2> QED
    BY <1>1, <2>1, <2>2
<1>6. WrittenInOrder'
  BY <1>1 DEF WrittenInOrder
<1>7. ListInOrder'
  <2> SUFFICES ASSUME NEW c \in Copiers, stage'[c] = "delete"
               PROVE  /\ \A f \in ToSet(videos'[c]), g \in Present :
                           g < f => Late(f, g)' \/ Before(videos'[c], g, f)
                      /\ \A x, y \in Files : Before(videos'[c], x, y) /\ y < x => Late(x, y)'
    BY <1>1 DEF ListInOrder
  <2>1. stage[c] = "delete" /\ videos'[c] = videos[c]
    BY <1>1 DEF Idle, IInv, TypeOK
  <2> QED
    BY <1>2, <1>3, <2>1 DEF ListInOrder
<1> QED
  BY <1>4, <1>5, <1>6, <1>7

LEMMA InitOrder == Init => OrderInv
<1> SUFFICES ASSUME Init PROVE OrderInv
  OBVIOUS
<1>1. /\ made = 0 /\ album = <<>> /\ writing = {} /\ stage = [c \in Copiers |-> "idle"]
  BY DEF Init
<1>2. Present = {} /\ \A x, y : ~Before(album, x, y)
  BY <1>1 DEF Present, ToSet, Before
<1> QED
  BY <1>1, <1>2 DEF OrderInv, GoneInOrder, AlbumInOrder, WrittenInOrder, ListInOrder

LEMMA NextOrder ==
  ASSUME IInv, OrderInv, [Next]_vars
  PROVE  OrderInv'
<1>1. ASSUME NEW c \in Copiers, CopyBegins(c)
      PROVE  OrderInv'
  <2>1. /\ made' = made /\ legacy' = legacy /\ album' = album /\ writing' = writing
        /\ late' = late /\ failures' = failures /\ videos' = videos
        /\ stage' = [stage EXCEPT ![c] = "query"]
    BY <1>1 DEF CopyBegins, albumVars
  <2>2. \A d \in Copiers : stage'[d] = "delete" => stage[d] = "delete"
    BY <2>1 DEF IInv, TypeOK
  <2> QED
    BY <2>1, <2>2, OrderStep
<1>2. ASSUME NEW c \in Copiers, Query(c) \/ DeleteOldest(c) \/ Insert(c) \/ WriteEnds(c)
      PROVE  OrderInv'
  BY <1>2, QueryOrder, DeleteOldestOrder, InsertOrder, WriteEndsOrder
<1>3. ASSUME NEW c \in Copiers,
             QueryFails(c) \/ DeleteFails(c) \/ InsertFails(c) \/ WriteFails(c)
      PROVE  OrderInv'
  <2>1. Fail
    BY <1>3 DEF QueryFails, DeleteFails, InsertFails, WriteFails
  <2>2. failures' # 0
    BY <2>1, FailCounts DEF IInv
  <2> QED
    BY <2>2 DEF OrderInv
<1>4. CASE Kill
  <2>1. failures' # 0
    BY <1>4, FailCounts DEF IInv, Kill
  <2> QED
    BY <2>1 DEF OrderInv
<1>5. CASE UNCHANGED vars
  <2>1. /\ made' = made /\ legacy' = legacy /\ album' = album /\ writing' = writing
        /\ late' = late /\ failures' = failures /\ videos' = videos /\ stage' = stage
    BY <1>5 DEF vars, albumVars, copyVars, histVars
  <2> QED
    BY <2>1, OrderStep
<1> QED
  BY <1>1, <1>2, <1>3, <1>4, <1>5 DEF Next

(* What a copy in MediaStore deletes first is in the album, and so is all  *)
(* that stands behind it in the list, while nothing fails and no list has  *)
(* missed a file.                                                          *)
LEMMA ListedStillThere ==
  ASSUME IInv, OrderInv, NEW c \in Copiers, stage[c] = "delete", videos[c] # <<>>,
         failures = 0, late = {}, ~legacy, Oldest(c) \in Present
  PROVE  ToSet(videos[c]) \subseteq ToSet(Listed)
<1>1. GoneInOrder /\ ListInOrder /\ \A x, y : ~Late(x, y)
  BY DEF OrderInv, Late
<1>2. /\ Oldest(c) \in ToSet(videos[c]) /\ Oldest(c) \in 1 .. made /\ Oldest(c) \in Files
      /\ \A g : ~Before(videos[c], g, Oldest(c))
  BY OldestIs
<1>3. ASSUME NEW f \in ToSet(videos[c]), f \notin Present PROVE FALSE
  <2>1. f \in Files /\ f \in 1 .. made /\ f # Oldest(c) /\ f \in Nat /\ Oldest(c) \in Nat
    <3>1. f \in Files /\ f \in 1 .. made
      BY PresentIs DEF IInv, TypeOK
    <3> QED
      BY <1>2, <1>3, <3>1, Bounds DEF Files
  <2>2. videos[c] \in Seq(Files)
    BY DEF IInv, CopyInv
  <2>3. Before(videos[c], Oldest(c), f)
    BY <1>2, <2>1, <2>2, OneIsFirst
  <2>4. ~(f < Oldest(c))
    BY <1>1, <1>2, <2>1, <2>3 DEF ListInOrder
  <2>5. ~(Oldest(c) < f)
    BY <1>1, <1>3, <2>1 DEF GoneInOrder
  <2> QED
    BY <2>1, <2>4, <2>5
<1>4. ToSet(videos[c]) \cap writing = {}
  BY DEF IInv, ListInv
<1> QED
  BY <1>3, <1>4, ListedIs

(* No copy deletes a file while the others that are listed and the new one *)
(* fit in its limit, if it runs alone; nor when others run, as long as     *)
(* nothing fails, no list has missed a file and there is MediaStore.       *)
THEOREM NothingIsDeletedInVain == Spec => NothingDeletedInVain
<1>1. Spec => [](IInv /\ AloneInv /\ OrderInv)
  BY InitTypes, NextTypes, InitAlone, NextAlone, InitOrder, NextOrder, PTL DEF Spec
<1> DEFINE Ok == \A c \in Copiers :
       (/\ stage[c] = "delete" /\ stage'[c] = "delete"
        /\ videos'[c] # videos[c] /\ album' # album
        /\ ~met[c] \/ (failures = 0 /\ late = {} /\ ~legacy))
         => Total(ToSet(Listed)) + new[c] > limit[c]
<1>2. IInv /\ AloneInv /\ OrderInv /\ [Next]_vars => [Ok]_vars
  <2> SUFFICES ASSUME IInv, AloneInv, OrderInv, Next, NEW c \in Copiers,
                      stage[c] = "delete", stage'[c] = "delete",
                      videos'[c] # videos[c], album' # album,
                      ~met[c] \/ (failures = 0 /\ late = {} /\ ~legacy)
               PROVE  Total(ToSet(Listed)) + new[c] > limit[c]
    OBVIOUS
  <2>1. DeleteOldest(c)
    <3>1. ASSUME NEW a \in Copiers,
                 \/ CopyBegins(a) \/ Query(a) \/ QueryFails(a) \/ DeleteFails(a)
                 \/ InsertFails(a) \/ WriteFails(a) \/ Kill
          PROVE  FALSE
      <4>1. album' = album
        BY <3>1 DEF CopyBegins, Query, QueryFails, DeleteFails, InsertFails, WriteFails, Kill,
           albumVars
      <4> QED
        BY <4>1
    <3>2. ASSUME NEW a \in Copiers, Insert(a) PROVE FALSE
      <4>1. /\ stage' = [stage EXCEPT ![a] = "write"]
            /\ videos' = [videos EXCEPT ![a] = <<>>]
        BY <3>2, InsertSteps
      <4> QED
        BY <4>1 DEF IInv, TypeOK
    <3>3. ASSUME NEW a \in Copiers, WriteEnds(a) PROVE FALSE
      <4>1. /\ stage' = [stage EXCEPT ![a] = "idle"]
            /\ videos' = [videos EXCEPT ![a] = <<>>]
        BY <3>3 DEF WriteEnds, Idle
      <4> QED
        BY <4>1 DEF IInv, TypeOK
    <3>4. ASSUME NEW a \in Copiers, DeleteOldest(a), a # c PROVE FALSE
      <4>1. videos' = [videos EXCEPT ![a] = Tail(videos[a])]
        BY <3>4, DeleteOldestSteps
      <4> QED
        BY <3>4, <4>1 DEF IInv, CopyInv
    <3>5. PICK a \in Copiers :
            \/ CopyBegins(a) \/ Query(a) \/ QueryFails(a) \/ DeleteOldest(a)
            \/ DeleteFails(a) \/ Insert(a) \/ InsertFails(a) \/ WriteEnds(a) \/ WriteFails(a)
      <4>1. ~Kill
        BY <3>1
      <4> QED
        BY <4>1 DEF Next
    <3> QED
      BY <3>1, <3>2, <3>3, <3>4, <3>5
  <2>2. /\ NeedsRoom(c) /\ videos[c] # <<>>
        /\ album' = Without(album, {Oldest(c)}) /\ Present' = Present \ {Oldest(c)}
    BY <2>1, DeleteOldestSteps
  <2>3. CASE ~met[c]
    BY <2>2, <2>3, AloneMakesRoom, TotalIs
  <2>4. CASE failures = 0 /\ late = {} /\ ~legacy
    <3>1. totalSize[c] = SumOf(size, ToSet(videos[c]))
      BY <2>4 DEF IInv, ListInv
    <3>2. CASE Oldest(c) \in Present
      <4>1. ToSet(videos[c]) \in SUBSET ToSet(Listed)
        BY <2>2, <2>4, <3>2, ListedStillThere
      <4>2. ToSet(Listed) \in SUBSET Files /\ size \in Sized
        BY ListedIs, PresentIs DEF IInv, TypeOK, Sized
      <4>3. SumOf(size, ToSet(videos[c])) <= SumOf(size, ToSet(Listed))
        BY <4>1, <4>2, SizesMonotone
      <4>4. /\ SumOf(size, ToSet(Listed)) \in Nat /\ SumOf(size, ToSet(videos[c])) \in Nat
            /\ new[c] \in Nat /\ limit[c] \in Nat
        <5>1. SumOf(size, ToSet(Listed)) \in Nat
          BY <4>2, SizesSum
        <5>2. ToSet(videos[c]) \in SUBSET Files
          BY <4>1, <4>2
        <5>3. SumOf(size, ToSet(videos[c])) \in Nat
          BY <4>2, <5>2, SizesSum
        <5>4. new[c] \in Nat /\ limit[c] \in Nat
          BY Bounds DEF IInv, TypeOK, CopyInv, Making
        <5> QED
          BY <5>1, <5>3, <5>4
      <4>5. totalSize[c] + new[c] > limit[c]
        BY <2>2 DEF NeedsRoom
      <4> QED
        BY <3>1, <4>3, <4>4, <4>5, TotalIs
    <3>3. CASE Oldest(c) \notin Present
      <4>1. Without(album, {Oldest(c)}) = album
        BY <3>3, WithoutNothing DEF IInv, AlbumInv, Present
      <4> QED
        BY <2>2, <4>1
    <3> QED
      BY <3>2, <3>3
  <2> QED
    BY <2>3, <2>4
<1> QED
  BY <1>1, <1>2, PTL DEF NothingDeletedInVain, Spec

-----------------------------------------------------------------------------
(* The room there is while nothing fails.  Each copy that has its list may *)
(* add a file the others do not know of, and each that is writing has      *)
(* added one: what a copy reckons with falls short of the album by a file  *)
(* for each of the other copies, except for those in older[c], which had   *)
(* their list when c took its own and have not added theirs yet.  D are    *)
(* those that the bound on the album has still room for.                   *)

Deleting == {c \in Copiers : stage[c] = "delete"}
Debts(S) == Cardinality(Copiers) - 1 - Cardinality(S)
Slack(S) == Debts(S) * Largest

Reckoned(c) == IF legacy THEN Present ELSE Present \cup ToSet(videos[c])

RoomFor(c, S) ==
  /\ SumOf(size, Reckoned(c)) <= totalSize[c] + Slack(S)
  /\ Cardinality(Present \ ToSet(videos[c])) <= Debts(S)

Room(older, D) ==
  /\ SumOf(size, Present) <= Max(Limits) + Slack(D)
  /\ \A c \in Deleting : c \notin older[c]
  /\ \A c, d \in Deleting :
       c # d => d \in older[c] \/ (c \in older[d] /\ older[c] \subseteq older[d])
  /\ \A c \in Deleting \ D : D \subseteq older[c] /\ RoomFor(c, older[c])

RoomInv ==
  failures = 0 =>
    \E older \in [Copiers -> SUBSET Deleting], D \in SUBSET Deleting : Room(older, D)

LEMMA LimitsAre ==
  /\ Max(Limits) \in Nat /\ \A l \in Limits : l \in Nat /\ l <= Max(Limits)
  /\ \A s \in Sizes : s <= Max(Limits)
<1>1. Max(Limits) \in Limits /\ Max(Limits) \in Nat /\ \A l \in Limits : l <= Max(Limits)
  BY GalleryAssumption, MaxIs
<1> QED
  BY <1>1, GalleryAssumption

LEMMA DebtsAre ==
  ASSUME NEW S \in SUBSET Copiers
  PROVE  /\ IsFiniteSet(S) /\ Cardinality(S) \in Nat /\ Cardinality(Copiers) \in Nat
         /\ Debts(S) \in Int /\ Slack(S) \in Int
         /\ Slack(S) <= (Cardinality(Copiers) - 1) * Largest
         /\ \A c \in S : Debts(S \ {c}) = Debts(S) + 1 /\ Slack(S \ {c}) = Slack(S) + Largest
         /\ \A k \in Nat : k <= Debts(S) => k * Largest <= Slack(S)
<1>1. /\ IsFiniteSet(S) /\ Cardinality(S) \in Nat /\ Cardinality(Copiers) \in Nat
      /\ Largest \in Nat
  BY GalleryAssumption, FS_Subset, FS_CardinalityType, LargestIs
<1>2. Debts(S) \in Int /\ Slack(S) \in Int
  BY <1>1 DEF Debts, Slack
<1>3. Slack(S) <= (Cardinality(Copiers) - 1) * Largest
  <2>1. \A n \in Int, k, l \in Nat : (n - k) * l = n * l - k * l /\ k * l >= 0
    OBVIOUS
  <2>2. (Cardinality(Copiers) - 1) \in Int
    BY <1>1
  <2>3. Slack(S) = (Cardinality(Copiers) - 1 - Cardinality(S)) * Largest
    BY DEF Slack, Debts
  <2> DEFINE n == Cardinality(Copiers) - 1
  <2>4. n * Largest \in Int /\ Cardinality(S) * Largest \in Int
    BY <1>1
  <2> QED
    BY <1>1, <2>1, <2>2, <2>3, <2>4
<1>4. ASSUME NEW c \in S
      PROVE  Debts(S \ {c}) = Debts(S) + 1 /\ Slack(S \ {c}) = Slack(S) + Largest
  <2>1. Cardinality(S \ {c}) = Cardinality(S) - 1
    BY <1>1, FS_RemoveElement
  <2>2. Debts(S \ {c}) = Debts(S) + 1
    BY <1>1, <2>1 DEF Debts
  <2>3. \A n \in Int, l \in Nat : (n + 1) * l = n * l + l
    OBVIOUS
  <2> QED
    BY <1>1, <1>2, <2>2, <2>3 DEF Slack
<1>5. ASSUME NEW k \in Nat, k <= Debts(S) PROVE k * Largest <= Slack(S)
  <2>1. \A n \in Int, l \in Nat : k <= n => k * l <= n * l
    OBVIOUS
  <2> QED
    BY <1>1, <1>2, <1>5, <2>1 DEF Slack
<1> QED
  BY <1>1, <1>2, <1>3, <1>4, <1>5

(* Of the files each has its writer.                                       *)
LEMMA WritersCount ==
  ASSUME IInv, failures = 0, NEW c \in Copiers, stage[c] = "query"
  PROVE  /\ IsFiniteSet(writing) /\ Cardinality(writing) \in Nat
         /\ Cardinality(writing) <= Debts(Deleting)
<1> DEFINE T == (Copiers \ Deleting) \ {c}
           f == [x \in writing |-> CHOOSE d \in Copiers : stage[d] = "write" /\ new[d] = x]
<1>1. IsFiniteSet(writing) /\ Cardinality(writing) \in Nat
  <2>1. made \in Nat /\ writing \in SUBSET (1 .. made)
    BY Bounds DEF IInv, TypeOK, AlbumInv
  <2> QED
    BY <2>1, CountUpTo
<1>2. \A x \in writing : f[x] \in Copiers /\ stage[f[x]] = "write" /\ new[f[x]] = x
  BY DEF IInv, AlbumInv
<1>3. f \in [writing -> T]
  <2>1. \A x \in writing : f[x] \in T
    BY <1>2 DEF Deleting
  <2> QED
    BY <2>1
<1> HIDE DEF f
<1>4. /\ IsFiniteSet(Copiers) /\ IsFiniteSet(Copiers \ Deleting) /\ IsFiniteSet(T)
      /\ Deleting \in SUBSET Copiers /\ c \in Copiers \ Deleting
  BY GalleryAssumption, FS_Subset DEF Deleting
<1>5. /\ Cardinality(T) = Cardinality(Copiers \ Deleting) - 1
      /\ Cardinality(Copiers \ Deleting) = Cardinality(Copiers) - Cardinality(Copiers \cap Deleting)
      /\ Copiers \cap Deleting = Deleting
      /\ Cardinality(Copiers) \in Nat /\ Cardinality(Deleting) \in Nat /\ Cardinality(T) \in Nat
  <2>1. Cardinality(T) = Cardinality(Copiers \ Deleting) - 1
    BY <1>4, FS_RemoveElement
  <2>2. Cardinality(Copiers \ Deleting) = Cardinality(Copiers) - Cardinality(Copiers \cap Deleting)
    BY <1>4, FS_Difference
  <2>3. Copiers \cap Deleting = Deleting
    BY <1>4
  <2>4. Cardinality(Copiers) \in Nat /\ Cardinality(Deleting) \in Nat /\ Cardinality(T) \in Nat
    BY <1>4, FS_CardinalityType, DebtsAre
  <2> QED
    BY <2>1, <2>2, <2>3, <2>4
<1>6. Cardinality(T) = Debts(Deleting)
  BY <1>5 DEF Debts
<1> HIDE DEF T
<1>7. ~(Cardinality(T) < Cardinality(writing))
  <2>1. ASSUME Cardinality(T) < Cardinality(writing) PROVE FALSE
    <3>1. \E x, y \in writing : x # y /\ f[x] = f[y]
      BY <1>1, <1>3, <1>4, <2>1, FS_PigeonHole
    <3> QED
      BY <1>2, <3>1
  <2> QED
    BY <2>1
<1> QED
  BY <1>1, <1>5, <1>6, <1>7

(* The sets whose sizes are added up.                                      *)
LEMMA ReckonedIs ==
  ASSUME IInv, NEW c \in Copiers
  PROVE  /\ size \in Sized /\ Present \in SUBSET Files /\ Reckoned(c) \in SUBSET Files
         /\ Present \subseteq Reckoned(c)
         /\ SumOf(size, Present) \in Nat /\ SumOf(size, Reckoned(c)) \in Nat
         /\ SumOf(size, Present) <= SumOf(size, Reckoned(c))
         /\ IsFiniteSet(Present) /\ IsFiniteSet(Present \ ToSet(videos[c]))
         /\ Cardinality(Present \ ToSet(videos[c])) \in Nat /\ Cardinality(Present) \in Nat
<1>1. /\ size \in Sized /\ Present \in SUBSET Files /\ Reckoned(c) \in SUBSET Files
      /\ Present \subseteq Reckoned(c)
  BY PresentIs DEF IInv, TypeOK, Sized, Reckoned
<1>2. SumOf(size, Present) \in Nat /\ SumOf(size, Reckoned(c)) \in Nat
  BY <1>1, SizesSum
<1>3. SumOf(size, Present) <= SumOf(size, Reckoned(c))
  BY <1>1, SizesMonotone
<1>4. \A S \in SUBSET Files : IsFiniteSet(S) /\ Cardinality(S) \in Nat
  BY Bounds, CountUpTo DEF Files
<1>5. Present \ ToSet(videos[c]) \in SUBSET Files
  BY <1>1
<1> QED
  BY <1>1, <1>2, <1>3, <1>4, <1>5

(* A step that neither adds a file nor takes room from a copy.             *)
LEMMA RoomStep ==
  ASSUME RoomInv, failures' = failures, Deleting' = Deleting,
         SumOf(size', Present') <= SumOf(size, Present),
         SumOf(size', Present') \in Nat, SumOf(size, Present) \in Nat,
         \A c \in Deleting, S \in SUBSET Copiers : RoomFor(c, S) => RoomFor(c, S)'
  PROVE  RoomInv'
<1> SUFFICES ASSUME failures = 0
             PROVE  \E older \in [Copiers -> SUBSET Deleting], D \in SUBSET Deleting :
                      Room(older, D)'
  BY DEF RoomInv
<1>1. PICK older \in [Copiers -> SUBSET Deleting], D \in SUBSET Deleting : Room(older, D)
  BY DEF RoomInv
<1>2. D \in SUBSET Copiers /\ \A c \in Deleting : older[c] \in SUBSET Copiers
  BY DEF Deleting
<1>3. SumOf(size', Present') <= Max(Limits) + Slack(D)
  <2>1. Slack(D) \in Int /\ Max(Limits) \in Nat
    BY <1>2, DebtsAre, LimitsAre
  <2>2. SumOf(size, Present) <= Max(Limits) + Slack(D)
    BY <1>1 DEF Room
  <2> QED
    BY <2>1, <2>2
<1>4. \A c \in Deleting \ D : D \subseteq older[c] /\ RoomFor(c, older[c])'
  BY <1>1, <1>2 DEF Room
<1>5. Room(older, D)'
  BY <1>1, <1>3, <1>4 DEF Room
<1> QED
  BY <1>5

LEMMA QueryRoom ==
  ASSUME IInv, RoomInv, NEW a \in Copiers, Query(a)
  PROVE  RoomInv'
<1>1. PICK empty \in SUBSET (ToSet(Listed) \cap writing) :
        totalSize' = [totalSize EXCEPT ![a] = SumOf(size, ToSet(Listed) \ empty)]
  BY TotalIs DEF Query
<1>2. /\ stage[a] = "query" /\ stage' = [stage EXCEPT ![a] = "delete"]
      /\ videos' = [videos EXCEPT ![a] = Listed]
      /\ album' = album /\ size' = size /\ legacy' = legacy /\ failures' = failures
  BY DEF Query, albumVars
<1> SUFFICES ASSUME failures = 0
             PROVE  \E older \in [Copiers -> SUBSET Deleting'], D \in SUBSET Deleting' :
                      Room(older, D)'
  BY <1>2 DEF RoomInv
<1>3. PICK older \in [Copiers -> SUBSET Deleting], D \in SUBSET Deleting : Room(older, D)
  BY DEF RoomInv
<1>4. Deleting' = Deleting \cup {a} /\ a \notin Deleting /\ Deleting \in SUBSET Copiers
  BY <1>2 DEF Deleting, IInv, TypeOK
<1>0. PICK old : old = Deleting
  OBVIOUS
<1>5. PICK with \in [Copiers -> SUBSET Deleting'] : with = [older EXCEPT ![a] = old]
  BY <1>0, <1>4
<1>6. Present' = Present
  BY <1>2 DEF Present
<1>7. RoomFor(a, old)'
  <2>1. /\ Listed \in Seq(Files)
        /\ ToSet(Listed) = IF legacy THEN Present ELSE Present \ writing
    BY ListedIs
  <2> HIDE DEF Listed
  <2>2. videos'[a] = Listed /\ totalSize'[a] = SumOf(size, ToSet(Listed) \ empty)
    BY <1>1, <1>2 DEF IInv, TypeOK, CopyInv
  <2>3. Reckoned(a)' = Present
    BY <1>2, <1>6, <2>1, <2>2 DEF Reckoned
  <2>4. /\ IsFiniteSet(writing) /\ Cardinality(writing) \in Nat
        /\ Cardinality(writing) <= Debts(Deleting)
    BY <1>2, WritersCount
  <2>5. /\ size \in Sized /\ Present \in SUBSET Files /\ SumOf(size, Present) \in Nat
    BY ReckonedIs
  <2>6. /\ Present \ (ToSet(Listed) \ empty) \in SUBSET writing
        /\ Present \ ToSet(Listed) \in SUBSET writing
        /\ ToSet(Listed) \ empty \in SUBSET Present
    BY <2>1
  <2>7. /\ Cardinality(Present \ (ToSet(Listed) \ empty)) \in Nat
        /\ Cardinality(Present \ (ToSet(Listed) \ empty)) <= Cardinality(writing)
        /\ Cardinality(Present \ ToSet(Listed)) \in Nat
        /\ Cardinality(Present \ ToSet(Listed)) <= Cardinality(writing)
    BY <2>4, <2>6, FS_Subset, FS_CardinalityType
  <2>8. Debts(Deleting) \in Int /\ Slack(Deleting) \in Int
    BY <1>4, DebtsAre
  <2> DEFINE k == Cardinality(Present \ (ToSet(Listed) \ empty))
  <2> HIDE DEF k
  <2>9. k * Largest <= Slack(Deleting) /\ k * Largest \in Int
    <3>1. k \in Nat /\ k <= Debts(Deleting)
      BY <2>4, <2>7, <2>8 DEF k
    <3> QED
      BY <1>4, <3>1, DebtsAre, LargestIs
  <2>10. SumOf(size, Present) <= SumOf(size, ToSet(Listed) \ empty) + k * Largest
    BY <2>5, <2>6, SizesMonotone DEF k
  <2>11. SumOf(size, ToSet(Listed) \ empty) \in Nat
    <3>1. ToSet(Listed) \ empty \in SUBSET Files
      BY <2>5, <2>6
    <3> QED
      BY <2>5, <3>1, SizesSum
  <2>12. SumOf(size, Present) <= totalSize'[a] + Slack(Deleting)
    BY <2>2, <2>5, <2>8, <2>9, <2>10, <2>11
  <2>13. Cardinality(Present \ ToSet(Listed)) <= Debts(Deleting)
    BY <2>4, <2>7, <2>8
  <2>14. SumOf(size', Reckoned(a)') <= totalSize'[a] + Slack(old)
    BY <1>0, <1>2, <2>3, <2>12
  <2>15. Cardinality(Present' \ ToSet(videos'[a])) <= Debts(old)
    BY <1>0, <1>6, <2>2, <2>13
  <2> QED
    BY <2>14, <2>15 DEF RoomFor
<1>8. \A c \in Deleting : RoomFor(c, older[c]) => RoomFor(c, older[c])'
  <2>1. \A c \in Deleting : videos'[c] = videos[c] /\ totalSize'[c] = totalSize[c]
    BY <1>1, <1>2, <1>4
  <2>2. \A c \in Deleting : Reckoned(c)' = Reckoned(c)
    BY <1>2, <1>6, <2>1 DEF Reckoned
  <2> QED
    BY <1>2, <1>6, <2>1, <2>2 DEF RoomFor
<1>9. with[a] = old /\ \A c \in Deleting : with[c] = older[c] /\ c # a
  BY <1>4, <1>5
<1>10. SumOf(size', Present') <= Max(Limits) + Slack(D)
  BY <1>2, <1>3, <1>6 DEF Room
<1>11. /\ \A c \in Deleting' : c \notin with[c]
       /\ \A c, d \in Deleting' :
            c # d => d \in with[c] \/ (c \in with[d] /\ with[c] \subseteq with[d])
  <2>1. /\ \A c \in Deleting : c \notin older[c]
        /\ \A c, d \in Deleting :
             c # d => d \in older[c] \/ (c \in older[d] /\ older[c] \subseteq older[d])
    BY <1>3 DEF Room
  <2>2. \A c \in Deleting : older[c] \subseteq Deleting
    BY <1>4
  <2>3. \A c \in Deleting' : c = a \/ c \in Deleting
    BY <1>4
  <2> QED
    BY <1>0, <1>4, <1>9, <2>1, <2>2, <2>3
<1>12. \A c \in Deleting' \ D : D \subseteq with[c] /\ RoomFor(c, with[c])'
  BY <1>0, <1>3, <1>4, <1>7, <1>8, <1>9 DEF Room
<1>13. Room(with, D)'
  BY <1>10, <1>11, <1>12 DEF Room
<1>14. D \in SUBSET Deleting'
  BY <1>4
<1> QED
  BY <1>13, <1>14

(* A deletion takes from what a copy reckons with at least what it takes   *)
(* off the total.                                                          *)
LEMMA DeleteOldestRoom ==
  ASSUME IInv, RoomInv, NEW a \in Copiers, DeleteOldest(a)
  PROVE  RoomInv'
<1>1. /\ stage[a] = "delete" /\ videos[a] # <<>> /\ size' = size /\ stage' = stage
      /\ legacy' = legacy /\ failures' = failures
      /\ videos' = [videos EXCEPT ![a] = Tail(videos[a])]
      /\ Present' = Present \ {Oldest(a)}
  BY DeleteOldestSteps
<1>2. PICK freed \in {0, size[Oldest(a)]} :
        /\ totalSize' = [totalSize EXCEPT ![a] = totalSize[a] - freed]
        /\ legacy /\ Oldest(a) \notin Present => freed = 0
  BY DeleteOldestSteps
<1>3. /\ Oldest(a) \in ToSet(videos[a]) /\ Oldest(a) \in Files
      /\ ToSet(Tail(videos[a])) = ToSet(videos[a]) \ {Oldest(a)}
      /\ size[Oldest(a)] \in Nat
  BY <1>1, OldestIs
<1>4. Deleting' = Deleting
  BY <1>1 DEF Deleting
<1>5. \A c \in Copiers :
        /\ size \in Sized /\ Reckoned(c) \in SUBSET Files
        /\ Present \in SUBSET Files /\ SumOf(size, Present) \in Nat
        /\ SumOf(size, Reckoned(c)) \in Nat
        /\ IsFiniteSet(Present \ ToSet(videos[c]))
        /\ Cardinality(Present \ ToSet(videos[c])) \in Nat
  BY ReckonedIs
<1>6. /\ SumOf(size', Present') <= SumOf(size, Present)
      /\ SumOf(size', Present') \in Nat /\ SumOf(size, Present) \in Nat
  <2>1. Present \ {Oldest(a)} \in SUBSET Present /\ Present \ {Oldest(a)} \in SUBSET Files
        /\ Present \in SUBSET Files /\ size \in Sized /\ SumOf(size, Present) \in Nat
    BY <1>5
  <2>2. /\ SumOf(size, Present \ {Oldest(a)}) <= SumOf(size, Present)
        /\ SumOf(size, Present \ {Oldest(a)}) \in Nat
    BY <2>1, SizesMonotone, SizesSum
  <2> QED
    BY <1>1, <2>1, <2>2
<1>7. ASSUME NEW c \in Deleting, NEW S \in SUBSET Copiers, RoomFor(c, S)
      PROVE  RoomFor(c, S)'
  <2>0. c \in Copiers /\ totalSize[c] \in Int /\ Slack(S) \in Int /\ Debts(S) \in Int
    BY DebtsAre DEF Deleting, IInv, TypeOK
  <2>1. /\ SumOf(size, Reckoned(c)) <= totalSize[c] + Slack(S)
        /\ Cardinality(Present \ ToSet(videos[c])) <= Debts(S)
    BY <1>7 DEF RoomFor
  <2>2. /\ Present' \ ToSet(videos'[c]) \in SUBSET (Present \ ToSet(videos[c]))
        /\ c # a => videos'[c] = videos[c] /\ totalSize'[c] = totalSize[c]
        /\ c = a => videos'[c] = Tail(videos[a]) /\ totalSize'[c] = totalSize[a] - freed
    BY <1>1, <1>2, <1>3, <2>0 DEF IInv, TypeOK, CopyInv
  <2>3. Cardinality(Present' \ ToSet(videos'[c])) <= Debts(S)
    <3>1. /\ IsFiniteSet(Present \ ToSet(videos[c]))
          /\ Cardinality(Present \ ToSet(videos[c])) \in Nat
      BY <1>5, <2>0
    <3>2. /\ Cardinality(Present' \ ToSet(videos'[c])) <= Cardinality(Present \ ToSet(videos[c]))
          /\ Cardinality(Present' \ ToSet(videos'[c])) \in Nat
      BY <2>2, <3>1, FS_Subset, FS_CardinalityType
    <3> QED
      BY <2>0, <2>1, <3>1, <3>2
  <2>4. /\ size \in Sized /\ Reckoned(c) \in SUBSET Files /\ SumOf(size, Reckoned(c)) \in Nat
    BY <1>5, <2>0
  <2>5. CASE c = a /\ Oldest(a) \in Reckoned(a)
    <3>1. Reckoned(c)' = Reckoned(c) \ {Oldest(a)}
      BY <1>1, <1>3, <2>2, <2>5 DEF Reckoned
    <3>2. /\ SumOf(size, Reckoned(c)) = size[Oldest(a)] + SumOf(size, Reckoned(c) \ {Oldest(a)})
          /\ SumOf(size, Reckoned(c) \ {Oldest(a)}) \in Nat
      BY <2>4, <2>5, SizesSum
    <3>3. freed \in Nat /\ freed <= size[Oldest(a)]
      BY <1>2, <1>3
    <3>4. SumOf(size, Reckoned(c) \ {Oldest(a)}) <= totalSize[c] - freed + Slack(S)
      BY <1>3, <2>0, <2>1, <3>2, <3>3
    <3> QED
      BY <1>1, <2>2, <2>3, <2>5, <3>1, <3>4 DEF RoomFor
  <2>6. CASE c = a /\ Oldest(a) \notin Reckoned(a)
    <3>1. Reckoned(c)' = Reckoned(c) /\ legacy /\ Oldest(a) \notin Present
      BY <1>1, <1>3, <2>6 DEF Reckoned
    <3>2. totalSize'[c] = totalSize[c]
      BY <1>2, <2>0, <2>2, <2>6, <3>1
    <3> QED
      BY <1>1, <2>1, <2>3, <3>1, <3>2 DEF RoomFor
  <2>7. CASE c # a
    <3>1. Reckoned(c)' \in SUBSET Reckoned(c) /\ Reckoned(c)' \in SUBSET Files
      BY <1>1, <2>2, <2>4, <2>7 DEF Reckoned
    <3>2. /\ SumOf(size, Reckoned(c)') <= SumOf(size, Reckoned(c))
          /\ SumOf(size, Reckoned(c)') \in Nat
      BY <2>4, <3>1, SizesMonotone, SizesSum
    <3>3. SumOf(size, Reckoned(c)') <= totalSize[c] + Slack(S)
      BY <2>0, <2>1, <2>4, <3>2
    <3> QED
      BY <1>1, <2>2, <2>3, <2>7, <3>3 DEF RoomFor
  <2> QED
    BY <2>5, <2>6, <2>7
<1> QED
  BY <1>1, <1>4, <1>6, <1>7, RoomStep

(* The new file adds its size to a sum.                                    *)
LEMMA InsertAdds ==
  ASSUME IInv, NEW a \in Copiers, Insert(a), NEW T \in SUBSET Files, made + 1 \notin T
  PROVE  /\ SumOf(size', T \cup {made + 1}) = SumOf(size, T) + new[a]
         /\ SumOf(size, T) \in Nat /\ new[a] \in Nat /\ new[a] <= Largest
<1>1. /\ made + 1 \in Files /\ size' = [size EXCEPT ![made + 1] = new[a]] /\ size' \in Sized
      /\ new[a] \in Sizes /\ new[a] \in Nat
  BY InsertSteps
<1>2. size \in Sized /\ size'[made + 1] = new[a] /\ \A f \in T : size[f] = size'[f]
  BY <1>1 DEF IInv, TypeOK, Sized
<1>3. SumOf(size, T) = SumOf(size', T)
  BY <1>1, <1>2, SizesSame
<1>4. /\ SumOf(size', T \cup {made + 1}) = size'[made + 1] + SumOf(size', T)
      /\ SumOf(size', T) \in Nat
  BY <1>1, SizesAdd
<1> QED
  BY <1>1, <1>2, <1>3, <1>4, LargestIs

(* The file of one copy is one of the debts of the others.                 *)
LEMMA InsertOwed ==
  ASSUME IInv, NEW a \in Copiers, Insert(a), NEW c \in Copiers, c # a,
         NEW S \in SUBSET Copiers, a \in S, RoomFor(c, S)
  PROVE  RoomFor(c, S \ {a})'
<1>1. /\ made + 1 \notin Present /\ made \in Nat /\ Present' = Present \cup {made + 1}
      /\ videos' = [videos EXCEPT ![a] = <<>>] /\ totalSize' = [totalSize EXCEPT ![a] = 0]
      /\ legacy' = legacy
  BY InsertSteps
<1>2. videos'[c] = videos[c] /\ totalSize'[c] = totalSize[c] /\ totalSize[c] \in Int
  BY <1>1 DEF IInv, TypeOK, CopyInv
<1>3. /\ Reckoned(c) \in SUBSET Files /\ SumOf(size, Reckoned(c)) \in Nat
      /\ IsFiniteSet(Present \ ToSet(videos[c]))
      /\ Cardinality(Present \ ToSet(videos[c])) \in Nat
  BY ReckonedIs
<1>4. made + 1 \notin ToSet(videos[c]) /\ made + 1 \notin Reckoned(c)
  <2>1. ToSet(videos[c]) \subseteq 1 .. made
    BY DEF IInv, TypeOK
  <2> QED
    BY <1>1, <2>1 DEF Reckoned
<1>5. Reckoned(c)' = Reckoned(c) \cup {made + 1}
  BY <1>1, <1>2 DEF Reckoned
<1>6. Present' \ ToSet(videos'[c]) = (Present \ ToSet(videos[c])) \cup {made + 1}
  BY <1>1, <1>2, <1>4
<1>7. /\ Debts(S) \in Int /\ Slack(S) \in Int
      /\ Debts(S \ {a}) = Debts(S) + 1 /\ Slack(S \ {a}) = Slack(S) + Largest
  BY DebtsAre
<1>8. /\ SumOf(size, Reckoned(c)) <= totalSize[c] + Slack(S)
      /\ Cardinality(Present \ ToSet(videos[c])) <= Debts(S)
  BY DEF RoomFor
<1>9. SumOf(size', Reckoned(c)') <= totalSize'[c] + Slack(S \ {a})
  <2>1. /\ SumOf(size', Reckoned(c) \cup {made + 1}) = SumOf(size, Reckoned(c)) + new[a]
        /\ new[a] \in Nat /\ new[a] <= Largest
    BY <1>3, <1>4, InsertAdds
  <2> QED
    BY <1>2, <1>3, <1>5, <1>7, <1>8, <2>1, LargestIs
<1>10. Cardinality(Present' \ ToSet(videos'[c])) <= Debts(S \ {a})
  <2>1. Cardinality((Present \ ToSet(videos[c])) \cup {made + 1})
          = Cardinality(Present \ ToSet(videos[c])) + 1
    BY <1>1, <1>3, FS_AddElement
  <2> QED
    BY <1>3, <1>6, <1>7, <1>8, <2>1
<1> QED
  BY <1>9, <1>10 DEF RoomFor

LEMMA InsertRoom ==
  ASSUME IInv, RoomInv, NEW a \in Copiers, Insert(a)
  PROVE  RoomInv'
<1>1. /\ stage[a] = "delete" /\ ~NeedsRoom(a) /\ stage' = [stage EXCEPT ![a] = "write"]
      /\ made + 1 \notin Present /\ Present' = Present \cup {made + 1}
      /\ new[a] \in Sizes /\ failures' = failures
  BY InsertSteps
<1> SUFFICES ASSUME failures = 0
             PROVE  \E older \in [Copiers -> SUBSET Deleting'], D \in SUBSET Deleting' :
                      Room(older, D)'
  BY <1>1 DEF RoomInv
<1>2. PICK older \in [Copiers -> SUBSET Deleting], D \in SUBSET Deleting : Room(older, D)
  BY DEF RoomInv
<1>3. Deleting' = Deleting \ {a} /\ a \in Deleting /\ Deleting \in SUBSET Copiers
  BY <1>1 DEF Deleting, IInv, TypeOK
<1> DEFINE left == [c \in Copiers |-> older[c] \ {a}]
           next == IF a \in D THEN D \ {a} ELSE older[a]
<1>4. left \in [Copiers -> SUBSET Deleting'] /\ \A c \in Copiers : left[c] = older[c] \ {a}
  BY <1>3
<1>5. /\ SumOf(size, Present) <= Max(Limits) + Slack(D)
      /\ \A c \in Deleting : c \notin older[c]
      /\ \A c, d \in Deleting :
           c # d => d \in older[c] \/ (c \in older[d] /\ older[c] \subseteq older[d])
      /\ \A c \in Deleting \ D : D \subseteq older[c] /\ RoomFor(c, older[c])
  BY <1>2 DEF Room
<1>6. next \in SUBSET Deleting'
  BY <1>3, <1>5
<1>7. \A c \in Deleting' \ next : c \in Deleting \ D /\ c # a /\ a \in older[c] /\ next \subseteq left[c]
  BY <1>3, <1>4, <1>5
<1>8. SumOf(size', Present') <= Max(Limits) + Slack(next)
  <2>1. /\ Present \in SUBSET Files /\ SumOf(size, Present) \in Nat
        /\ SumOf(size, Reckoned(a)) \in Nat
        /\ SumOf(size, Present) <= SumOf(size, Reckoned(a))
        /\ size \in Sized
    BY ReckonedIs
  <2>2. /\ SumOf(size', Present') = SumOf(size, Present) + new[a]
        /\ new[a] \in Nat /\ new[a] <= Largest /\ new[a] <= Max(Limits)
    BY <1>1, <2>1, InsertAdds, LimitsAre
  <2>3. limit[a] \in Nat /\ limit[a] <= Max(Limits) /\ Max(Limits) \in Nat /\ Largest \in Nat
    BY <1>1, LimitsAre, LargestIs DEF IInv, CopyInv, Making
  <2>4. CASE a \in D
    <3>1. Slack(next) = Slack(D) + Largest /\ Slack(D) \in Int
      BY <1>3, <2>4, DebtsAre
    <3> QED
      BY <1>5, <2>1, <2>2, <2>3, <3>1
  <2>5. CASE a \notin D
    <3> DEFINE S == older[a]
    <3>1. next = S /\ S \in SUBSET Copiers /\ RoomFor(a, S)
      BY <1>3, <1>5, <2>5
    <3> HIDE DEF S
    <3>2. Slack(S) \in Int /\ Debts(S) \in Int
      BY <3>1, DebtsAre
    <3>3. totalSize[a] \in Int
      BY DEF IInv, TypeOK
    <3>4. CASE totalSize[a] + new[a] <= limit[a]
      <4>1. SumOf(size, Reckoned(a)) <= totalSize[a] + Slack(S)
        BY <3>1 DEF RoomFor
      <4>2. SumOf(size, Present) + new[a] <= Max(Limits) + Slack(S)
        BY <2>1, <2>2, <2>3, <3>2, <3>3, <3>4, <4>1
      <4> QED
        BY <2>2, <3>1, <4>2
    <3>5. CASE videos[a] = <<>>
      <4>1. ToSet(videos[a]) = {}
        BY <3>5 DEF ToSet
      <4>2. Present \ ToSet(videos[a]) = Present
        BY <4>1
      <4>3. Cardinality(Present) <= Debts(S) /\ Cardinality(Present) \in Nat
        BY <3>1, <4>2, ReckonedIs DEF RoomFor
      <4>4. /\ Cardinality(Present) * Largest <= Slack(S)
            /\ Cardinality(Present) * Largest \in Int
        BY <2>3, <3>1, <4>3, DebtsAre
      <4>5. {} \in SUBSET Present /\ Present \ {} = Present
        OBVIOUS
      <4>6. /\ SumOf(size, Present) <= SumOf(size, {}) + Cardinality(Present) * Largest
            /\ SumOf(size, {}) = 0
        BY <2>1, <4>5, SizesMonotone, SizesSum
      <4>7. SumOf(size, Present) + new[a] <= Max(Limits) + Slack(S)
        BY <2>1, <2>2, <2>3, <3>2, <4>4, <4>6
      <4> QED
        BY <2>2, <3>1, <4>7
    <3>6. totalSize[a] + new[a] <= limit[a] \/ videos[a] = <<>>
      BY <1>1, <2>2, <2>3, <3>3 DEF NeedsRoom
    <3> QED
      BY <3>4, <3>5, <3>6
  <2> QED
    BY <2>4, <2>5
<1>9. /\ \A c \in Deleting' : c \notin left[c]
      /\ \A c, d \in Deleting' :
           c # d => d \in left[c] \/ (c \in left[d] /\ left[c] \subseteq left[d])
  BY <1>3, <1>4, <1>5
<1>10. \A c \in Deleting' \ next : next \subseteq left[c] /\ RoomFor(c, left[c])'
  <2> SUFFICES ASSUME NEW c \in Deleting' \ next PROVE next \subseteq left[c] /\ RoomFor(c, left[c])'
    OBVIOUS
  <2>1. /\ c \in Copiers /\ c \in Deleting \ D /\ c # a /\ a \in older[c]
        /\ next \subseteq left[c]
    BY <1>3, <1>7
  <2>2. older[c] \in SUBSET Copiers /\ RoomFor(c, older[c])
    BY <1>3, <1>5, <2>1
  <2>3. RoomFor(c, older[c] \ {a})'
    BY <2>1, <2>2, InsertOwed
  <2>4. left[c] = older[c] \ {a}
    BY <1>4, <2>1
  <2> QED
    BY <2>1, <2>3, <2>4
<1> HIDE DEF left, next
<1>11. Room(left, next)'
  BY <1>8, <1>9, <1>10 DEF Room
<1> QED
  BY <1>4, <1>6, <1>11

LEMMA InitRoom == Init => RoomInv
<1> SUFFICES ASSUME Init PROVE RoomInv
  OBVIOUS
<1>1. /\ album = <<>> /\ stage = [c \in Copiers |-> "idle"] /\ size = [f \in Files |-> 0]
  BY DEF Init
<1>2. Deleting = {} /\ Present = {}
  BY <1>1 DEF Deleting, Present, ToSet
<1>3. SumOf(size, Present) = 0
  <2>1. size \in Sized
    BY <1>1 DEF Sized
  <2> QED
    BY <1>2, <2>1, SizesSum
<1>4. SumOf(size, Present) <= Max(Limits) + Slack({})
  <2>1. Debts({}) = Cardinality(Copiers) - 1 /\ Cardinality(Copiers) \in Nat
    BY GalleryAssumption, FS_EmptySet, FS_CardinalityType DEF Debts
  <2>2. PICK s \in Sizes : s = Largest
    BY GalleryAssumption, MaxIs DEF Largest
  <2>3. Largest <= Max(Limits) /\ Largest \in Nat /\ Max(Limits) \in Nat
    BY <2>2, LimitsAre, LargestIs
  <2>4. \A n \in Nat, l \in Nat : (n - 1) * l >= 0 - l
    OBVIOUS
  <2>5. Slack({}) >= 0 - Largest /\ Slack({}) \in Int
    BY <2>1, <2>3, <2>4 DEF Slack
  <2> QED
    BY <1>3, <2>3, <2>5
<1>5. Room([c \in Copiers |-> {}], {})
  BY <1>2, <1>4 DEF Room
<1> QED
  BY <1>2, <1>5 DEF RoomInv

LEMMA NextRoom ==
  ASSUME IInv, RoomInv, [Next]_vars
  PROVE  RoomInv'
<1> DEFINE Same == /\ Deleting' = Deleting /\ Present' = Present /\ size' = size
                   /\ legacy' = legacy /\ failures' = failures
                   /\ \A c \in Deleting : videos'[c] = videos[c] /\ totalSize'[c] = totalSize[c]
<1>1. ASSUME Same PROVE RoomInv'
  <2>1. SumOf(size, Present) \in Nat
    <3>1. size \in Sized /\ Present \in SUBSET Files
      BY PresentIs DEF IInv, TypeOK, Sized
    <3> QED
      BY <3>1, SizesSum
  <2>2. SumOf(size', Present') = SumOf(size, Present)
    BY <1>1
  <2>3. SumOf(size, Present) <= SumOf(size, Present)
    BY <2>1
  <2>4. \A c \in Deleting : Reckoned(c)' = Reckoned(c)
    BY <1>1 DEF Reckoned
  <2>5. \A c \in Deleting, S \in SUBSET Copiers : RoomFor(c, S) => RoomFor(c, S)'
    BY <1>1, <2>4 DEF RoomFor
  <2> QED
    BY <1>1, <2>1, <2>2, <2>3, <2>5, RoomStep
<1> HIDE DEF Same
<1>2. ASSUME NEW c \in Copiers, CopyBegins(c) PROVE RoomInv'
  <2>1. Same
    BY <1>2 DEF CopyBegins, albumVars, Same, Deleting, Present, IInv, TypeOK
  <2> QED
    BY <1>1, <2>1
<1>3. ASSUME NEW c \in Copiers, WriteEnds(c) PROVE RoomInv'
  <2>1. /\ stage[c] = "write" /\ Idle(c) /\ Present' = Present /\ size' = size
        /\ legacy' = legacy /\ failures' = failures
    BY <1>3, WriteEndsSteps
  <2>2. Same
    BY <2>1 DEF Idle, Same, Deleting, IInv, TypeOK
  <2> QED
    BY <1>1, <2>2
<1>4. ASSUME NEW c \in Copiers, Query(c) \/ DeleteOldest(c) \/ Insert(c)
      PROVE  RoomInv'
  BY <1>4, QueryRoom, DeleteOldestRoom, InsertRoom
<1>5. ASSUME NEW c \in Copiers,
             QueryFails(c) \/ DeleteFails(c) \/ InsertFails(c) \/ WriteFails(c)
      PROVE  RoomInv'
  <2>1. Fail
    BY <1>5 DEF QueryFails, DeleteFails, InsertFails, WriteFails
  <2>2. failures' # 0
    BY <2>1, FailCounts DEF IInv
  <2> QED
    BY <2>2 DEF RoomInv
<1>6. CASE Kill
  <2>1. failures' # 0
    BY <1>6, FailCounts DEF IInv, Kill
  <2> QED
    BY <2>1 DEF RoomInv
<1>7. CASE UNCHANGED vars
  <2>1. Same
    BY <1>7 DEF vars, albumVars, copyVars, Same, Deleting, Present
  <2> QED
    BY <1>1, <2>1
<1> QED
  BY <1>2, <1>3, <1>4, <1>5, <1>6, <1>7 DEF Next

(* Without failures the album exceeds the greatest limit by the copies     *)
(* that may overlap with one at most, and holds the newest segments, but   *)
(* for those that were being written when a list was taken or another file *)
(* completed.                                                              *)
THEOREM NewestStayWithinLimit == Spec => []NewestWithinLimit
<1>1. Spec => [](IInv /\ OrderInv /\ RoomInv)
  BY InitTypes, NextTypes, InitOrder, NextOrder, InitRoom, NextRoom, PTL DEF Spec
<1>2. IInv /\ OrderInv /\ RoomInv => NewestWithinLimit
  <2> SUFFICES ASSUME IInv, OrderInv, RoomInv, failures = 0
               PROVE  /\ Total(Present) <= Max(Limits) + (Cardinality(Copiers) - 1) * Largest
                      /\ \A f \in 1 .. made, g \in Present :
                           f \notin Present /\ g < f => f \in late \/ g \in late
    BY DEF NewestWithinLimit
  <2>1. \A f \in 1 .. made, g \in Present :
          f \notin Present /\ g < f => f \in late \/ g \in late
    BY DEF OrderInv, GoneInOrder, Late
  <2>2. PICK older \in [Copiers -> SUBSET Deleting], D \in SUBSET Deleting : Room(older, D)
    BY DEF RoomInv
  <2>3. D \in SUBSET Copiers
    BY DEF Deleting
  <2>4. /\ Slack(D) \in Int /\ Slack(D) <= (Cardinality(Copiers) - 1) * Largest
        /\ Cardinality(Copiers) \in Nat /\ Max(Limits) \in Nat /\ Largest \in Nat
    BY <2>3, DebtsAre, LimitsAre, LargestIs
  <2>5. SumOf(size, Present) <= Max(Limits) + Slack(D)
    BY <2>2 DEF Room
  <2>6. SumOf(size, Present) \in Nat /\ (Cardinality(Copiers) - 1) * Largest \in Int
    <3>1. size \in Sized /\ Present \in SUBSET Files
      BY PresentIs DEF IInv, TypeOK, Sized
    <3>2. SumOf(size, Present) \in Nat
      BY <3>1, SizesSum
    <3> QED
      BY <2>4, <3>2
  <2>7. SumOf(size, Present) <= Max(Limits) + (Cardinality(Copiers) - 1) * Largest
    BY <2>4, <2>5, <2>6
  <2> QED
    BY <2>1, <2>7, TotalIs
<1> QED
  BY <1>1, <1>2, PTL
=============================================================================
