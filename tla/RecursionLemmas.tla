---------------------------- MODULE RecursionLemmas ---------------------------
(***************************************************************************)
(* Induction and recursion over the natural numbers, for the operators     *)
(* that the models define recursively or take from the community modules.  *)
(* They are stated over sets and functions, and follow from the facts on   *)
(* finite sets.                                                            *)
(***************************************************************************)
EXTENDS Integers, SequencesExt, FiniteSetTheorems, TLAPS

(* Induction: a set of numbers that is closed under the successor.         *)
LEMMA Induction ==
  ASSUME NEW T \in SUBSET Nat, 0 \in T, \A n \in T : n + 1 \in T
  PROVE  T = Nat
<1> SUFFICES ASSUME NEW m \in Nat, m \notin T PROVE FALSE  OBVIOUS
<1> DEFINE S == {n \in T : n <= m}
           f == [n \in S |-> n + 1]
<1>1. IsFiniteSet(S)  BY FS_BoundedSetOfNaturals
<1>2. 0 \in S  OBVIOUS
<1>3. /\ IsFiniteSet(S \ {0}) /\ Cardinality(S \ {0}) = Cardinality(S) - 1
      /\ Cardinality(S) \in Nat
    BY <1>1, <1>2, FS_RemoveElement, FS_CardinalityType
<1>4. \A n \in S : n + 1 \in S \ {0}
  <2> TAKE n \in S
  <2>1. n # m /\ n <= m /\ n \in Nat  OBVIOUS
  <2> QED  BY <2>1
<1>5. f \in [S -> S \ {0}]  BY <1>4
<1>6. \E x, y \in S : x # y /\ f[x] = f[y]
  <2> HIDE DEF S, f
  <2> QED  BY <1>1, <1>3, <1>5, FS_PigeonHole
<1> QED  BY <1>6

Recurs(f, base, step) == f[0] = base /\ \A n \in Nat : f[n + 1] = step[n][f[n]]

(* Recursion: a value for each number, from the one before.                *)
LEMMA Recursion ==
  ASSUME NEW S, NEW base \in S, NEW step \in [Nat -> [S -> S]]
  PROVE  \E f \in [Nat -> S] : Recurs(f, base, step)
<1> DEFINE Begins(f, n) == /\ f \in [0..n -> S] /\ f[0] = base
                           /\ \A i \in 0..n - 1 : f[i + 1] = step[i][f[i]]
<1>1. \A n \in Nat : \E f : Begins(f, n)
  <2> DEFINE T == {n \in Nat : \E f : Begins(f, n)}
  <2>1. 0 \in T
    <3>1. Begins([i \in 0..0 |-> base], 0)  OBVIOUS
    <3> QED  BY <3>1
  <2>2. ASSUME NEW n \in T PROVE n + 1 \in T
    <3>1. PICK f : Begins(f, n)  BY <2>2
    <3> DEFINE g == [i \in 0..n + 1 |-> IF i = n + 1 THEN step[n][f[n]] ELSE f[i]]
    <3>2. n \in Nat /\ n + 1 \in Nat  BY <2>2
    <3>3. step[n][f[n]] \in S  BY <3>1, <3>2
    <3>4. g \in [0..n + 1 -> S]  BY <3>1, <3>2, <3>3
    <3>5. g[0] = base  BY <3>1, <3>2
    <3>6. ASSUME NEW i \in 0..n PROVE g[i + 1] = step[i][g[i]]
      <4>1. CASE i = n  BY <3>2, <4>1
      <4>2. CASE i # n
        <5>1. i \in 0..n - 1 /\ i \in 0..n + 1 /\ i + 1 \in 0..n + 1 /\ i # n + 1 /\ i + 1 # n + 1
            BY <3>2, <4>2
        <5>2. f[i + 1] = step[i][f[i]]  BY <3>1, <5>1
        <5> QED  BY <5>1, <5>2
      <4> QED  BY <4>1, <4>2
    <3>7. (n + 1) - 1 = n  BY <3>2
    <3> HIDE DEF g
    <3>8. Begins(g, n + 1)  BY <3>4, <3>5, <3>6, <3>7
    <3> HIDE DEF Begins
    <3> QED  BY <3>2, <3>8
  <2>3. T \in SUBSET Nat  OBVIOUS
  <2> HIDE DEF T
  <2>4. T = Nat  BY <2>1, <2>2, <2>3, Induction
  <2> QED  BY <2>4 DEF T
<1>2. ASSUME NEW f, NEW g, NEW m \in Nat, NEW n \in Nat, m <= n, Begins(f, m), Begins(g, n)
      PROVE  \A i \in 0..m : f[i] = g[i]
  <2> DEFINE T == {i \in Nat : i <= m => f[i] = g[i]}
  <2>1. 0 \in T  BY <1>2
  <2>2. ASSUME NEW i \in T PROVE i + 1 \in T
    <3> SUFFICES ASSUME i + 1 <= m PROVE f[i + 1] = g[i + 1]
        BY <2>2
    <3>1. i \in Nat /\ i <= m /\ i \in 0..m - 1 /\ i \in 0..n - 1  BY <1>2, <2>2
    <3>2. f[i] = g[i]  BY <2>2, <3>1
    <3> QED  BY <1>2, <3>1, <3>2
  <2>3. T \in SUBSET Nat  OBVIOUS
  <2> HIDE DEF T
  <2>4. T = Nat  BY <2>1, <2>2, <2>3, Induction
  <2> QED  BY <2>4 DEF T
<1> DEFINE some(n) == CHOOSE f : Begins(f, n)
           whole == [n \in Nat |-> some(n)[n]]
<1> HIDE DEF Begins
<1>3. \A n \in Nat : Begins(some(n), n)  BY <1>1
<1> HIDE DEF some
<1>4. \A n \in Nat : /\ some(n) \in [0..n -> S] /\ some(n)[0] = base
                     /\ \A i \in 0..n - 1 : some(n)[i + 1] = step[i][some(n)[i]]
    BY <1>3 DEF Begins
<1>5. whole \in [Nat -> S]  BY <1>4
<1>6. whole[0] = base  BY <1>4
<1>7. ASSUME NEW n \in Nat PROVE whole[n + 1] = step[n][whole[n]]
  <2>1. n + 1 \in Nat /\ n <= n + 1 /\ n \in 0..(n + 1) - 1 /\ n \in 0..n  OBVIOUS
  <2>2. some(n + 1)[n + 1] = step[n][some(n + 1)[n]]  BY <1>4, <2>1
  <2>3. some(n)[n] = some(n + 1)[n]  BY <1>2, <1>3, <2>1
  <2> QED  BY <2>1, <2>2, <2>3
<1> HIDE DEF whole
<1> QED  BY <1>5, <1>6, <1>7 DEF Recurs

Steps(f, base, step, n) == f[0] = base /\ \A i \in 1..n : f[i] = step[i][f[i - 1]]

(* Recursion up to a number.                                               *)
LEMMA RecursionUpTo ==
  ASSUME NEW S, NEW n \in Nat, NEW base \in S, NEW step \in [1..n -> [S -> S]]
  PROVE  \E f \in [0..n -> S] : Steps(f, base, step, n)
<1> DEFINE next == [m \in Nat |-> [x \in S |-> IF m + 1 <= n THEN step[m + 1][x] ELSE x]]
<1>1. \A m \in Nat, x \in S : (IF m + 1 <= n THEN step[m + 1][x] ELSE x) \in S
    OBVIOUS
<1>2. next \in [Nat -> [S -> S]]  BY <1>1
<1>3. \A m \in 1..n, x \in S : next[m - 1][x] = step[m][x]
  <2> TAKE m \in 1..n, x \in S
  <2>1. m - 1 \in Nat /\ (m - 1) + 1 = m  OBVIOUS
  <2> QED  BY <2>1
<1> HIDE DEF next
<1>4. PICK g \in [Nat -> S] : Recurs(g, base, next)  BY <1>2, Recursion
<1> DEFINE f == [i \in 0..n |-> g[i]]
<1>5. f \in [0..n -> S]  OBVIOUS
<1>6. ASSUME NEW i \in 1..n PROVE f[i] = step[i][f[i - 1]]
  <2>1. i - 1 \in Nat /\ (i - 1) + 1 = i /\ i \in 0..n /\ i - 1 \in 0..n  OBVIOUS
  <2>2. g[(i - 1) + 1] = next[i - 1][g[i - 1]]  BY <1>4, <2>1 DEF Recurs
  <2>3. next[i - 1][g[i - 1]] = step[i][g[i - 1]]  BY <1>3, <2>1
  <2> QED  BY <2>1, <2>2, <2>3
<1>7. f[0] = base  BY <1>4 DEF Recurs
<1> HIDE DEF f
<1> QED  BY <1>5, <1>6, <1>7 DEF Steps

-----------------------------------------------------------------------------
(* Concatenation.                                                          *)

(* f[i] is the concatenation of the first i sequences of s.                *)
Flattens(f, s, n) ==
  /\ f[1] = s[1]
  /\ \A i \in 1..n : i # 1 => f[i] = f[i - 1] \o s[i]
  /\ FlattenSeq(s) = f[n]

(* Concatenating sequences, one of them at least, goes from the first to   *)
(* the last.                                                               *)
LEMMA Flattening ==
  ASSUME NEW S, NEW n \in Nat \ {0}, NEW s \in [1..n -> Seq(S)]
  PROVE  \E f \in [1..n -> Seq(S)] : Flattens(f, s, n)
<1> DEFINE V == Seq(S)
           D(f) == [i \in 1..n |-> IF i = 1 THEN s[i] ELSE f[i - 1] \o s[i]]
           chosen == CHOOSE f : f = D(f)
           step == [m \in Nat |-> [x \in V |-> IF m + 2 <= n THEN x \o s[m + 2] ELSE x]]
<1>1. Len(s) = n  OBVIOUS
<1>2. FlattenSeq(s) = chosen[n]  BY <1>1 DEF FlattenSeq
<1>3. \A x, y \in V : x \o y \in V  OBVIOUS
<1> HIDE DEF V
<1>4. \A m \in Nat, x \in V : step[m][x] \in V
  <2> TAKE m \in Nat, x \in V
  <2>1. CASE m + 2 <= n
    <3>1. s[m + 2] \in V  BY <2>1 DEF V
    <3> QED  BY <1>3, <2>1, <3>1
  <2>2. CASE ~(m + 2 <= n)  BY <2>2
  <2> QED  BY <2>1, <2>2
<1>5. s[1] \in V  BY DEF V
<1>6. PICK g \in [Nat -> V] : Recurs(g, s[1], step)
  <2>1. step \in [Nat -> [V -> V]]  BY <1>4
  <2> HIDE DEF step
  <2> QED  BY <1>5, <2>1, Recursion
<1> DEFINE F == [i \in 1..n |-> g[i - 1]]
<1>7. F = D(F)
  <2>1. ASSUME NEW i \in 1..n PROVE F[i] = IF i = 1 THEN s[i] ELSE F[i - 1] \o s[i]
    <3>1. CASE i = 1  BY <1>6, <3>1 DEF Recurs
    <3>2. CASE i # 1
      <4>1. i - 2 \in Nat /\ (i - 2) + 1 = i - 1 /\ (i - 2) + 2 = i /\ i - 1 \in 1..n
            /\ (i - 1) - 1 = i - 2
          BY <3>2
      <4>2. F[i] = g[(i - 2) + 1] /\ F[i - 1] = g[i - 2] /\ g[i - 2] \in V  BY <4>1
      <4>3. g[(i - 2) + 1] = step[i - 2][g[i - 2]]  BY <1>6, <4>1 DEF Recurs
      <4>4. step[i - 2][g[i - 2]] = g[i - 2] \o s[i]  BY <4>1, <4>2
      <4> QED  BY <3>2, <4>2, <4>3, <4>4
    <3> QED  BY <3>1, <3>2
  <2>2. F = [i \in 1..n |-> F[i]]  OBVIOUS
  <2> HIDE DEF F
  <2> QED  BY <2>1, <2>2
<1>8. chosen = D(chosen)
  <2> HIDE DEF D, F
  <2> QED  BY <1>7
<1> HIDE DEF chosen
<1>9. \A i \in 1..n : chosen[i] = IF i = 1 THEN s[i] ELSE chosen[i - 1] \o s[i]
    BY <1>8
<1>10. \A i \in 1..n : chosen[i] \in V
  <2> DEFINE T == {i \in Nat : i \in 1..n => chosen[i] \in V}
  <2>1. 0 \in T  OBVIOUS
  <2>2. ASSUME NEW i \in T PROVE i + 1 \in T
    <3> SUFFICES ASSUME i + 1 \in 1..n PROVE chosen[i + 1] \in V
        BY <2>2
    <3>1. CASE i = 0  BY <1>5, <1>9, <3>1
    <3>2. CASE i # 0
      <4>1. i \in 1..n /\ (i + 1) - 1 = i /\ i + 1 # 1  BY <2>2, <3>2
      <4>2. chosen[i] \in V /\ s[i + 1] \in V  BY <2>2, <4>1 DEF V
      <4>3. chosen[i + 1] = chosen[i] \o s[i + 1]  BY <1>9, <4>1
      <4> QED  BY <1>3, <4>2, <4>3
    <3> QED  BY <3>1, <3>2
  <2>3. T \in SUBSET Nat  OBVIOUS
  <2> HIDE DEF T
  <2>4. T = Nat  BY <2>1, <2>2, <2>3, Induction
  <2>5. \A i \in 1..n : i \in T  BY <2>4
  <2> QED  BY <2>5 DEF T
<1>11. chosen \in [1..n -> Seq(S)]  BY <1>8, <1>10 DEF V
<1>12. Flattens(chosen, s, n)
  <2>1. 1 \in 1..n  OBVIOUS
  <2> HIDE DEF D, step
  <2> QED  BY <1>2, <1>9, <2>1 DEF Flattens
<1> QED  BY <1>11, <1>12

(* Concatenating non-empty sequences.                                      *)
LEMMA FlattenTyped ==
  ASSUME NEW S, NEW n \in Nat \ {0}, NEW s \in [1..n -> Seq(S) \ {<<>>}]
  PROVE  FlattenSeq(s) \in Seq(S) \ {<<>>}
<1>1. s \in [1..n -> Seq(S)]  OBVIOUS
<1>2. PICK f \in [1..n -> Seq(S)] : Flattens(f, s, n)  BY <1>1, Flattening
<1>3. CASE n = 1  BY <1>2, <1>3 DEF Flattens
<1>4. CASE n # 1
  <2>1. n \in 1..n /\ n - 1 \in 1..n  BY <1>4
  <2>2. FlattenSeq(s) = f[n - 1] \o s[n]  BY <1>2, <1>4, <2>1 DEF Flattens
  <2>3. f[n - 1] \in Seq(S) /\ s[n] \in Seq(S) /\ Len(s[n]) # 0  BY <2>1
  <2>4. /\ f[n - 1] \o s[n] \in Seq(S)
        /\ Len(f[n - 1] \o s[n]) = Len(f[n - 1]) + Len(s[n])
      BY <2>3
  <2>5. Len(f[n - 1]) \in Nat /\ Len(s[n]) \in Nat  BY <2>3
  <2> QED  BY <2>2, <2>3, <2>4, <2>5
<1> QED  BY <1>3, <1>4

(* Concatenating sequences of one element each.                            *)
LEMMA FlattenSingles ==
  ASSUME NEW S, NEW n \in Nat \ {0}, NEW q \in [1..n -> S]
  PROVE  FlattenSeq([k \in 1..n |-> <<q[k]>>]) = q
<1> DEFINE s == [k \in 1..n |-> <<q[k]>>]
           first(i) == [k \in 1..i |-> q[k]]
           T == {i \in Nat : i \in 1..n => \A f \in [1..n -> Seq(S)] :
                   Flattens(f, s, n) => f[i] = first(i)}
<1>1. s \in [1..n -> Seq(S)]  OBVIOUS
<1>2. PICK f \in [1..n -> Seq(S)] : Flattens(f, s, n)
  <2> HIDE DEF s
  <2> QED  BY <1>1, Flattening
<1>3. \A i \in 1..n : s[i] = <<q[i]>>  OBVIOUS
<1> HIDE DEF s
<1>4. 0 \in T  OBVIOUS
<1>5. ASSUME NEW i \in T PROVE i + 1 \in T
  <2> SUFFICES ASSUME i + 1 \in 1..n, NEW h \in [1..n -> Seq(S)], Flattens(h, s, n)
               PROVE  h[i + 1] = first(i + 1)
      BY <1>5
  <2>1. CASE i = 0
    <3>1. h[1] = <<q[1]>>  BY <1>3, <2>1 DEF Flattens
    <3>2. first(1) = <<q[1]>>  OBVIOUS
    <3> QED  BY <2>1, <3>1, <3>2
  <2>2. CASE i # 0
    <3>1. i \in 1..n /\ i \in Nat /\ (i + 1) - 1 = i /\ i + 1 # 1  BY <1>5, <2>2
    <3>2. h[i + 1] = first(i) \o <<q[i + 1]>>
      <4>1. h[i] = first(i)  BY <1>5, <3>1
      <4>2. h[i + 1] = h[i] \o s[i + 1]  BY <3>1 DEF Flattens
      <4> HIDE DEF first
      <4> QED  BY <1>3, <4>1, <4>2
    <3>3. first(i) \in Seq(S) /\ Len(first(i)) = i /\ q[i + 1] \in S  BY <3>1
    <3>4. Len(first(i) \o <<q[i + 1]>>) = i + 1 /\ first(i) \o <<q[i + 1]>> \in Seq(S)
      <4> HIDE DEF first
      <4> QED  BY <3>1, <3>3
    <3>5. \A k \in 1..i + 1 : (first(i) \o <<q[i + 1]>>)[k] = q[k]
      <4> TAKE k \in 1..i + 1
      <4>1. CASE k = i + 1
        <5>1. (first(i) \o <<q[i + 1]>>)[k] = <<q[i + 1]>>[k - i]  BY <3>1, <3>3, <4>1
        <5> QED  BY <4>1, <3>1, <5>1
      <4>2. CASE k # i + 1
        <5>1. k \in 1..i  BY <3>1, <4>2
        <5> QED  BY <3>1, <3>3, <5>1
      <4> QED  BY <4>1, <4>2
    <3>6. first(i) \o <<q[i + 1]>> = first(i + 1)
      <4> DEFINE p == first(i) \o <<q[i + 1]>>
      <4>1. Len(p) = i + 1 /\ p \in Seq(S) /\ \A k \in 1..i + 1 : p[k] = q[k]
          BY <3>4, <3>5
      <4> HIDE DEF p
      <4>2. p = [k \in 1..i + 1 |-> q[k]]  BY <3>1, <4>1
      <4> QED  BY <4>2 DEF p
    <3> QED  BY <3>2, <3>6
  <2> QED  BY <2>1, <2>2
<1>6. T \in SUBSET Nat  OBVIOUS
<1> HIDE DEF T
<1>7. T = Nat  BY <1>4, <1>5, <1>6, Induction
<1>8. n \in T /\ n \in 1..n  BY <1>7
<1>9. f[n] = first(n)  BY <1>2, <1>8 DEF T
<1>10. first(n) = q  OBVIOUS
<1> QED  BY <1>2, <1>9, <1>10 DEF Flattens, s

-----------------------------------------------------------------------------
(* Sums over finite sets.                                                  *)

(* A set of subsets of a finite set that holds the empty one, and each     *)
(* other of whose subsets it holds those without one element.              *)
LEMMA SetInduction ==
  ASSUME NEW U, IsFiniteSet(U), NEW P \in SUBSET SUBSET U, {} \in P,
         \A s \in (SUBSET U) \ {{}} : (\A x \in s : s \ {x} \in P) => s \in P
  PROVE  P = SUBSET U
<1> DEFINE T == {n \in Nat : \A s \in SUBSET U : Cardinality(s) = n => s \in P}
<1>1. \A s \in SUBSET U : IsFiniteSet(s) /\ Cardinality(s) \in Nat
    BY FS_Subset, FS_CardinalityType
<1>2. 0 \in T  BY <1>1, FS_EmptySet
<1>3. ASSUME NEW n \in T PROVE n + 1 \in T
  <2> SUFFICES ASSUME NEW s \in SUBSET U, Cardinality(s) = n + 1 PROVE s \in P
      BY <1>3
  <2>1. n \in Nat /\ n + 1 # 0 /\ (n + 1) - 1 = n  OBVIOUS
  <2>2. s # {}  BY <2>1, FS_EmptySet
  <2>3. ASSUME NEW x \in s PROVE s \ {x} \in P
    <3>1. Cardinality(s \ {x}) = n  BY <1>1, <2>1, FS_RemoveElement
    <3>2. s \ {x} \in SUBSET U  OBVIOUS
    <3> QED  BY <3>1, <3>2
  <2> QED  BY <2>2, <2>3
<1>4. T \in SUBSET Nat  OBVIOUS
<1> HIDE DEF T
<1>5. T = Nat  BY <1>2, <1>3, <1>4, Induction
<1>6. ASSUME NEW s \in SUBSET U PROVE s \in P  BY <1>1, <1>5 DEF T
<1> QED  BY <1>6

(* The sums of f over the subsets of S, each from that of a smaller one.   *)
SumStep(f, S, g) ==
  [s \in SUBSET S |-> IF s = {} THEN 0
                      ELSE f[CHOOSE x \in s : TRUE] + g[s \ {CHOOSE x \in s : TRUE}]]

SumUp(f, S) == CHOOSE g : g = SumStep(f, S, g)

(* Both sums of the community modules.                                     *)
LEMMA SumsAreSums ==
  ASSUME NEW f, NEW S
  PROVE  /\ SumFunctionOnSet(f, S) = SumUp(f, S)[S]
         /\ MapThenSumSet(LAMBDA x : f[x], S) = SumUp(f, S)[S]
<1>1. SumFunctionOnSet(f, S) = SumUp(f, S)[S]
    BY DEF SumFunctionOnSet, FoldFunctionOnSet, MapThenFoldSet, SumUp, SumStep
<1>2. MapThenSumSet(LAMBDA x : f[x], S) = SumUp(f, S)[S]
    BY DEF MapThenSumSet, MapThenFoldSet, SumUp, SumStep
<1> QED  BY <1>1, <1>2

(* There are such sums.                                                    *)
LEMMA SumUpIsSum ==
  ASSUME NEW S, IsFiniteSet(S), NEW f, \A x \in S : f[x] \in Int
  PROVE  SumUp(f, S) = SumStep(f, S, SumUp(f, S)) /\ SumUp(f, S) \in [SUBSET S -> Int]
<1> DEFINE V == [SUBSET S -> Int]
           base == [s \in SUBSET S |-> 0]
           step == [n \in Nat |-> [g \in V |-> SumStep(f, S, g)]]
           some(s) == CHOOSE x \in s : TRUE
<1>1. \A s \in SUBSET S : s # {} => some(s) \in s /\ s \ {some(s)} \in SUBSET S
    OBVIOUS
<1>2. \A s \in SUBSET S : IsFiniteSet(s) /\ Cardinality(s) \in Nat
    BY FS_Subset, FS_CardinalityType
<1> DEFINE D(g) == [s \in SUBSET S |-> IF s = {} THEN 0 ELSE f[some(s)] + g[s \ {some(s)}]]
<1>3. \A g : SumStep(f, S, g) = D(g)  BY DEF SumStep
<1> HIDE DEF some
<1>4. ASSUME NEW g \in V PROVE SumStep(f, S, g) \in V
  <2>1. ASSUME NEW s \in SUBSET S
        PROVE  (IF s = {} THEN 0 ELSE f[some(s)] + g[s \ {some(s)}]) \in Int
      BY <1>1, <2>1
  <2>2. D(g) \in V  BY <2>1
  <2> QED  BY <1>3, <2>2
<1>5. PICK G \in [Nat -> V] : Recurs(G, base, step)
  <2>1. base \in V  OBVIOUS
  <2>2. step \in [Nat -> [V -> V]]  BY <1>4
  <2> HIDE DEF V, base, step
  <2> QED  BY <2>1, <2>2, Recursion
<1> DEFINE whole == [s \in SUBSET S |-> G[Cardinality(s)][s]]
<1>6. ASSUME NEW s \in SUBSET S
      PROVE  whole[s] = IF s = {} THEN 0 ELSE f[some(s)] + whole[s \ {some(s)}]
  <2>1. CASE s = {}  BY <1>5, <2>1, FS_EmptySet DEF Recurs
  <2>2. CASE s # {}
    <3> DEFINE r == s \ {some(s)}
               m == Cardinality(r)
    <3>1. r \in SUBSET S /\ m \in Nat /\ Cardinality(s) = m + 1
        BY <1>1, <1>2, <2>2, FS_RemoveElement
    <3>2. G[m] \in V /\ whole[r] = G[m][r] /\ whole[s] = G[m + 1][s]  BY <3>1
    <3>3. G[m + 1] = D(G[m])  BY <1>3, <1>5, <3>1, <3>2 DEF Recurs
    <3> QED  BY <2>2, <3>2, <3>3
  <2> QED  BY <2>1, <2>2
<1>7. whole = D(whole)
  <2>1. whole = [s \in SUBSET S |-> whole[s]]  OBVIOUS
  <2> HIDE DEF whole
  <2> QED  BY <1>6, <2>1
<1>8. whole = SumStep(f, S, whole)  BY <1>3, <1>7
<1>9. SumUp(f, S) = SumStep(f, S, SumUp(f, S))
  <2> HIDE DEF whole
  <2> QED  BY <1>8 DEF SumUp
<1> DEFINE g == SumUp(f, S)
           P == {s \in SUBSET S : g[s] \in Int}
<1> HIDE DEF g
<1>10. g = D(g)  BY <1>3, <1>9 DEF g
<1>11. \A s \in SUBSET S : g[s] = IF s = {} THEN 0 ELSE f[some(s)] + g[s \ {some(s)}]
    BY <1>10
<1>12. {} \in P
  <2>1. {} \in SUBSET S  OBVIOUS
  <2>2. g[{}] = 0  BY <1>11, <2>1
  <2> QED  BY <2>1, <2>2
<1>13. \A s \in (SUBSET S) \ {{}} : (\A x \in s : s \ {x} \in P) => s \in P
  <2> SUFFICES ASSUME NEW s \in (SUBSET S) \ {{}}, \A x \in s : s \ {x} \in P
               PROVE  g[s] \in Int
      OBVIOUS
  <2>1. some(s) \in s /\ some(s) \in S  BY <1>1
  <2>2. g[s \ {some(s)}] \in Int  BY <2>1
  <2>3. g[s] = f[some(s)] + g[s \ {some(s)}]  BY <1>11
  <2> QED  BY <2>1, <2>2, <2>3
<1>14. P \in SUBSET SUBSET S  OBVIOUS
<1> HIDE DEF P
<1>15. P = SUBSET S  BY <1>12, <1>13, <1>14, SetInduction
<1>16. \A s \in SUBSET S : g[s] \in Int  BY <1>15 DEF P
<1>17. g \in [SUBSET S -> Int]  BY <1>10, <1>16
<1> QED  BY <1>9, <1>17 DEF g

(* The sum of f over S.                                                    *)
SumOn(f, S) == SumUp(f, S)[S]

Summable(f, S) == IsFiniteSet(S) /\ \A x \in S : f[x] \in Int

(* Sums over subsets are the sums over those sets.                         *)
LEMMA SumOfSubset ==
  ASSUME NEW S, NEW f, Summable(f, S), NEW R \in SUBSET S
  PROVE  SumUp(f, S)[R] = SumOn(f, R)
<1> DEFINE g == SumUp(f, S)
           h == SumUp(f, R)
           some(s) == CHOOSE x \in s : TRUE
           P == {s \in SUBSET R : g[s] = h[s]}
<1>1. IsFiniteSet(S) /\ IsFiniteSet(R) /\ \A x \in S : f[x] \in Int
    BY FS_Subset DEF Summable
<1>2. g = SumStep(f, S, g) /\ h = SumStep(f, R, h)
  <2>1. \A x \in R : f[x] \in Int  BY <1>1
  <2> QED  BY <1>1, <2>1, SumUpIsSum
<1> HIDE DEF g, h
<1>3. \A s \in SUBSET S : g[s] = IF s = {} THEN 0 ELSE f[some(s)] + g[s \ {some(s)}]
    BY <1>2 DEF SumStep
<1>4. \A s \in SUBSET R : h[s] = IF s = {} THEN 0 ELSE f[some(s)] + h[s \ {some(s)}]
    BY <1>2 DEF SumStep
<1>5. \A s \in SUBSET R : s # {} => some(s) \in s  OBVIOUS
<1> HIDE DEF some
<1>6. {} \in P
  <2>1. {} \in SUBSET S /\ {} \in SUBSET R  OBVIOUS
  <2>2. g[{}] = 0 /\ h[{}] = 0  BY <1>3, <1>4, <2>1
  <2> QED  BY <2>1, <2>2
<1>7. \A s \in (SUBSET R) \ {{}} : (\A x \in s : s \ {x} \in P) => s \in P
  <2> SUFFICES ASSUME NEW s \in (SUBSET R) \ {{}}, \A x \in s : s \ {x} \in P
               PROVE  g[s] = h[s]
      OBVIOUS
  <2>1. some(s) \in s /\ s \in SUBSET S  BY <1>5
  <2>2. g[s \ {some(s)}] = h[s \ {some(s)}]  BY <2>1
  <2> QED  BY <1>3, <1>4, <2>1, <2>2
<1>8. P \in SUBSET SUBSET R  OBVIOUS
<1> HIDE DEF P
<1>9. P = SUBSET R  BY <1>1, <1>6, <1>7, <1>8, SetInduction
<1>10. R \in P  BY <1>9
<1> QED  BY <1>10 DEF P, SumOn, g, h

(* A sum is a number; that over the empty set is 0; that over any other is *)
(* any element's value and the sum over the rest.                          *)
LEMMA SumSplits ==
  ASSUME NEW S, NEW f, Summable(f, S)
  PROVE  /\ SumOn(f, S) \in Int
         /\ S = {} => SumOn(f, S) = 0
         /\ \A x \in S : SumOn(f, S) = f[x] + SumOn(f, S \ {x})
<1> DEFINE some(s) == CHOOSE x \in s : TRUE
           P == {s \in SUBSET S : \A x \in s : SumOn(f, s) = f[x] + SumOn(f, s \ {x})}
<1>1. IsFiniteSet(S) /\ \A x \in S : f[x] \in Int  BY DEF Summable
<1>2. SumUp(f, S) = SumStep(f, S, SumUp(f, S)) /\ SumUp(f, S) \in [SUBSET S -> Int]
    BY <1>1, SumUpIsSum
<1>3. \A s \in SUBSET S : SumUp(f, S)[s] = SumOn(f, s)  BY SumOfSubset
<1>4. \A s \in SUBSET S : SumOn(f, s) \in Int  BY <1>2, <1>3
<1>5. \A s \in SUBSET S : s # {} => some(s) \in s  OBVIOUS
<1>6. \A s \in SUBSET S :
        SumUp(f, S)[s] = IF s = {} THEN 0 ELSE f[some(s)] + SumUp(f, S)[s \ {some(s)}]
    BY <1>2 DEF SumStep
<1> HIDE DEF some
<1>7. \A s \in SUBSET S :
        SumOn(f, s) = IF s = {} THEN 0 ELSE f[some(s)] + SumOn(f, s \ {some(s)})
  <2> TAKE s \in SUBSET S
  <2>1. s \ {some(s)} \in SUBSET S  OBVIOUS
  <2>2. /\ SumUp(f, S)[s] = SumOn(f, s)
        /\ SumUp(f, S)[s \ {some(s)}] = SumOn(f, s \ {some(s)})
      BY <1>3, <2>1
  <2> QED  BY <1>6, <2>2
<1>8. {} \in P  OBVIOUS
<1>9. \A s \in (SUBSET S) \ {{}} : (\A x \in s : s \ {x} \in P) => s \in P
  <2> SUFFICES ASSUME NEW s \in (SUBSET S) \ {{}}, \A x \in s : s \ {x} \in P,
                      NEW x \in s
               PROVE  SumOn(f, s) = f[x] + SumOn(f, s \ {x})
      OBVIOUS
  <2> DEFINE y == some(s)
  <2>1. y \in s /\ s \in SUBSET S /\ s # {}  BY <1>5
  <2>2. SumOn(f, s) = f[y] + SumOn(f, s \ {y})  BY <1>7, <2>1
  <2>3. CASE x = y  BY <2>2, <2>3
  <2>4. CASE x # y
    <3> HIDE DEF y
    <3>1. x \in s \ {y} /\ y \in s \ {x} /\ (s \ {y}) \ {x} = (s \ {x}) \ {y}
        BY <2>1, <2>4
    <3>2. SumOn(f, s \ {y}) = f[x] + SumOn(f, (s \ {y}) \ {x})  BY <2>1, <3>1
    <3>3. SumOn(f, s \ {x}) = f[y] + SumOn(f, (s \ {x}) \ {y})  BY <2>1, <3>1
    <3>4. /\ f[x] \in Int /\ f[y] \in Int
          /\ SumOn(f, (s \ {x}) \ {y}) \in Int
      <4>1. (s \ {x}) \ {y} \in SUBSET S  BY <2>1
      <4> QED  BY <1>1, <1>4, <2>1, <4>1
    <3> QED  BY <2>2, <3>1, <3>2, <3>3, <3>4
  <2> QED  BY <2>3, <2>4
<1>10. P \in SUBSET SUBSET S  OBVIOUS
<1>11. S \in SUBSET S  OBVIOUS
<1> HIDE DEF P
<1>12. P = SUBSET S  BY <1>1, <1>8, <1>9, <1>10, SetInduction
<1>13. \A x \in S : SumOn(f, S) = f[x] + SumOn(f, S \ {x})  BY <1>11, <1>12 DEF P
<1> QED  BY <1>4, <1>7, <1>11, <1>13

(* One more element adds its value.                                        *)
LEMMA SumGrows ==
  ASSUME NEW S, NEW f, Summable(f, S), NEW x, x \notin S, f[x] \in Int
  PROVE  /\ Summable(f, S \cup {x})
         /\ SumOn(f, S \cup {x}) = f[x] + SumOn(f, S)
<1>1. Summable(f, S \cup {x})  BY FS_AddElement DEF Summable
<1>2. (S \cup {x}) \ {x} = S  OBVIOUS
<1>3. SumOn(f, S \cup {x}) = f[x] + SumOn(f, (S \cup {x}) \ {x})
    BY <1>1, SumSplits
<1> QED  BY <1>1, <1>2, <1>3

(* Functions that agree have the same sum.                                 *)
LEMMA SumSame ==
  ASSUME NEW S, NEW f, NEW g, Summable(f, S), \A x \in S : f[x] = g[x]
  PROVE  Summable(g, S) /\ SumOn(f, S) = SumOn(g, S)
<1> DEFINE P == {s \in SUBSET S : SumOn(f, s) = SumOn(g, s)}
<1>1. ASSUME NEW s \in SUBSET S PROVE Summable(f, s) /\ Summable(g, s)
    BY FS_Subset DEF Summable
<1>2. {} \in P
  <2>1. {} \in SUBSET S  OBVIOUS
  <2>2. SumOn(f, {}) = 0 /\ SumOn(g, {}) = 0  BY <1>1, <2>1, SumSplits
  <2> QED  BY <2>1, <2>2
<1>3. \A s \in (SUBSET S) \ {{}} : (\A x \in s : s \ {x} \in P) => s \in P
  <2> SUFFICES ASSUME NEW s \in (SUBSET S) \ {{}}, \A x \in s : s \ {x} \in P
               PROVE  SumOn(f, s) = SumOn(g, s)
      OBVIOUS
  <2>1. PICK x \in s : TRUE  OBVIOUS
  <2>2. SumOn(f, s \ {x}) = SumOn(g, s \ {x})  OBVIOUS
  <2>3. Summable(f, s) /\ Summable(g, s)  BY <1>1
  <2>4. /\ SumOn(f, s) = f[x] + SumOn(f, s \ {x})
        /\ SumOn(g, s) = g[x] + SumOn(g, s \ {x})
      BY <2>3, SumSplits
  <2> QED  BY <2>2, <2>4
<1>4. P \in SUBSET SUBSET S  OBVIOUS
<1> HIDE DEF P
<1>5. P = SUBSET S  BY <1>2, <1>3, <1>4, SetInduction DEF Summable
<1>6. S \in P /\ S \in SUBSET S  BY <1>5
<1> QED  BY <1>1, <1>6 DEF P

(* A sum of natural numbers.                                               *)
LEMMA SumOfNaturals ==
  ASSUME NEW S, NEW f, IsFiniteSet(S), \A x \in S : f[x] \in Nat
  PROVE  /\ Summable(f, S) /\ SumOn(f, S) \in Nat
         /\ \A x \in S : f[x] <= SumOn(f, S)
<1> DEFINE P == {s \in SUBSET S : SumOn(f, s) \in Nat}
<1>1. ASSUME NEW s \in SUBSET S PROVE Summable(f, s)
    BY FS_Subset DEF Summable
<1>2. {} \in P
  <2>1. {} \in SUBSET S  OBVIOUS
  <2>2. SumOn(f, {}) = 0  BY <1>1, <2>1, SumSplits
  <2> QED  BY <2>1, <2>2
<1>3. \A s \in (SUBSET S) \ {{}} : (\A x \in s : s \ {x} \in P) => s \in P
  <2> SUFFICES ASSUME NEW s \in (SUBSET S) \ {{}}, \A x \in s : s \ {x} \in P
               PROVE  SumOn(f, s) \in Nat
      OBVIOUS
  <2>1. PICK x \in s : TRUE  OBVIOUS
  <2>2. SumOn(f, s \ {x}) \in Nat  OBVIOUS
  <2>3. SumOn(f, s) = f[x] + SumOn(f, s \ {x})  BY <1>1, SumSplits
  <2> QED  BY <2>2, <2>3
<1>4. P \in SUBSET SUBSET S  OBVIOUS
<1> HIDE DEF P
<1>5. P = SUBSET S  BY <1>2, <1>3, <1>4, SetInduction
<1>6. \A s \in SUBSET S : SumOn(f, s) \in Nat  BY <1>5 DEF P
<1>7. S \in SUBSET S /\ Summable(f, S)  BY <1>1
<1>8. ASSUME NEW x \in S PROVE f[x] <= SumOn(f, S)
  <2>1. SumOn(f, S) = f[x] + SumOn(f, S \ {x})  BY <1>7, SumSplits
  <2>2. SumOn(f, S \ {x}) \in Nat /\ f[x] \in Nat  BY <1>6
  <2> QED  BY <2>1, <2>2
<1> QED  BY <1>6, <1>7, <1>8

(* The sum over two sets that share nothing.                               *)
LEMMA SumOfUnion ==
  ASSUME NEW A, NEW B, NEW f, Summable(f, A \cup B), A \cap B = {}
  PROVE  SumOn(f, A \cup B) = SumOn(f, A) + SumOn(f, B)
<1> DEFINE P == {s \in SUBSET B : SumOn(f, A \cup s) = SumOn(f, A) + SumOn(f, s)}
<1>1. ASSUME NEW s \in SUBSET (A \cup B) PROVE Summable(f, s)
    BY FS_Subset DEF Summable
<1>2. {} \in P
  <2>1. {} \in SUBSET B /\ {} \in SUBSET (A \cup B) /\ A \in SUBSET (A \cup B) /\ A \cup {} = A
      OBVIOUS
  <2>2. SumOn(f, {}) = 0 /\ SumOn(f, A) \in Int  BY <1>1, <2>1, SumSplits
  <2> QED  BY <2>1, <2>2
<1>3. \A s \in (SUBSET B) \ {{}} : (\A x \in s : s \ {x} \in P) => s \in P
  <2> SUFFICES ASSUME NEW s \in (SUBSET B) \ {{}}, \A x \in s : s \ {x} \in P
               PROVE  SumOn(f, A \cup s) = SumOn(f, A) + SumOn(f, s)
      OBVIOUS
  <2>1. PICK x \in s : TRUE  OBVIOUS
  <2>2. SumOn(f, A \cup (s \ {x})) = SumOn(f, A) + SumOn(f, s \ {x})  OBVIOUS
  <2> DEFINE u == A \cup s
             r == s \ {x}
             v == A \cup r
  <2>3. u \ {x} = v /\ x \in u /\ x \in s  OBVIOUS
  <2>4. u \in SUBSET (A \cup B) /\ s \in SUBSET (A \cup B) /\ r \in SUBSET (A \cup B)
        /\ A \in SUBSET (A \cup B)
      OBVIOUS
  <2>5. SumOn(f, v) = SumOn(f, A) + SumOn(f, r)  BY <2>2
  <2>6. Summable(f, u) /\ Summable(f, s) /\ Summable(f, r) /\ Summable(f, A)
      BY <1>1, <2>4
  <2>7. s \ {x} = r  OBVIOUS
  <2>8. f[x] \in Int  BY DEF Summable
  <2> HIDE DEF u, v, r
  <2>9. SumOn(f, u) = f[x] + SumOn(f, v)
    <3>1. \A y \in u : SumOn(f, u) = f[y] + SumOn(f, u \ {y})  BY <2>6, SumSplits, ZenonT(40)
    <3> QED  BY <2>3, <3>1
  <2>10. SumOn(f, s) = f[x] + SumOn(f, r)
    <3>1. \A y \in s : SumOn(f, s) = f[y] + SumOn(f, s \ {y})  BY <2>6, SumSplits
    <3> QED  BY <2>3, <2>7, <3>1
  <2>11. SumOn(f, A) \in Int /\ SumOn(f, r) \in Int  BY <2>6, SumSplits
  <2>12. SumOn(f, u) = SumOn(f, A) + SumOn(f, s)
      BY <2>5, <2>8, <2>9, <2>10, <2>11
  <2> QED  BY <2>12 DEF u
<1>4. P \in SUBSET SUBSET B /\ B \in SUBSET B  OBVIOUS
<1>5. IsFiniteSet(B)
  <2>1. B \in SUBSET (A \cup B)  OBVIOUS
  <2> QED  BY <1>1, <2>1 DEF Summable
<1> HIDE DEF P
<1>6. P = SUBSET B
  <2>1. P \in SUBSET SUBSET B  BY <1>4
  <2> QED  BY <1>2, <1>3, <1>5, <2>1, SetInduction
<1>7. B \in P  BY <1>4, <1>6
<1> QED  BY <1>7 DEF P

(* A sum is between the least value and the greatest, as often as there    *)
(* are elements.                                                           *)
LEMMA SumBounds ==
  ASSUME NEW S, NEW f, Summable(f, S), NEW low \in Int, NEW high \in Int,
         \A x \in S : low <= f[x] /\ f[x] <= high
  PROVE  low * Cardinality(S) <= SumOn(f, S) /\ SumOn(f, S) <= high * Cardinality(S)
<1> DEFINE P == {s \in SUBSET S : /\ low * Cardinality(s) <= SumOn(f, s)
                                  /\ SumOn(f, s) <= high * Cardinality(s)}
<1>1. ASSUME NEW s \in SUBSET S
      PROVE  Summable(f, s) /\ IsFiniteSet(s) /\ Cardinality(s) \in Nat
    BY FS_Subset, FS_CardinalityType DEF Summable
<1>2. {} \in P
  <2>1. {} \in SUBSET S  OBVIOUS
  <2>2. SumOn(f, {}) = 0 /\ Cardinality({}) = 0  BY <1>1, <2>1, SumSplits, FS_EmptySet
  <2>3. low * 0 = 0 /\ high * 0 = 0  OBVIOUS
  <2> QED  BY <2>1, <2>2, <2>3
<1>3. \A s \in (SUBSET S) \ {{}} : (\A x \in s : s \ {x} \in P) => s \in P
  <2> SUFFICES ASSUME NEW s \in (SUBSET S) \ {{}}, \A x \in s : s \ {x} \in P
               PROVE  /\ low * Cardinality(s) <= SumOn(f, s)
                      /\ SumOn(f, s) <= high * Cardinality(s)
      OBVIOUS
  <2>1. PICK x \in s : TRUE  OBVIOUS
  <2> DEFINE r == s \ {x}
             k == Cardinality(r)
  <2>2. low * k <= SumOn(f, r) /\ SumOn(f, r) <= high * k  OBVIOUS
  <2>3. Summable(f, s) /\ Summable(f, r) /\ k \in Nat
    <3>1. r \in SUBSET S  OBVIOUS
    <3> QED  BY <1>1, <3>1
  <2>4. Cardinality(s) = k + 1
    <3>1. IsFiniteSet(s) /\ Cardinality(s) \in Nat  BY <1>1
    <3>2. k = Cardinality(s) - 1  BY <3>1, FS_RemoveElement
    <3> QED  BY <3>1, <3>2
  <2>5. SumOn(f, s) = f[x] + SumOn(f, r) /\ SumOn(f, r) \in Int /\ f[x] \in Int
      BY <2>3, SumSplits DEF Summable
  <2>6. low <= f[x] /\ f[x] <= high  OBVIOUS
  <2> HIDE DEF r, k
  <2>7. /\ low * (k + 1) = low * k + low /\ high * (k + 1) = high * k + high
        /\ low * k \in Int /\ high * k \in Int
    <3>1. \A a \in Int, n \in Nat : a * (n + 1) = a * n + a /\ a * n \in Int  OBVIOUS
    <3> QED  BY <2>3, <3>1
  <2> DEFINE lk == low * k
             hk == high * k
  <2> HIDE DEF lk, hk
  <2>8. lk + low <= SumOn(f, s) /\ SumOn(f, s) <= hk + high
      BY <2>2, <2>5, <2>6, <2>7 DEF lk, hk
  <2> QED  BY <2>4, <2>7, <2>8 DEF lk, hk
<1>4. P \in SUBSET SUBSET S /\ S \in SUBSET S  OBVIOUS
<1>5. IsFiniteSet(S)  BY DEF Summable
<1> HIDE DEF P
<1>6. P = SUBSET S  BY <1>2, <1>3, <1>4, <1>5, SetInduction
<1>7. S \in P  BY <1>4, <1>6
<1> QED  BY <1>7 DEF P

(* Counting is summing ones.                                               *)
LEMMA SumOfOnes ==
  ASSUME NEW S, IsFiniteSet(S), NEW f, \A x \in S : f[x] = 1
  PROVE  Summable(f, S) /\ SumOn(f, S) = Cardinality(S)
<1>1. Summable(f, S)  BY DEF Summable
<1>2. 1 * Cardinality(S) <= SumOn(f, S) /\ SumOn(f, S) <= 1 * Cardinality(S)
    BY <1>1, SumBounds
<1>3. SumOn(f, S) \in Int /\ Cardinality(S) \in Nat
    BY <1>1, SumSplits, FS_CardinalityType
<1>4. 1 * Cardinality(S) = Cardinality(S)  BY <1>3
<1> QED  BY <1>1, <1>2, <1>3, <1>4

(* The parts that a function b divides S into, each summed by itself.      *)
PartOf(S, b, d) == {x \in S : b[x] = d}

(* Together they sum to what S does.                                       *)
LEMMA SumOfParts ==
  ASSUME NEW S, NEW f, Summable(f, S), NEW D, NEW b \in [S -> D],
         \A d \in D : \E x \in S : b[x] = d,
         NEW g, \A d \in D : g[d] = SumOn(f, PartOf(S, b, d))
  PROVE  IsFiniteSet(D) /\ SumOn(g, D) = SumOn(f, S)
<1> DEFINE Part(s) == {x \in S : b[x] \in s}
           P == {s \in SUBSET D : SumOn(g, s) = SumOn(f, Part(s))}
<1>1. IsFiniteSet(S)  BY DEF Summable
<1>2. IsFiniteSet(D)
  <2>1. b \in Surjection(S, D)  BY DEF Surjection
  <2> QED  BY <1>1, <2>1, FS_Surjection
<1>3. ASSUME NEW s \in SUBSET S PROVE Summable(f, s) /\ SumOn(f, s) \in Int
  <2>1. Summable(f, s)  BY FS_Subset DEF Summable
  <2> QED  BY <2>1, SumSplits
<1>4. \A d \in D : g[d] \in Int
  <2> TAKE d \in D
  <2>1. PartOf(S, b, d) \in SUBSET S  BY DEF PartOf
  <2> QED  BY <1>3, <2>1
<1>5. ASSUME NEW s \in SUBSET D PROVE Summable(g, s)
    BY <1>2, <1>4, FS_Subset DEF Summable
<1>6. {} \in P
  <2>1. Part({}) = {} /\ {} \in SUBSET D /\ {} \in SUBSET S  OBVIOUS
  <2>2. SumOn(g, {}) = 0 /\ SumOn(f, {}) = 0  BY <1>3, <1>5, <2>1, SumSplits
  <2> QED  BY <2>1, <2>2
<1>7. \A s \in (SUBSET D) \ {{}} : (\A d \in s : s \ {d} \in P) => s \in P
  <2> SUFFICES ASSUME NEW s \in (SUBSET D) \ {{}}, \A d \in s : s \ {d} \in P
               PROVE  SumOn(g, s) = SumOn(f, Part(s))
      OBVIOUS
  <2>1. PICK d \in s : TRUE  OBVIOUS
  <2> DEFINE A == PartOf(S, b, d)
             B == Part(s \ {d})
  <2>2. SumOn(g, s \ {d}) = SumOn(f, B)  OBVIOUS
  <2>3. SumOn(g, s) = g[d] + SumOn(g, s \ {d})  BY <1>5, SumSplits, SMTT(40)
  <2>4. g[d] = SumOn(f, A)  OBVIOUS
  <2>5. A \cup B = Part(s) /\ A \cap B = {} /\ A \cup B \in SUBSET S  BY DEF PartOf
  <2> HIDE DEF A, B, Part
  <2>6. SumOn(f, A \cup B) = SumOn(f, A) + SumOn(f, B)  BY <1>3, <2>5, SumOfUnion
  <2> QED  BY <2>2, <2>3, <2>4, <2>5, <2>6
<1>8. P \in SUBSET SUBSET D /\ D \in SUBSET D /\ Part(D) = S  OBVIOUS
<1> HIDE DEF P, Part
<1>9. P = SUBSET D  BY <1>2, <1>6, <1>7, <1>8, SetInduction
<1>10. D \in P  BY <1>8, <1>9
<1> QED  BY <1>2, <1>8, <1>10 DEF P
=============================================================================
