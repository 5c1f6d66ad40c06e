--------------------------- MODULE HeroQueriesProofs --------------------------
(***************************************************************************)
(* Lists, for any tables, clauses, sorts and pages: that both repositories *)
(* filter alike, that the list of mock mode is one Postgres may give, and  *)
(* that a sort which reaches the id leaves Postgres no choice.  Aggregates *)
(* of any table: that the numbers of a body add up.                        *)
(***************************************************************************)
EXTENDS HeroStats, RecursionLemmas

Char == {"a", "A"} \cup Wildcards

(* A sequence with the same element put before and behind it.              *)
LEMMA Enclosed ==
  ASSUME NEW C, NEW p \in Seq(C), NEW x
  PROVE  LET q == <<x>> \o p \o <<x>>
         IN  /\ Len(q) = Len(p) + 2 /\ q[1] = x /\ q[Len(p) + 2] = x
             /\ \A j \in 1..Len(p) : q[j + 1] = p[j]
<1> DEFINE E == C \cup {x}
           r == <<x>> \o p
<1>1. <<x>> \in Seq(E) /\ Len(<<x>>) = 1 /\ p \in Seq(E) /\ Len(p) \in Nat  OBVIOUS
<1> HIDE DEF E
<1>2. r \in Seq(E) /\ Len(r) = Len(p) + 1 /\ r[1] = x  BY <1>1
<1>3. \A j \in 1..Len(p) : r[j + 1] = p[j]  BY <1>1
<1> HIDE DEF r
<1>4. Len(r \o <<x>>) = Len(p) + 2 /\ (r \o <<x>>)[Len(p) + 2] = x  BY <1>1, <1>2
<1>5. \A j \in 1..Len(p) + 1 : (r \o <<x>>)[j] = r[j]  BY <1>1, <1>2
<1>6. 1 \in 1..Len(p) + 1 /\ \A j \in 1..Len(p) : j + 1 \in 1..Len(p) + 1  BY <1>1
<1>7. (r \o <<x>>)[1] = x  BY <1>2, <1>5, <1>6
<1>8. \A j \in 1..Len(p) : (r \o <<x>>)[j + 1] = p[j]  BY <1>3, <1>5, <1>6
<1> QED  BY <1>4, <1>7, <1>8 DEF r

(* Between two of LIKE's %, text without wildcards is looked for as it is. *)
LEMMA LikeIsSubstring ==
  ASSUME NEW t \in Text, NEW p \in Text, \A j \in DOMAIN p : p[j] \notin Wildcards
  PROVE  Like(t, <<AnyText>> \o p \o <<AnyText>>) <=> IsSubstring(p, t)
<1> DEFINE q == <<AnyText>> \o p \o <<AnyText>>
           n == Len(p)
           L == Len(t)
           D(f) == [j \in 0..Len(q) |->
                      IF j = 0 THEN {0}
                      ELSE {i \in 0..L : IF q[j] = AnyText THEN \E k \in f[j - 1] : k <= i
                                         ELSE i - 1 \in f[j - 1] /\ q[j] \in {AnyChar, t[i]}}]
           F == CHOOSE f : f = D(f)
<1>1. n \in Nat /\ L \in Nat /\ p \in [1..n -> Char] /\ DOMAIN p = 1..n
  <2> DEFINE C == Char
  <2>1. p \in Seq(C) /\ t \in Seq(C)  BY DEF Text, Char
  <2> HIDE DEF C
  <2>2. n \in Nat /\ L \in Nat /\ p \in [1..n -> C] /\ DOMAIN p = 1..n  BY <2>1
  <2> QED  BY <2>2 DEF C
<1>2. /\ Len(q) = n + 2 /\ q[1] = AnyText /\ q[n + 2] = AnyText
      /\ \A j \in 1..n : q[j + 1] = p[j] /\ p[j] # AnyText /\ p[j] # AnyChar
  <2>1. /\ Len(q) = n + 2 /\ q[1] = AnyText /\ q[n + 2] = AnyText
        /\ \A j \in 1..n : q[j + 1] = p[j]
    <3> DEFINE C == Char
    <3>1. p \in Seq(C)  BY DEF Text, Char
    <3> HIDE DEF C
    <3> QED  BY <3>1, Enclosed
  <2>2. \A j \in 1..n : p[j] # AnyText /\ p[j] # AnyChar  BY <1>1 DEF Wildcards
  <2> QED  BY <2>1, <2>2
<1>3. Like(t, q) <=> L \in F[n + 2]  BY <1>2 DEF Like
<1> HIDE DEF q
<1>4. F = D(F)
  <2> DEFINE S == SUBSET (0..L)
             next(j, x) == {i \in 0..L : IF q[j] = AnyText THEN \E k \in x : k <= i
                                         ELSE i - 1 \in x /\ q[j] \in {AnyChar, t[i]}}
             step == [j \in 1..n + 2 |-> [x \in S |-> next(j, x)]]
  <2>1. step \in [1..n + 2 -> [S -> S]]  OBVIOUS
  <2>2. {0} \in S /\ n + 2 \in Nat  BY <1>1
  <2>3. PICK f \in [0..n + 2 -> S] : Steps(f, {0}, step, n + 2)
    <3> HIDE DEF S, step
    <3> QED  BY <2>1, <2>2, RecursionUpTo
  <2>4. \A j \in 1..n + 2 : f[j] = next(j, f[j - 1])
    <3> TAKE j \in 1..n + 2
    <3>1. j - 1 \in 0..n + 2  BY <1>1
    <3> HIDE DEF S
    <3>2. f[j - 1] \in S  BY <3>1
    <3> QED  BY <2>3, <3>2 DEF Steps
  <2>5. f = D(f)
    <3>1. \A j \in 0..n + 2 : f[j] = IF j = 0 THEN {0} ELSE next(j, f[j - 1])
      <4> TAKE j \in 0..n + 2
      <4>1. CASE j = 0  BY <2>3, <4>1 DEF Steps
      <4>2. CASE j # 0
        <5>1. j \in 1..n + 2  BY <1>1, <4>2
        <5> QED  BY <2>4, <4>2, <5>1
      <4> QED  BY <4>1, <4>2
    <3>2. f = [j \in 0..n + 2 |-> f[j]]  OBVIOUS
    <3> QED  BY <1>2, <3>1, <3>2
  <2> HIDE DEF D
  <2> QED  BY <2>5
<1> HIDE DEF F
<1>5. F[0] = {0}  BY <1>1, <1>2, <1>4
<1>6. ASSUME NEW j \in 1..n + 2, q[j] = AnyText
      PROVE  F[j] = {i \in 0..L : \E k \in F[j - 1] : k <= i}
  <2>1. j \in 0..Len(q) /\ j # 0  BY <1>1, <1>2
  <2> QED  BY <1>4, <1>6, <2>1
<1>7. ASSUME NEW j \in 1..n
      PROVE  F[j + 1] = {i \in 0..L : i - 1 \in F[j] /\ p[j] = t[i]}
  <2>1. j + 1 \in 0..Len(q) /\ j + 1 # 0 /\ (j + 1) - 1 = j  BY <1>1, <1>2
  <2>2. q[j + 1] = p[j] /\ p[j] # AnyText /\ p[j] # AnyChar  BY <1>2
  <2>3. F[j + 1] = {i \in 0..L : i - 1 \in F[j] /\ q[j + 1] \in {AnyChar, t[i]}}
      BY <1>4, <2>1, <2>2
  <2> QED  BY <2>2, <2>3
<1>8. F[1] = 0..L
  <2>1. 1 \in 1..n + 2 /\ 1 - 1 = 0  BY <1>1
  <2>2. F[1] = {i \in 0..L : \E k \in {0} : k <= i}  BY <1>2, <1>5, <1>6, <2>1
  <2> QED  BY <1>1, <2>2
<1>9. F[n + 2] = {i \in 0..L : \E k \in F[n + 1] : k <= i}
  <2>1. n + 2 \in 1..n + 2 /\ (n + 2) - 1 = n + 1  BY <1>1
  <2> QED  BY <1>2, <1>6, <2>1
<1> DEFINE M(j) == {i \in j..L : \A m \in 1..j : p[m] = t[i - j + m]}
           T == {j \in Nat : j <= n => F[j + 1] = M(j)}
<1>10. T = Nat
  <2>1. 0 \in T
    <3>1. M(0) = 0..L  BY <1>1
    <3> QED  BY <1>8, <3>1
  <2> HIDE DEF M
  <2>2. ASSUME NEW j \in T PROVE j + 1 \in T
    <3> SUFFICES ASSUME j + 1 <= n PROVE F[(j + 1) + 1] = M(j + 1)
        BY <2>2
    <3>1. j \in Nat /\ j <= n /\ j + 1 \in 1..n  BY <1>1, <2>2
    <3>2. F[j + 1] = M(j)  BY <2>2, <3>1
    <3>3. F[(j + 1) + 1] = {i \in 0..L : i - 1 \in M(j) /\ p[j + 1] = t[i]}
      <4> DEFINE m == j + 1
      <4>1. F[m + 1] = {i \in 0..L : i - 1 \in F[m] /\ p[m] = t[i]}
        <5>1. m \in 1..n  BY <3>1
        <5> HIDE DEF m
        <5> QED  BY <1>7, <5>1
      <4>2. F[m] = M(j)  BY <3>2
      <4> HIDE DEF m
      <4>3. F[m + 1] = {i \in 0..L : i - 1 \in M(j) /\ p[m] = t[i]}  BY <4>1, <4>2
      <4> QED  BY <4>3 DEF m
    <3> USE DEF M
    <3>4. ASSUME NEW i \in 0..L PROVE (i - 1 \in M(j) /\ p[j + 1] = t[i]) <=> i \in M(j + 1)
      <4>1. i - 1 \in j..L <=> i \in j + 1..L  BY <1>1, <3>1
      <4>2. \A m \in 1..j : (i - 1) - j + m = i - (j + 1) + m  BY <1>1, <3>1
      <4>3. i - (j + 1) + (j + 1) = i  BY <1>1, <3>1
      <4>4. \A m \in 1..j + 1 : m \in 1..j \/ m = j + 1  BY <3>1
      <4>5. \A m \in 1..j : m \in 1..j + 1  BY <3>1
      <4>6. j + 1 \in 1..j + 1  BY <3>1
      <4>7. (i - 1 \in M(j) /\ p[j + 1] = t[i]) => i \in M(j + 1)
          BY <4>1, <4>2, <4>3, <4>4
      <4>8. i \in M(j + 1) => (i - 1 \in M(j) /\ p[j + 1] = t[i])
        <5> SUFFICES ASSUME i \in M(j + 1) PROVE i - 1 \in M(j) /\ p[j + 1] = t[i]
            OBVIOUS
        <5>1. p[j + 1] = t[i]  BY <4>3, <4>6
        <5>2. \A m \in 1..j : p[m] = t[i - 1 - j + m]  BY <4>2, <4>5
        <5> QED  BY <4>1, <5>1, <5>2
      <4> QED  BY <4>7, <4>8
    <3>5. M(j + 1) \in SUBSET (0..L)  BY <1>1, <3>1
    <3> HIDE DEF M
    <3> QED  BY <3>3, <3>4, <3>5
  <2>3. T \in SUBSET Nat  OBVIOUS
  <2> HIDE DEF T
  <2> QED  BY <2>1, <2>2, <2>3, Induction
<1>11. F[n + 1] = M(n)
  <2> HIDE DEF M
  <2>1. n \in T /\ n <= n
    <3> HIDE DEF T
    <3> QED  BY <1>1, <1>10
  <2> QED  BY <2>1
<1>12. Like(t, q) <=> \E k \in M(n) : k <= L
  <2>1. L \in 0..L  BY <1>1
  <2> HIDE DEF M
  <2> QED  BY <1>3, <1>9, <1>11, <2>1
<1>13. (\E k \in M(n) : k <= L) <=> IsSubstring(p, t)
  <2>1. ASSUME NEW k \in M(n) PROVE IsSubstring(p, t)
    <3>1. k - n \in 0..L - n  BY <1>1
    <3>2. \A j \in DOMAIN p : t[(k - n) + j] = p[j]  BY <1>1
    <3> QED  BY <3>1, <3>2 DEF IsSubstring
  <2>2. ASSUME NEW i \in 0..L - n, \A j \in DOMAIN p : t[i + j] = p[j]
        PROVE  i + n \in M(n) /\ i + n <= L
    <3>1. i + n \in n..L  BY <1>1
    <3>2. \A m \in 1..n : (i + n) - n + m = i + m  BY <1>1
    <3>3. \A m \in 1..n : p[m] = t[(i + n) - n + m]  BY <1>1, <2>2, <3>2
    <3> QED  BY <1>1, <3>1, <3>3
  <2> QED  BY <2>1, <2>2 DEF IsSubstring
<1> QED  BY <1>12, <1>13 DEF q

(* Lower case keeps text text.                                             *)
LEMMA LowerTyped == \A t \in Text : Lower(t) \in Text
<1> DEFINE C == Char
<1>1. Text = Seq(C) /\ "a" \in C  BY DEF Text, Char
<1> HIDE DEF C
<1>2. \A t \in Seq(C) : Lower(t) \in Seq(C)  BY <1>1 DEF Lower
<1> QED  BY <1>1, <1>2

(* Text without wildcards, and in lower case.                              *)
LEMMA PlainText ==
  ASSUME NEW t \in Text, \A j \in DOMAIN t : t[j] \notin Wildcards
  PROVE  /\ Stripped(t) = t
         /\ Lower(t) \in Text /\ \A j \in DOMAIN Lower(t) : Lower(t)[j] \notin Wildcards
<1>1. Stripped(t) = t
  <2> DEFINE C == Char
             u == [i \in DOMAIN t |-> IF t[i] \in Wildcards THEN <<>> ELSE <<t[i]>>]
  <2>1. t \in Seq(C)  BY DEF Text, Char
  <2> HIDE DEF C
  <2>2. Len(t) \in Nat /\ DOMAIN t = 1..Len(t) /\ t \in [1..Len(t) -> C]  BY <2>1
  <2>3. u = [i \in 1..Len(t) |-> <<t[i]>>]  BY <2>2
  <2>4. CASE Len(t) = 0
    <3>1. Len(u) = 0  BY <2>2, <2>3, <2>4
    <3>2. FlattenSeq(u) = u
      <4> HIDE DEF u
      <4> QED  BY <3>1 DEF FlattenSeq
    <3>3. u = t  BY <2>2, <2>4
    <3> QED  BY <3>2, <3>3 DEF Stripped
  <2>5. CASE Len(t) # 0
    <3>1. FlattenSeq([k \in 1..Len(t) |-> <<t[k]>>]) = t
        BY <2>2, <2>5, FlattenSingles
    <3> QED  BY <2>3, <3>1 DEF Stripped
  <2> QED  BY <2>4, <2>5
<1>2. "a" \notin Wildcards  BY Zenon DEF Wildcards, AnyText, AnyChar
<1>3. Lower(t) \in Text  BY LowerTyped
<1>4. \A j \in DOMAIN Lower(t) : Lower(t)[j] \notin Wildcards  BY <1>2 DEF Lower
<1> QED  BY <1>1, <1>3, <1>4

(* One clause, of one row.                                                 *)
LEMMA ClausesAlike ==
  ASSUME NEW T \in Tables, NEW h \in T, NEW c \in Clauses, InRange(c), Plain(c)
  PROVE  ConditionFor(h, c) <=> MatchesOne(h, c)
<1> DEFINE v == FieldOf(h, c.field)
<1>1. ASSUME c.op \in {"contains", "icontains"}, v # Null
      PROVE  /\ v \in Text /\ c.value \in Text
             /\ \A j \in DOMAIN c.value : c.value[j] \notin Wildcards
  <2>1. c.field = "name" /\ c.value \in Text  BY <1>1, RequestsAssumption
  <2>2. h.name \in {Null} \cup Text  BY HeroQueriesAssumption DEF Row
  <2>3. v = h.name  BY <2>1 DEF FieldOf
  <2>4. Operands(c) = {c.value}  BY <1>1 DEF Operands
  <2> QED  BY <1>1, <2>1, <2>2, <2>3, <2>4 DEF Plain
<1> HIDE DEF v
<1>2. CASE c.op = "contains"
  <2>1. ConditionFor(h, c) <=> v # Null /\ Like(v, <<AnyText>> \o c.value \o <<AnyText>>)
      BY <1>2 DEF ConditionFor, Pattern, v
  <2>2. MatchesOne(h, c) <=> v # Null /\ IsSubstring(c.value, v)
      BY <1>2 DEF MatchesOne, v
  <2>3. ASSUME v # Null
        PROVE  Like(v, <<AnyText>> \o c.value \o <<AnyText>>) <=> IsSubstring(c.value, v)
      BY <1>1, <1>2, <2>3, LikeIsSubstring
  <2> QED  BY <2>1, <2>2, <2>3
<1>3. CASE c.op = "icontains"
  <2> DEFINE low == Lower(c.value)
  <2>1. ConditionFor(h, c) <=>
          v # Null /\ Like(Lower(v), <<AnyText>> \o Stripped(low) \o <<AnyText>>)
      BY <1>3 DEF ConditionFor, Pattern, v
  <2>2. MatchesOne(h, c) <=> v # Null /\ IsSubstring(low, Lower(v))
      BY <1>3 DEF MatchesOne, v
  <2>3. ASSUME v # Null
        PROVE  Like(Lower(v), <<AnyText>> \o Stripped(low) \o <<AnyText>>)
                 <=> IsSubstring(low, Lower(v))
    <3>1. low \in Text /\ \A j \in DOMAIN low : low[j] \notin Wildcards
        BY <1>1, <1>3, <2>3, PlainText
    <3>2. Stripped(low) = low  BY <3>1, PlainText
    <3>3. Lower(v) \in Text  BY <1>1, <1>3, <2>3, LowerTyped
    <3> HIDE DEF low
    <3> QED  BY <3>1, <3>2, <3>3, LikeIsSubstring
  <2> QED  BY <2>1, <2>2, <2>3
<1>4. CASE c.op \notin {"contains", "icontains"}
  <2>1. \A x \in Operands(c) : Scalar(c.field, x) = x  BY DEF InRange, Scalar
  <2>2. {Scalar(c.field, x) : x \in Operands(c)} = Operands(c)  BY <2>1
  <2>3. ConditionFor(h, c) <=>
          v # Null /\ Compares(v, c.op, {Scalar(c.field, x) : x \in Operands(c)})
      BY <1>4 DEF ConditionFor, v
  <2>4. MatchesOne(h, c) <=> v # Null /\ Compares(v, c.op, Operands(c))
      BY <1>4 DEF MatchesOne, v
  <2> QED  BY <2>2, <2>3, <2>4
<1> QED  BY <1>2, <1>3, <1>4

-----------------------------------------------------------------------------

(* A client asks of a table what it may ask.                               *)
Asked ==
  /\ heroes \in Tables /\ filters \in SUBSET Clauses /\ scope \in Scopes
  /\ sort \in Sorts \cup {<<>>} /\ page \in Pages

(* It does in every state.                                                 *)
LEMMA AlwaysAsked == Spec => []Asked
<1>1. Init => Asked  BY DEF Init, Asked, Scopes
<1>2. Asked /\ [Next]_vars => Asked'
  <2> SUFFICES ASSUME Asked, [Next]_vars PROVE Asked'  OBVIOUS
  <2>1. CASE Filter
    <3>1. filters' \in SUBSET Clauses  BY <2>1 DEF Filter
    <3> QED  BY <2>1, <3>1 DEF Filter, Asked
  <2>2. CASE Scope  BY <2>2 DEF Scope, Asked
  <2>3. CASE Sort  BY <2>3 DEF Sort, Asked
  <2>4. CASE UNCHANGED vars  BY <2>4 DEF vars, Asked
  <2> QED  BY <2>1, <2>2, <2>3, <2>4 DEF Next
<1> QED  BY <1>1, <1>2, PTL DEF Spec

(* Clauses within the columns' range and without wildcards select the same *)
(* rows, by Postgres and by mock mode.                                     *)
LEMMA RowsAlike ==
  ASSUME Asked, \A c \in filters : InRange(c) /\ Plain(c)
  PROVE  SqlRows = MemoryRows
<1>1. \A h \in heroes, c \in filters : ConditionFor(h, c) <=> MatchesOne(h, c)
    BY ClausesAlike DEF Asked
<1> QED  BY <1>1 DEF SqlRows, MemoryRows

(* The two repositories filter alike: the one in SQL and the one in Rust   *)
(* read every clause the same way, icontains and its lower case included,  *)
(* as long as no number is cut to its column and no text holds a wildcard. *)
THEOREM FiltersAlike == Spec => []RepositoriesFilterAlike
<1>1. Asked => RepositoriesFilterAlike  BY RowsAlike DEF RepositoriesFilterAlike
<1> QED  BY <1>1, AlwaysAsked, PTL

-----------------------------------------------------------------------------
(* Arrangements of finite sets.                                            *)

StrictOrder(S, R) ==
  /\ \A x \in S : <<x, x>> \notin R
  /\ \A x, y, z \in S : <<x, y>> \in R /\ <<y, z>> \in R => <<x, z>> \in R

(* A finite set has an element that nothing follows.                       *)
LEMMA HasLast ==
  ASSUME NEW S, IsFiniteSet(S), S # {}, NEW R, StrictOrder(S, R)
  PROVE  \E m \in S : \A x \in S : <<m, x>> \notin R
<1> DEFINE P == {s \in SUBSET S : s # {} => \E m \in s : \A x \in s : <<m, x>> \notin R}
<1>1. {} \in P  OBVIOUS
<1>2. ASSUME NEW s \in (SUBSET S) \ {{}}, \A x \in s : s \ {x} \in P
      PROVE  \E m \in s : \A x \in s : <<m, x>> \notin R
  <2>1. PICK y \in s : TRUE  OBVIOUS
  <2>2. s \ {y} \in P  BY <1>2
  <2>3. CASE s \ {y} = {}
    <3>1. \A x \in s : x = y  BY <2>3
    <3> QED  BY <2>1, <3>1 DEF StrictOrder
  <2>4. CASE s \ {y} # {}
    <3>1. PICK m \in s \ {y} : \A x \in s \ {y} : <<m, x>> \notin R  BY <2>2, <2>4
    <3>2. CASE <<m, y>> \notin R
      <4>1. \A x \in s : <<m, x>> \notin R  BY <3>1, <3>2
      <4> QED  BY <4>1
    <3>3. CASE <<m, y>> \in R
      <4>1. ASSUME NEW x \in s PROVE <<y, x>> \notin R
        <5>1. CASE x = y  BY <5>1 DEF StrictOrder
        <5>2. CASE x # y
          <6>1. <<m, x>> \notin R /\ x \in S /\ y \in S /\ m \in S  BY <3>1, <5>2
          <6> QED  BY <3>3, <6>1 DEF StrictOrder
        <5> QED  BY <5>1, <5>2
      <4> QED  BY <2>1, <4>1
    <3> QED  BY <3>2, <3>3
  <2> QED  BY <2>3, <2>4
<1>3. \A s \in (SUBSET S) \ {{}} : (\A x \in s : s \ {x} \in P) => s \in P
    BY <1>2
<1>4. P \in SUBSET SUBSET S  OBVIOUS
<1>5. S \in SUBSET S  OBVIOUS
<1> HIDE DEF P
<1>6. P = SUBSET S  BY <1>1, <1>3, <1>4, SetInduction
<1> QED  BY <1>5, <1>6 DEF P

(* What an arrangement is.                                                 *)
LEMMA ArrangementTyped ==
  ASSUME NEW S, IsFiniteSet(S), NEW R, NEW s \in Arrangements(S, R)
  PROVE  /\ Cardinality(S) \in Nat /\ DOMAIN s = 1..Cardinality(S)
         /\ s \in [1..Cardinality(S) -> S]
         /\ \A i, j \in 1..Cardinality(S) : i # j => s[i] # s[j]
         /\ \A i, j \in 1..Cardinality(S) : i < j => <<s[j], s[i]>> \notin R
<1>1. Cardinality(S) \in Nat  BY FS_CardinalityType
<1> QED  BY <1>1 DEF Arrangements, SetToSeqs

(* And the reverse.                                                        *)
LEMMA IsArrangement ==
  ASSUME NEW S, NEW R, NEW s \in [1..Cardinality(S) -> S],
         \A i, j \in 1..Cardinality(S) : i # j => s[i] # s[j],
         \A i, j \in 1..Cardinality(S) : i < j => <<s[j], s[i]>> \notin R
  PROVE  s \in Arrangements(S, R)
BY DEF Arrangements, SetToSeqs

(* A finite set can be arranged.                                           *)
LEMMA Arranging ==
  ASSUME NEW S, IsFiniteSet(S), NEW R, StrictOrder(S, R)
  PROVE  Arranged(S, R) \in Arrangements(S, R)
<1> DEFINE P == {s \in SUBSET S : \E q : q \in Arrangements(s, R)}
<1>1. {} \in P
  <2> DEFINE q == [i \in 1..0 |-> 0]
  <2>1. Cardinality({}) = 0  BY FS_EmptySet
  <2>2. q \in [1..0 -> {}] /\ \A i \in 1..0 : FALSE  OBVIOUS
  <2> HIDE DEF q
  <2>3. q \in Arrangements({}, R)  BY <2>1, <2>2, IsArrangement
  <2>4. {} \in SUBSET S  OBVIOUS
  <2> QED  BY <2>3, <2>4
<1>2. ASSUME NEW s \in (SUBSET S) \ {{}}, \A x \in s : s \ {x} \in P
      PROVE  \E q : q \in Arrangements(s, R)
  <2>1. IsFiniteSet(s) /\ StrictOrder(s, R) /\ s # {}
    <3>1. IsFiniteSet(s)  BY FS_Subset
    <3>2. StrictOrder(s, R)  BY DEF StrictOrder
    <3> QED  BY <3>1, <3>2
  <2>2. PICK m \in s : \A x \in s : <<m, x>> \notin R  BY <2>1, HasLast
  <2> DEFINE r == s \ {m}
             n == Cardinality(r)
  <2>3. r \in P  BY <1>2, <2>2
  <2>4. IsFiniteSet(r) /\ n \in Nat /\ Cardinality(s) = n + 1
    <3>1. IsFiniteSet(r)  BY <2>1, FS_Subset
    <3>2. Cardinality(r) = Cardinality(s) - 1 /\ Cardinality(s) \in Nat
        BY <2>1, FS_RemoveElement, FS_CardinalityType
    <3>3. n \in Nat  BY <3>1, FS_CardinalityType
    <3> QED  BY <3>1, <3>2, <3>3
  <2>5. PICK t : t \in Arrangements(r, R)  BY <2>3
  <2>6. /\ t \in [1..n -> r]
        /\ \A i, j \in 1..n : i # j => t[i] # t[j]
        /\ \A i, j \in 1..n : i < j => <<t[j], t[i]>> \notin R
      BY <2>4, <2>5, ArrangementTyped
  <2> DEFINE q == [i \in 1..n + 1 |-> IF i = n + 1 THEN m ELSE t[i]]
  <2>7. \A i \in 1..n + 1 : i = n + 1 \/ i \in 1..n  BY <2>4
  <2>8. \A i \in 1..n : i \in 1..n + 1 /\ i # n + 1  BY <2>4
  <2>9. \A i \in 1..n : t[i] \in s /\ t[i] # m  BY <2>6
  <2> HIDE DEF r, n
  <2>10. q \in [1..n + 1 -> s]  BY <2>2, <2>7, <2>9
  <2>11. ASSUME NEW i \in 1..n + 1, NEW j \in 1..n + 1, i # j PROVE q[i] # q[j]
      BY <2>6, <2>7, <2>8, <2>9, <2>11
  <2>12. ASSUME NEW i \in 1..n + 1, NEW j \in 1..n + 1, i < j
         PROVE  <<q[j], q[i]>> \notin R
    <3>1. i \in 1..n /\ i # n + 1  BY <2>4, <2>12
    <3>2. CASE j = n + 1  BY <2>2, <2>9, <3>1, <3>2
    <3>3. CASE j # n + 1
      <4>1. j \in 1..n  BY <2>7, <3>3
      <4> QED  BY <2>6, <2>12, <3>1, <3>3, <4>1
    <3> QED  BY <3>2, <3>3
  <2> HIDE DEF q
  <2>13. q \in Arrangements(s, R)  BY <2>4, <2>10, <2>11, <2>12, IsArrangement
  <2> QED  BY <2>13
<1>3. \A s \in (SUBSET S) \ {{}} : (\A x \in s : s \ {x} \in P) => s \in P
    BY <1>2
<1>4. P \in SUBSET SUBSET S  OBVIOUS
<1>5. S \in SUBSET S  OBVIOUS
<1> HIDE DEF P
<1>6. P = SUBSET S  BY <1>1, <1>3, <1>4, SetInduction
<1>7. \E q : q \in Arrangements(S, R)  BY <1>5, <1>6 DEF P
<1> QED  BY <1>7 DEF Arranged

(* An arrangement has every element.                                       *)
LEMMA ArrangesAll ==
  ASSUME NEW S, IsFiniteSet(S), NEW R, NEW s \in Arrangements(S, R), NEW x \in S
  PROVE  \E i \in 1..Cardinality(S) : s[i] = x
<1> DEFINE n == Cardinality(S)
<1>1. /\ n \in Nat /\ s \in [1..n -> S] /\ \A i, j \in 1..n : i # j => s[i] # s[j]
    BY ArrangementTyped
<1> SUFFICES ASSUME \A i \in 1..n : s[i] # x PROVE FALSE  OBVIOUS
<1>2. s \in [1..n -> S \ {x}]  BY <1>1
<1>3. IsFiniteSet(1..n) /\ Cardinality(1..n) = n
  <2> HIDE DEF n
  <2>1. IsFiniteSet(1..n) /\ Cardinality(1..n) = IF 1 > n THEN 0 ELSE n - 1 + 1
      BY <1>1, FS_Interval
  <2> QED  BY <1>1, <2>1
<1>4. IsFiniteSet(S \ {x}) /\ Cardinality(S \ {x}) = n - 1  BY FS_RemoveElement
<1>5. n - 1 < n  BY <1>1
<1>6. \E i, j \in 1..n : i # j /\ s[i] = s[j]
  <2> DEFINE U == S \ {x}
             D == 1..n
  <2>1. IsFiniteSet(U) /\ IsFiniteSet(D) /\ Cardinality(U) < Cardinality(D) /\ s \in [D -> U]
      BY <1>2, <1>3, <1>4, <1>5
  <2> HIDE DEF n, U, D
  <2>2. \E i, j \in D : i # j /\ s[i] = s[j]  BY <2>1, FS_PigeonHole
  <2> QED  BY <2>2 DEF D
<1> QED  BY <1>1, <1>6

(* A total order leaves no choice.                                         *)
LEMMA ArrangedOnce ==
  ASSUME NEW S, IsFiniteSet(S), NEW R, StrictOrder(S, R),
         \A x, y \in S : x # y => <<x, y>> \in R \/ <<y, x>> \in R,
         NEW s \in Arrangements(S, R), NEW t \in Arrangements(S, R)
  PROVE  s = t
<1> DEFINE n == Cardinality(S)
<1>1. /\ n \in Nat
      /\ s \in [1..n -> S] /\ t \in [1..n -> S]
      /\ \A i, j \in 1..n : i # j => s[i] # s[j] /\ t[i] # t[j]
      /\ \A i, j \in 1..n : i < j => <<s[j], s[i]>> \notin R /\ <<t[j], t[i]>> \notin R
    BY ArrangementTyped
<1>2. \A x \in S : (\E i \in 1..n : s[i] = x) /\ (\E i \in 1..n : t[i] = x)
    BY ArrangesAll
<1> HIDE DEF n
<1>3. ASSUME NEW k \in 1..n, \A i \in 1..n : i < k => s[i] = t[i]
      PROVE  s[k] = t[k]
  <2> SUFFICES ASSUME s[k] # t[k] PROVE FALSE  OBVIOUS
  <2>1. PICK j \in 1..n : t[j] = s[k]  BY <1>1, <1>2
  <2>2. PICK i \in 1..n : s[i] = t[k]  BY <1>1, <1>2
  <2>3. j > k
    <3>1. ~(j < k)
      <4> SUFFICES ASSUME j < k PROVE FALSE  OBVIOUS
      <4>1. s[j] = s[k] /\ j # k  BY <1>3, <2>1
      <4> QED  BY <1>1, <4>1
    <3>2. j # k  BY <2>1
    <3> QED  BY <3>1, <3>2
  <2>4. i > k
    <3>1. ~(i < k)
      <4> SUFFICES ASSUME i < k PROVE FALSE  OBVIOUS
      <4>1. t[i] = t[k] /\ i # k  BY <1>3, <2>2
      <4> QED  BY <1>1, <4>1
    <3>2. i # k  BY <2>2
    <3> QED  BY <3>1, <3>2
  <2>5. <<t[j], t[k]>> \notin R /\ <<s[i], s[k]>> \notin R  BY <1>1, <2>3, <2>4
  <2>6. <<s[k], t[k]>> \notin R /\ <<t[k], s[k]>> \notin R  BY <2>1, <2>2, <2>5
  <2> QED  BY <1>1, <2>6
<1> DEFINE T == {k \in Nat : \A i \in 1..n : i <= k => s[i] = t[i]}
<1>4. 0 \in T  OBVIOUS
<1>5. ASSUME NEW k \in T PROVE k + 1 \in T
  <2> SUFFICES ASSUME NEW i \in 1..n, i <= k + 1 PROVE s[i] = t[i]
      BY <1>5
  <2>1. \A j \in 1..n : j < i => s[j] = t[j]
    <3> SUFFICES ASSUME NEW j \in 1..n, j < i PROVE s[j] = t[j]  OBVIOUS
    <3>1. j <= k  BY <1>5
    <3> QED  BY <1>5, <3>1
  <2> QED  BY <1>3, <2>1
<1>6. T \in SUBSET Nat  OBVIOUS
<1> HIDE DEF T
<1>7. T = Nat  BY <1>4, <1>5, <1>6, Induction
<1>8. n \in T  BY <1>1, <1>7
<1>9. \A i \in 1..n : s[i] = t[i]  BY <1>1, <1>8 DEF T
<1> QED  BY <1>1, <1>9

-----------------------------------------------------------------------------
(* ORDER BY.                                                               *)

(* The first of n places that tells x from y puts x first.                 *)
Lex(v, n, x, y) ==
  \E k \in 1..n : v[x][k] < v[y][k] /\ \A j \in 1..n : j < k => v[x][j] = v[y][j]

(* Such an order is strict, and decides between any two that differ.       *)
LEMMA LexOrders ==
  ASSUME NEW S, NEW n \in Nat, NEW v \in [S -> [1..n -> Int]]
  PROVE  /\ \A x \in S : ~Lex(v, n, x, x)
         /\ \A x, y, z \in S : Lex(v, n, x, y) /\ Lex(v, n, y, z) => Lex(v, n, x, z)
         /\ \A x, y \in S : v[x] # v[y] => Lex(v, n, x, y) \/ Lex(v, n, y, x)
<1>1. \A x \in S, k \in 1..n : v[x][k] \in Int  OBVIOUS
<1>2. \A x \in S : ~Lex(v, n, x, x)  BY <1>1 DEF Lex
<1>3. ASSUME NEW x \in S, NEW y \in S, NEW z \in S, Lex(v, n, x, y), Lex(v, n, y, z)
      PROVE  Lex(v, n, x, z)
  <2>1. PICK k \in 1..n : v[x][k] < v[y][k] /\ \A j \in 1..n : j < k => v[x][j] = v[y][j]
      BY <1>3 DEF Lex
  <2>2. PICK l \in 1..n : v[y][l] < v[z][l] /\ \A j \in 1..n : j < l => v[y][j] = v[z][j]
      BY <1>3 DEF Lex
  <2>3. CASE k <= l
    <3>1. v[x][k] < v[z][k]
      <4>1. CASE k = l  BY <1>1, <2>1, <2>2, <4>1
      <4>2. CASE k # l  BY <1>1, <2>1, <2>2, <2>3, <4>2
      <4> QED  BY <4>1, <4>2
    <3>2. \A j \in 1..n : j < k => v[x][j] = v[z][j]
      <4> SUFFICES ASSUME NEW j \in 1..n, j < k PROVE v[x][j] = v[z][j]  OBVIOUS
      <4>1. j < l  BY <2>3
      <4> QED  BY <2>1, <2>2, <4>1
    <3> QED  BY <3>1, <3>2 DEF Lex
  <2>4. CASE ~(k <= l)
    <3>1. v[x][l] < v[z][l]  BY <1>1, <2>1, <2>2, <2>4
    <3>2. \A j \in 1..n : j < l => v[x][j] = v[z][j]
      <4> SUFFICES ASSUME NEW j \in 1..n, j < l PROVE v[x][j] = v[z][j]  OBVIOUS
      <4>1. j < k  BY <2>4
      <4> QED  BY <2>1, <2>2, <4>1
    <3> QED  BY <3>1, <3>2 DEF Lex
  <2> QED  BY <2>3, <2>4
<1>4. ASSUME NEW x \in S, NEW y \in S, v[x] # v[y]
      PROVE  Lex(v, n, x, y) \/ Lex(v, n, y, x)
  <2> SUFFICES ASSUME ~Lex(v, n, x, y), ~Lex(v, n, y, x) PROVE v[x] = v[y]
      BY <1>4
  <2>1. \A k \in 1..n : (\A j \in 1..n : j < k => v[x][j] = v[y][j]) => v[x][k] = v[y][k]
    <3> SUFFICES ASSUME NEW k \in 1..n, \A j \in 1..n : j < k => v[x][j] = v[y][j]
                 PROVE  v[x][k] = v[y][k]
        OBVIOUS
    <3>1. ~(v[x][k] < v[y][k]) /\ ~(v[y][k] < v[x][k])  BY DEF Lex
    <3> QED  BY <1>1, <3>1
  <2> DEFINE T == {k \in Nat : \A i \in 1..n : i <= k => v[x][i] = v[y][i]}
  <2>2. 0 \in T  OBVIOUS
  <2>3. ASSUME NEW k \in T PROVE k + 1 \in T
    <3> SUFFICES ASSUME NEW i \in 1..n, i <= k + 1 PROVE v[x][i] = v[y][i]
        BY <2>3
    <3>1. \A j \in 1..n : j < i => v[x][j] = v[y][j]
      <4> SUFFICES ASSUME NEW j \in 1..n, j < i PROVE v[x][j] = v[y][j]  OBVIOUS
      <4>1. j <= k  BY <2>3
      <4> QED  BY <2>3, <4>1
    <3> QED  BY <2>1, <3>1
  <2>4. T \in SUBSET Nat  OBVIOUS
  <2> HIDE DEF T
  <2>5. T = Nat  BY <2>2, <2>3, <2>4, Induction
  <2>6. n \in T  BY <2>5
  <2>7. \A i \in 1..n : v[x][i] = v[y][i]  BY <2>6 DEF T
  <2> QED  BY <2>7
<1> QED  BY <1>2, <1>3, <1>4

(* What ORDER BY compares, one key after the other and smallest first.     *)
Sorting(x, key) ==
  IF key.descending THEN -SqlRank(FieldOf(x, key.field)) ELSE SqlRank(FieldOf(x, key.field))

SortKeys == [field: {"id", "power_level"}, descending: BOOLEAN]

(* The keys in use.                                                        *)
LEMMA KeysTyped ==
  ASSUME Asked
  PROVE  /\ SortOrById \in Seq(SortKeys)
         /\ Len(SortOrById) \in Nat \ {0} /\ DOMAIN SortOrById = 1..Len(SortOrById)
         /\ \A k \in 1..Len(SortOrById) : SortOrById[k] \in SortKeys
         /\ sort = <<>> => SortOrById = <<[field |-> "id", descending |-> FALSE]>>
         /\ sort # <<>> => SortOrById = sort
<1> DEFINE K == SortKeys
<1>1. sort \in Seq(K)
  <2>1. Sorts \subseteq Seq(K)  BY RequestsAssumption DEF SortKeys
  <2> HIDE DEF K
  <2>2. <<>> \in Seq(K)  OBVIOUS
  <2> QED  BY <2>1, <2>2 DEF Asked
<1>2. [field |-> "id", descending |-> FALSE] \in K  BY DEF SortKeys
<1> HIDE DEF K
<1>3. SortOrById = IF sort = <<>> THEN <<[field |-> "id", descending |-> FALSE]>> ELSE sort
    BY DEF SortOrById, ById
<1>4. CASE sort = <<>>
  <2> DEFINE e == [field |-> "id", descending |-> FALSE]
  <2>1. SortOrById = <<e>> /\ e \in K  BY <1>2, <1>3, <1>4
  <2> HIDE DEF e
  <2>2. /\ SortOrById \in Seq(K) /\ Len(SortOrById) = 1
        /\ DOMAIN SortOrById = 1..Len(SortOrById)
        /\ \A k \in 1..Len(SortOrById) : SortOrById[k] \in K
      BY <2>1
  <2> QED  BY <1>4, <2>1, <2>2 DEF K, e
<1>5. CASE sort # <<>>
  <2>1. Len(sort) \in Nat \ {0} /\ DOMAIN sort = 1..Len(sort)
        /\ \A k \in 1..Len(sort) : sort[k] \in K
      BY <1>1, <1>5
  <2> QED  BY <1>1, <1>3, <1>5, <2>1 DEF K
<1> QED  BY <1>4, <1>5

(* A row's field is NULL or a number.                                      *)
LEMMA FieldTyped ==
  ASSUME NEW T \in Tables, NEW x \in T, NEW f \in {"id", "power_level"}
  PROVE  FieldOf(x, f) \in Int \cup {Null} /\ (f = "id" => FieldOf(x, f) = x.id /\ x.id \in Int)
<1>1. Half \in Int /\ x \in Row  BY HeroQueriesAssumption
<1>2. x.id \in Nat /\ x.level \in {Null} \cup (-Half..Half - 1)  BY <1>1 DEF Row
<1>3. \A n \in -Half..Half - 1 : n \in Int  OBVIOUS
<1>4. x.id \in Int /\ x.level \in Int \cup {Null}  BY <1>2, <1>3
<1>5. CASE f = "id"  BY <1>4, <1>5 DEF FieldOf
<1>6. CASE f = "power_level"
  <2>1. FieldOf(x, f) = x.level  BY <1>6 DEF FieldOf
  <2> QED  BY <1>4, <1>6, <2>1
<1> QED  BY <1>5, <1>6

(* It is compared as a number.                                             *)
LEMMA SortingTyped ==
  ASSUME NEW T \in Tables, NEW x \in T, NEW key \in SortKeys
  PROVE  Sorting(x, key) \in Int
<1>1. key.field \in {"id", "power_level"}  BY DEF SortKeys
<1>2. FieldOf(x, key.field) \in Int \cup {Null} /\ Half \in Int
    BY <1>1, FieldTyped, HeroQueriesAssumption
<1>3. SqlRank(FieldOf(x, key.field)) \in Int  BY <1>2 DEF SqlRank
<1>4. \A n \in Int : -n \in Int  OBVIOUS
<1> QED  BY <1>3, <1>4 DEF Sorting

(* ORDER BY is the lexicographic order of what it compares.                *)
LEMMA OrderByIsLex ==
  ASSUME Asked
  PROVE  LET n == Len(SortOrById)
             v == [x \in heroes |-> [k \in 1..n |-> Sorting(x, SortOrById[k])]]
         IN  /\ v \in [heroes -> [1..n -> Int]]
             /\ \A g, h \in heroes : SqlBefore(g, h) <=> Lex(v, n, g, h)
<1> DEFINE keys == SortOrById
           n == Len(keys)
           v == [x \in heroes |-> [k \in 1..n |-> Sorting(x, keys[k])]]
<1>1. n \in Nat /\ DOMAIN keys = 1..n /\ \A k \in 1..n : keys[k] \in SortKeys
    BY KeysTyped
<1>2. heroes \in Tables  BY DEF Asked
<1>3. ASSUME NEW g \in heroes, NEW h \in heroes PROVE SqlBefore(g, h) <=> Lex(v, n, g, h)
  <2> DEFINE rank(x, j) == SqlRank(FieldOf(x, keys[j].field))
             less(k) == IF keys[k].descending THEN rank(g, k) > rank(h, k)
                        ELSE rank(g, k) < rank(h, k)
             value(x, k) == Sorting(x, keys[k])
  <2>1. SqlBefore(g, h) <=>
          \E k \in 1..n : less(k) /\ \A j \in 1..k - 1 : rank(g, j) = rank(h, j)
      BY <1>1 DEF SqlBefore
  <2>2. ASSUME NEW k \in 1..n
        PROVE  /\ less(k) <=> value(g, k) < value(h, k)
               /\ rank(g, k) = rank(h, k) <=> value(g, k) = value(h, k)
    <3> DEFINE a == rank(g, k)
               b == rank(h, k)
    <3>1. keys[k].field \in {"id", "power_level"}  BY <1>1 DEF SortKeys
    <3>2. a \in Int /\ b \in Int
      <4>1. Half \in Int  BY HeroQueriesAssumption
      <4>2. /\ FieldOf(g, keys[k].field) \in Int \cup {Null}
            /\ FieldOf(h, keys[k].field) \in Int \cup {Null}
          BY <1>2, <3>1, FieldTyped
      <4> QED  BY <4>1, <4>2 DEF SqlRank
    <3>3. /\ value(g, k) = IF keys[k].descending THEN -a ELSE a
          /\ value(h, k) = IF keys[k].descending THEN -b ELSE b
        BY DEF Sorting
    <3>4. less(k) <=> IF keys[k].descending THEN a > b ELSE a < b  OBVIOUS
    <3> HIDE DEF a, b, less, value
    <3>5. CASE keys[k].descending
      <4>1. value(g, k) = -a /\ value(h, k) = -b /\ (less(k) <=> a > b)
          BY <3>3, <3>4, <3>5
      <4>2. a > b <=> -a < -b  BY <3>2
      <4>3. a = b <=> -a = -b  BY <3>2
      <4> QED  BY <4>1, <4>2, <4>3 DEF a, b
    <3>6. CASE ~keys[k].descending
      <4>1. value(g, k) = a /\ value(h, k) = b /\ (less(k) <=> a < b)
          BY <3>3, <3>4, <3>6
      <4> QED  BY <4>1 DEF a, b
    <3> QED  BY <3>5, <3>6
  <2>3. \A k \in 1..n : \A j : j \in 1..k - 1 <=> j \in 1..n /\ j < k  BY <1>1
  <2>4. \A k \in 1..n : v[g][k] = value(g, k) /\ v[h][k] = value(h, k)  OBVIOUS
  <2> HIDE DEF rank, less, value, v, n
  <2>5. SqlBefore(g, h) <=>
          \E k \in 1..n : less(k) /\ \A j \in 1..n : j < k => rank(g, j) = rank(h, j)
      BY <2>1, <2>3
  <2> QED  BY <2>2, <2>4, <2>5 DEF Lex
<1>4. v \in [heroes -> [1..n -> Int]]
  <2>1. \A x \in heroes, k \in 1..n : Sorting(x, keys[k]) \in Int
      BY <1>1, <1>2, SortingTyped
  <2> QED  BY <2>1
<1> QED  BY <1>3, <1>4

(* A request's order, over any of the rows; it is total if it reaches the  *)
(* id.                                                                     *)
LEMMA OrderByOrders ==
  ASSUME Asked, NEW S \in SUBSET heroes
  PROVE  LET R == {p \in S \X S : SqlBefore(p[1], p[2])}
         IN  /\ IsFiniteSet(S) /\ StrictOrder(S, R)
             /\ (sort = <<>> \/ \E k \in DOMAIN sort : sort[k].field = "id") =>
                  \A x, y \in S : x # y => <<x, y>> \in R \/ <<y, x>> \in R
<1> DEFINE R == {p \in S \X S : SqlBefore(p[1], p[2])}
           n == Len(SortOrById)
           v == [x \in heroes |-> [k \in 1..n |-> Sorting(x, SortOrById[k])]]
<1>1. v \in [heroes -> [1..n -> Int]] /\ \A g, h \in heroes : SqlBefore(g, h) <=> Lex(v, n, g, h)
    BY OrderByIsLex
<1>2. n \in Nat /\ \A k \in 1..n : SortOrById[k] \in SortKeys  BY KeysTyped
<1>3. heroes \in Tables  BY DEF Asked
<1>4. \A x, y \in S : <<x, y>> \in R <=> SqlBefore(x, y)  OBVIOUS
<1>5. IsFiniteSet(S)  BY <1>3, HeroQueriesAssumption, FS_Subset
<1>6. ASSUME sort = <<>> \/ \E k \in DOMAIN sort : sort[k].field = "id",
             NEW x \in S, NEW y \in S, x # y
      PROVE  v[x] # v[y]
  <2>1. PICK k \in 1..n : SortOrById[k].field = "id"
    <3>1. CASE sort = <<>>
      <4>1. SortOrById = <<[field |-> "id", descending |-> FALSE]>>  BY <3>1, KeysTyped
      <4>2. SortOrById[1].field = "id" /\ Len(SortOrById) = 1  BY <4>1
      <4> QED  BY <4>2
    <3>2. CASE sort # <<>>
      <4>1. SortOrById = sort /\ DOMAIN SortOrById = 1..n  BY <3>2, KeysTyped
      <4> QED  BY <1>6, <3>2, <4>1
    <3> QED  BY <3>1, <3>2
  <2>2. x.id # y.id /\ x \in heroes /\ y \in heroes
      BY <1>3, <1>6, HeroQueriesAssumption
  <2>3. /\ FieldOf(x, "id") = x.id /\ x.id \in Int
        /\ FieldOf(y, "id") = y.id /\ y.id \in Int
      BY <1>3, <2>2, FieldTyped
  <2>4. SqlRank(x.id) = x.id /\ SqlRank(y.id) = y.id
      BY <2>3, HeroQueriesAssumption DEF SqlRank
  <2>5. /\ Sorting(x, SortOrById[k]) = IF SortOrById[k].descending THEN -x.id ELSE x.id
        /\ Sorting(y, SortOrById[k]) = IF SortOrById[k].descending THEN -y.id ELSE y.id
      BY <2>1, <2>3, <2>4 DEF Sorting
  <2>6. Sorting(x, SortOrById[k]) # Sorting(y, SortOrById[k])
    <3>1. \A a, b \in Int : -a = -b => a = b  OBVIOUS
    <3> QED  BY <2>2, <2>3, <2>5, <3>1
  <2>7. v[x][k] = Sorting(x, SortOrById[k]) /\ v[y][k] = Sorting(y, SortOrById[k])
      BY <2>2
  <2> HIDE DEF v
  <2> QED  BY <2>6, <2>7
<1> HIDE DEF v, n, R
<1>7. /\ \A x \in heroes : ~Lex(v, n, x, x)
      /\ \A x, y, z \in heroes : Lex(v, n, x, y) /\ Lex(v, n, y, z) => Lex(v, n, x, z)
      /\ \A x, y \in heroes : v[x] # v[y] => Lex(v, n, x, y) \/ Lex(v, n, y, x)
    BY <1>1, <1>2, LexOrders
<1>8. StrictOrder(S, R)
  <2>1. \A x \in S : <<x, x>> \notin R  BY <1>1, <1>4, <1>7
  <2>2. \A x, y, z \in S : <<x, y>> \in R /\ <<y, z>> \in R => <<x, z>> \in R
      BY <1>1, <1>4, <1>7
  <2> QED  BY <2>1, <2>2 DEF StrictOrder
<1>9. (sort = <<>> \/ \E k \in DOMAIN sort : sort[k].field = "id") =>
        \A x, y \in S : x # y => <<x, y>> \in R \/ <<y, x>> \in R
  <2> SUFFICES ASSUME sort = <<>> \/ \E k \in DOMAIN sort : sort[k].field = "id",
                      NEW x \in S, NEW y \in S, x # y
               PROVE  <<x, y>> \in R \/ <<y, x>> \in R
      OBVIOUS
  <2>1. v[x] # v[y]  BY <1>6
  <2> QED  BY <1>1, <1>4, <1>7, <2>1
<1> QED  BY <1>5, <1>8, <1>9 DEF R

(* Without a sort, and with one that reaches the id, Postgres has one      *)
(* answer: the pages of a list read one after the other fit together.      *)
THEOREM OneOrderById == Spec => []OrderByIdIsTotal
<1>1. Asked => OrderByIdIsTotal
  <2> SUFFICES ASSUME Asked, sort = <<>> \/ \E k \in DOMAIN sort : sort[k].field = "id"
               PROVE  Cardinality(SqlLists) = 1
      BY DEF OrderByIdIsTotal
  <2> DEFINE R == {p \in SqlRows \X SqlRows : SqlBefore(p[1], p[2])}
             A == Arrangements(SqlRows, R)
  <2>1. SqlRows \in SUBSET heroes  BY DEF SqlRows
  <2>2. /\ IsFiniteSet(SqlRows) /\ StrictOrder(SqlRows, R)
        /\ \A x, y \in SqlRows : x # y => <<x, y>> \in R \/ <<y, x>> \in R
    <3> DEFINE byId == sort = <<>> \/ \E k \in DOMAIN sort : sort[k].field = "id"
    <3>1. /\ IsFiniteSet(SqlRows) /\ StrictOrder(SqlRows, R)
          /\ byId => \A x, y \in SqlRows : x # y => <<x, y>> \in R \/ <<y, x>> \in R
        BY <2>1, OrderByOrders
    <3> QED  BY <3>1
  <2>3. SqlLists = {PageOf(rows) : rows \in A}  BY DEF SqlLists
  <2>4. Arranged(SqlRows, R) \in A
    <3> HIDE DEF R
    <3> QED  BY <2>2, Arranging
  <2>5. \A s, t \in A : s = t
    <3> HIDE DEF R
    <3> QED  BY <2>2, ArrangedOnce
  <2> DEFINE a == Arranged(SqlRows, R)
  <2> HIDE DEF A, a
  <2>6. A = {a}  BY <2>4, <2>5 DEF a
  <2>7. SqlLists = {PageOf(a)}  BY <2>3, <2>6
  <2> QED  BY <2>7, FS_Singleton
<1> QED  BY <1>1, AlwaysAsked, PTL

-----------------------------------------------------------------------------
(* The stable passes of mock mode.                                         *)

(* Sequences of a finite set.                                              *)
LEMMA SequenceOfAll ==
  ASSUME NEW S, IsFiniteSet(S), NEW s
  PROVE  s \in SetToSeqs(S) <=>
           /\ s \in [1..Cardinality(S) -> S]
           /\ \A i, j \in 1..Cardinality(S) : i # j => s[i] # s[j]
BY DEF SetToSeqs

(* A pass orders by its key, and leaves rows that tie as they were.        *)
LEMMA StablePass ==
  ASSUME Asked, NEW S \in SUBSET heroes, NEW key \in SortKeys,
         \A h \in S : FieldOf(h, key.field) # Null,
         NEW x \in SetToSeqs(S)
  PROVE  /\ StablySorted(x, key) \in SetToSeqs(S)
         /\ \A i, j \in 1..Cardinality(S) : i < j =>
              \E a, b \in 1..Cardinality(S) :
                /\ StablySorted(x, key)[i] = x[a] /\ StablySorted(x, key)[j] = x[b]
                /\ Sorting(x[a], key) <= Sorting(x[b], key)
                /\ Sorting(x[a], key) = Sorting(x[b], key) => a < b
<1> DEFINE n == Cardinality(S)
           D == 1..n
           rank(i) == MemoryRank(FieldOf(x[i], key.field))
           before(i, j) == \/ IF key.descending THEN rank(i) > rank(j) ELSE rank(i) < rank(j)
                           \/ rank(i) = rank(j) /\ i < j
           B == {p \in D \X D : before(p[1], p[2])}
           order == Arranged(D, B)
           y == StablySorted(x, key)
           value(i) == Sorting(x[i], key)
<1>1. IsFiniteSet(S) /\ n \in Nat /\ heroes \in Tables
  <2>1. heroes \in Tables  BY DEF Asked
  <2>2. IsFiniteSet(S)  BY <2>1, HeroQueriesAssumption, FS_Subset
  <2> QED  BY <2>1, <2>2, FS_CardinalityType
<1>2. x \in [D -> S] /\ \A i, j \in D : i # j => x[i] # x[j]
    BY <1>1, SequenceOfAll
<1>3. DOMAIN x = D  BY <1>2
<1>4. y = [i \in D |-> x[order[i]]]  BY <1>3 DEF StablySorted
<1>5. ASSUME NEW i \in D
      PROVE  /\ rank(i) \in Int
             /\ value(i) = IF key.descending THEN -rank(i) ELSE rank(i)
  <2>1. x[i] \in S /\ key.field \in {"id", "power_level"}  BY <1>2 DEF SortKeys
  <2>2. FieldOf(x[i], key.field) \in Int  BY <1>1, <2>1, FieldTyped
  <2>3. rank(i) = FieldOf(x[i], key.field)  BY <2>1 DEF MemoryRank
  <2>4. SqlRank(FieldOf(x[i], key.field)) = FieldOf(x[i], key.field)
      BY <2>1 DEF SqlRank
  <2> HIDE DEF rank
  <2> QED  BY <2>2, <2>3, <2>4 DEF Sorting
<1>6. \A i \in D : value(i) \in Int
  <2>1. \A m \in Int : -m \in Int  BY <1>1
  <2> HIDE DEF value, rank
  <2> QED  BY <1>5, <2>1
<1>7. ASSUME NEW i \in D, NEW j \in D
      PROVE  before(i, j) <=> value(i) < value(j) \/ (value(i) = value(j) /\ i < j)
  <2> HIDE DEF value, rank
  <2>1. CASE key.descending
    <3>1. value(i) = -rank(i) /\ value(j) = -rank(j)  BY <1>5, <2>1
    <3>2. before(i, j) <=> rank(i) > rank(j) \/ (rank(i) = rank(j) /\ i < j)  BY <2>1
    <3>3. rank(i) \in Int /\ rank(j) \in Int  BY <1>5
    <3>4. (rank(i) > rank(j) <=> -rank(i) < -rank(j)) /\ (rank(i) = rank(j) <=> -rank(i) = -rank(j))
        BY <3>3
    <3> HIDE DEF before
    <3> QED  BY <3>1, <3>2, <3>4
  <2>2. CASE ~key.descending
    <3>1. value(i) = rank(i) /\ value(j) = rank(j)  BY <1>5, <2>2
    <3>2. before(i, j) <=> rank(i) < rank(j) \/ (rank(i) = rank(j) /\ i < j)  BY <2>2
    <3> HIDE DEF before
    <3> QED  BY <3>1, <3>2
  <2> QED  BY <2>1, <2>2
<1> HIDE DEF before, value, rank, y
<1>8. \A i, j \in D : <<i, j>> \in B <=> before(i, j)  OBVIOUS
<1> HIDE DEF B
<1>9. IsFiniteSet(D) /\ Cardinality(D) = n
  <2>1. IsFiniteSet(1..n) /\ Cardinality(1..n) = IF 1 > n THEN 0 ELSE n - 1 + 1
    <3> HIDE DEF n
    <3> QED  BY <1>1, FS_Interval
  <2> HIDE DEF n
  <2> QED  BY <1>1, <2>1
<1>10. StrictOrder(D, B)
  <2>1. \A i \in D : <<i, i>> \notin B  BY <1>1, <1>6, <1>7, <1>8
  <2>2. ASSUME NEW i \in D, NEW j \in D, NEW k \in D, <<i, j>> \in B, <<j, k>> \in B
        PROVE  <<i, k>> \in B
    <3>1. value(i) < value(j) \/ (value(i) = value(j) /\ i < j)  BY <1>7, <1>8, <2>2
    <3>2. value(j) < value(k) \/ (value(j) = value(k) /\ j < k)  BY <1>7, <1>8, <2>2
    <3>3. value(i) \in Int /\ value(j) \in Int /\ value(k) \in Int  BY <1>6
    <3>4. i \in Int /\ j \in Int /\ k \in Int  BY <1>1
    <3>5. value(i) < value(k) \/ (value(i) = value(k) /\ i < k)
        BY <3>1, <3>2, <3>3, <3>4
    <3> QED  BY <1>7, <1>8, <3>5
  <2> QED  BY <2>1, <2>2 DEF StrictOrder
<1>11. order \in Arrangements(D, B)
  <2> HIDE DEF D
  <2> QED  BY <1>9, <1>10, Arranging
<1>12. /\ order \in [D -> D]
       /\ \A i, j \in D : i # j => order[i] # order[j]
       /\ \A i, j \in D : i < j => <<order[j], order[i]>> \notin B
  <2> DEFINE C == Cardinality(D)
  <2>1. /\ order \in [1..C -> D]
        /\ \A i, j \in 1..C : i # j => order[i] # order[j]
        /\ \A i, j \in 1..C : i < j => <<order[j], order[i]>> \notin B
    <3> HIDE DEF D, order
    <3> QED  BY <1>9, <1>11, ArrangementTyped
  <2>2. 1..C = D  BY <1>9
  <2> HIDE DEF D, order, C
  <2> QED  BY <2>1, <2>2
<1> HIDE DEF order
<1>13. y \in SetToSeqs(S)
  <2>1. y \in [D -> S]  BY <1>2, <1>4, <1>12
  <2>2. \A i, j \in D : i # j => y[i] # y[j]  BY <1>2, <1>4, <1>12
  <2> QED  BY <1>1, <2>1, <2>2, SequenceOfAll
<1>14. ASSUME NEW i \in D, NEW j \in D, i < j
       PROVE  \E a, b \in D : /\ y[i] = x[a] /\ y[j] = x[b]
                              /\ value(a) <= value(b)
                              /\ value(a) = value(b) => a < b
  <2> DEFINE a == order[i]
             b == order[j]
  <2>1. a \in D /\ b \in D /\ a # b  BY <1>1, <1>12, <1>14
  <2>2. y[i] = x[a] /\ y[j] = x[b]  BY <1>4
  <2>3. <<b, a>> \notin B  BY <1>12, <1>14
  <2> HIDE DEF a, b
  <2>4. ~(value(b) < value(a)) /\ ~(value(b) = value(a) /\ b < a)
      BY <1>7, <1>8, <2>1, <2>3
  <2>5. value(a) \in Int /\ value(b) \in Int /\ a \in Int /\ b \in Int
      BY <1>1, <1>6, <2>1
  <2>6. value(a) <= value(b) /\ (value(a) = value(b) => a < b)
      BY <2>1, <2>4, <2>5
  <2> QED  BY <2>1, <2>2, <2>6
<1> QED  BY <1>13, <1>14 DEF y, value

(* The passes from the last key to the first are ORDER BY.                 *)
LEMMA PassesOrder ==
  ASSUME Asked, NEW S \in SUBSET heroes,
         \A h \in S, k \in DOMAIN SortOrById : FieldOf(h, SortOrById[k].field) # Null,
         NEW rows \in SetToSeqs(S)
  PROVE  ApplySort(rows) \in Arrangements(S, {p \in S \X S : SqlBefore(p[1], p[2])})
<1> DEFINE R == {p \in S \X S : SqlBefore(p[1], p[2])}
           n == Len(SortOrById)
           v == [x \in heroes |-> [k \in 1..n |-> Sorting(x, SortOrById[k])]]
           keys == Reverse(SortOrById)
           V == SetToSeqs(S)
           N == Cardinality(S)
           D(f) == [k \in 0..Len(keys) |-> IF k = 0 THEN rows ELSE StablySorted(f[k - 1], keys[k])]
           F == CHOOSE f : f = D(f)
<1>1. v \in [heroes -> [1..n -> Int]] /\ \A g, h \in heroes : SqlBefore(g, h) <=> Lex(v, n, g, h)
    BY OrderByIsLex
<1>2. n \in Nat /\ DOMAIN SortOrById = 1..n /\ \A k \in 1..n : SortOrById[k] \in SortKeys
    BY KeysTyped
<1>3. Len(keys) = n /\ \A k \in 1..n : n - k + 1 \in 1..n /\ keys[k] = SortOrById[n - k + 1]
  <2>1. keys = [k \in 1..n |-> SortOrById[n - k + 1]]  BY DEF Reverse
  <2>2. \A k \in 1..n : n - k + 1 \in 1..n  BY <1>2
  <2> HIDE DEF keys
  <2>3. Len(keys) = n  BY <1>2, <2>1
  <2> QED  BY <2>1, <2>2, <2>3
<1>4. \A k \in 1..n : keys[k] \in SortKeys /\ \A h \in S : FieldOf(h, keys[k].field) # Null
    BY <1>2, <1>3, SMTT(40)
<1>5. ApplySort(rows) = F[n]  BY <1>3 DEF ApplySort, Passes
<1> HIDE DEF keys
<1>6. ASSUME NEW x \in V, NEW k \in 1..n
      PROVE  /\ StablySorted(x, keys[k]) \in V
             /\ \A i, j \in 1..N : i < j =>
                  \E a, b \in 1..N :
                    /\ StablySorted(x, keys[k])[i] = x[a] /\ StablySorted(x, keys[k])[j] = x[b]
                    /\ Sorting(x[a], keys[k]) <= Sorting(x[b], keys[k])
                    /\ Sorting(x[a], keys[k]) = Sorting(x[b], keys[k]) => a < b
  <2> DEFINE key == keys[k]
  <2>1. key \in SortKeys /\ \A h \in S : FieldOf(h, key.field) # Null  BY <1>4
  <2> HIDE DEF key
  <2>2. /\ StablySorted(x, key) \in SetToSeqs(S)
        /\ \A i, j \in 1..Cardinality(S) : i < j =>
             \E a, b \in 1..Cardinality(S) :
               /\ StablySorted(x, key)[i] = x[a] /\ StablySorted(x, key)[j] = x[b]
               /\ Sorting(x[a], key) <= Sorting(x[b], key)
               /\ Sorting(x[a], key) = Sorting(x[b], key) => a < b
      BY <2>1, StablePass
  <2> QED  BY <2>2 DEF key
<1> HIDE DEF V, N
<1>7. F = D(F)
  <2> DEFINE step == [k \in 1..n |-> [x \in V |-> StablySorted(x, keys[k])]]
  <2>1. step \in [1..n -> [V -> V]] /\ \A k \in 1..n, x \in V : step[k][x] = StablySorted(x, keys[k])
      BY <1>6
  <2>2. rows \in V  BY DEF V
  <2> HIDE DEF step
  <2>3. PICK f \in [0..n -> V] : Steps(f, rows, step, n)
      BY <1>2, <2>1, <2>2, RecursionUpTo
  <2>4. \A k \in 0..n : f[k] = IF k = 0 THEN rows ELSE StablySorted(f[k - 1], keys[k])
    <3> TAKE k \in 0..n
    <3>1. CASE k = 0  BY <2>3, <3>1 DEF Steps
    <3>2. CASE k # 0
      <4>1. k \in 1..n /\ k - 1 \in 0..n  BY <1>2, <3>2
      <4> QED  BY <2>1, <2>3, <3>2, <4>1 DEF Steps
    <3> QED  BY <3>1, <3>2
  <2>5. f = D(f)
    <3>1. f = [k \in 0..n |-> f[k]]  OBVIOUS
    <3> QED  BY <1>3, <2>4, <3>1
  <2> HIDE DEF D
  <2> QED  BY <2>5
<1> HIDE DEF F
<1>8. F[0] = rows /\ \A k \in 1..n : F[k] = StablySorted(F[k - 1], keys[k])
  <2>1. 0 \in 0..Len(keys) /\ \A k \in 1..n : k \in 0..Len(keys) /\ k # 0  BY <1>2, <1>3
  <2> QED  BY <1>7, <2>1
<1> HIDE DEF D
<1> DEFINE m(k) == n - k + 1
           Behind(x, y, k) == \E q \in 1..n :
             q >= m(k) /\ v[y][q] < v[x][q]
             /\ \A r \in 1..n : r >= m(k) /\ r < q => v[y][r] = v[x][r]
           T == {k \in Nat : k <= n =>
                  F[k] \in V /\ \A i, j \in 1..N : i < j => ~Behind(F[k][i], F[k][j], k)}
<1>9. \A x \in V : x \in [1..N -> S]  BY DEF V, N, SetToSeqs
<1>10. \A x \in S, q \in 1..n : v[x][q] = Sorting(x, SortOrById[q]) /\ v[x][q] \in Int
  <2>1. \A x \in S : x \in heroes  OBVIOUS
  <2>2. \A x \in heroes, q \in 1..n : v[x][q] = Sorting(x, SortOrById[q])  OBVIOUS
  <2> HIDE DEF v
  <2> QED  BY <1>1, <2>1, <2>2
<1> HIDE DEF v
<1>11. 0 \in T
  <2>1. F[0] \in V  BY <1>8 DEF V
  <2>2. \A x, y : ~Behind(x, y, 0)
    <3>1. \A q \in 1..n : ~(q >= m(0))  BY <1>2
    <3> HIDE DEF m
    <3> QED  BY <3>1
  <2> HIDE DEF Behind
  <2> QED  BY <2>1, <2>2
<1>12. ASSUME NEW k \in T PROVE k + 1 \in T
  <2> HIDE DEF Behind
  <2> SUFFICES ASSUME k + 1 <= n
               PROVE  F[k + 1] \in V /\ \A i, j \in 1..N : i < j =>
                        ~Behind(F[k + 1][i], F[k + 1][j], k + 1)
      BY <1>12
  <2>1. k \in Nat /\ k <= n /\ k + 1 \in 1..n /\ (k + 1) - 1 = k  BY <1>2, <1>12
  <2>2. F[k] \in V /\ \A i, j \in 1..N : i < j => ~Behind(F[k][i], F[k][j], k)
      BY <1>12, <2>1
  <2>3. F[k + 1] = StablySorted(F[k], keys[k + 1])  BY <1>8, <2>1
  <2>4. F[k + 1] \in V  BY <1>6, <2>1, <2>2, <2>3
  <2> DEFINE q0 == m(k + 1)
  <2>5. q0 \in 1..n /\ m(k) = q0 + 1 /\ keys[k + 1] = SortOrById[q0]
    <3>1. m(k) = m(k + 1) + 1  BY <1>2, <2>1
    <3> QED  BY <1>3, <2>1, <3>1
  <2> HIDE DEF m, q0, T
  <2>6. ASSUME NEW i \in 1..N, NEW j \in 1..N, i < j
        PROVE  ~Behind(F[k + 1][i], F[k + 1][j], k + 1)
    <3>1. PICK a \in 1..N, b \in 1..N :
            /\ F[k + 1][i] = F[k][a] /\ F[k + 1][j] = F[k][b]
            /\ Sorting(F[k][a], keys[k + 1]) <= Sorting(F[k][b], keys[k + 1])
            /\ Sorting(F[k][a], keys[k + 1]) = Sorting(F[k][b], keys[k + 1]) => a < b
      <4> DEFINE u == F[k]
                 w == F[k + 1]
                 l == k + 1
      <4>1. u \in V /\ l \in 1..n /\ w = StablySorted(u, keys[l])  BY <2>1, <2>2, <2>3
      <4> HIDE DEF u, w, l
      <4> DEFINE Apart(z, e, f) ==
                   \E c, d \in 1..N :
                     /\ z[e] = u[c] /\ z[f] = u[d]
                     /\ Sorting(u[c], keys[l]) <= Sorting(u[d], keys[l])
                     /\ Sorting(u[c], keys[l]) = Sorting(u[d], keys[l]) => c < d
      <4>2. \A e, f \in 1..N : e < f => Apart(StablySorted(u, keys[l]), e, f)
          BY <1>6, <4>1, Zenon
      <4> HIDE DEF Apart
      <4>3. Apart(w, i, j)  BY <2>6, <4>1, <4>2
      <4> QED  BY <4>3 DEF Apart, u, w, l
    <3> DEFINE x == F[k][a]
               y == F[k][b]
    <3>2. x \in S /\ y \in S  BY <1>9, <2>2
    <3>3. a < b => ~Behind(x, y, k)  BY <2>2
    <3> HIDE DEF x, y
    <3>4. v[x][q0] <= v[y][q0] /\ (v[x][q0] = v[y][q0] => a < b)
        BY <1>10, <2>5, <3>1, <3>2 DEF x, y
    <3> SUFFICES ASSUME Behind(x, y, k + 1) PROVE FALSE  BY <3>1 DEF x, y
    <3>5. PICK q \in 1..n :
            /\ q >= q0 /\ v[y][q] < v[x][q]
            /\ \A r \in 1..n : r >= q0 /\ r < q => v[y][r] = v[x][r]
        BY DEF Behind, q0
    <3>6. v[x][q] \in Int /\ v[y][q] \in Int /\ v[x][q0] \in Int /\ v[y][q0] \in Int
        BY <1>10, <2>5, <3>2
    <3>7. q # q0  BY <3>4, <3>5, <3>6
    <3>8. q > q0 /\ q >= q0 + 1  BY <2>5, <3>5, <3>7
    <3>9. v[y][q0] = v[x][q0]  BY <2>5, <3>5, <3>8
    <3>10. ~Behind(x, y, k)  BY <3>3, <3>4, <3>9
    <3>11. \A r \in 1..n : r >= m(k) /\ r < q => v[y][r] = v[x][r]
      <4>1. \A r \in 1..n : r >= m(k) => r >= q0  BY <2>5
      <4> QED  BY <3>5, <4>1
    <3>12. q >= m(k)  BY <2>5, <3>8
    <3> QED  BY <3>5, <3>10, <3>11, <3>12 DEF Behind
  <2> QED  BY <2>4, <2>6
<1>13. T \in SUBSET Nat  OBVIOUS
<1> HIDE DEF T
<1>14. T = Nat  BY <1>11, <1>12, <1>13, Induction
<1>15. n \in T /\ n <= n  BY <1>2, <1>14
<1>16. F[n] \in V /\ \A i, j \in 1..N : i < j => ~Behind(F[n][i], F[n][j], n)
    BY <1>15 DEF T
<1>17. ASSUME NEW i \in 1..N, NEW j \in 1..N, i < j PROVE <<F[n][j], F[n][i]>> \notin R
  <2> DEFINE x == F[n][i]
             y == F[n][j]
  <2>1. x \in S /\ y \in S  BY <1>9, <1>16
  <2>2. ~Behind(x, y, n)  BY <1>16, <1>17
  <2> HIDE DEF x, y
  <2>3. ~Lex(v, n, y, x)
    <3> SUFFICES ASSUME Lex(v, n, y, x) PROVE FALSE  OBVIOUS
    <3>1. PICK q \in 1..n : v[y][q] < v[x][q] /\ \A r \in 1..n : r < q => v[y][r] = v[x][r]
        BY DEF Lex
    <3>2. \A r \in 1..n : r >= m(n)  BY <1>2
    <3> HIDE DEF m
    <3> QED  BY <2>2, <3>1, <3>2
  <2>4. <<y, x>> \notin R
    <3>1. <<y, x>> \in R => SqlBefore(y, x)  BY <2>1
    <3> HIDE DEF R
    <3> QED  BY <1>1, <2>1, <2>3, <3>1
  <2> QED  BY <2>4 DEF x, y
<1>18. /\ F[n] \in [1..N -> S] /\ \A i, j \in 1..N : i # j => F[n][i] # F[n][j]
    BY <1>16 DEF V, N, SetToSeqs
<1> HIDE DEF R
<1>19. F[n] \in Arrangements(S, R)  BY <1>17, <1>18, IsArrangement DEF N
<1> QED  BY <1>5, <1>19 DEF R

(* Where no sort key is NULL, a page of mock mode is one Postgres may give *)
(* for the same request: as many stable passes as there are keys, the last *)
(* key first, are one ORDER BY, and OFFSET and LIMIT are skip and take.    *)
THEOREM MockPagesAreSqlPages == Spec => []PagesAlike
<1>1. Asked => PagesAlike
  <2> SUFFICES ASSUME Asked, \A c \in filters : InRange(c) /\ Plain(c),
                      \A h \in MemoryRows, k \in DOMAIN sort : FieldOf(h, sort[k].field) # Null
               PROVE  MemoryList \in SqlLists
      BY DEF PagesAlike
  <2> DEFINE S == MemoryRows
             R == {p \in S \X S : SqlBefore(p[1], p[2])}
             byId == {p \in S \X S : p[1].id < p[2].id}
             rows == Arranged(S, byId)
  <2>1. S \in SUBSET heroes /\ heroes \in Tables  BY DEF MemoryRows, Asked
  <2>2. SqlRows = S  BY RowsAlike
  <2>3. IsFiniteSet(S)  BY <2>1, HeroQueriesAssumption, FS_Subset
  <2>4. \A h \in S : h.id \in Int  BY <2>1, FieldTyped
  <2> HIDE DEF S
  <2>5. StrictOrder(S, byId)
    <3>1. \A x, y \in S : <<x, y>> \in byId <=> x.id < y.id  OBVIOUS
    <3> HIDE DEF byId
    <3>2. \A x \in S : <<x, x>> \notin byId  BY <2>4, <3>1
    <3>3. ASSUME NEW x \in S, NEW y \in S, NEW z \in S, <<x, y>> \in byId, <<y, z>> \in byId
          PROVE  <<x, z>> \in byId
      <4>1. x.id < y.id /\ y.id < z.id  BY <3>1, <3>3
      <4>2. x.id < z.id  BY <2>4, <4>1
      <4> QED  BY <3>1, <4>2
    <3> QED  BY <3>2, <3>3 DEF StrictOrder
  <2>6. rows \in SetToSeqs(S)
    <3>1. rows \in Arrangements(S, byId)
      <4> HIDE DEF byId
      <4> QED  BY <2>3, <2>5, Arranging
    <3> HIDE DEF rows
    <3> QED  BY <3>1 DEF Arrangements
  <2>7. \A h \in S, k \in DOMAIN SortOrById : FieldOf(h, SortOrById[k].field) # Null
    <3>1. CASE sort = <<>>
      <4>1. SortOrById = <<[field |-> "id", descending |-> FALSE]>>  BY <3>1, KeysTyped
      <4>2. \A k \in DOMAIN SortOrById : SortOrById[k].field = "id"  BY <4>1
      <4>3. \A h \in S : FieldOf(h, "id") # Null
          BY <2>1, FieldTyped, HeroQueriesAssumption
      <4> QED  BY <4>2, <4>3
    <3>2. CASE sort # <<>>
      <4>1. SortOrById = sort  BY <3>2, KeysTyped
      <4> QED  BY <4>1 DEF S
    <3> QED  BY <3>1, <3>2
  <2> HIDE DEF rows
  <2>8. ApplySort(rows) \in Arrangements(S, R)  BY <2>1, <2>6, <2>7, PassesOrder
  <2>9. MemoryList = PageOf(ApplySort(rows))  BY DEF MemoryList, rows, S
  <2>10. SqlLists = {PageOf(q) : q \in Arrangements(S, R)}  BY <2>2 DEF SqlLists
  <2> HIDE DEF R
  <2> QED  BY <2>8, <2>9, <2>10
<1> QED  BY <1>1, AlwaysAsked, PTL
-----------------------------------------------------------------------------
(* Aggregates.                                                             *)

(* A finite set of integers has a greatest element and a least one.        *)
LEMMA Extremes ==
  ASSUME NEW S \in SUBSET Int, IsFiniteSet(S), S # {}
  PROVE  /\ Max(S) \in S /\ \A x \in S : x <= Max(S)
         /\ Min(S) \in S /\ \A x \in S : Min(S) <= x
<1> DEFINE Less == {p \in S \X S : p[1] < p[2]}
           More == {p \in S \X S : p[1] > p[2]}
<1>1. /\ \A x, y \in S : <<x, y>> \in Less <=> x < y
      /\ \A x, y \in S : <<x, y>> \in More <=> x > y
    OBVIOUS
<1> HIDE DEF Less, More
<1>2. StrictOrder(S, Less)  BY <1>1 DEF StrictOrder
<1>3. StrictOrder(S, More)  BY <1>1 DEF StrictOrder
<1>4. \E m \in S : \A x \in S : m >= x
  <2>1. PICK m \in S : \A x \in S : <<m, x>> \notin Less  BY <1>2, HasLast
  <2>2. \A x \in S : ~(m < x)  BY <1>1, <2>1
  <2> QED  BY <2>2
<1>5. \E m \in S : \A x \in S : m =< x
  <2>1. PICK m \in S : \A x \in S : <<m, x>> \notin More  BY <1>3, HasLast
  <2>2. \A x \in S : ~(m > x)  BY <1>1, <2>1
  <2> QED  BY <2>2
<1>6. Max(S) \in S /\ \A x \in S : Max(S) >= x  BY <1>4 DEF Max
<1>7. Min(S) \in S /\ \A x \in S : Min(S) =< x  BY <1>5 DEF Min
<1> QED  BY <1>6, <1>7

(* Those of S whose id is one of the first c.                              *)
FirstById(S, c) == {h \in S : Cardinality({g \in S : g.id < h.id}) < c}

(* There are c of them, or all of a smaller set.                           *)
LEMMA FirstCounted ==
  ASSUME NEW S, IsFiniteSet(S), NEW c \in Nat,
         \A h \in S : h.id \in Nat, \A g, h \in S : g.id = h.id => g = h
  PROVE  Cardinality(FirstById(S, c)) = IF Cardinality(S) <= c THEN Cardinality(S) ELSE c
<1> DEFINE P == {s \in SUBSET S :
                   Cardinality(FirstById(s, c)) = IF Cardinality(s) <= c THEN Cardinality(s) ELSE c}
<1>1. ASSUME NEW s \in SUBSET S PROVE IsFiniteSet(s) /\ Cardinality(s) \in Nat
    BY FS_Subset, FS_CardinalityType
<1>2. {} \in P
  <2>1. FirstById({}, c) = {} /\ {} \in SUBSET S  BY DEF FirstById
  <2>2. Cardinality({}) = 0  BY FS_EmptySet
  <2> QED  BY <2>1, <2>2
<1>3. \A s \in (SUBSET S) \ {{}} : (\A x \in s : s \ {x} \in P) => s \in P
  <2> SUFFICES ASSUME NEW s \in (SUBSET S) \ {{}}, \A x \in s : s \ {x} \in P
               PROVE  Cardinality(FirstById(s, c))
                        = IF Cardinality(s) <= c THEN Cardinality(s) ELSE c
      OBVIOUS
  <2> DEFINE Before == {p \in s \X s : p[1].id < p[2].id}
  <2>1. \A x, y \in s : <<x, y>> \in Before <=> x.id < y.id  OBVIOUS
  <2>2. StrictOrder(s, Before)
    <3> HIDE DEF Before
    <3> QED  BY <2>1 DEF StrictOrder
  <2>3. PICK m \in s : \A x \in s : <<m, x>> \notin Before
    <3> HIDE DEF Before
    <3> QED  BY <1>1, <2>2, HasLast
  <2>4. \A x \in s : ~(m.id < x.id)  BY <2>1, <2>3
  <2> DEFINE r == s \ {m}
             n == Cardinality(r)
  <2>5. r \in P /\ r \in SUBSET S  OBVIOUS
  <2>6. Cardinality(FirstById(r, c)) = IF n <= c THEN n ELSE c  BY <2>5
  <2>7. n \in Nat /\ Cardinality(s) = n + 1
    <3>1. IsFiniteSet(s) /\ Cardinality(s) \in Nat /\ n \in Nat  BY <1>1, <2>5
    <3>2. n = Cardinality(s) - 1  BY <3>1, FS_RemoveElement
    <3> QED  BY <3>1, <3>2
  <2>8. \A h \in r : {g \in s : g.id < h.id} = {g \in r : g.id < h.id}
    <3> TAKE h \in r
    <3>1. ~(m.id < h.id)  BY <2>4
    <3> QED  BY <3>1
  <2>9. {g \in s : g.id < m.id} = r
    <3>1. \A g \in r : g.id < m.id
      <4> TAKE g \in r
      <4>1. g.id \in Nat /\ m.id \in Nat /\ g.id # m.id  OBVIOUS
      <4>2. ~(m.id < g.id)  BY <2>4
      <4> QED  BY <4>1, <4>2
    <3>2. ~(m.id < m.id)  BY <2>4
    <3> QED  BY <3>1, <3>2
  <2>10. s = r \cup {m} /\ m \notin r  OBVIOUS
  <2> HIDE DEF P, r
  <2>11. \A h \in r : h \in FirstById(s, c) <=> h \in FirstById(r, c)
      BY <2>8, <2>10 DEF FirstById
  <2>12. m \in FirstById(s, c) <=> n < c  BY <2>9 DEF FirstById
  <2>13. FirstById(s, c) \subseteq s /\ FirstById(r, c) \subseteq r  BY DEF FirstById
  <2> DEFINE F == FirstById(s, c)
             G == FirstById(r, c)
  <2> HIDE DEF F, G
  <2>14. CASE n < c
    <3>1. FirstById(s, c) = FirstById(r, c) \cup {m}
      <4>1. ASSUME NEW h PROVE h \in F <=> h \in G \cup {m}
          BY <2>10, <2>11, <2>12, <2>13, <2>14 DEF F, G
      <4> QED  BY <4>1 DEF F, G
    <3>2. m \notin FirstById(r, c)  BY <2>10, <2>13
    <3>3. IsFiniteSet(FirstById(r, c))  BY <1>1, <2>5, <2>13, FS_Subset
    <3>4. Cardinality(FirstById(s, c)) = Cardinality(FirstById(r, c)) + 1
        BY <3>1, <3>2, <3>3, FS_AddElement
    <3> QED  BY <2>6, <2>7, <2>14, <3>4
  <2>15. CASE ~(n < c)
    <3>1. FirstById(s, c) = FirstById(r, c)
      <4>1. ASSUME NEW h PROVE h \in F <=> h \in G
          BY <2>10, <2>11, <2>12, <2>13, <2>15 DEF F, G
      <4> QED  BY <4>1 DEF F, G
    <3> QED  BY <2>6, <2>7, <2>15, <3>1
  <2> QED  BY <2>14, <2>15
<1>4. P \in SUBSET SUBSET S /\ S \in SUBSET S  OBVIOUS
<1> HIDE DEF P
<1>5. P = SUBSET S
  <2>1. P \in SUBSET SUBSET S  BY <1>4
  <2> QED  BY <1>2, <1>3, <2>1, SetInduction
<1>6. S \in P  BY <1>4, <1>5
<1> QED  BY <1>6 DEF P

(* The records of a table.                                                 *)
LEMMA RecordsCounted ==
  ASSUME NEW T \in Tables, NEW included \in BOOLEAN
  PROVE  /\ Records(T, included) \in SUBSET T /\ IsFiniteSet(Records(T, included))
         /\ Count(T, included) \in Nat
         /\ Cardinality(Records(T, included)) = Min({Count(T, included), Cap})
<1> DEFINE V == Visible(T, included)
           n == Cardinality(V)
<1>1. V \in SUBSET T  BY DEF Visible
<1>2. /\ IsFiniteSet(T) /\ \A g, h \in T : g.id = h.id => g = h
      /\ \A h \in T : h.id \in Nat
    BY HeroQueriesAssumption DEF Row
<1>3. IsFiniteSet(V) /\ n \in Nat  BY <1>1, <1>2, FS_Subset, FS_CardinalityType
<1>4. Cap \in Nat  BY HeroStatsAssumption
<1>5. Records(T, included) = FirstById(V, Cap)  BY DEF Records, FirstById
<1>6. Count(T, included) = n  BY DEF Count
<1>7. /\ \A h \in V : h.id \in Nat
      /\ \A g, h \in V : g.id = h.id => g = h
    BY <1>1, <1>2
<1> HIDE DEF V
<1>8. Cardinality(FirstById(V, Cap)) = IF n <= Cap THEN n ELSE Cap
    BY <1>3, <1>4, <1>7, FirstCounted
<1>9. Min({n, Cap}) = IF n <= Cap THEN n ELSE Cap
  <2>1. {n, Cap} \in SUBSET Int /\ IsFiniteSet({n, Cap}) /\ {n, Cap} # {}
    <3>1. {n, Cap} = {n} \cup {Cap}  OBVIOUS
    <3>2. IsFiniteSet({n} \cup {Cap})  BY FS_Singleton, FS_AddElement
    <3>3. n \in Int /\ Cap \in Int  BY <1>3, <1>4
    <3> HIDE DEF n
    <3> QED  BY <3>1, <3>2, <3>3
  <2> DEFINE m == Min({n, Cap})
  <2>2. m \in {n, Cap} /\ m <= n /\ m <= Cap  BY <2>1, Extremes
  <2> HIDE DEF m
  <2>3. m = IF n <= Cap THEN n ELSE Cap  BY <1>3, <1>4, <2>2
  <2> QED  BY <2>3 DEF m
<1>10. FirstById(V, Cap) \in SUBSET V  BY DEF FirstById
<1>11. FirstById(V, Cap) \in SUBSET T /\ IsFiniteSet(FirstById(V, Cap))
    BY <1>1, <1>3, <1>10, FS_Subset
<1> HIDE DEF n
<1> QED  BY <1>3, <1>5, <1>6, <1>8, <1>9, <1>11 DEF n

-----------------------------------------------------------------------------
(* Sums over records.                                                      *)

Ones(S) == [h \in S |-> 1]

Values(S, field) == [h \in S |-> NumericValue(h, field)]

(* The numbers of a field, and their total.                                *)
LEMMA TotalsAreSums ==
  ASSUME NEW T \in Tables, NEW S \in SUBSET T, NEW field \in NumericFields
  PROVE  /\ \A h \in S : NumericValue(h, field) \in Int
         /\ Summable(Values(S, field), S)
         /\ Total(S, field) = SumOn(Values(S, field), S)
<1>1. \A h \in S : NumericValue(h, field) \in Int
  <2> TAKE h \in S
  <2>1. FieldOf(h, field) \in Int \cup {Null}  BY FieldTyped DEF NumericFields
  <2> QED  BY <2>1 DEF NumericValue
<1>2. IsFiniteSet(S)  BY FS_Subset, HeroQueriesAssumption
<1>3. Summable(Values(S, field), S)  BY <1>1, <1>2 DEF Summable, Values
<1>4. Total(S, field) = SumOn(Values(S, field), S)
    BY SumsAreSums DEF Total, Values, SumOn
<1> QED  BY <1>1, <1>3, <1>4

(* The buckets of S, and the records of one.                               *)
Starts(S, b) == {BucketStart(b, h) : h \in S}

Within(S, b, d) == {h \in S : BucketStart(b, h) = d}

(* What the totals of the parts of S by their bucket add up to.            *)
LEMMA PartsAddUp ==
  ASSUME NEW S, NEW f, Summable(f, S), NEW b, NEW g,
         DOMAIN g = Starts(S, b), \A d \in DOMAIN g : g[d] = SumOn(f, Within(S, b, d))
  PROVE  SumOver(g) = SumOn(f, S)
<1> DEFINE D == Starts(S, b)
           p == [h \in S |-> BucketStart(b, h)]
<1>1. p \in [S -> D] /\ \A d \in D : \E x \in S : p[x] = d  BY DEF Starts
<1>2. \A d : Within(S, b, d) = PartOf(S, p, d)  BY DEF Within, PartOf
<1>3. \A d \in D : g[d] = SumOn(f, PartOf(S, p, d))  BY <1>2
<1>4. SumOver(g) = SumOn(g, D)  BY SumsAreSums DEF SumOver, SumOn
<1> HIDE DEF D, p
<1>5. SumOn(g, D) = SumOn(f, S)  BY <1>1, <1>3, SumOfParts
<1> QED  BY <1>4, <1>5

(* A series counts each record once.                                       *)
LEMMA SeriesAddsUp ==
  ASSUME NEW S, IsFiniteSet(S), NEW b
  PROVE  SumOver(TimeSeries(S, b)) = Cardinality(S)
<1> DEFINE f == Ones(S)
           g == TimeSeries(S, b)
           Part(d) == Within(S, b, d)
<1>1. \A x \in S : f[x] = 1  BY DEF Ones
<1>2. DOMAIN g = Starts(S, b)  BY DEF TimeSeries, Starts
<1>3. \A d \in DOMAIN g : g[d] = Cardinality(Part(d))  BY DEF TimeSeries, Within
<1> HIDE DEF f, g
<1>4. Summable(f, S) /\ SumOn(f, S) = Cardinality(S)  BY <1>1, SumOfOnes
<1>5. \A d : SumOn(f, Part(d)) = Cardinality(Part(d))
  <2> TAKE d
  <2>1. Part(d) \in SUBSET S  BY DEF Within
  <2>2. IsFiniteSet(Part(d)) /\ \A x \in Part(d) : f[x] = 1
      BY <1>1, <2>1, FS_Subset
  <2> HIDE DEF Part
  <2> QED  BY <2>2, SumOfOnes
<1>6. \A d \in DOMAIN g : g[d] = SumOn(f, Part(d))  BY <1>3, <1>5
<1>7. SumOver(g) = SumOn(f, S)  BY <1>2, <1>4, <1>6, PartsAddUp
<1> QED  BY <1>4, <1>7 DEF g

(* The history of a field adds up to its total.                            *)
LEMMA HistoryAddsUp ==
  ASSUME NEW T \in Tables, NEW S \in SUBSET T, NEW field \in NumericFields, NEW b, NEW g,
         g = [start \in Starts(S, b) |-> Total(Within(S, b, start), field)]
  PROVE  SumOver(g) = Total(S, field)
<1> DEFINE f == Values(S, field)
           Part(d) == Within(S, b, d)
<1>1. Summable(f, S) /\ Total(S, field) = SumOn(f, S)  BY TotalsAreSums
<1>2. DOMAIN g = Starts(S, b)  OBVIOUS
<1>3. \A d \in DOMAIN g : g[d] = Total(Part(d), field)  OBVIOUS
<1>4. ASSUME NEW d PROVE Total(Part(d), field) = SumOn(f, Part(d))
  <2>1. Part(d) \in SUBSET S /\ Part(d) \in SUBSET T  BY DEF Within
  <2>2. \A h \in Part(d) : f[h] = Values(Part(d), field)[h]  BY <2>1 DEF Values
  <2> HIDE DEF Part, f
  <2>3. /\ Summable(Values(Part(d), field), Part(d))
        /\ Total(Part(d), field) = SumOn(Values(Part(d), field), Part(d))
      BY <2>1, TotalsAreSums
  <2> QED  BY <2>2, <2>3, SumSame
<1> HIDE DEF f
<1>5. \A d \in DOMAIN g : g[d] = SumOn(f, Part(d))  BY <1>3, <1>4
<1>6. SumOver(g) = SumOn(f, S)  BY <1>1, <1>2, <1>5, PartsAddUp
<1> QED  BY <1>1, <1>6

-----------------------------------------------------------------------------
(* The bodies.                                                             *)

(* The aggregate of a field: how many have it, and the bounds of its total.*)
LEMMA AggregateFits ==
  ASSUME NEW T \in Tables, NEW S \in SUBSET T, NEW field \in NumericFields, NEW s,
         s = NumericStat(S, field)
  PROVE  /\ s.count = Cardinality(Holding(S, field)) /\ s.count \in Nat
         /\ s.count = 0 => s.total = Null
         /\ s.count # 0 => /\ s.total = Total(Holding(S, field), field)
                           /\ s.minimum * s.count <= s.total
                           /\ s.total <= s.maximum * s.count
<1> DEFINE held == Holding(S, field)
           values == {NumericValue(h, field) : h \in held}
           f == Values(held, field)
           n == Cardinality(held)
<1>1. held \in SUBSET S /\ held \in SUBSET T  BY DEF Holding
<1>2. IsFiniteSet(held) /\ n \in Nat
  <2>1. IsFiniteSet(held)  BY <1>1, HeroQueriesAssumption, FS_Subset
  <2> QED  BY <2>1, FS_CardinalityType
<1>3. n = 0 <=> held = {}  BY <1>2, FS_EmptySet
<1>4. /\ \A h \in held : NumericValue(h, field) \in Int
      /\ Summable(f, held) /\ Total(held, field) = SumOn(f, held)
    BY <1>1, TotalsAreSums
<1>5. CASE held = {}
  <2>1. s = [count |-> 0, minimum |-> Null, maximum |-> Null, total |-> Null]
      BY <1>5 DEF NumericStat
  <2>2. s.count = 0 /\ s.total = Null  BY <2>1
  <2>3. n = 0  BY <1>3, <1>5
  <2> HIDE DEF n
  <2>4. s.count = n /\ s.count \in Nat /\ s.count = 0 /\ s.total = Null  BY <2>2, <2>3
  <2> QED  BY <2>4 DEF n
<1>6. CASE held # {}
  <2>1. s = [count |-> n, minimum |-> Min(values), maximum |-> Max(values),
             total |-> Total(held, field)]
      BY <1>6 DEF NumericStat
  <2>2. s.count = n /\ s.minimum = Min(values) /\ s.maximum = Max(values)
        /\ s.total = SumOn(f, held) /\ s.total = Total(held, field)
      BY <1>4, <2>1
  <2>3. values \in SUBSET Int /\ values # {}  BY <1>4, <1>6
  <2>4. IsFiniteSet(values)
    <3> DEFINE p == [h \in held |-> NumericValue(h, field)]
    <3>1. p \in Surjection(held, values)  BY DEF Surjection
    <3> HIDE DEF p, values, held
    <3> QED  BY <1>2, <3>1, FS_Surjection
  <2>5. \A h \in held : f[h] \in values  BY DEF Values
  <2> HIDE DEF values, held, f, n
  <2>6. /\ Min(values) \in Int /\ \A x \in values : Min(values) <= x
        /\ Max(values) \in Int /\ \A x \in values : x <= Max(values)
      BY <2>3, <2>4, Extremes
  <2>7. /\ Min(values) * Cardinality(held) <= SumOn(f, held)
        /\ SumOn(f, held) <= Max(values) * Cardinality(held)
      BY <1>4, <2>5, <2>6, SumBounds
  <2>8. s.count # 0  BY <1>3, <1>6, <2>2
  <2>9. s.minimum * s.count <= s.total /\ s.total <= s.maximum * s.count
      BY <2>2, <2>7 DEF n
  <2> QED  BY <1>2, <2>2, <2>8, <2>9 DEF n, held
<1> QED  BY <1>5, <1>6

(* Every record has an id.                                                 *)
LEMMA IdsHeld ==
  ASSUME NEW T \in Tables, NEW S \in SUBSET T
  PROVE  /\ Holding(S, "id") = S
         /\ Holding(S, "power_level") = {h \in S : h.level # Null}
<1>1. \A h \in S : FieldOf(h, "id") # Null
  <2> TAKE h \in S
  <2>1. "id" \in {"id", "power_level"}  OBVIOUS
  <2>2. FieldOf(h, "id") = h.id /\ h.id \in Int  BY <2>1, FieldTyped
  <2> QED  BY <2>2, HeroQueriesAssumption
<1>2. \A h \in S : FieldOf(h, "power_level") = h.level  BY DEF FieldOf
<1> QED  BY <1>1, <1>2 DEF Holding, HasValue

(* What the statistics of a table say.                                     *)
TableStats(T, included, b) ==
  LET stats == Stats(T, [included |-> included, bucket |-> b])
      records == Records(T, included)
  IN  /\ stats # Refused
      /\ stats.total = Count(T, FALSE) + IF included THEN stats.archived ELSE 0
      /\ stats.numeric["id"].count = Min({stats.total, Cap})
      /\ stats.numeric["power_level"].count = Cardinality({h \in records : h.level # Null})
      /\ \A field \in NumericFields : stats.numeric[field] = NumericStat(records, field)
      /\ IF b = Null THEN stats.series = Null
         ELSE /\ stats.series = TimeSeries(records, b)
              /\ SumOver(stats.series) = Min({stats.total, Cap})
              /\ DOMAIN stats.series \subseteq {BucketStart(b, h) : h \in T}

(* They say so of any table.                                               *)
LEMMA StatsOfTable ==
  ASSUME NEW T \in Tables, NEW included \in BOOLEAN, NEW b \in Buckets \cup {Null}
  PROVE  TableStats(T, included, b)
<1> DEFINE stats == Stats(T, [included |-> included, bucket |-> b])
           records == Records(T, included)
           total == Count(T, included)
           all == Count(T, TRUE)
           live == Count(T, FALSE)
           numeric == [field \in NumericFields |-> NumericStat(records, field)]
           series == IF b = Null THEN Null ELSE TimeSeries(records, b)
<1>1. stats = [total |-> total, numeric |-> numeric, series |-> series,
               archived |-> all - live]
    BY DEF Stats
<1>2. /\ records \in SUBSET T /\ IsFiniteSet(records)
      /\ Cardinality(records) = Min({total, Cap})
    BY RecordsCounted
<1>3. all \in Nat /\ live \in Nat
  <2>1. TRUE \in BOOLEAN /\ FALSE \in BOOLEAN  OBVIOUS
  <2> QED  BY <2>1, RecordsCounted
<1>4. /\ included = TRUE => total = all
      /\ included = FALSE => total = live
    OBVIOUS
<1>5. \A field \in NumericFields : numeric[field] = NumericStat(records, field)  OBVIOUS
<1> HIDE DEF stats, total, all, live, numeric, series
<1>6. /\ stats.total = total /\ stats.numeric = numeric /\ stats.series = series
      /\ stats.archived = all - live
      /\ DOMAIN stats = {"total", "numeric", "series", "archived"}
    BY <1>1
<1>7. stats # Refused
  <2>1. DOMAIN Refused = {"status"}  BY DEF Refused
  <2> QED  BY <1>6, <2>1
<1>8. stats.total = live + IF included THEN stats.archived ELSE 0
  <2>1. CASE included = TRUE
    <3>1. total = live + (all - live)  BY <1>3, <1>4, <2>1
    <3> QED  BY <1>6, <2>1, <3>1
  <2>2. CASE included = FALSE
    <3>1. total = live + 0  BY <1>3, <1>4, <2>2
    <3> QED  BY <1>6, <2>2, <3>1
  <2> QED  BY <2>1, <2>2
<1> HIDE DEF records
<1>9. "id" \in NumericFields /\ "power_level" \in NumericFields  BY DEF NumericFields
<1>10. \A field \in NumericFields : stats.numeric[field] = NumericStat(records, field)
    BY <1>5, <1>6
<1>11. /\ stats.numeric["id"].count = Cardinality(records)
       /\ stats.numeric["power_level"].count = Cardinality({h \in records : h.level # Null})
  <2>1. \A field \in NumericFields :
          stats.numeric[field].count = Cardinality(Holding(records, field))
      BY <1>2, <1>10, AggregateFits
  <2> QED  BY <1>2, <1>9, <2>1, IdsHeld
<1>12. ASSUME b # Null
       PROVE  /\ stats.series = TimeSeries(records, b)
              /\ SumOver(stats.series) = Cardinality(records)
              /\ DOMAIN stats.series \subseteq {BucketStart(b, h) : h \in T}
  <2>1. stats.series = TimeSeries(records, b)  BY <1>6, <1>12 DEF series
  <2>2. SumOver(stats.series) = Cardinality(records)  BY <1>2, <2>1, SeriesAddsUp
  <2>3. DOMAIN stats.series = {BucketStart(b, h) : h \in records}
      BY <2>1 DEF TimeSeries
  <2> QED  BY <1>2, <2>1, <2>2, <2>3
<1>13. b = Null => stats.series = Null  BY <1>6 DEF series
<1>14. Cardinality(records) = Min({stats.total, Cap})  BY <1>2, <1>6
<1> QED
    BY <1>7, <1>8, <1>10, <1>11, <1>12, <1>13, <1>14 DEF TableStats, records, stats, live

(* What is answered is the body of the request itself.                     *)
LEMMA AnswerIsOwnBody ==
  ASSUME NEW T, NEW q, ~Rejected(q), NEW body \in AnswersTo(T, q)
  PROVE  body = Body(T, q)
<1>1. PICK r \in Requests : KeyOf(r) = KeyOf(q) /\ body = Body(T, r)
    BY DEF AnswersTo
<1>2. r.kind = q.kind /\ Parsed(r) = Parsed(q)
  <2> DEFINE p == Parsed(q)
             o == Parsed(r)
  <2>1. <<r.kind, o>> = <<q.kind, p>>  BY <1>1 DEF KeyOf
  <2> HIDE DEF p, o
  <2>2. r.kind = q.kind /\ o = p  BY <2>1
  <2> QED  BY <2>2 DEF p, o
<1>3. Body(T, r) = Body(T, q)  BY <1>2 DEF Body
<1> QED  BY <1>1, <1>3

(* The body of /stats fits its request.                                    *)
LEMMA StatsBodyFits ==
  ASSUME NEW T \in Tables, NEW q, q.kind = "stats", ~Rejected(q)
  PROVE  Body(T, q) # Refused /\ StatsFit(T, q, Body(T, q))
<1> DEFINE included == q.scope = "all"
           b == q.bucket
           stats == Stats(T, [included |-> included, bucket |-> b])
<1>1. Body(T, q) = stats  BY DEF Body, Parsed
<1>2. b \in Buckets \cup {Null}  BY DEF Rejected
<1>3. included \in BOOLEAN  OBVIOUS
<1> HIDE DEF b, stats
<1>4. /\ stats # Refused
      /\ stats.total = Count(T, FALSE) + IF included THEN stats.archived ELSE 0
      /\ stats.numeric["id"].count = Min({stats.total, Cap})
      /\ stats.numeric["power_level"].count
           = Cardinality({h \in Records(T, included) : h.level # Null})
      /\ \A field \in NumericFields :
           stats.numeric[field] = NumericStat(Records(T, included), field)
      /\ IF b = Null THEN stats.series = Null
         ELSE /\ stats.series = TimeSeries(Records(T, included), b)
              /\ SumOver(stats.series) = Min({stats.total, Cap})
              /\ DOMAIN stats.series \subseteq {BucketStart(b, h) : h \in T}
  <2> HIDE DEF included
  <2>1. TableStats(T, included, b)  BY <1>2, <1>3, StatsOfTable
  <2> QED  BY <2>1 DEF TableStats, stats
<1>5. \A field \in NumericFields :
        LET s == stats.numeric[field]
        IN  IF s.count = 0 THEN s.total = Null
            ELSE s.minimum * s.count <= s.total /\ s.total <= s.maximum * s.count
  <2> TAKE field \in NumericFields
  <2>1. Records(T, included) \in SUBSET T  BY <1>3, RecordsCounted
  <2>2. stats.numeric[field] = NumericStat(Records(T, included), field)  BY <1>4
  <2> HIDE DEF included
  <2> QED  BY <2>1, <2>2, AggregateFits
<1>6. StatsFit(T, q, stats)  BY <1>4, <1>5 DEF StatsFit, b
<1> QED  BY <1>1, <1>4, <1>6

(* The body of /predict fits its request.                                  *)
LEMMA PredictionBodyFits ==
  ASSUME NEW T \in Tables, NEW q, q.kind = "predict", ~Rejected(q), Body(T, q) # Refused
  PROVE  PredictionFits(T, q, Body(T, q))
<1> DEFINE b == IF q.bucket = Null THEN "day" ELSE q.bucket
           p == [bucket |-> b, field |-> q.field,
                 periods |-> IF q.periods = Null THEN 4 ELSE q.periods]
           records == Records(T, FALSE)
           stats == Stats(T, [included |-> FALSE, bucket |-> b])
           history == History(T, [field |-> q.field, bucket |-> b])
           last == Max(DOMAIN history)
           held == Holding(records, q.field)
<1>1. b \in Buckets /\ b # Null /\ q.field \in NumericFields \cup {Null}
    BY HeroStatsAssumption DEF Rejected, Buckets
<1>2. Body(T, q) = Prediction(T, p)
  <2>1. Parsed(q) = p  BY DEF Parsed
  <2> HIDE DEF p
  <2> QED  BY <2>1 DEF Body
<1>3. History(T, p) = history  BY DEF History
<1>4. records \in SUBSET T  BY RecordsCounted
<1>5. stats.series = TimeSeries(records, b)
      /\ \A field \in NumericFields : stats.numeric[field] = NumericStat(records, field)
  <2> HIDE DEF b
  <2>1. TableStats(T, FALSE, b)  BY <1>1, StatsOfTable
  <2> QED  BY <1>1, <2>1 DEF TableStats
<1>6. q.field = Null => history = TimeSeries(records, b)  BY DEF History
<1>7. q.field # Null => history = [start \in Starts(held, b) |-> Total(Within(held, b, start), q.field)]
    BY DEF History, Starts, Within
<1> HIDE DEF b, stats, history, records, held
<1>8. /\ ~(Cardinality(DOMAIN history) < 2)
      /\ Body(T, q) = [field |-> q.field, bucket |-> b, last_known |-> <<last, history[last]>>,
                       predictions |-> p.periods]
  <2> DEFINE prediction == [field |-> q.field, bucket |-> b,
                            last_known |-> <<last, history[last]>>, predictions |-> p.periods]
  <2>1. p.field = q.field /\ p.bucket = b  OBVIOUS
  <2> HIDE DEF p
  <2>2. Prediction(T, p) =
          IF Cardinality(DOMAIN history) < 2 THEN Refused ELSE prediction
      BY <1>3, <2>1 DEF Prediction
  <2> HIDE DEF prediction
  <2>3. ~(Cardinality(DOMAIN history) < 2) /\ Body(T, q) = prediction
      BY <1>2, <2>2
  <2> QED  BY <2>3 DEF prediction, p
<1>9. DOMAIN history \subseteq DOMAIN stats.series
  <2>1. DOMAIN TimeSeries(records, b) = Starts(records, b)  BY DEF TimeSeries, Starts
  <2>2. CASE q.field = Null  BY <1>5, <1>6, <2>2
  <2>3. CASE q.field # Null
    <3>1. DOMAIN history = Starts(held, b)  BY <1>7, <2>3
    <3>2. held \subseteq records  BY DEF held, Holding
    <3> QED  BY <1>5, <2>1, <3>1, <3>2 DEF Starts
  <2> QED  BY <2>2, <2>3
<1>10. q.field # Null => SumOver(history) = stats.numeric[q.field].total
  <2> SUFFICES ASSUME q.field # Null PROVE SumOver(history) = stats.numeric[q.field].total
      OBVIOUS
  <2>1. q.field \in NumericFields  BY <1>1
  <2>2. held \in SUBSET T  BY <1>4 DEF held, Holding
  <2>3. SumOver(history) = Total(held, q.field)  BY <1>7, <2>1, <2>2, HistoryAddsUp
  <2>4. held # {}
    <3>1. CASE held = {}
      <4>1. DOMAIN history = {}  BY <1>7, <3>1 DEF Starts
      <4>2. Cardinality(DOMAIN history) = 0  BY <4>1, FS_EmptySet
      <4> QED  BY <1>8, <4>2
    <3> QED  BY <3>1
  <2>5. stats.numeric[q.field] = NumericStat(records, q.field)  BY <1>5, <2>1
  <2>6. stats.numeric[q.field].total = Total(held, q.field)
    <3>1. IsFiniteSet(held)  BY <2>2, HeroQueriesAssumption, FS_Subset
    <3>2. Cardinality(held) # 0  BY <2>4, <3>1, FS_EmptySet
    <3> QED  BY <1>4, <2>1, <2>5, <3>2, AggregateFits DEF held
  <2> QED  BY <2>3, <2>6
<1>11. /\ Body(T, q).field = q.field /\ Body(T, q).bucket = b
       /\ Body(T, q).last_known = <<last, history[last]>>
       /\ q.periods # Null => Body(T, q).predictions = q.periods
  <2> DEFINE point == <<last, history[last]>>
             periods == p.periods
  <2>1. q.periods # Null => periods = q.periods  OBVIOUS
  <2>2. Body(T, q) = [field |-> q.field, bucket |-> b, last_known |-> point,
                      predictions |-> periods]
      BY <1>8
  <2> HIDE DEF point, periods
  <2>3. /\ Body(T, q).field = q.field /\ Body(T, q).bucket = b
        /\ Body(T, q).last_known = point /\ Body(T, q).predictions = periods
      BY <2>2
  <2> QED  BY <2>1, <2>3 DEF point
<1>12. q.field = Null => history = stats.series  BY <1>5, <1>6
<1> QED  BY <1>9, <1>10, <1>11, <1>12 DEF PredictionFits, b, stats, history

(* A body of statistics answers the question it is sent for, whichever     *)
(* request it was built for: its total and the archived add up, its counts *)
(* and its series look at as many records as there are up to the cap, a    *)
(* total is within its extremes, and a forecast goes on from the series    *)
(* and the totals of the live records.                                     *)
THEOREM BodiesAddUp == Spec => []AggregatesAddUp
<1>1. ASSUME NEW T \in Tables, NEW q \in Requests, NEW body \in AnswersTo(T, q)
      PROVE  IF body = Refused THEN Rejected(q) \/ q.kind = "predict"
             ELSE IF q.kind = "stats" THEN StatsFit(T, q, body) ELSE PredictionFits(T, q, body)
  <2>1. q.kind \in {"stats", "predict"}  BY HeroStatsAssumption
  <2>2. CASE Rejected(q)
    <3>1. body = Refused  BY <1>1, <2>2 DEF AnswersTo
    <3> QED  BY <2>2, <3>1
  <2>3. CASE ~Rejected(q)
    <3>1. body = Body(T, q)  BY <1>1, <2>3, AnswerIsOwnBody
    <3>2. CASE q.kind = "stats"  BY <2>3, <3>1, <3>2, StatsBodyFits
    <3>3. CASE q.kind = "predict"  BY <2>3, <3>1, <3>3, PredictionBodyFits
    <3> QED  BY <2>1, <3>2, <3>3
  <2> QED  BY <2>2, <2>3
<1>2. Asked => AggregatesAddUp
  <2> SUFFICES ASSUME heroes \in Tables PROVE AddsUp[heroes]
      BY DEF Asked, AggregatesAddUp
  <2> QED  BY <1>1 DEF AddsUp
<1> QED  BY <1>2, AlwaysAsked, PTL
=============================================================================
