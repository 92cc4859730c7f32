-------------------------- MODULE UnipenTextProofs --------------------------
(***************************************************************************)
(* What the parser of the companion's handwriting reads of any text: back  *)
(* what was written, and of a damaged text no more than was written before *)
(* the damage.  First what the library does not have: induction over a set *)
(* of numbers, functions given by recursion, and FlattenSeq.               *)
(***************************************************************************)
EXTENDS UnipenText, SequenceTheorems, FiniteSetTheorems, TLAPS

-----------------------------------------------------------------------------
(* Induction and recursion.                                                *)

\* A set of numbers has a least one: the intervals up to its members are finite
\* sets, which strict inclusion orders well.
LEMMA LeastNumber ==
  ASSUME NEW Good \in SUBSET Nat, Good # {}
  PROVE  \E n \in Good : \A m \in Good : n <= m
<1> DEFINE W == {1..n : n \in Good}
           R == StrictSubsetOrdering(Nat)
<1>1. W \subseteq FiniteSubsetsOf(Nat)
  <2> SUFFICES ASSUME NEW n \in Good PROVE 1..n \in FiniteSubsetsOf(Nat)
    OBVIOUS
  <2>1. n \in Nat /\ 1..n \in SUBSET Nat
    OBVIOUS
  <2>2. IsFiniteSet(1..n)
    BY <2>1, FS_Interval
  <2>3. QED
    BY <2>1, <2>2 DEF FiniteSubsetsOf
<1>2. W # {}
  OBVIOUS
<1>3. PICK x \in W : \A y \in W : <<y, x>> \notin R
  <2> HIDE DEF W, R
  <2>1. IsWellFoundedOn(R, FiniteSubsetsOf(Nat))
    BY FS_StrictSubsetOrderingWellFounded DEF R
  <2>2. QED
    BY <1>1, <1>2, <2>1, WFMin
<1>4. PICK n \in Good : x = 1..n
  BY <1>3
<1>5. ASSUME NEW m \in Good, m < n PROVE FALSE
  <2>1. m \in Nat /\ n \in Nat /\ 1..m \in W
    OBVIOUS
  <2>2. 1..m \subseteq 1..n /\ n \in 1..n /\ n \notin 1..m
    BY <1>5, <2>1
  <2>3. <<1..m, 1..n>> \in R
    BY <2>1, <2>2 DEF StrictSubsetOrdering
  <2>4. QED
    BY <1>3, <1>4, <2>1, <2>3
<1>6. QED
  BY <1>5

\* Induction, with the set of the numbers that have the property.
LEMMA SetInduction ==
  ASSUME NEW Good, 0 \in Good, \A n \in Nat : n \in Good => n + 1 \in Good
  PROVE  Nat \subseteq Good
<1> SUFFICES ASSUME Nat \ Good # {} PROVE FALSE
  OBVIOUS
<1>1. PICK n \in Nat \ Good : \A m \in Nat \ Good : n <= m
  BY LeastNumber
<1>2. n # 0 /\ n - 1 \in Nat /\ n - 1 < n
  OBVIOUS
<1>3. n - 1 \in Good
  BY <1>1, <1>2
<1>4. n - 1 + 1 = n
  OBVIOUS
<1>5. QED
  BY <1>2, <1>3, <1>4

\* step determines a function on D from its values at lower ranks.
Recursion(step, D, S, rank, n) ==
  /\ S # {} /\ n \in Nat /\ rank \in [D -> 0..n]
  /\ step \in [D -> [[D -> S] -> S]]
  /\ \A d \in D : \A g, h \in [D -> S] :
       (\A c \in D : rank[c] < rank[d] => g[c] = h[c]) => step[d][g] = step[d][h]

\* There is a function that step determines.
LEMMA BoundedRecursion ==
  ASSUME NEW D, NEW S, NEW rank, NEW step, NEW n, Recursion(step, D, S, rank, n)
  PROVE  \E f \in [D -> S] : \A d \in D : f[d] = step[d][f]
<1> DEFINE UpTo(k, f) == \A d \in D : rank[d] < k => f[d] = step[d][f]
           Good == {k \in Nat : \E f \in [D -> S] : UpTo(k, f)}
<1> USE DEF Recursion
<1>0. \A d \in D : rank[d] \in Nat /\ rank[d] < n + 1
  OBVIOUS
<1>1. 0 \in Good
  <2>1. PICK s \in S : TRUE
    OBVIOUS
  <2>2. [d \in D |-> s] \in [D -> S] /\ UpTo(0, [d \in D |-> s])
    BY <1>0, <2>1
  <2>3. QED
    BY <2>2
<1>2. \A k \in Nat : k \in Good => k + 1 \in Good
  <2> SUFFICES ASSUME NEW k \in Nat, NEW f \in [D -> S], UpTo(k, f)
               PROVE  \E e \in [D -> S] : UpTo(k + 1, e)
    <3> HIDE DEF UpTo
    <3>1. QED
      OBVIOUS
  <2> DEFINE e == [d \in D |-> IF rank[d] = k THEN step[d][f] ELSE f[d]]
  <2>1. e \in [D -> S]
    OBVIOUS
  <2>2. ASSUME NEW d \in D, rank[d] < k + 1 PROVE e[d] = step[d][e]
    <3>1. \A c \in D : rank[c] < rank[d] => e[c] = f[c]
      BY <1>0, <2>2
    <3>2. step[d][e] = step[d][f]
      <4> HIDE DEF e
      <4>1. QED
        BY <2>1, <3>1
    <3>3. CASE rank[d] = k
      BY <3>2, <3>3
    <3>4. CASE rank[d] # k
      <4>1. rank[d] < k
        <5> HIDE DEF e, Recursion
        <5>1. rank[d] \in Nat
          BY <1>0
        <5>2. QED
          BY <2>2, <3>4, <5>1
      <4>2. e[d] = f[d] /\ f[d] = step[d][f]
        BY <3>4, <4>1
      <4>3. QED
        BY <3>2, <4>2, Zenon
    <3>5. QED
      BY <3>3, <3>4
  <2>3. QED
    BY <2>1, <2>2
<1>3. n + 1 \in Good
  <2> HIDE DEF Good
  <2>1. QED
    BY <1>1, <1>2, SetInduction
<1>4. QED
  BY <1>0, <1>3

-----------------------------------------------------------------------------
(* FlattenSeq.                                                             *)

\* What FlattenSeq has put together after each member of a sequence.
IsFlattening(F, s) ==
  \A i \in 1..Len(s) : F[i] = IF i = 1 THEN s[i] ELSE F[i - 1] \o s[i]

\* FlattenSeq puts its members together one by one: its CHOOSE has a witness.
LEMMA FlattenSteps ==
  ASSUME NEW S, NEW s \in Seq(Seq(S)), s # << >>
  PROVE  \E F \in [1..Len(s) -> Seq(S)] : IsFlattening(F, s) /\ FlattenSeq(s) = F[Len(s)]
<1> DEFINE D == 1..Len(s)
           Body(F, i) == IF i = 1 THEN s[i] ELSE F[i - 1] \o s[i]
           step == [i \in D |-> [F \in [D -> Seq(S)] |-> Body(F, i)]]
           rank == [i \in D |-> i]
           flatten == CHOOSE F : F = [i \in D |-> Body(F, i)]
<1>0. Len(s) \in Nat \ {0} /\ \A i \in D : s[i] \in Seq(S)
  BY EmptySeq, ElementOfSeq
<1>1. \A i \in D : \A F \in [D -> Seq(S)] : Body(F, i) \in Seq(S)
  <2> SUFFICES ASSUME NEW i \in D, NEW F \in [D -> Seq(S)] PROVE Body(F, i) \in Seq(S)
    OBVIOUS
  <2>1. CASE i = 1
    BY <1>0, <2>1
  <2>2. CASE i # 1
    <3>1. i - 1 \in D
      BY <1>0, <2>2
    <3>2. F[i - 1] \in Seq(S) /\ s[i] \in Seq(S)
      <4> HIDE DEF D
      <4>1. QED
        BY <1>0, <3>1
    <3>3. F[i - 1] \o s[i] \in Seq(S)
      BY <3>2, ConcatProperties
    <3>4. QED
      BY <2>2, <3>3
  <2>3. QED
    BY <2>1, <2>2
<1>2. \A i \in D : \A g, h \in [D -> Seq(S)] :
        (\A c \in D : rank[c] < rank[i] => g[c] = h[c]) => step[i][g] = step[i][h]
  <2> SUFFICES ASSUME NEW i \in D, NEW g \in [D -> Seq(S)], NEW h \in [D -> Seq(S)],
                      \A c \in D : c < i => g[c] = h[c]
               PROVE  Body(g, i) = Body(h, i)
    OBVIOUS
  <2>1. i # 1 => i - 1 \in D /\ i - 1 < i
    BY <1>0
  <2>2. QED
    BY <2>1
<1>3. rank \in [D -> 0..Len(s)] /\ step \in [D -> [[D -> Seq(S)] -> Seq(S)]]
  <2>1. rank \in [D -> 0..Len(s)]
    BY <1>0
  <2>2. step \in [D -> [[D -> Seq(S)] -> Seq(S)]]
    <3> HIDE DEF Body, D
    <3>1. QED
      BY <1>1
  <2>3. QED
    BY <2>1, <2>2
<1>4. \E F \in [D -> Seq(S)] : \A i \in D : F[i] = step[i][F]
  <2> DEFINE V == Seq(S)
             n == Len(s)
  <2>1. V # {} /\ n \in Nat /\ rank \in [D -> 0..n]
    BY <1>0, <1>3, EmptySeq
  <2>2. Recursion(step, D, V, rank, n)
    BY <1>2, <1>3, <2>1 DEF Recursion
  <2>3. \E F \in [D -> V] : \A i \in D : F[i] = step[i][F]
    <3> HIDE DEF step, rank, D, V, n
    <3>1. QED
      BY <2>2, BoundedRecursion
  <2>4. QED
    BY <2>3
<1>5. \E F : F = [i \in D |-> Body(F, i)]
  <2> HIDE DEF Body, D
  <2>1. PICK F \in [D -> Seq(S)] : \A i \in D : F[i] = step[i][F]
    BY <1>4
  <2>2. F = [i \in D |-> Body(F, i)]
    BY <2>1
  <2>3. QED
    BY <2>2
<1>6. flatten = [i \in D |-> Body(flatten, i)]
  BY <1>5
<1>7. FlattenSeq(s) = flatten[Len(s)]
  BY <1>0 DEF FlattenSeq
<1>8. \A i \in D : flatten[i] \in Seq(S)
  <2> DEFINE Good == {k \in Nat : k \in D => flatten[k] \in Seq(S)}
  <2> HIDE DEF flatten
  <2>1. 0 \in Good
    OBVIOUS
  <2>2. \A k \in Nat : k \in Good => k + 1 \in Good
    <3> SUFFICES ASSUME NEW k \in Nat, k \in Good, NEW i \in D, i = k + 1
                 PROVE  flatten[i] \in Seq(S)
      OBVIOUS
    <3>1. flatten[i] = Body(flatten, i)
      BY <1>6
    <3>2. CASE i = 1
      BY <1>0, <3>1, <3>2
    <3>3. CASE i # 1
      <4>1. i - 1 = k /\ k \in D
        BY <1>0, <3>3
      <4>2. flatten[i - 1] \in Seq(S) /\ s[i] \in Seq(S)
        BY <1>0, <4>1
      <4>3. flatten[i - 1] \o s[i] \in Seq(S)
        BY <4>2, ConcatProperties
      <4>4. QED
        BY <3>1, <3>3, <4>3
    <3>4. QED
      BY <3>2, <3>3
  <2>3. Nat \subseteq Good
    <3> HIDE DEF Good
    <3>1. QED
      BY <2>1, <2>2, SetInduction
  <2>4. QED
    BY <1>0, <2>3
<1>9. flatten \in [D -> Seq(S)] /\ IsFlattening(flatten, s)
  <2> HIDE DEF flatten
  <2>1. QED
    BY <1>6, <1>8 DEF IsFlattening
<1>10. QED
  BY <1>7, <1>9, Zenon

\* Nothing to put together.
LEMMA FlattenEmpty == FlattenSeq(<< >>) = << >>
BY DEF FlattenSeq

\* FlattenSeq gives a sequence of what its members are sequences of.
LEMMA FlattenType ==
  ASSUME NEW S, NEW s \in Seq(Seq(S))
  PROVE  FlattenSeq(s) \in Seq(S)
<1>1. CASE s = << >>
  BY <1>1, FlattenEmpty, EmptySeq
<1>2. CASE s # << >>
  <2>1. Len(s) \in 1..Len(s)
    BY <1>2, EmptySeq
  <2>2. PICK F \in [1..Len(s) -> Seq(S)] : FlattenSeq(s) = F[Len(s)]
    BY <1>2, FlattenSteps
  <2>3. QED
    BY <2>1, <2>2
<1>3. QED
  BY <1>1, <1>2

\* Two sequences have the first k members in common.
Agree(s, t, k) ==
  /\ Len(s) \in Nat /\ Len(t) \in Nat
  /\ k \in 1..Len(s) /\ k <= Len(t) /\ \A i \in 1..k : s[i] = t[i]

\* What is put together of a beginning depends on that beginning only.
LEMMA FlattenUnique ==
  ASSUME NEW s, NEW t, NEW F, NEW G, NEW k,
         IsFlattening(F, s), IsFlattening(G, t), Agree(s, t, k)
  PROVE  F[k] = G[k]
<1> USE DEF Agree
<1> DEFINE Good == {n \in Nat : n \in 1..k => F[n] = G[n]}
<1>0. Len(s) \in Nat /\ Len(t) \in Nat
  OBVIOUS
<1>1. 0 \in Good
  OBVIOUS
<1>2. \A n \in Nat : n \in Good => n + 1 \in Good
  <2> SUFFICES ASSUME NEW n \in Nat, n \in Good, NEW i \in 1..k, i = n + 1 PROVE F[i] = G[i]
    OBVIOUS
  <2>1. i \in 1..Len(s) /\ i \in 1..Len(t) /\ s[i] = t[i]
    BY <1>0
  <2>2. /\ F[i] = IF i = 1 THEN s[i] ELSE F[i - 1] \o s[i]
        /\ G[i] = IF i = 1 THEN t[i] ELSE G[i - 1] \o t[i]
    BY <2>1 DEF IsFlattening
  <2>3. i # 1 => i - 1 = n /\ n \in 1..k
    OBVIOUS
  <2>4. i # 1 => F[i - 1] = G[i - 1]
    BY <2>3
  <2>5. QED
    BY <2>1, <2>2, <2>4, Zenon
<1>3. Nat \subseteq Good
  <2> HIDE DEF Good
  <2>1. QED
    BY <1>1, <1>2, SetInduction
<1>4. QED
  BY <1>0, <1>3

\* One more member at the end.
LEMMA FlattenAppend ==
  ASSUME NEW S, NEW s \in Seq(Seq(S)), NEW x \in Seq(S)
  PROVE  FlattenSeq(Append(s, x)) = FlattenSeq(s) \o x
<1> DEFINE t == Append(s, x)
           n == Len(s) + 1
<1>1. /\ t \in Seq(Seq(S)) /\ t # << >> /\ Len(t) = n /\ Len(s) \in Nat
      /\ \A i \in 1..Len(s) : t[i] = s[i]
      /\ t[n] = x
  BY AppendProperties, LenProperties
<1>2. PICK G : IsFlattening(G, t) /\ FlattenSeq(t) = G[n]
  <2> HIDE DEF t
  <2>1. QED
    BY <1>1, FlattenSteps
<1>3. G[n] = IF n = 1 THEN x ELSE G[n - 1] \o x
  <2> HIDE DEF t
  <2>1. n \in 1..Len(t)
    BY <1>1
  <2>2. G[n] = IF n = 1 THEN t[n] ELSE G[n - 1] \o t[n]
    <3> HIDE DEF n
    <3>1. QED
      BY <1>2, <2>1 DEF IsFlattening
  <2>3. QED
    BY <1>1, <2>2, Zenon
<1>4. CASE s = << >>
  <2>1. FlattenSeq(s) = << >> /\ n = 1
    BY <1>4, FlattenEmpty
  <2>2. << >> \o x = x
    BY ConcatEmptySeq
  <2>3. QED
    BY <1>2, <1>3, <2>1, <2>2, Zenon
<1>5. CASE s # << >>
  <2>1. PICK F : IsFlattening(F, s) /\ FlattenSeq(s) = F[Len(s)]
    BY <1>5, FlattenSteps
  <2>2. Len(s) \in 1..Len(s) /\ Len(s) <= Len(t) /\ n # 1 /\ n - 1 = Len(s)
    BY <1>1, <1>5, EmptySeq
  <2>3. F[Len(s)] = G[Len(s)]
    <3> HIDE DEF t
    <3>1. Agree(s, t, Len(s))
      BY <1>1, <2>2 DEF Agree
    <3>2. QED
      BY <1>2, <2>1, <3>1, FlattenUnique
  <2>4. QED
    BY <1>2, <1>3, <2>1, <2>2, <2>3, Zenon
<1>6. QED
  BY <1>4, <1>5

\* FlattenSeq of two sequences after each other, by induction on the second.
LEMMA FlattenConcat ==
  ASSUME NEW S, NEW s \in Seq(Seq(S)), NEW t \in Seq(Seq(S))
  PROVE  FlattenSeq(s \o t) = FlattenSeq(s) \o FlattenSeq(t)
<1> DEFINE Joins(u) == FlattenSeq(s \o u) = FlattenSeq(s) \o FlattenSeq(u)
           Good == {n \in Nat : \A u \in Seq(Seq(S)) : Len(u) = n => Joins(u)}
<1>0. FlattenSeq(s) \in Seq(S)
  BY FlattenType
<1>1. 0 \in Good
  <2> SUFFICES ASSUME NEW u \in Seq(Seq(S)), Len(u) = 0 PROVE Joins(u)
    OBVIOUS
  <2>1. u = << >>
    OBVIOUS
  <2>2. s \o << >> = s /\ FlattenSeq(s) \o << >> = FlattenSeq(s)
    BY <1>0, ConcatEmptySeq
  <2>3. QED
    BY <2>1, <2>2, FlattenEmpty, Zenon
<1>2. \A n \in Nat : n \in Good => n + 1 \in Good
  <2> SUFFICES ASSUME NEW n \in Nat, n \in Good PROVE n + 1 \in Good
    <3> HIDE DEF Good
    <3>1. QED
      OBVIOUS
  <2> SUFFICES ASSUME NEW u \in Seq(Seq(S)), Len(u) = n + 1 PROVE Joins(u)
    <3> HIDE DEF Joins
    <3>1. QED
      OBVIOUS
  <2>1. PICK v \in Seq(Seq(S)), x \in Seq(S) : u = Append(v, x)
    <3>1. u # << >>
      OBVIOUS
    <3>2. QED
      BY <3>1, SequenceEmptyOrAppend
  <2>2. Len(v) = n
    BY <2>1, AppendProperties, LenProperties
  <2>3. Joins(v)
    BY <2>2
  <2>4. s \o v \in Seq(Seq(S)) /\ s \o u = Append(s \o v, x)
    <3>1. s \o v \in Seq(Seq(S)) /\ <<x>> \in Seq(Seq(S))
      BY ConcatProperties
    <3>2. u = v \o <<x>> /\ Append(s \o v, x) = (s \o v) \o <<x>>
      BY <2>1, <3>1, AppendIsConcat
    <3>3. (s \o v) \o <<x>> = s \o (v \o <<x>>)
      BY <3>1, SMTT(30)
    <3>4. QED
      BY <3>1, <3>2, <3>3, Zenon
  <2>5. FlattenSeq(s \o u) = FlattenSeq(s \o v) \o x /\ FlattenSeq(u) = FlattenSeq(v) \o x
    BY <2>1, <2>4, FlattenAppend
  <2>6. FlattenSeq(v) \in Seq(S)
    BY FlattenType
  <2>7. (FlattenSeq(s) \o FlattenSeq(v)) \o x = FlattenSeq(s) \o (FlattenSeq(v) \o x)
    <3>1. PICK a \in Seq(S), b \in Seq(S) : a = FlattenSeq(s) /\ b = FlattenSeq(v)
      BY <1>0, <2>6
    <3>2. (a \o b) \o x = a \o (b \o x)
      BY SMTT(30)
    <3>3. QED
      BY <3>1, <3>2, Zenon
  <2>8. QED
    BY <2>3, <2>5, <2>7, Zenon
<1>3. Nat \subseteq Good
  <2> HIDE DEF Good
  <2>1. QED
    BY <1>1, <1>2, SetInduction
<1>4. QED
  <2>1. Len(t) \in Good
    BY <1>3, LenProperties
  <2>2. QED
    BY <2>1

-----------------------------------------------------------------------------
(* The parser's functions are what their definitions say: each looks       *)
(* forward only.                                                           *)

\* Induction from the last place of a text to the first.
LEMMA DownwardInduction ==
  ASSUME NEW N \in Nat, NEW Good,
         \A i \in 1..N : (\A j \in 1..N : i < j => j \in Good) => i \in Good
  PROVE  1..N \subseteq Good
<1> DEFINE U == {m \in Nat : m \in 1..N /\ N + 1 - m \notin Good}
<1> SUFFICES ASSUME U # {} PROVE FALSE
  <2> SUFFICES ASSUME NEW i \in 1..N PROVE i \in Good
    OBVIOUS
  <2>1. N + 1 - i \in 1..N /\ N + 1 - i \in Nat /\ N + 1 - (N + 1 - i) = i
    OBVIOUS
  <2>2. i \notin Good => N + 1 - i \in U
    BY <2>1
  <2>3. QED
    BY <2>2
<1>1. PICK m \in U : \A k \in U : m <= k
  <2>1. U \in SUBSET Nat
    OBVIOUS
  <2> HIDE DEF U
  <2>2. QED
    BY <2>1, LeastNumber
<1>2. PICK i \in 1..N : i = N + 1 - m
  OBVIOUS
<1>3. ASSUME NEW j \in 1..N, i < j PROVE j \in Good
  <2>1. N + 1 - j \in 1..N /\ N + 1 - j < m /\ N + 1 - (N + 1 - j) = j
    BY <1>2, <1>3
  <2>2. N + 1 - j \notin U
    BY <1>1, <2>1
  <2>3. QED
    BY <2>1, <2>2
<1>4. i \in Good
  BY <1>3
<1>5. QED
  BY <1>2, <1>4

\* step determines a function on D from its values further on.
Forward(step, D, S, N) ==
  /\ S # {} /\ N \in Nat /\ D = 1..N
  /\ step \in [D -> [[D -> S] -> S]]
  /\ \A i \in D : \A g, h \in [D -> S] :
       (\A j \in D : i < j => g[j] = h[j]) => step[i][g] = step[i][h]

\* There is a function that step determines.
LEMMA ForwardRecursion ==
  ASSUME NEW N, NEW D, NEW S, NEW step, Forward(step, D, S, N)
  PROVE  \E f \in [D -> S] : \A i \in D : f[i] = step[i][f]
<1> DEFINE rank == [i \in D |-> N - i]
<1>1. N \in Nat /\ D = 1..N
  BY DEF Forward
<1>2. rank \in [D -> 0..N]
  BY <1>1
<1>3. \A i, j \in D : rank[j] < rank[i] <=> i < j
  BY <1>1
<1>4. \A i \in D : \A g, h \in [D -> S] :
        (\A j \in D : rank[j] < rank[i] => g[j] = h[j]) => step[i][g] = step[i][h]
  <2> HIDE DEF rank
  <2> SUFFICES ASSUME NEW i \in D, NEW g \in [D -> S], NEW h \in [D -> S],
                      \A j \in D : rank[j] < rank[i] => g[j] = h[j]
               PROVE  step[i][g] = step[i][h]
    OBVIOUS
  <2>1. \A j \in D : i < j => g[j] = h[j]
    BY <1>3
  <2>2. QED
    BY <2>1 DEF Forward
<1>5. QED
  <2> HIDE DEF rank
  <2>1. Recursion(step, D, S, rank, N)
    BY <1>2, <1>4 DEF Recursion, Forward
  <2>2. QED
    BY <2>1, BoundedRecursion

\* RunEnd is what it says: the recursion goes forward and ends with the text.
LEMMA RunEndSteps ==
  ASSUME NEW text, Len(text) \in Nat, DOMAIN text = 1..Len(text), NEW kind
  PROVE  \A i \in 1..(Len(text) + 1) :
           /\ RunEnd(text, kind)[i] =
                IF Is(text, i, kind) THEN RunEnd(text, kind)[i + 1] ELSE i
           /\ RunEnd(text, kind)[i] \in i..(Len(text) + 1)
<1> DEFINE N == Len(text) + 1
           D == 1..N
           V == 1..N
           Body(g, i) == IF Is(text, i, kind) THEN g[i + 1] ELSE i
           step == [i \in D |-> [g \in [D -> V] |-> Body(g, i)]]
           end == RunEnd(text, kind)
<1>0. N \in Nat /\ V # {}
  OBVIOUS
<1>1. \A i \in D : Is(text, i, kind) => i + 1 \in D
  BY DEF Is
<1>2. \A i \in D : \A g \in [D -> V] : step[i][g] = Body(g, i)
  OBVIOUS
<1>3. \A i \in D : \A g \in [D -> V] : Body(g, i) \in V
  <2>1. \A i \in D : i \in V
    OBVIOUS
  <2> HIDE DEF D, V
  <2>2. QED
    BY <1>1, <2>1
<1>4. step \in [D -> [[D -> V] -> V]]
  <2> HIDE DEF D, V, Body
  <2>1. QED
    BY <1>3
<1>5. \A i \in D : \A g, h \in [D -> V] :
        (\A j \in D : i < j => g[j] = h[j]) => step[i][g] = step[i][h]
  <2>1. \A i \in D : \A g, h \in [D -> V] :
          (\A j \in D : i < j => g[j] = h[j]) => Body(g, i) = Body(h, i)
    BY <1>1
  <2> HIDE DEF D, V, Body, step
  <2>2. QED
    BY <1>2, <2>1
<1>6. \E g : g = [i \in D |-> Body(g, i)]
  <2>1. Forward(step, D, V, N)
    <3>1. D = 1..N
      OBVIOUS
    <3> HIDE DEF step, D, V, N
    <3>2. QED
      BY <1>0, <1>4, <1>5, <3>1 DEF Forward
  <2> HIDE DEF step, D, V, N
  <2>2. PICK g \in [D -> V] : \A i \in D : g[i] = step[i][g]
    BY <2>1, ForwardRecursion
  <2> HIDE DEF Body
  <2>3. g = [i \in D |-> Body(g, i)]
    BY <1>2, <2>2
  <2>4. QED
    BY <2>3
<1>7. end = [i \in D |-> Body(end, i)]
  BY <1>6 DEF RunEnd
<1>8. \A i \in D : end[i] = Body(end, i)
  <2> HIDE DEF end, Body, D
  <2>1. QED
    BY <1>7
<1>9. D \subseteq {i \in D : end[i] \in i..N}
  <2> DEFINE Good == {i \in D : end[i] \in i..N}
  <2>1. ASSUME NEW i \in D, \A j \in D : i < j => j \in Good
        PROVE  i \in Good
    <3>1. CASE Is(text, i, kind)
      <4>1. i + 1 \in Good
        BY <1>1, <2>1, <3>1
      <4>2. end[i] = end[i + 1]
        BY <1>8, <3>1
      <4>3. QED
        BY <4>1, <4>2
    <3>2. CASE ~Is(text, i, kind)
      BY <1>8, <3>2
    <3>3. QED
      BY <3>1, <3>2
  <2>2. 1..N \subseteq Good
    <3> HIDE DEF Good, N
    <3>1. QED
      BY <1>0, <2>1, DownwardInduction
  <2>3. QED
    BY <2>2
<1>10. QED
  <2> HIDE DEF end
  <2>1. \A i \in D : end[i] = IF Is(text, i, kind) THEN end[i + 1] ELSE i
    BY <1>8
  <2>2. \A i \in D : end[i] \in i..N
    BY <1>9
  <2>3. QED
    BY <2>1, <2>2 DEF end

\* What a stroke is.
Points == Seq(Int \X Int)

\* Two coordinates are a point.
LEMMA PairedType ==
  ASSUME NEW ints \in Seq(Int)
  PROVE  Paired(ints) \in Points /\ Len(Paired(ints)) = Len(ints) \div 2
<1> DEFINE n == Len(ints) \div 2
<1>1. n \in Nat /\ Len(ints) \in Nat /\ 2 * n <= Len(ints)
  OBVIOUS
<1>2. \A k \in 1..n : <<ints[2 * k - 1], ints[2 * k]>> \in Int \X Int
  <2> SUFFICES ASSUME NEW k \in 1..n PROVE ints[2 * k - 1] \in Int /\ ints[2 * k] \in Int
    OBVIOUS
  <2>1. 2 * k - 1 \in 1..Len(ints) /\ 2 * k \in 1..Len(ints)
    BY <1>1
  <2>2. QED
    BY <2>1, ElementOfSeq
<1>3. Paired(ints) = [k \in 1..n |-> <<ints[2 * k - 1], ints[2 * k]>>]
  BY DEF Paired
<1>4. QED
  <2> DEFINE P == Int \X Int
             f == [k \in 1..n |-> <<ints[2 * k - 1], ints[2 * k]>>]
  <2>1. f \in [1..n -> P] /\ Points = Seq(P)
    BY <1>2 DEF Points
  <2> HIDE DEF n, P, f
  <2>2. f \in Seq(P) /\ Len(f) = n
    BY <1>1, <2>1
  <2>3. QED
    BY <1>3, <2>1, <2>2 DEF f, n

\* Where the coordinates of the stroke at i end, and what they are.
Stop(text, i) == RunEnd(text, "int")[i + 1]
Ints(text, i) == [k \in 1..(Stop(text, i) - i - 1) |-> text[i + k].n]

\* The coordinates of a stroke are numbers, and it ends where they do.
LEMMA IntsType ==
  ASSUME NEW text \in Seq(Token), NEW i \in 1..(Len(text) + 1), Is(text, i, "POINTS")
  PROVE  /\ Stop(text, i) \in (i + 1)..(Len(text) + 1)
         /\ Ints(text, i) \in Seq(Int)
         /\ Len(Ints(text, i)) = Stop(text, i) - i - 1
<1> DEFINE n == Stop(text, i) - i - 1
<1>1. Len(text) \in Nat /\ DOMAIN text = 1..Len(text)
  BY LenProperties
<1>2. i \in Nat /\ i + 1 \in 1..(Len(text) + 1)
  BY <1>1 DEF Is
<1>3. Stop(text, i) \in (i + 1)..(Len(text) + 1)
  BY <1>1, <1>2, RunEndSteps DEF Stop
<1>4. n \in Nat
  BY <1>2, <1>3
<1>5. \A k \in 1..n : text[i + k].n \in Int
  <2> SUFFICES ASSUME NEW k \in 1..n PROVE text[i + k].n \in Int
    OBVIOUS
  <2>1. i + k \in 1..Len(text)
    BY <1>1, <1>2, <1>3, <1>4
  <2>2. text[i + k] \in Token
    BY <2>1, ElementOfSeq
  <2>3. QED
    BY <2>2 DEF Token
<1>6. Ints(text, i) = [k \in 1..n |-> text[i + k].n]
  BY DEF Ints
<1>7. QED
  <2>1. Ints(text, i) \in Seq(Int) /\ Len(Ints(text, i)) = n
    <3> HIDE DEF n
    <3>1. QED
      BY <1>4, <1>5, <1>6
  <2>2. QED
    BY <1>3, <2>1

\* StrokesFrom at i, when from is known further on.
StrokesBody(text, from, i) ==
  IF ~Is(text, i, "POINTS") THEN [strokes |-> << >>, end |-> i]
  ELSE IF Ints(text, i) = << >> THEN [strokes |-> << << >> >>, end |-> Stop(text, i)]
  ELSE [strokes |-> <<Paired(Ints(text, i))>> \o from[Stop(text, i)].strokes,
        end |-> from[Stop(text, i)].end]

\* What StrokesFrom gives.
Parsed(E) == [strokes : Seq(Points), end : E]

\* One step of StrokesFrom gives strokes and a place.
LEMMA StrokesBodyType ==
  ASSUME NEW text \in Seq(Token), NEW i \in 1..(Len(text) + 1), NEW from, NEW E, i \in E,
         Is(text, i, "POINTS") => Stop(text, i) \in E /\ from[Stop(text, i)] \in Parsed(E)
  PROVE  StrokesBody(text, from, i) \in Parsed(E)
<1>0. << >> \in Seq(Points) /\ << << >> >> \in Seq(Points)
  BY EmptySeq DEF Points
<1>1. CASE ~Is(text, i, "POINTS")
  BY <1>0, <1>1 DEF StrokesBody, Parsed
<1>2. CASE Is(text, i, "POINTS")
  <2> DEFINE r == from[Stop(text, i)]
             x == Paired(Ints(text, i))
  <2>1. x \in Points
    BY <1>2, IntsType, PairedType
  <2>2. r.strokes \in Seq(Points) /\ r.end \in E /\ Stop(text, i) \in E
    BY <1>2 DEF Parsed
  <2>3. <<x>> \o r.strokes \in Seq(Points)
    <3> HIDE DEF r, x
    <3>1. <<x>> \in Seq(Points)
      BY <2>1
    <3>2. QED
      BY <2>2, <3>1, ConcatProperties
  <2>4. StrokesBody(text, from, i) =
          IF Ints(text, i) = << >> THEN [strokes |-> << << >> >>, end |-> Stop(text, i)]
          ELSE [strokes |-> <<x>> \o r.strokes, end |-> r.end]
    BY <1>2 DEF StrokesBody
  <2> HIDE DEF r, x
  <2>5. QED
    BY <1>0, <2>2, <2>3, <2>4 DEF Parsed
<1>3. QED
  BY <1>1, <1>2

\* StrokesFrom is what it says, and ends no earlier than where it starts.
LEMMA StrokesSteps ==
  ASSUME NEW text \in Seq(Token)
  PROVE  \A i \in 1..(Len(text) + 1) :
           /\ StrokesFrom(text)[i] = StrokesBody(text, StrokesFrom(text), i)
           /\ StrokesFrom(text)[i] \in Parsed(i..(Len(text) + 1))
<1> DEFINE N == Len(text) + 1
           D == 1..N
           V == Parsed(D)
           Body(g, i) == StrokesBody(text, g, i)
           step == [i \in D |-> [g \in [D -> V] |-> Body(g, i)]]
           from == StrokesFrom(text)
<1>0. N \in Nat /\ << >> \in Seq(Points) /\ 1 \in D
  BY LenProperties, EmptySeq
<1>1. \A i \in D : Is(text, i, "POINTS") => Stop(text, i) \in D /\ i < Stop(text, i)
  <2> SUFFICES ASSUME NEW i \in D, Is(text, i, "POINTS")
               PROVE  Stop(text, i) \in D /\ i < Stop(text, i)
    OBVIOUS
  <2>1. Stop(text, i) \in (i + 1)..N
    BY IntsType
  <2>2. QED
    BY <1>0, <2>1
<1>2. \A i \in D : \A g \in [D -> V] : step[i][g] = Body(g, i)
  <2> HIDE DEF D, V, Body
  <2>1. QED
    OBVIOUS
<1>3. \A i \in D : \A g \in [D -> V] : Body(g, i) \in V
  <2> SUFFICES ASSUME NEW i \in D, NEW g \in [D -> V] PROVE Body(g, i) \in V
    OBVIOUS
  <2>1. Is(text, i, "POINTS") => g[Stop(text, i)] \in V
    <3> HIDE DEF V, D
    <3>1. QED
      BY <1>1
  <2>2. QED
    BY <1>1, <2>1, StrokesBodyType
<1>4. \A i \in D : \A g, h \in [D -> V] :
        (\A j \in D : i < j => g[j] = h[j]) => Body(g, i) = Body(h, i)
  <2> SUFFICES ASSUME NEW i \in D, NEW g, NEW h, \A j \in D : i < j => g[j] = h[j]
               PROVE  Body(g, i) = Body(h, i)
    OBVIOUS
  <2>1. Is(text, i, "POINTS") => g[Stop(text, i)] = h[Stop(text, i)]
    <3> HIDE DEF D
    <3>1. QED
      BY <1>1
  <2>2. QED
    BY <2>1, Zenon DEF StrokesBody
<1>5. \E g : g = [i \in D |-> Body(g, i)]
  <2>1. V # {}
    <3>1. [strokes |-> << >>, end |-> 1] \in V
      BY <1>0 DEF Parsed
    <3>2. QED
      BY <3>1
  <2>2. D = 1..N
    OBVIOUS
  <2> HIDE DEF D, V, Body, N
  <2>3. step \in [D -> [[D -> V] -> V]]
    BY <1>3
  <2> HIDE DEF step
  <2>4. Forward(step, D, V, N)
    <3>1. \A i \in D : \A g, h \in [D -> V] :
            (\A j \in D : i < j => g[j] = h[j]) => step[i][g] = step[i][h]
      BY <1>2, <1>4
    <3>2. QED
      BY <1>0, <2>1, <2>2, <2>3, <3>1 DEF Forward
  <2>5. PICK g \in [D -> V] : \A i \in D : g[i] = step[i][g]
    BY <2>4, ForwardRecursion
  <2>6. g = [i \in D |-> Body(g, i)]
    BY <1>2, <2>5
  <2>7. QED
    BY <2>6
<1>6. from = [i \in D |-> Body(from, i)]
  BY <1>5 DEF StrokesFrom, StrokesBody, Stop, Ints
<1>7. \A i \in D : from[i] = Body(from, i)
  <2> HIDE DEF from, Body, D
  <2>1. QED
    BY <1>6
<1>8. \A i \in D : from[i] \in Parsed(i..N)
  <2> DEFINE Good == {i \in D : from[i] \in Parsed(i..N)}
  <2> HIDE DEF from
  <2>1. ASSUME NEW i \in D, \A j \in D : i < j => j \in Good
        PROVE  i \in Good
    <3>1. ASSUME Is(text, i, "POINTS")
          PROVE  Stop(text, i) \in i..N /\ from[Stop(text, i)] \in Parsed(i..N)
      <4>1. Stop(text, i) \in D /\ i < Stop(text, i) /\ Stop(text, i) \in Good
        BY <1>1, <2>1, <3>1
      <4>2. Stop(text, i)..N \subseteq i..N /\ Stop(text, i) \in i..N
        BY <1>0, <4>1
      <4>3. from[Stop(text, i)] \in Parsed(Stop(text, i)..N)
        BY <4>1
      <4>4. QED
        BY <4>2, <4>3 DEF Parsed
    <3>2. i \in i..N
      BY <1>0
    <3>3. StrokesBody(text, from, i) \in Parsed(i..N)
      BY <3>1, <3>2, StrokesBodyType
    <3>4. QED
      BY <1>7, <3>3
  <2>2. 1..N \subseteq Good
    <3> HIDE DEF Good, N
    <3>1. QED
      BY <1>0, <2>1, DownwardInduction
  <2>3. QED
    BY <2>2
<1>9. QED
  BY <1>7, <1>8

\* Whether a word starts at i, after its comments, and its strokes.
Start(text, i) == RunEnd(text, "comment")[i]
Headed(text, i) == Is(text, Start(text, i), "WORD") /\ Is(text, Start(text, i) + 1, "NUMSTROKES")
Strokes(text, i) == StrokesFrom(text)[Start(text, i) + 2]

\* WordsFrom at i, when from is known further on.
WordsBody(text, from, i) ==
  IF Headed(text, i) THEN <<Strokes(text, i).strokes>> \o from[Strokes(text, i).end] ELSE << >>

\* WordsFrom is what it says, and a word that is read ends further on.
LEMMA WordsSteps ==
  ASSUME NEW text \in Seq(Token)
  PROVE  \A i \in 1..(Len(text) + 1) :
           /\ WordsFrom(text)[i] = WordsBody(text, WordsFrom(text), i)
           /\ Headed(text, i) => /\ Strokes(text, i).strokes \in Seq(Points)
                                 /\ Strokes(text, i).end \in (i + 2)..(Len(text) + 1)
<1> DEFINE N == Len(text) + 1
           D == 1..N
           V == Seq(Seq(Points))
           Body(g, i) == WordsBody(text, g, i)
           step == [i \in D |-> [g \in [D -> V] |-> Body(g, i)]]
           from == WordsFrom(text)
<1>0. N \in Nat /\ << >> \in V /\ Len(text) \in Nat /\ DOMAIN text = 1..Len(text)
  BY LenProperties, EmptySeq
<1>1. \A i \in D : Headed(text, i) => /\ Strokes(text, i).strokes \in Seq(Points)
                                       /\ Strokes(text, i).end \in (i + 2)..N
  <2> SUFFICES ASSUME NEW i \in D, Headed(text, i)
               PROVE  /\ Strokes(text, i).strokes \in Seq(Points)
                      /\ Strokes(text, i).end \in (i + 2)..N
    OBVIOUS
  <2>1. Start(text, i) \in i..N /\ Start(text, i) + 1 \in 1..Len(text)
    BY <1>0, RunEndSteps DEF Start, Headed, Is
  <2>2. Start(text, i) + 2 \in D /\ i + 2 <= Start(text, i) + 2
    BY <1>0, <2>1
  <2>3. Strokes(text, i) \in Parsed((Start(text, i) + 2)..N)
    BY <2>2, StrokesSteps DEF Strokes
  <2>4. Strokes(text, i).strokes \in Seq(Points) /\ Strokes(text, i).end \in (Start(text, i) + 2)..N
    BY <2>3 DEF Parsed
  <2>5. QED
    BY <1>0, <2>1, <2>2, <2>4
<1>2. \A i \in D : Headed(text, i) => Strokes(text, i).end \in D /\ i < Strokes(text, i).end
  BY <1>0, <1>1
<1>3. \A i \in D : \A g \in [D -> V] : step[i][g] = Body(g, i)
  <2> HIDE DEF D, V, Body
  <2>1. QED
    OBVIOUS
<1>4. \A i \in D : \A g \in [D -> V] : Body(g, i) \in V
  <2> SUFFICES ASSUME NEW i \in D, NEW g \in [D -> V] PROVE Body(g, i) \in V
    OBVIOUS
  <2>1. CASE Headed(text, i)
    <3> DEFINE x == Strokes(text, i).strokes
               r == g[Strokes(text, i).end]
    <3>1. x \in Seq(Points)
      BY <1>1, <2>1
    <3>2. r \in V
      <4> HIDE DEF D, V
      <4>1. QED
        BY <1>2, <2>1
    <3>3. <<x>> \o r \in V
      <4> HIDE DEF x, r
      <4>1. <<x>> \in V
        BY <3>1
      <4>2. QED
        BY <3>2, <4>1, ConcatProperties
    <3>4. Body(g, i) = <<x>> \o r
      BY <2>1 DEF WordsBody
    <3>5. QED
      BY <3>3, <3>4
  <2>2. CASE ~Headed(text, i)
    BY <1>0, <2>2 DEF WordsBody
  <2>3. QED
    BY <2>1, <2>2
<1>5. \A i \in D : \A g, h \in [D -> V] :
        (\A j \in D : i < j => g[j] = h[j]) => Body(g, i) = Body(h, i)
  <2> SUFFICES ASSUME NEW i \in D, NEW g, NEW h, \A j \in D : i < j => g[j] = h[j]
               PROVE  Body(g, i) = Body(h, i)
    OBVIOUS
  <2>1. Headed(text, i) => g[Strokes(text, i).end] = h[Strokes(text, i).end]
    <3> HIDE DEF D
    <3>1. QED
      BY <1>2
  <2>2. QED
    BY <2>1, Zenon DEF WordsBody
<1>6. \E g : g = [i \in D |-> Body(g, i)]
  <2>1. V # {} /\ D = 1..N
    BY <1>0
  <2> HIDE DEF D, V, Body, N
  <2>2. step \in [D -> [[D -> V] -> V]]
    BY <1>4
  <2> HIDE DEF step
  <2>3. Forward(step, D, V, N)
    <3>1. \A i \in D : \A g, h \in [D -> V] :
            (\A j \in D : i < j => g[j] = h[j]) => step[i][g] = step[i][h]
      BY <1>3, <1>5
    <3>2. QED
      BY <1>0, <2>1, <2>2, <3>1 DEF Forward
  <2>4. PICK g \in [D -> V] : \A i \in D : g[i] = step[i][g]
    BY <2>3, ForwardRecursion
  <2>5. g = [i \in D |-> Body(g, i)]
    BY <1>3, <2>4
  <2>6. QED
    BY <2>5
<1>7. from = [i \in D |-> Body(from, i)]
  BY <1>6 DEF WordsFrom, WordsBody, Headed, Strokes, Start
<1>8. \A i \in D : from[i] = Body(from, i)
  <2> HIDE DEF from, Body, D
  <2>1. QED
    BY <1>7
<1>9. QED
  BY <1>1, <1>8

\* A run ends where the first token of another kind is.
LEMMA RunEnds ==
  ASSUME NEW text \in Seq(Token), NEW kind, NEW e \in 1..(Len(text) + 1), NEW i \in 1..e,
         \A j \in i..(e - 1) : Is(text, j, kind), ~Is(text, e, kind)
  PROVE  RunEnd(text, kind)[i] = e
<1> DEFINE N == Len(text) + 1
           Good == {j \in 1..N : j \in i..e => RunEnd(text, kind)[j] = e}
<1>0. N \in Nat /\ Len(text) \in Nat /\ DOMAIN text = 1..Len(text)
  BY LenProperties
<1>1. ASSUME NEW j \in 1..N, \A k \in 1..N : j < k => k \in Good PROVE j \in Good
  <2> SUFFICES ASSUME j \in i..e PROVE RunEnd(text, kind)[j] = e
    OBVIOUS
  <2>1. RunEnd(text, kind)[j] = IF Is(text, j, kind) THEN RunEnd(text, kind)[j + 1] ELSE j
    BY <1>0, RunEndSteps
  <2>2. CASE j = e
    BY <2>1, <2>2
  <2>3. CASE j # e
    <3>1. j \in i..(e - 1) /\ j + 1 \in 1..N /\ j < j + 1 /\ j + 1 \in i..e
      BY <1>0, <2>3
    <3>2. j + 1 \in Good
      BY <1>1, <3>1
    <3>3. QED
      BY <2>1, <3>1, <3>2
  <2>4. QED
    BY <2>2, <2>3
<1>2. 1..N \subseteq Good
  <2> HIDE DEF Good, N
  <2>1. QED
    BY <1>0, <1>1, DownwardInduction
<1>3. QED
  BY <1>0, <1>2

-----------------------------------------------------------------------------
(* A sequence whose members are spelt out one after the other.             *)

\* s member by member, and the members one after the other.
Image(f, s) == [k \in DOMAIN s |-> f[s[k]]]
Flat(f, s) == FlattenSeq(Image(f, s))

\* Of a function: that it is one, and that its values are sequences.
Maps(f, S, V) == f \in [S -> V]
Spells(f, S, V) == f \in [S -> Seq(V)]

\* To spell is to map to sequences.
LEMMA SpellsMaps ==
  ASSUME NEW f, NEW S, NEW V, Spells(f, S, V)
  PROVE  Maps(f, S, Seq(V))
BY DEF Spells, Maps

\* Member by member.
LEMMA ImageType ==
  ASSUME NEW S, NEW V, NEW f, Maps(f, S, V), NEW s \in Seq(S)
  PROVE  /\ Image(f, s) \in Seq(V) /\ Len(Image(f, s)) = Len(s)
         /\ \A i \in 1..Len(s) : Image(f, s)[i] = f[s[i]]
<1> DEFINE n == Len(s)
<1>1. n \in Nat /\ DOMAIN s = 1..n /\ \A k \in 1..n : s[k] \in S
  BY LenProperties, ElementOfSeq
<1>2. Image(f, s) \in [1..n -> V] /\ \A i \in 1..n : Image(f, s)[i] = f[s[i]]
  <2> HIDE DEF n
  <2>1. QED
    BY <1>1 DEF Image, Maps
<1>3. QED
  <2>1. Image(f, s) \in Seq(V) /\ Len(Image(f, s)) = n
    <3> HIDE DEF n
    <3>1. QED
      BY <1>1, <1>2
  <2>2. QED
    BY <1>2, <2>1

\* What is spelt out is a sequence.
LEMMA FlatType ==
  ASSUME NEW S, NEW V, NEW f, Spells(f, S, V), NEW s \in Seq(S)
  PROVE  Flat(f, s) \in Seq(V)
<1>1. Image(f, s) \in Seq(Seq(V))
  BY SpellsMaps, ImageType
<1>2. QED
  BY <1>1, FlattenType DEF Flat

\* Nothing spelt out.
LEMMA FlatEmpty == ASSUME NEW f PROVE Flat(f, << >>) = << >>
<1>1. Image(f, << >>) = << >>
  BY DEF Image
<1>2. QED
  BY <1>1, FlattenEmpty DEF Flat

\* The images of two sequences after each other.
LEMMA ImageConcat ==
  ASSUME NEW S, NEW V, NEW f, Maps(f, S, V), NEW s \in Seq(S), NEW t \in Seq(S)
  PROVE  Image(f, s \o t) = Image(f, s) \o Image(f, t)
<1> DEFINE u == s \o t
           a == Image(f, u)
           c == Image(f, s)
           d == Image(f, t)
           b == c \o d
<1>1. /\ u \in Seq(S) /\ Len(u) = Len(s) + Len(t)
      /\ \A i \in 1..(Len(s) + Len(t)) : u[i] = IF i <= Len(s) THEN s[i] ELSE t[i - Len(s)]
      /\ Len(s) \in Nat /\ Len(t) \in Nat
  BY ConcatProperties, LenProperties
<1>2. a \in Seq(V) /\ Len(a) = Len(u) /\ \A i \in 1..Len(u) : a[i] = f[u[i]]
  <2>1. PICK z \in Seq(S) : z = u
    BY <1>1
  <2> HIDE DEF u
  <2>2. /\ Image(f, z) \in Seq(V) /\ Len(Image(f, z)) = Len(z)
        /\ \A i \in 1..Len(z) : Image(f, z)[i] = f[z[i]]
    BY ImageType
  <2>3. QED
    BY <2>1, <2>2
<1>3. c \in Seq(V) /\ Len(c) = Len(s) /\ \A i \in 1..Len(s) : c[i] = f[s[i]]
  BY ImageType
<1>4. d \in Seq(V) /\ Len(d) = Len(t) /\ \A i \in 1..Len(t) : d[i] = f[t[i]]
  BY ImageType
<1> HIDE DEF u, a, c, d
<1>5. /\ b \in Seq(V) /\ Len(b) = Len(s) + Len(t)
      /\ \A i \in 1..(Len(s) + Len(t)) : b[i] = IF i <= Len(s) THEN c[i] ELSE d[i - Len(s)]
  <2>1. /\ b \in Seq(V) /\ Len(b) = Len(c) + Len(d)
        /\ \A i \in 1..(Len(c) + Len(d)) : b[i] = IF i <= Len(c) THEN c[i] ELSE d[i - Len(c)]
    <3>1. c \in Seq(V) /\ d \in Seq(V)
      BY <1>3, <1>4
    <3>2. QED
      BY <3>1, ConcatProperties
  <2>2. Len(c) = Len(s) /\ Len(d) = Len(t)
    BY <1>3, <1>4
  <2> HIDE DEF b
  <2>3. QED
    BY <2>1, <2>2
<1> HIDE DEF b
<1>6. \A i \in 1..Len(a) : a[i] = b[i]
  <2> SUFFICES ASSUME NEW i \in 1..Len(a) PROVE a[i] = b[i]
    OBVIOUS
  <2>1. i \in 1..(Len(s) + Len(t)) /\ i \in 1..Len(u)
    BY <1>1, <1>2
  <2>2. CASE i <= Len(s)
    <3>1. i \in 1..Len(s)
      BY <1>1, <2>1, <2>2
    <3>2. a[i] = f[s[i]] /\ b[i] = c[i]
      BY <1>1, <1>2, <1>5, <2>1, <2>2
    <3>3. QED
      BY <1>3, <3>1, <3>2
  <2>3. CASE ~(i <= Len(s))
    <3>1. i - Len(s) \in 1..Len(t)
      BY <1>1, <2>1, <2>3
    <3>2. a[i] = f[t[i - Len(s)]] /\ b[i] = d[i - Len(s)]
      BY <1>1, <1>2, <1>5, <2>1, <2>3
    <3>3. QED
      BY <1>4, <3>1, <3>2
  <2>4. QED
    BY <2>2, <2>3
<1>7. a = b
  BY <1>1, <1>2, <1>5, <1>6, SeqEqual
<1>8. QED
  BY <1>7 DEF a, b, c, d, u

\* Two sequences after each other, spelt out.
LEMMA FlatConcat ==
  ASSUME NEW S, NEW V, NEW f, Spells(f, S, V), NEW s \in Seq(S), NEW t \in Seq(S)
  PROVE  Flat(f, s \o t) = Flat(f, s) \o Flat(f, t)
<1>1. Image(f, s \o t) = Image(f, s) \o Image(f, t)
  BY SpellsMaps, ImageConcat
<1>2. Image(f, s) \in Seq(Seq(V)) /\ Image(f, t) \in Seq(Seq(V))
  BY SpellsMaps, ImageType
<1>3. FlattenSeq(Image(f, s) \o Image(f, t)) = FlattenSeq(Image(f, s)) \o FlattenSeq(Image(f, t))
  BY <1>2, FlattenConcat
<1>4. QED
  BY <1>1, <1>3, Zenon DEF Flat

\* A single member, spelt out.
LEMMA FlatOne ==
  ASSUME NEW S, NEW V, NEW f, Spells(f, S, V), NEW x \in S
  PROVE  Flat(f, <<x>>) = f[x]
<1>1. Image(f, <<x>>) = Append(<< >>, f[x])
  BY DEF Image
<1>2. FlattenSeq(Append(<< >>, f[x])) = FlattenSeq(<< >>) \o f[x]
  <2>1. f[x] \in Seq(V) /\ << >> \in Seq(Seq(V))
    BY EmptySeq DEF Spells
  <2>2. QED
    BY <2>1, FlattenAppend
<1>3. f[x] \in Seq(V) /\ << >> \o f[x] = f[x]
  BY ConcatEmptySeq DEF Spells
<1>4. QED
  BY <1>1, <1>2, <1>3, FlattenEmpty DEF Flat

\* The first member, then the others.
LEMMA FlatCons ==
  ASSUME NEW S, NEW V, NEW f, Spells(f, S, V), NEW x \in S, NEW t \in Seq(S)
  PROVE  Flat(f, Cons(x, t)) = f[x] \o Flat(f, t)
<1>1. PICK y \in Seq(S) : y = <<x>>
  <2>1. <<x>> \in Seq(S)
    OBVIOUS
  <2>2. QED
    BY <2>1
<1>2. Flat(f, y \o t) = Flat(f, y) \o Flat(f, t)
  BY FlatConcat
<1>3. Flat(f, <<x>>) = f[x]
  BY FlatOne
<1>4. QED
  BY <1>1, <1>2, <1>3, Zenon DEF Cons

\* A first member and a rest are a sequence.
LEMMA ConsType ==
  ASSUME NEW S, NEW x \in S, NEW s \in Seq(S)
  PROVE  Cons(x, s) \in Seq(S)
<1>1. <<x>> \in Seq(S)
  OBVIOUS
<1>2. QED
  BY <1>1, ConcatProperties DEF Cons

\* A sequence that is not empty has a first member.
LEMMA FirstAndRest ==
  ASSUME NEW S, NEW s \in Seq(S), s # << >>
  PROVE  \E x \in S, t \in Seq(S) : s = Cons(x, t) /\ Len(s) = Len(t) + 1
<1>1. /\ Head(s) \in S /\ Tail(s) \in Seq(S) /\ Len(Tail(s)) = Len(s) - 1
      /\ Head(s) = s[1] /\ Len(s) \in Nat \ {0}
  BY HeadTailProperties, EmptySeq
<1>2. s = <<Head(s)>> \o Tail(s)
  BY <1>1, SubSeqFull, SubSeqRecursiveFirst, TailIsSubSeq
<1>3. Len(s) = Len(Tail(s)) + 1
  BY <1>1
<1>4. PICK x \in S, t \in Seq(S) : x = Head(s) /\ t = Tail(s)
  BY <1>1
<1>5. s = Cons(x, t) /\ Len(s) = Len(t) + 1
  BY <1>2, <1>3, <1>4, Zenon DEF Cons
<1>6. QED
  BY <1>5

-----------------------------------------------------------------------------
(* The format.                                                             *)

\* The definitions of UnipenText as functions that spell.
Coordinate(c) == T("int", c)

writtenPoint == [p \in Int \X Int |-> <<Coordinate(p[1]), Coordinate(p[2])>>]
writtenStroke == [x \in Points |-> WrittenStroke(x)]
writtenWord == [w \in Seq(Points) |-> WrittenWord(w)]
segments == [x \in Points |-> SegmentsOf(x)]

\* Coordinates and tags are tokens.
LEMMA TokenTypes ==
  /\ \A c \in Int : Coordinate(c) \in Token
  /\ \A kind \in Kinds, n \in Int : T(kind, n) \in Token
BY DEF Coordinate, Token, T, Kinds

\* A point is written as two tokens.
LEMMA PointSpelt == Spells(writtenPoint, Int \X Int, Token)
<1>1. ASSUME NEW p \in Int \X Int
      PROVE  <<Coordinate(p[1]), Coordinate(p[2])>> \in Seq(Token)
  <2>1. Coordinate(p[1]) \in Token /\ Coordinate(p[2]) \in Token
    BY TokenTypes
  <2>2. QED
    BY <2>1
<1>2. QED
  BY <1>1 DEF Spells, writtenPoint

\* A stroke is written as its tag, then its points.
LEMMA StrokeIs ==
  ASSUME NEW x \in Points
  PROVE  WrittenStroke(x) = <<T("POINTS", Len(x))>> \o Flat(writtenPoint, x)
<1> DEFINE Pair(p) == [j \in 1..2 |-> T("int", p[j])]
<1>1. \A k \in DOMAIN x : x[k] \in Int \X Int
  BY ElementOfSeq, LenProperties DEF Points
<1>2. \A p \in Int \X Int : writtenPoint[p] = Pair(p)
  BY DEF writtenPoint, Coordinate
<1>3. [k \in DOMAIN x |-> Pair(x[k])] = Image(writtenPoint, x)
  <2> HIDE DEF Pair
  <2>1. QED
    BY <1>1, <1>2 DEF Image
<1>4. WrittenStroke(x) = <<T("POINTS", Len(x))>> \o FlattenSeq([k \in DOMAIN x |-> Pair(x[k])])
  BY Zenon DEF WrittenStroke
<1>5. QED
  BY <1>3, <1>4, Zenon DEF Flat

\* The coordinates in the order they are written.
Coordinates(c, x) ==
  /\ c \in Seq(Token) /\ Len(c) = 2 * Len(x)
  /\ \A k \in 1..Len(x) : c[2 * k - 1] = Coordinate(x[k][1]) /\ c[2 * k] = Coordinate(x[k][2])

\* The points of a stroke are written as their coordinates, two by two.
LEMMA PointsSpelt ==
  ASSUME NEW x \in Points
  PROVE  Coordinates(Flat(writtenPoint, x), x)
<1> DEFINE P == Int \X Int
           U == {n \in Nat : \A y \in Seq(P) : Len(y) = n => Coordinates(Flat(writtenPoint, y), y)}
<1>1. 0 \in U
  <2> SUFFICES ASSUME NEW y \in Seq(P), Len(y) = 0 PROVE Coordinates(Flat(writtenPoint, y), y)
    OBVIOUS
  <2>1. y = << >>
    OBVIOUS
  <2>2. Flat(writtenPoint, y) = << >>
    BY <2>1, FlatEmpty
  <2>3. << >> \in Seq(Token) /\ Len(<< >>) = 0
    BY EmptySeq
  <2>4. PICK c \in Seq(Token) : c = << >> /\ Len(c) = 0
    BY <2>3
  <2>5. Len(c) = 2 * Len(y) /\ 1..Len(y) = {}
    BY <2>4
  <2>6. Coordinates(c, y)
    BY <2>5 DEF Coordinates
  <2>7. QED
    BY <2>2, <2>4, <2>6, Zenon
<1>2. \A n \in Nat : n \in U => n + 1 \in U
  <2> SUFFICES ASSUME NEW n \in Nat, n \in U, NEW y \in Seq(P), Len(y) = n + 1
               PROVE  Coordinates(Flat(writtenPoint, y), y)
    OBVIOUS
  <2>1. PICK z \in Seq(P), v \in P : y = Append(z, v)
    <3> HIDE DEF P
    <3>1. y # << >>
      OBVIOUS
    <3>2. QED
      BY <3>1, SequenceEmptyOrAppend
  <2>2. /\ Len(z) = n /\ Len(y) = n + 1 /\ y[n + 1] = v
        /\ \A k \in 1..n : y[k] = z[k]
    <3> HIDE DEF P, U
    <3>1. Len(z) \in Nat /\ Len(y) = Len(z) + 1 /\ y[Len(z) + 1] = v
          /\ \A k \in 1..Len(z) : y[k] = z[k]
      BY <2>1, AppendProperties, LenProperties
    <3>2. Len(z) = n
      BY <3>1
    <3>3. QED
      BY <3>1, <3>2
  <2>3. PICK c : c = Flat(writtenPoint, z)
    OBVIOUS
  <2>4. Coordinates(c, z)
    BY <2>2, <2>3
  <2>5. Flat(writtenPoint, y) = c \o <<Coordinate(v[1]), Coordinate(v[2])>>
    <3>1. PICK w \in Seq(P) : w = <<v>> /\ y = z \o w
      <4> HIDE DEF P, U
      <4>1. <<v>> \in Seq(P)
        OBVIOUS
      <4>2. y = z \o <<v>>
        BY <2>1, AppendIsConcat
      <4>3. QED
        BY <4>1, <4>2
    <3>2. Flat(writtenPoint, z \o w) = Flat(writtenPoint, z) \o Flat(writtenPoint, w)
      <4> HIDE DEF U
      <4>1. Spells(writtenPoint, P, Token)
        BY PointSpelt
      <4> HIDE DEF P
      <4>2. QED
        BY <4>1, FlatConcat
    <3>3. Flat(writtenPoint, w) = writtenPoint[v]
      <4>1. Spells(writtenPoint, P, Token)
        BY PointSpelt
      <4> HIDE DEF P, U
      <4>2. QED
        BY <3>1, <4>1, FlatOne
    <3>4. writtenPoint[v] = <<Coordinate(v[1]), Coordinate(v[2])>>
      BY DEF writtenPoint
    <3>5. QED
      BY <2>3, <3>1, <3>2, <3>3, <3>4, Zenon
  <2>6. PICK a \in Token, b \in Token : a = Coordinate(v[1]) /\ b = Coordinate(v[2])
    BY TokenTypes
  <2>7. PICK e : e = c \o <<a, b>>
    OBVIOUS
  <2>8. /\ c \in Seq(Token) /\ Len(c) = 2 * n /\ e \in Seq(Token) /\ Len(e) = 2 * n + 2
        /\ e[2 * n + 1] = a /\ e[2 * n + 2] = b
        /\ \A j \in 1..(2 * n) : e[j] = c[j]
    <3> HIDE DEF P, U
    <3>1. c \in Seq(Token) /\ Len(c) = 2 * n
      BY <2>2, <2>4 DEF Coordinates
    <3>2. PICK d \in Seq(Token) : d = <<a, b>> /\ Len(d) = 2 /\ d[1] = a /\ d[2] = b
      <4>1. <<a, b>> \in Seq(Token)
        OBVIOUS
      <4>2. QED
        BY <4>1
    <3>3. e = c \o d
      BY <2>7, <3>2
    <3>4. /\ e \in Seq(Token) /\ Len(e) = Len(c) + Len(d)
          /\ \A i \in 1..(Len(c) + Len(d)) : e[i] = IF i <= Len(c) THEN c[i] ELSE d[i - Len(c)]
      BY <3>1, <3>3, ConcatProperties
    <3>5. QED
      BY <3>1, <3>2, <3>4
  <2>9. Coordinates(e, y)
    <3> HIDE DEF P, U
    <3>1. Len(e) = 2 * Len(y)
      BY <2>2, <2>8
    <3>2. ASSUME NEW k \in 1..Len(y)
          PROVE  e[2 * k - 1] = Coordinate(y[k][1]) /\ e[2 * k] = Coordinate(y[k][2])
      <4>1. CASE k = n + 1
        <5>1. 2 * k - 1 = 2 * n + 1 /\ 2 * k = 2 * n + 2 /\ y[k] = v
          BY <2>2, <4>1
        <5>2. QED
          BY <2>6, <2>8, <5>1, Zenon
      <4>2. CASE k # n + 1
        <5>1. k \in 1..n /\ 2 * k - 1 \in 1..(2 * n) /\ 2 * k \in 1..(2 * n)
          BY <2>2, <4>2
        <5>2. /\ y[k] = z[k] /\ e[2 * k - 1] = c[2 * k - 1] /\ e[2 * k] = c[2 * k]
              /\ c[2 * k - 1] = Coordinate(z[k][1]) /\ c[2 * k] = Coordinate(z[k][2])
          BY <2>2, <2>4, <2>8, <5>1 DEF Coordinates
        <5>3. QED
          BY <5>2, Zenon
      <4>3. QED
        BY <4>1, <4>2
    <3>3. QED
      BY <2>8, <3>1, <3>2 DEF Coordinates
  <2>10. Flat(writtenPoint, y) = e
    BY <2>5, <2>6, <2>7, Zenon
  <2>11. QED
    BY <2>9, <2>10, Zenon
<1>3. Nat \subseteq U
  <2> HIDE DEF U
  <2>1. QED
    BY <1>1, <1>2, SetInduction
<1>4. QED
  <2>1. Len(x) \in U
    BY <1>3, LenProperties DEF Points
  <2>2. QED
    BY <2>1 DEF Points

\* The tokens of a stroke, one by one.
LEMMA StrokeTokens ==
  ASSUME NEW x \in Points
  PROVE  /\ WrittenStroke(x) \in Seq(Token) /\ Len(WrittenStroke(x)) = 2 * Len(x) + 1
         /\ WrittenStroke(x)[1] = T("POINTS", Len(x))
         /\ \A k \in 1..Len(x) : /\ WrittenStroke(x)[2 * k] = Coordinate(x[k][1])
                                 /\ WrittenStroke(x)[2 * k + 1] = Coordinate(x[k][2])
<1>1. PICK c : c = Flat(writtenPoint, x)
  OBVIOUS
<1>2. PICK w : w = WrittenStroke(x)
  OBVIOUS
<1>3. PICK h : h = T("POINTS", Len(x))
  OBVIOUS
<1>4. h \in Token
  BY <1>3, TokenTypes, LenProperties DEF Kinds, Points
<1>5. w = <<h>> \o c
  BY <1>1, <1>2, <1>3, StrokeIs
<1>6. Coordinates(c, x)
  BY <1>1, PointsSpelt
<1>7. c \in Seq(Token) /\ Len(c) = 2 * Len(x) /\ Len(x) \in Nat
  BY <1>6, LenProperties DEF Coordinates, Points
<1>8. /\ w \in Seq(Token) /\ Len(w) = 2 * Len(x) + 1 /\ w[1] = h
      /\ \A j \in 1..(2 * Len(x)) : w[j + 1] = c[j]
  <2>1. PICK d \in Seq(Token) : d = <<h>> /\ Len(d) = 1 /\ d[1] = h
    <3>1. <<h>> \in Seq(Token)
      BY <1>4
    <3>2. QED
      BY <3>1
  <2>2. w = d \o c
    BY <1>5, <2>1
  <2>3. /\ w \in Seq(Token) /\ Len(w) = Len(d) + Len(c)
        /\ \A i \in 1..(Len(d) + Len(c)) : w[i] = IF i <= Len(d) THEN d[i] ELSE c[i - Len(d)]
    <3>1. c \in Seq(Token) /\ d \in Seq(Token)
      BY <1>7, <2>1
    <3>2. QED
      BY <2>2, <3>1, ConcatProperties
  <2>4. Len(c) = 2 * Len(x) /\ Len(x) \in Nat /\ Len(d) = 1 /\ d[1] = h
    BY <1>7, <2>1
  <2>5. Len(w) = 2 * Len(x) + 1 /\ w[1] = h
    BY <2>3, <2>4
  <2>6. ASSUME NEW j \in 1..(2 * Len(x)) PROVE w[j + 1] = c[j]
    <3>1. j + 1 \in 1..(Len(d) + Len(c)) /\ ~(j + 1 <= Len(d)) /\ j + 1 - Len(d) = j
      BY <2>4
    <3>2. w[j + 1] = c[j + 1 - Len(d)]
      BY <2>3, <3>1
    <3>3. QED
      BY <3>1, <3>2
  <2>7. QED
    BY <2>3, <2>5, <2>6
<1>9. ASSUME NEW k \in 1..Len(x)
      PROVE  w[2 * k] = Coordinate(x[k][1]) /\ w[2 * k + 1] = Coordinate(x[k][2])
  <2>1. 2 * k - 1 \in 1..(2 * Len(x)) /\ 2 * k \in 1..(2 * Len(x)) /\ 2 * k - 1 + 1 = 2 * k
    BY <1>7
  <2>2. w[2 * k - 1 + 1] = c[2 * k - 1] /\ w[2 * k + 1] = c[2 * k]
    BY <1>8, <2>1
  <2>3. c[2 * k - 1] = Coordinate(x[k][1]) /\ c[2 * k] = Coordinate(x[k][2])
    BY <1>6 DEF Coordinates
  <2>4. QED
    BY <2>1, <2>2, <2>3, Zenon
<1>10. QED
  BY <1>2, <1>3, <1>8, <1>9

-----------------------------------------------------------------------------
(* Beginnings of sequences.                                                *)

\* a is the beginning of b.
Begins(a, b, S) == \E c \in Seq(S) : b = a \o c

\* Any sequence is its own beginning.
LEMMA BeginsItself ==
  ASSUME NEW S, NEW a \in Seq(S)
  PROVE  Begins(a, a, S)
<1>1. << >> \in Seq(S) /\ a = a \o << >>
  BY ConcatEmptySeq, EmptySeq
<1>2. QED
  BY <1>1 DEF Begins

\* The empty sequence begins any other.
LEMMA EmptyBegins ==
  ASSUME NEW S, NEW b \in Seq(S)
  PROVE  Begins(<< >>, b, S)
<1>1. b = << >> \o b
  BY ConcatEmptySeq
<1>2. QED
  BY <1>1 DEF Begins

\* A beginning of b is one of whatever starts with b.
LEMMA BeginsMore ==
  ASSUME NEW S, NEW a \in Seq(S), NEW b \in Seq(S), NEW d \in Seq(S), Begins(a, b, S)
  PROVE  Begins(a, b \o d, S)
<1>1. PICK c \in Seq(S) : b = a \o c
  BY DEF Begins
<1>2. (a \o c) \o d = a \o (c \o d)
  BY SMTT(30)
<1>3. c \o d \in Seq(S)
  BY ConcatProperties
<1>4. b \o d = a \o (c \o d)
  BY <1>1, <1>2, Zenon
<1>5. QED
  BY <1>3, <1>4, Zenon DEF Begins

\* What comes before both of them does not matter.
LEMMA BeginsAfter ==
  ASSUME NEW S, NEW a \in Seq(S), NEW b \in Seq(S), NEW d \in Seq(S), Begins(a, b, S)
  PROVE  Begins(d \o a, d \o b, S)
<1>1. PICK c \in Seq(S) : b = a \o c
  BY DEF Begins
<1>2. (d \o a) \o c = d \o (a \o c)
  BY SMTT(30)
<1>3. d \o b = (d \o a) \o c
  BY <1>1, <1>2, Zenon
<1>4. QED
  BY <1>3, Zenon DEF Begins

\* A sequence with the first members of another is a beginning of it.
LEMMA BeginsIf ==
  ASSUME NEW S, NEW a \in Seq(S), NEW b \in Seq(S), Len(a) <= Len(b),
         \A k \in 1..Len(a) : a[k] = b[k]
  PROVE  Begins(a, b, S)
<1> DEFINE n == Len(b) - Len(a)
           c == [k \in 1..n |-> b[Len(a) + k]]
<1>1. n \in Nat /\ Len(a) \in Nat /\ Len(b) \in Nat
  BY LenProperties
<1>2. \A k \in 1..n : b[Len(a) + k] \in S
  <2> SUFFICES ASSUME NEW k \in 1..n PROVE b[Len(a) + k] \in S
    OBVIOUS
  <2>1. Len(a) + k \in 1..Len(b)
    BY <1>1
  <2>2. QED
    BY <2>1, ElementOfSeq
<1>3. c \in Seq(S) /\ Len(c) = n /\ \A k \in 1..n : c[k] = b[Len(a) + k]
  <2> HIDE DEF n
  <2>1. QED
    BY <1>1, <1>2
<1> HIDE DEF c
<1>4. PICK d : d = a \o c
  OBVIOUS
<1>5. /\ d \in Seq(S) /\ Len(d) = Len(a) + Len(c)
      /\ \A i \in 1..(Len(a) + Len(c)) : d[i] = IF i <= Len(a) THEN a[i] ELSE c[i - Len(a)]
  BY <1>3, <1>4, ConcatProperties
<1>6. Len(d) = Len(b)
  BY <1>1, <1>3, <1>5
<1>7. ASSUME NEW i \in 1..Len(b) PROVE b[i] = d[i]
  <2>1. CASE i <= Len(a)
    BY <1>1, <1>3, <1>5, <2>1
  <2>2. CASE ~(i <= Len(a))
    <3>1. i - Len(a) \in 1..n /\ Len(a) + (i - Len(a)) = i
      BY <1>1, <2>2
    <3>2. d[i] = c[i - Len(a)]
      BY <1>1, <1>3, <1>5, <2>2
    <3>3. QED
      BY <1>3, <3>1, <3>2
  <2>3. QED
    BY <2>1, <2>2
<1>8. b = d
  BY <1>5, <1>6, <1>7, SeqEqual
<1>9. QED
  BY <1>3, <1>4, <1>8 DEF Begins

\* The segments of a stroke are triples of its points.
LEMMA SegmentsType ==
  ASSUME NEW x \in Points
  PROVE  /\ SegmentsOf(x) \in Seq(Points)
         /\ Len(SegmentsOf(x)) = IF Len(x) < 3 THEN 0 ELSE Len(x) - 2
         /\ \A k \in 1..(Len(x) - 2) : SegmentsOf(x)[k] = SubSeq(x, k, k + 2)
<1> DEFINE n == Len(x) - 2
<1>1. CASE Len(x) < 3
  <2>1. SegmentsOf(x) = << >>
    BY <1>1 DEF SegmentsOf
  <2>2. << >> \in Seq(Points) /\ Len(<< >>) = 0
    BY EmptySeq
  <2>3. 1..n = {}
    BY <1>1, LenProperties DEF Points
  <2>4. QED
    BY <1>1, <2>1, <2>2, <2>3
<1>2. CASE ~(Len(x) < 3)
  <2>1. n \in Nat /\ Len(x) \in Nat
    BY <1>2, LenProperties DEF Points
  <2>2. \A k \in 1..n : SubSeq(x, k, k + 2) \in Points
    <3> SUFFICES ASSUME NEW k \in 1..n PROVE SubSeq(x, k, k + 2) \in Points
      OBVIOUS
    <3>1. k + 2 <= Len(x) /\ 1 <= k
      BY <2>1
    <3>2. QED
      BY <2>1, <3>1 DEF Points
  <2>3. SegmentsOf(x) = [k \in 1..n |-> SubSeq(x, k, k + 2)]
    BY <1>2 DEF SegmentsOf
  <2>4. SegmentsOf(x) \in Seq(Points) /\ Len(SegmentsOf(x)) = n
    <3> HIDE DEF n
    <3>1. QED
      BY <2>1, <2>2, <2>3
  <2>5. QED
    BY <1>2, <2>3, <2>4
<1>3. QED
  BY <1>1, <1>2

\* A stroke is painted as its segments.
LEMMA SegmentsSpelt == Spells(segments, Points, Points)
BY SegmentsType DEF Spells, segments

\* The segments of a stroke cut short are the first ones of the whole stroke.
LEMMA SegmentsBegin ==
  ASSUME NEW x \in Points, NEW y \in Points, Len(y) <= Len(x), \A k \in 1..Len(y) : y[k] = x[k]
  PROVE  Begins(SegmentsOf(y), SegmentsOf(x), Points)
<1>1. Len(x) \in Nat /\ Len(y) \in Nat
  BY LenProperties DEF Points
<1>2. PICK a \in Seq(Points) : a = SegmentsOf(y) /\ Len(a) = IF Len(y) < 3 THEN 0 ELSE Len(y) - 2
  BY SegmentsType
<1>3. PICK b \in Seq(Points) : b = SegmentsOf(x) /\ Len(b) = IF Len(x) < 3 THEN 0 ELSE Len(x) - 2
  BY SegmentsType
<1>4. Len(a) <= Len(b)
  BY <1>1, <1>2, <1>3
<1>5. ASSUME NEW k \in 1..Len(a) PROVE a[k] = b[k]
  <2>1. k \in 1..(Len(y) - 2) /\ k \in 1..(Len(x) - 2)
    BY <1>1, <1>2
  <2>2. a[k] = SubSeq(y, k, k + 2) /\ b[k] = SubSeq(x, k, k + 2)
    BY <1>2, <1>3, <2>1, SegmentsType
  <2>3. SubSeq(y, k, k + 2) = SubSeq(x, k, k + 2)
    <3>1. \A i \in 1..3 : y[k + i - 1] = x[k + i - 1]
      BY <1>1, <2>1
    <3>2. SubSeq(y, k, k + 2) = [i \in 1..3 |-> y[k + i - 1]]
      BY <1>1, <2>1 DEF Points
    <3>3. SubSeq(x, k, k + 2) = [i \in 1..3 |-> x[k + i - 1]]
      BY <1>1, <2>1 DEF Points
    <3>4. QED
      BY <3>1, <3>2, <3>3
  <2>4. QED
    BY <2>2, <2>3
<1>6. Begins(a, b, Points)
  BY <1>4, <1>5, BeginsIf
<1>7. QED
  BY <1>2, <1>3, <1>6

-----------------------------------------------------------------------------
(* Reading strokes back.                                                   *)

\* From p on the text is what is written, as far as q, and no number is too large.
Spelt(text, q, p, written) ==
  /\ p \in 1..q
  /\ \A k \in 1..Len(written) : p + k - 1 < q => text[p + k - 1] = written[k]
  /\ \A k \in 1..(q - 1) : Parses(text[k])

\* At q there is nothing the parser knows.
Foreign(text, q) ==
  /\ q \in 1..(Len(text) + 1)
  /\ \A kind \in Kinds \ {"junk"} : ~Is(text, q, kind)

\* What is written in two parts is read in two parts.
LEMMA SpeltConcat ==
  ASSUME NEW text, NEW q \in Nat, NEW p, NEW S, NEW a \in Seq(S), NEW b \in Seq(S),
         Spelt(text, q, p, a \o b)
  PROVE  /\ Spelt(text, q, p, a)
         /\ p + Len(a) <= q => Spelt(text, q, p + Len(a), b)
<1>1. PICK c : c = a \o b
  OBVIOUS
<1>2. /\ Len(c) = Len(a) + Len(b)
      /\ \A i \in 1..(Len(a) + Len(b)) : c[i] = IF i <= Len(a) THEN a[i] ELSE b[i - Len(a)]
  BY <1>1, ConcatProperties
<1>3. p \in 1..q /\ \A k \in 1..Len(c) : p + k - 1 < q => text[p + k - 1] = c[k]
  BY <1>1 DEF Spelt
<1>4. Len(a) \in Nat /\ Len(b) \in Nat /\ p \in Nat
  BY <1>3, LenProperties
<1>5. ASSUME NEW k \in 1..Len(a), p + k - 1 < q PROVE text[p + k - 1] = a[k]
  <2>1. k \in 1..Len(c) /\ c[k] = a[k]
    BY <1>2, <1>4
  <2>2. QED
    BY <1>3, <1>5, <2>1
<1>6. ASSUME NEW k \in 1..Len(b), p + Len(a) + k - 1 < q
      PROVE  text[p + Len(a) + k - 1] = b[k]
  <2>1. /\ Len(a) + k \in 1..Len(c) /\ ~(Len(a) + k <= Len(a)) /\ Len(a) + k - Len(a) = k
        /\ Len(a) + k \in 1..(Len(a) + Len(b))
        /\ p + (Len(a) + k) - 1 = p + Len(a) + k - 1
    BY <1>2, <1>4
  <2>2. c[Len(a) + k] = b[k]
    BY <1>2, <2>1
  <2>3. text[p + (Len(a) + k) - 1] = c[Len(a) + k]
    BY <1>3, <1>6, <2>1
  <2>4. QED
    BY <2>1, <2>2, <2>3
<1>7. QED
  BY <1>3, <1>4, <1>5, <1>6 DEF Spelt

\* The coordinates of a stroke that starts before q, when they end at s.
LEMMA CoordinatesRead ==
  ASSUME NEW text \in Seq(Token), NEW q, Foreign(text, q), NEW p, NEW x \in Points,
         Spelt(text, q, p, WrittenStroke(x)),
         NEW s \in (p + 1)..q, s <= p + 2 * Len(x) + 1, ~Is(text, s, "int")
  PROVE  /\ Is(text, p, "POINTS") /\ Stop(text, p) = s
         /\ Len(Ints(text, p)) = s - p - 1
         /\ Paired(Ints(text, p)) \in Points
         /\ Len(Paired(Ints(text, p))) = (s - p - 1) \div 2
         /\ \A k \in 1..((s - p - 1) \div 2) : Paired(Ints(text, p))[k] = x[k]
<1> DEFINE w == WrittenStroke(x)
           n == s - p - 1
<1>1. /\ p \in Nat /\ p >= 1 /\ q \in Nat /\ q <= Len(text) + 1 /\ Len(text) \in Nat
      /\ Len(x) \in Nat /\ n \in 0..(2 * Len(x)) /\ s \in Nat /\ DOMAIN text = 1..Len(text)
  BY LenProperties DEF Spelt, Foreign, Points
<1>2. Len(w) = 2 * Len(x) + 1
  BY StrokeTokens
<1>3. \A k \in 1..Len(w) : p + k - 1 < q => text[p + k - 1] = w[k]
  BY DEF Spelt
<1>4. \A k \in 1..Len(x) : w[2 * k] = Coordinate(x[k][1]) /\ w[2 * k + 1] = Coordinate(x[k][2])
  BY StrokeTokens
<1>5. text[p] = T("POINTS", Len(x))
  <2>1. w[1] = T("POINTS", Len(x))
    BY StrokeTokens
  <2> HIDE DEF w
  <2>2. 1 \in 1..Len(w) /\ p + 1 - 1 < q /\ p + 1 - 1 = p
    BY <1>1, <1>2
  <2>3. QED
    BY <1>3, <2>1, <2>2
<1>6. \A k \in 1..(q - 1) : Parses(text[k])
  BY DEF Spelt
<1>7. Is(text, p, "POINTS")
  BY <1>1, <1>5, <1>6 DEF Is, T
<1> HIDE DEF w
<1>8. \A k \in 1..n : text[p + k] = w[k + 1]
  <2> SUFFICES ASSUME NEW k \in 1..n PROVE text[p + k] = w[k + 1]
    OBVIOUS
  <2>1. k + 1 \in 1..Len(w) /\ p + (k + 1) - 1 < q /\ p + (k + 1) - 1 = p + k
    BY <1>1, <1>2
  <2>2. QED
    BY <1>3, <2>1
<1>9. \A k \in 1..n : \E c : w[k + 1] = Coordinate(c)
  <2> SUFFICES ASSUME NEW k \in 1..n PROVE \E c : w[k + 1] = Coordinate(c)
    OBVIOUS
  <2>1. CASE k % 2 = 0
    <3>1. PICK j \in 1..Len(x) : k + 1 = 2 * j + 1
      <4>1. k = 2 * (k \div 2) /\ k \div 2 \in 1..Len(x)
        BY <1>1, <2>1
      <4>2. QED
        BY <4>1
    <3>2. QED
      BY <1>4, <3>1
  <2>2. CASE k % 2 = 1
    <3>1. PICK j \in 1..Len(x) : k + 1 = 2 * j
      <4>1. k + 1 = 2 * ((k + 1) \div 2) /\ (k + 1) \div 2 \in 1..Len(x)
        BY <1>1, <2>2
      <4>2. QED
        BY <4>1
    <3>2. QED
      BY <1>4, <3>1
  <2>3. QED
    BY <1>1, <2>1, <2>2
<1>10. \A j \in (p + 1)..(s - 1) : Is(text, j, "int")
  <2> SUFFICES ASSUME NEW j \in (p + 1)..(s - 1) PROVE Is(text, j, "int")
    OBVIOUS
  <2>1. j - p \in 1..n /\ p + (j - p) = j /\ j \in 1..Len(text)
    BY <1>1
  <2>2. PICK c : text[j] = Coordinate(c)
    BY <1>8, <1>9, <2>1
  <2>3. QED
    BY <1>1, <1>6, <2>1, <2>2 DEF Is, Coordinate, T
<1>11. Stop(text, p) = s
  <2>1. s \in 1..(Len(text) + 1) /\ p + 1 \in 1..s
    BY <1>1
  <2>2. QED
    BY <1>10, <2>1, RunEnds DEF Stop
<1>12. PICK ints \in Seq(Int) : ints = Ints(text, p) /\ Len(ints) = n
  <2>1. p \in 1..(Len(text) + 1)
    BY <1>1
  <2>2. QED
    BY <1>7, <1>11, <2>1, IntsType
<1>13. \A k \in 1..n : ints[k] = w[k + 1].n
  <2>1. ints = [k \in 1..n |-> text[p + k].n]
    BY <1>11, <1>12 DEF Ints
  <2>2. QED
    BY <1>8, <2>1
<1>14. PICK y \in Points : y = Paired(ints) /\ Len(y) = n \div 2
  BY <1>12, PairedType
<1>15. \A k \in 1..(n \div 2) : y[k] = x[k]
  <2> SUFFICES ASSUME NEW k \in 1..(n \div 2) PROVE y[k] = x[k]
    OBVIOUS
  <2>1. /\ 2 * k - 1 \in 1..n /\ 2 * k \in 1..n /\ k \in 1..Len(x) /\ 2 * k - 1 + 1 = 2 * k
        /\ k \in 1..(Len(ints) \div 2)
    BY <1>1, <1>12
  <2>2. y[k] = <<ints[2 * k - 1], ints[2 * k]>>
    BY <1>14, <2>1 DEF Paired
  <2>3. ints[2 * k - 1] = w[2 * k].n /\ ints[2 * k] = w[2 * k + 1].n
    BY <1>13, <2>1
  <2>4. w[2 * k].n = x[k][1] /\ w[2 * k + 1].n = x[k][2]
    <3>1. \A c : Coordinate(c).n = c
      BY DEF Coordinate, T
    <3>2. w[2 * k] = Coordinate(x[k][1]) /\ w[2 * k + 1] = Coordinate(x[k][2])
      BY <1>4, <2>1
    <3>3. QED
      BY <3>1, <3>2, Zenon
  <2>5. x[k] \in Int \X Int
    BY <2>1, ElementOfSeq DEF Points
  <2>6. x[k] = <<x[k][1], x[k][2]>>
    BY <2>5
  <2>7. QED
    BY <2>2, <2>3, <2>4, <2>6, Zenon
<1>16. QED
  BY <1>7, <1>11, <1>12, <1>14, <1>15

\* A stroke without points would stop the parser.
Inked == Points \ {<< >>}

\* A stroke that is all there, and what follows it is no coordinate.
LEMMA StrokeRead ==
  ASSUME NEW text \in Seq(Token), NEW q, Foreign(text, q), NEW p, NEW x \in Inked,
         Spelt(text, q, p, WrittenStroke(x)),
         p + Len(WrittenStroke(x)) <= q, ~Is(text, p + Len(WrittenStroke(x)), "int")
  PROVE  /\ Is(text, p, "POINTS") /\ Stop(text, p) = p + Len(WrittenStroke(x))
         /\ Ints(text, p) # << >> /\ Paired(Ints(text, p)) = x
<1> DEFINE s == p + Len(WrittenStroke(x))
<1>0. x \in Points
  BY DEF Inked
<1>1. Len(x) \in Nat \ {0}
  BY <1>0, LenProperties, EmptySeq DEF Inked, Points
<1>2. s = p + 2 * Len(x) + 1 /\ p \in Nat /\ q \in Nat
  <2>1. Len(WrittenStroke(x)) = 2 * Len(x) + 1
    BY <1>0, StrokeTokens
  <2>2. QED
    BY <1>1, <2>1 DEF Spelt, Foreign
<1>3. s \in (p + 1)..q /\ s <= p + 2 * Len(x) + 1 /\ ~Is(text, s, "int")
  BY <1>1, <1>2
<1> HIDE DEF s
<1>4. /\ Is(text, p, "POINTS") /\ Stop(text, p) = s
      /\ Len(Ints(text, p)) = s - p - 1
      /\ Paired(Ints(text, p)) \in Points
      /\ Len(Paired(Ints(text, p))) = (s - p - 1) \div 2
      /\ \A k \in 1..((s - p - 1) \div 2) : Paired(Ints(text, p))[k] = x[k]
  BY <1>0, <1>3, CoordinatesRead
<1>5. s - p - 1 = 2 * Len(x) /\ (s - p - 1) \div 2 = Len(x)
  BY <1>1, <1>2
<1>6. Ints(text, p) # << >>
  <2>1. Len(Ints(text, p)) # 0
    BY <1>1, <1>4, <1>5
  <2>2. QED
    BY <2>1
<1>7. Paired(Ints(text, p)) = x
  <2>1. PICK y \in Points : y = Paired(Ints(text, p))
    BY <1>4
  <2>2. Len(y) = Len(x) /\ \A k \in 1..Len(x) : y[k] = x[k]
    BY <1>4, <1>5, <2>1
  <2>3. y = x
    BY <1>0, <2>2, SeqEqual DEF Points
  <2>4. QED
    BY <2>1, <2>3
<1>8. QED
  BY <1>4, <1>6, <1>7 DEF s

\* A stroke that is cut off at q.
LEMMA StrokeCut ==
  ASSUME NEW text \in Seq(Token), NEW q, Foreign(text, q), NEW p, NEW x \in Inked,
         Spelt(text, q, p, WrittenStroke(x)), q < p + Len(WrittenStroke(x))
  PROVE  \/ p = q
         \/ /\ p < q /\ Is(text, p, "POINTS") /\ Stop(text, p) = q
            /\ Paired(Ints(text, p)) \in Points
            /\ Begins(SegmentsOf(Paired(Ints(text, p))), SegmentsOf(x), Points)
<1>0. x \in Points
  BY DEF Inked
<1>1. Len(x) \in Nat
  BY <1>0, LenProperties DEF Points
<1>2. q < p + 2 * Len(x) + 1 /\ p \in 1..q /\ q \in Nat
  <2>1. Len(WrittenStroke(x)) = 2 * Len(x) + 1
    BY <1>0, StrokeTokens
  <2>2. QED
    BY <1>1, <2>1 DEF Spelt, Foreign
<1> SUFFICES ASSUME p # q PROVE /\ p < q /\ Is(text, p, "POINTS") /\ Stop(text, p) = q
                                /\ Paired(Ints(text, p)) \in Points
                                /\ Begins(SegmentsOf(Paired(Ints(text, p))), SegmentsOf(x), Points)
  OBVIOUS
<1>3. q \in (p + 1)..q /\ q <= p + 2 * Len(x) + 1 /\ ~Is(text, q, "int") /\ p < q
  BY <1>1, <1>2 DEF Foreign, Kinds
<1>4. /\ Is(text, p, "POINTS") /\ Stop(text, p) = q
      /\ Paired(Ints(text, p)) \in Points
      /\ Len(Paired(Ints(text, p))) = (q - p - 1) \div 2
      /\ \A k \in 1..((q - p - 1) \div 2) : Paired(Ints(text, p))[k] = x[k]
  BY <1>0, <1>3, CoordinatesRead
<1>5. (q - p - 1) \div 2 <= Len(x)
  BY <1>1, <1>2, <1>3
<1>6. PICK y \in Points : y = Paired(Ints(text, p))
  BY <1>4
<1>7. Len(y) <= Len(x) /\ \A k \in 1..Len(y) : y[k] = x[k]
  BY <1>4, <1>5, <1>6
<1>8. Begins(SegmentsOf(y), SegmentsOf(x), Points)
  BY <1>0, <1>7, SegmentsBegin
<1>9. QED
  BY <1>3, <1>4, <1>6, <1>8

\* A sequence of strokes as the text has it, and what is painted of them.
WrittenStrokes(strokes) == Flat(writtenStroke, strokes)
Painted(strokes) == Flat(segments, strokes)

\* A stroke is written as tokens.
LEMMA StrokeSpelt == Spells(writtenStroke, Points, Token)
BY StrokeTokens DEF Spells, writtenStroke

\* The first stroke of several.
LEMMA StrokesSpelt ==
  ASSUME NEW x \in Points, NEW rest \in Seq(Points)
  PROVE  /\ WrittenStrokes(Cons(x, rest)) = WrittenStroke(x) \o WrittenStrokes(rest)
         /\ Painted(Cons(x, rest)) = SegmentsOf(x) \o Painted(rest)
<1>1. Flat(writtenStroke, Cons(x, rest)) = writtenStroke[x] \o Flat(writtenStroke, rest)
  BY StrokeSpelt, FlatCons
<1>2. Flat(segments, Cons(x, rest)) = segments[x] \o Flat(segments, rest)
  BY SegmentsSpelt, FlatCons
<1>3. writtenStroke[x] = WrittenStroke(x) /\ segments[x] = SegmentsOf(x)
  BY DEF writtenStroke, segments
<1>4. QED
  BY <1>1, <1>2, <1>3, Zenon DEF WrittenStrokes, Painted

\* No stroke, and a single one, painted.
LEMMA PaintedFew ==
  /\ Painted(<< >>) = << >>
  /\ \A x \in Points : Painted(<<x>>) = SegmentsOf(x)
<1>1. Painted(<< >>) = << >>
  BY FlatEmpty DEF Painted
<1>2. ASSUME NEW x \in Points PROVE Painted(<<x>>) = SegmentsOf(x)
  <2>1. Flat(segments, <<x>>) = segments[x]
    BY SegmentsSpelt, FlatOne
  <2>2. segments[x] = SegmentsOf(x)
    BY DEF segments
  <2>3. QED
    BY <2>1, <2>2, Zenon DEF Painted
<1>3. QED
  BY <1>1, <1>2

\* Strokes are written as tokens and painted as segments.
LEMMA StrokesTypes ==
  ASSUME NEW strokes \in Seq(Points)
  PROVE  WrittenStrokes(strokes) \in Seq(Token) /\ Painted(strokes) \in Seq(Points)
BY StrokeSpelt, SegmentsSpelt, FlatType DEF WrittenStrokes, Painted

\* Strokes start with a tag.
LEMMA StrokesHead ==
  ASSUME NEW rest \in Seq(Points), rest # << >>
  PROVE  /\ 1 \in 1..Len(WrittenStrokes(rest))
         /\ \E n \in Nat : WrittenStrokes(rest)[1] = T("POINTS", n)
<1>1. PICK x \in Points, u \in Seq(Points) : rest = Cons(x, u)
  BY FirstAndRest
<1>2. PICK a \in Seq(Token) : /\ a = WrittenStroke(x) /\ Len(a) = 2 * Len(x) + 1
                             /\ a[1] = T("POINTS", Len(x))
  BY StrokeTokens
<1>3. PICK b \in Seq(Token) : b = WrittenStrokes(u)
  BY StrokesTypes
<1>4. WrittenStrokes(rest) = a \o b
  BY <1>1, <1>2, <1>3, StrokesSpelt
<1>5. Len(x) \in Nat /\ Len(b) \in Nat
  BY LenProperties DEF Points
<1>6. PICK c : c = a \o b
  OBVIOUS
<1>7. /\ Len(c) = Len(a) + Len(b)
      /\ \A i \in 1..(Len(a) + Len(b)) : c[i] = IF i <= Len(a) THEN a[i] ELSE b[i - Len(a)]
  BY <1>6, ConcatProperties
<1>8. 1 \in 1..Len(c) /\ c[1] = a[1]
  BY <1>2, <1>5, <1>7
<1>9. QED
  BY <1>2, <1>4, <1>6, <1>8

\* What the strokes read from p have to do with those that are written there.
StrokesAsWritten(text, q, p, strokes) ==
  LET r == StrokesFrom(text)[p]
      e == p + Len(WrittenStrokes(strokes))
  IN  /\ e <= q => r.strokes = strokes /\ r.end = e
      /\ q < e => Begins(Painted(r.strokes), Painted(strokes), Points) /\ r.end = q

\* No stroke and no coordinate follows.
Apart(text, q, e) == e <= q => ~Is(text, e, "POINTS") /\ ~Is(text, e, "int")

\* Where no tag is, no stroke is read.
LEMMA NoStrokeRead ==
  ASSUME NEW text \in Seq(Token), NEW p \in 1..(Len(text) + 1), ~Is(text, p, "POINTS")
  PROVE  StrokesFrom(text)[p].strokes = << >> /\ StrokesFrom(text)[p].end = p
<1>1. StrokesFrom(text)[p] = [strokes |-> << >>, end |-> p]
  BY StrokesSteps DEF StrokesBody
<1>2. QED
  BY <1>1

\* Where a tag is, a stroke is read, and those after it unless it is empty.
LEMMA SomeStrokeRead ==
  ASSUME NEW text \in Seq(Token), NEW p \in 1..(Len(text) + 1), Is(text, p, "POINTS")
  PROVE  IF Ints(text, p) = << >>
         THEN /\ StrokesFrom(text)[p].strokes = << << >> >>
              /\ StrokesFrom(text)[p].end = Stop(text, p)
         ELSE /\ StrokesFrom(text)[p].strokes
                   = <<Paired(Ints(text, p))>> \o StrokesFrom(text)[Stop(text, p)].strokes
              /\ StrokesFrom(text)[p].end = StrokesFrom(text)[Stop(text, p)].end
<1>1. StrokesFrom(text)[p] = StrokesBody(text, StrokesFrom(text), p)
  BY StrokesSteps
<1>2. CASE Ints(text, p) = << >>
  <2>1. StrokesFrom(text)[p] = [strokes |-> << << >> >>, end |-> Stop(text, p)]
    BY <1>1, <1>2, Zenon DEF StrokesBody
  <2>2. QED
    BY <1>2, <2>1
<1>3. CASE Ints(text, p) # << >>
  <2> DEFINE a == <<Paired(Ints(text, p))>> \o StrokesFrom(text)[Stop(text, p)].strokes
             e == StrokesFrom(text)[Stop(text, p)].end
  <2>1. StrokesFrom(text)[p] = [strokes |-> a, end |-> e]
    BY <1>1, <1>3, Zenon DEF StrokesBody
  <2>2. StrokesFrom(text)[p].strokes = a /\ StrokesFrom(text)[p].end = e
    <3> HIDE DEF a, e
    <3>1. QED
      BY <2>1
  <2>3. QED
    BY <1>3, <2>2
<1>4. QED
  BY <1>2, <1>3

\* The parser reads strokes as they are written, by induction on their number: all
\* of them, or up to q and nothing that was not to be painted.
LEMMA StrokesRead ==
  ASSUME NEW text \in Seq(Token), NEW q, Foreign(text, q), NEW strokes \in Seq(Inked), NEW p,
         Spelt(text, q, p, WrittenStrokes(strokes)),
         Apart(text, q, p + Len(WrittenStrokes(strokes)))
  PROVE  StrokesAsWritten(text, q, p, strokes)
<1> DEFINE Reads(p0, s) ==
             Spelt(text, q, p0, WrittenStrokes(s)) /\ Apart(text, q, p0 + Len(WrittenStrokes(s)))
               => StrokesAsWritten(text, q, p0, s)
           U == {n \in Nat : \A s \in Seq(Inked) : Len(s) = n => \A p0 : Reads(p0, s)}
<1>0. /\ q \in Nat /\ q <= Len(text) + 1 /\ Len(text) \in Nat
      /\ ~Is(text, q, "POINTS") /\ ~Is(text, q, "int")
  BY LenProperties DEF Foreign, Kinds
<1>1. 0 \in U
  <2> SUFFICES ASSUME NEW s \in Seq(Inked), Len(s) = 0, NEW p0,
                      Spelt(text, q, p0, WrittenStrokes(s)),
                      Apart(text, q, p0 + Len(WrittenStrokes(s)))
               PROVE  StrokesAsWritten(text, q, p0, s)
    OBVIOUS
  <2>1. s = << >>
    OBVIOUS
  <2>2. Len(WrittenStrokes(s)) = 0
    <3>1. WrittenStrokes(s) = << >>
      BY <2>1, FlatEmpty DEF WrittenStrokes
    <3>2. QED
      BY <3>1
  <2>3. p0 \in 1..q
    BY DEF Spelt
  <2>4. p0 \in 1..(Len(text) + 1) /\ p0 + Len(WrittenStrokes(s)) = p0 /\ p0 <= q /\ ~(q < p0)
    BY <1>0, <2>2, <2>3
  <2>5. ~Is(text, p0, "POINTS")
    BY <2>4 DEF Apart
  <2>6. StrokesFrom(text)[p0].strokes = << >> /\ StrokesFrom(text)[p0].end = p0
    BY <2>4, <2>5, NoStrokeRead
  <2>7. QED
    BY <2>1, <2>4, <2>6 DEF StrokesAsWritten
<1>2. \A n \in Nat : n \in U => n + 1 \in U
  <2> SUFFICES ASSUME NEW n \in Nat, n \in U PROVE n + 1 \in U
    <3> HIDE DEF U
    <3>1. QED
      OBVIOUS
  <2> SUFFICES ASSUME NEW s \in Seq(Inked), Len(s) = n + 1, NEW p0 PROVE Reads(p0, s)
    <3> HIDE DEF Reads
    <3>1. QED
      OBVIOUS
  <2> SUFFICES ASSUME Spelt(text, q, p0, WrittenStrokes(s)),
                      Apart(text, q, p0 + Len(WrittenStrokes(s)))
               PROVE  StrokesAsWritten(text, q, p0, s)
    OBVIOUS
  <2>1. PICK x \in Inked, rest \in Seq(Inked) : s = Cons(x, rest) /\ Len(s) = Len(rest) + 1
    <3>1. s # << >>
      OBVIOUS
    <3>2. QED
      BY <3>1, FirstAndRest
  <2>2. Len(rest) = n
    BY <2>1, LenProperties
  <2>3. \A p1 : Reads(p1, rest)
    BY <2>2
  <2>4. x \in Points /\ rest \in Seq(Points)
    BY DEF Inked
  <2>5. PICK a \in Seq(Token) : a = WrittenStroke(x) /\ Len(a) = 2 * Len(x) + 1
    BY <2>4, StrokeTokens
  <2>6. PICK b \in Seq(Token) : b = WrittenStrokes(rest)
    BY <2>4, StrokesTypes
  <2>7. WrittenStrokes(s) = a \o b
    BY <2>1, <2>4, <2>5, <2>6, StrokesSpelt
  <2>8. Len(WrittenStrokes(s)) = Len(a) + Len(b) /\ Len(a) \in Nat \ {0} /\ Len(b) \in Nat
    <3>1. Len(a \o b) = Len(a) + Len(b) /\ Len(a) \in Nat /\ Len(b) \in Nat
      BY ConcatProperties, LenProperties
    <3>2. Len(a) # 0
      BY <2>4, <2>5, LenProperties DEF Points
    <3>3. QED
      BY <2>7, <3>1, <3>2
  <2>9. Spelt(text, q, p0, a) /\ (p0 + Len(a) <= q => Spelt(text, q, p0 + Len(a), b))
    <3>1. Spelt(text, q, p0, a \o b)
      BY <2>7
    <3>2. QED
      BY <1>0, <3>1, SpeltConcat
  <2>10. p0 \in 1..q /\ p0 \in 1..(Len(text) + 1)
    BY <1>0, <2>9 DEF Spelt
  <2>11. Painted(s) = SegmentsOf(x) \o Painted(rest)
    BY <2>1, <2>4, StrokesSpelt
  <2>12. CASE p0 + Len(a) <= q
    <3>1. PICK m : m = p0 + Len(a)
      OBVIOUS
    <3>2. m \in Nat /\ m \in 1..(Len(text) + 1) /\ m + Len(b) = p0 + Len(WrittenStrokes(s))
      BY <1>0, <2>8, <2>10, <2>12, <3>1
    <3>3. Spelt(text, q, m, WrittenStrokes(rest)) /\ Apart(text, q, m + Len(WrittenStrokes(rest)))
      BY <2>6, <2>9, <2>12, <3>1, <3>2
    <3>4. StrokesAsWritten(text, q, m, rest)
      BY <2>3, <3>3
    <3>5. ~Is(text, m, "int")
      <4>1. CASE m = q
        BY <1>0, <4>1
      <4>2. CASE rest = << >>
        <5>1. Len(WrittenStrokes(rest)) = 0
          <6>1. WrittenStrokes(rest) = << >>
            BY <4>2, FlatEmpty DEF WrittenStrokes
          <6>2. QED
            BY <6>1
        <5>2. QED
          BY <1>0, <2>12, <3>1, <3>2, <3>3, <5>1 DEF Apart
      <4>3. CASE m # q /\ rest # << >>
        <5>1. PICK n0 \in Nat : 1 \in 1..Len(b) /\ b[1] = T("POINTS", n0)
          BY <2>4, <2>6, <4>3, StrokesHead
        <5>2. m + 1 - 1 < q /\ m + 1 - 1 = m
          BY <1>0, <2>12, <3>1, <3>2, <4>3
        <5>3. text[m] = T("POINTS", n0)
          BY <2>6, <3>3, <5>1, <5>2 DEF Spelt
        <5>4. QED
          BY <5>3 DEF Is, T
      <4>4. QED
        BY <4>1, <4>2, <4>3
    <3>6. /\ StrokesFrom(text)[p0].strokes = <<x>> \o StrokesFrom(text)[m].strokes
          /\ StrokesFrom(text)[p0].end = StrokesFrom(text)[m].end
      <4>1. /\ Is(text, p0, "POINTS") /\ Stop(text, p0) = m
            /\ Ints(text, p0) # << >> /\ Paired(Ints(text, p0)) = x
        <5> HIDE DEF U, Reads
        <5>1. Spelt(text, q, p0, WrittenStroke(x)) /\ m = p0 + Len(WrittenStroke(x))
          BY <2>5, <2>9, <3>1, Zenon
        <5>2. m <= q
          BY <2>12, <3>1
        <5>3. QED
          BY <3>5, <5>1, <5>2, StrokeRead
      <4>2. QED
        BY <2>10, <4>1, SomeStrokeRead
    <3>7. PICK t : t = StrokesFrom(text)[m].strokes
      OBVIOUS
    <3>8. t \in Seq(Points)
      <4>1. StrokesFrom(text)[m] \in Parsed(m..(Len(text) + 1))
        BY <3>2, StrokesSteps
      <4>2. QED
        BY <3>7, <4>1 DEF Parsed
    <3>9. StrokesFrom(text)[p0].strokes = Cons(x, t)
      BY <3>6, <3>7, Zenon DEF Cons
    <3>10. CASE m + Len(b) <= q
      <4>1. t = rest /\ StrokesFrom(text)[m].end = m + Len(b)
        BY <2>6, <3>4, <3>7, <3>10 DEF StrokesAsWritten
      <4>2. StrokesFrom(text)[p0].strokes = s
        BY <2>1, <3>9, <4>1, Zenon
      <4>3. StrokesFrom(text)[p0].end = m + Len(b)
        BY <3>6, <4>1
      <4>4. ~(q < m + Len(b))
        BY <1>0, <2>8, <3>2, <3>10
      <4>5. QED
        BY <3>2, <4>2, <4>3, <4>4 DEF StrokesAsWritten
    <3>11. CASE ~(m + Len(b) <= q)
      <4>1. q < m + Len(b)
        BY <1>0, <2>8, <3>2, <3>11
      <4>2. Begins(Painted(t), Painted(rest), Points) /\ StrokesFrom(text)[m].end = q
        BY <2>6, <3>4, <3>7, <4>1 DEF StrokesAsWritten
      <4>3. Painted(Cons(x, t)) = SegmentsOf(x) \o Painted(t)
        BY <2>4, <3>8, StrokesSpelt
      <4>4. /\ SegmentsOf(x) \in Seq(Points) /\ Painted(t) \in Seq(Points)
            /\ Painted(rest) \in Seq(Points)
        BY <2>4, <3>8, StrokesTypes, SegmentsType
      <4>5. Begins(SegmentsOf(x) \o Painted(t), SegmentsOf(x) \o Painted(rest), Points)
        BY <4>2, <4>4, BeginsAfter
      <4>6. Begins(Painted(StrokesFrom(text)[p0].strokes), Painted(s), Points)
        BY <2>11, <3>9, <4>3, <4>5, Zenon
      <4>7. QED
        BY <3>2, <3>6, <3>11, <4>2, <4>6 DEF StrokesAsWritten
    <3>12. QED
      BY <3>10, <3>11
  <2>13. CASE ~(p0 + Len(a) <= q)
    <3>1. q < p0 + Len(a) /\ q < p0 + Len(WrittenStrokes(s)) /\ ~(p0 + Len(WrittenStrokes(s)) <= q)
      BY <1>0, <2>8, <2>10, <2>13
    <3>2. SegmentsOf(x) \in Seq(Points) /\ Painted(rest) \in Seq(Points)
          /\ Painted(s) \in Seq(Points)
      <4>1. s \in Seq(Points)
        BY DEF Inked
      <4>2. QED
        BY <2>4, <4>1, StrokesTypes, SegmentsType
    <3>3. CASE p0 = q
      <4>1. StrokesFrom(text)[p0].strokes = << >> /\ StrokesFrom(text)[p0].end = q
        BY <1>0, <2>10, <3>3, NoStrokeRead
      <4>2. Begins(<< >>, Painted(s), Points)
        BY <3>2, EmptyBegins
      <4>3. Begins(Painted(StrokesFrom(text)[p0].strokes), Painted(s), Points)
        BY <4>1, <4>2, PaintedFew, Zenon
      <4>4. QED
        BY <3>1, <4>1, <4>3 DEF StrokesAsWritten
    <3>4. CASE p0 # q
      <4>1. /\ Is(text, p0, "POINTS") /\ Stop(text, p0) = q
            /\ Paired(Ints(text, p0)) \in Points
            /\ Begins(SegmentsOf(Paired(Ints(text, p0))), SegmentsOf(x), Points)
        <5> HIDE DEF U, Reads
        <5>1. Spelt(text, q, p0, WrittenStroke(x)) /\ q < p0 + Len(WrittenStroke(x))
          BY <2>5, <2>9, <3>1, Zenon
        <5>2. QED
          BY <3>4, <5>1, StrokeCut
      <4>2. PICK y \in Points : y = Paired(Ints(text, p0))
        BY <4>1
      <4>3. q \in 1..(Len(text) + 1)
        BY DEF Foreign
      <4>4. StrokesFrom(text)[q].strokes = << >> /\ StrokesFrom(text)[q].end = q
        BY <1>0, <4>3, NoStrokeRead
      <4>5. CASE Ints(text, p0) = << >>
        <5>1. StrokesFrom(text)[p0].strokes = << << >> >> /\ StrokesFrom(text)[p0].end = q
          BY <2>10, <4>1, <4>5, SomeStrokeRead
        <5>2. << >> \in Points /\ SegmentsOf(<< >>) = << >>
          BY EmptySeq DEF Points, SegmentsOf
        <5>3. Painted(<< << >> >>) = << >>
          BY <5>2, PaintedFew, Zenon
        <5>4. Begins(<< >>, Painted(s), Points)
          BY <3>2, EmptyBegins
        <5>5. Begins(Painted(StrokesFrom(text)[p0].strokes), Painted(s), Points)
          BY <5>1, <5>3, <5>4, Zenon
        <5>6. QED
          BY <3>1, <5>1, <5>5 DEF StrokesAsWritten
      <4>6. CASE Ints(text, p0) # << >>
        <5>1. /\ StrokesFrom(text)[p0].strokes = <<y>> \o << >>
              /\ StrokesFrom(text)[p0].end = q
          BY <2>10, <4>1, <4>2, <4>4, <4>6, SomeStrokeRead
        <5>2. <<y>> \o << >> = <<y>>
          OBVIOUS
        <5>3. Painted(<<y>>) = SegmentsOf(y)
          BY PaintedFew
        <5>4. SegmentsOf(y) \in Seq(Points) /\ Begins(SegmentsOf(y), SegmentsOf(x), Points)
          BY <4>1, <4>2, SegmentsType
        <5>5. Begins(SegmentsOf(y), SegmentsOf(x) \o Painted(rest), Points)
          BY <3>2, <5>4, BeginsMore
        <5>6. Begins(Painted(StrokesFrom(text)[p0].strokes), Painted(s), Points)
          BY <2>11, <5>1, <5>2, <5>3, <5>5, Zenon
        <5>7. QED
          BY <3>1, <5>1, <5>6 DEF StrokesAsWritten
      <4>7. QED
        BY <4>5, <4>6
    <3>5. QED
      BY <3>3, <3>4
  <2>14. QED
    BY <2>12, <2>13
<1>3. Nat \subseteq U
  <2> HIDE DEF U
  <2>1. QED
    BY <1>1, <1>2, SetInduction
<1>4. QED
  <2>1. Len(strokes) \in U
    BY <1>3, LenProperties
  <2>2. QED
    BY <2>1

\* Words as the text has them.
WrittenWords(words) == Flat(writtenWord, words)
Header(n) == <<T("comment", 0), T("WORD", 0), T("NUMSTROKES", n)>>

\* A header has three tokens.
LEMMA HeaderType ==
  ASSUME NEW n \in Nat
  PROVE  /\ Header(n) \in Seq(Token) /\ Len(Header(n)) = 3
         /\ Header(n)[1] = T("comment", 0) /\ Header(n)[2] = T("WORD", 0)
         /\ Header(n)[3] = T("NUMSTROKES", n)
<1>1. PICK a \in Token, b \in Token, c \in Token :
        a = T("comment", 0) /\ b = T("WORD", 0) /\ c = T("NUMSTROKES", n)
  BY TokenTypes DEF Kinds
<1>2. PICK h \in Seq(Token) : h = <<a, b, c>> /\ Len(h) = 3 /\ h[1] = a /\ h[2] = b /\ h[3] = c
  <2>1. <<a, b, c>> \in Seq(Token)
    OBVIOUS
  <2>2. QED
    BY <2>1
<1>3. h = Header(n)
  BY <1>1, <1>2, Zenon DEF Header
<1>4. QED
  BY <1>1, <1>2, <1>3

\* The strokes of a word as WrittenWord has them.
LEMMA StrokesAre ==
  ASSUME NEW x \in Seq(Points)
  PROVE  FlattenSeq([k \in DOMAIN x |-> WrittenStroke(x[k])]) = WrittenStrokes(x)
<1>1. \A k \in DOMAIN x : x[k] \in Points
  BY ElementOfSeq, LenProperties
<1>2. \A y \in Points : writtenStroke[y] = WrittenStroke(y)
  BY DEF writtenStroke
<1>3. [k \in DOMAIN x |-> WrittenStroke(x[k])] = Image(writtenStroke, x)
  BY <1>1, <1>2 DEF Image
<1>4. QED
  BY <1>3, Zenon DEF Flat, WrittenStrokes

\* A word is written as a header and its strokes.
LEMMA WordIs ==
  ASSUME NEW w \in Seq(Points)
  PROVE  /\ WrittenWord(w) = Header(Len(w)) \o WrittenStrokes(w)
         /\ WrittenWord(w) \in Seq(Token)
         /\ Len(WrittenWord(w)) = 3 + Len(WrittenStrokes(w))
         /\ WrittenWord(w)[1] = T("comment", 0)
<1>1. WrittenWord(w) = Header(Len(w)) \o WrittenStrokes(w)
  BY StrokesAre, Zenon DEF WrittenWord, Header
<1>2. PICK h \in Seq(Token) : h = Header(Len(w)) /\ Len(h) = 3 /\ h[1] = T("comment", 0)
  BY HeaderType, LenProperties
<1>3. PICK s \in Seq(Token) : s = WrittenStrokes(w)
  BY StrokesTypes
<1>4. PICK u : u = h \o s
  OBVIOUS
<1>5. /\ u \in Seq(Token) /\ Len(u) = Len(h) + Len(s)
      /\ \A i \in 1..(Len(h) + Len(s)) : u[i] = IF i <= Len(h) THEN h[i] ELSE s[i - Len(h)]
  BY <1>4, ConcatProperties
<1>6. Len(u) = 3 + Len(s) /\ u[1] = T("comment", 0)
  BY <1>2, <1>5, LenProperties
<1>7. QED
  BY <1>1, <1>2, <1>3, <1>4, <1>5, <1>6, Zenon

\* A word is written as tokens.
LEMMA WordSpelt == Spells(writtenWord, Seq(Points), Token)
BY WordIs DEF Spells, writtenWord

\* The first word of several.
LEMMA WordsSpelt ==
  ASSUME NEW w \in Seq(Points), NEW rest \in Seq(Seq(Points))
  PROVE  WrittenWords(Cons(w, rest)) = WrittenWord(w) \o WrittenWords(rest)
<1>1. Flat(writtenWord, Cons(w, rest)) = writtenWord[w] \o Flat(writtenWord, rest)
  <2>1. PICK S : S = Seq(Points)
    OBVIOUS
  <2>2. Spells(writtenWord, S, Token) /\ w \in S /\ rest \in Seq(S)
    BY <2>1, WordSpelt
  <2>3. QED
    BY <2>2, FlatCons
<1>2. writtenWord[w] = WrittenWord(w)
  BY DEF writtenWord
<1>3. QED
  BY <1>1, <1>2, Zenon DEF WrittenWords

\* Words are written as tokens.
LEMMA WordsType ==
  ASSUME NEW words \in Seq(Seq(Points))
  PROVE  WrittenWords(words) \in Seq(Token)
BY WordSpelt, FlatType DEF WrittenWords

\* Words start with a comment.
LEMMA WordsHead ==
  ASSUME NEW rest \in Seq(Seq(Points)), rest # << >>
  PROVE  1 \in 1..Len(WrittenWords(rest)) /\ WrittenWords(rest)[1] = T("comment", 0)
<1>1. PICK w \in Seq(Points), u \in Seq(Seq(Points)) : rest = Cons(w, u)
  BY FirstAndRest
<1>2. PICK a \in Seq(Token) : /\ a = WrittenWord(w) /\ Len(a) = 3 + Len(WrittenStrokes(w))
                             /\ a[1] = T("comment", 0)
  BY WordIs
<1>3. PICK b \in Seq(Token) : b = WrittenWords(u)
  BY WordsType
<1>4. WrittenWords(rest) = a \o b
  BY <1>1, <1>2, <1>3, WordsSpelt
<1>5. Len(WrittenStrokes(w)) \in Nat /\ Len(b) \in Nat
  <2>1. WrittenStrokes(w) \in Seq(Token)
    BY StrokesTypes
  <2>2. QED
    BY <2>1, LenProperties
<1>6. PICK c : c = a \o b
  OBVIOUS
<1>7. /\ Len(c) = Len(a) + Len(b)
      /\ \A i \in 1..(Len(a) + Len(b)) : c[i] = IF i <= Len(a) THEN a[i] ELSE b[i - Len(a)]
  BY <1>6, ConcatProperties
<1>8. 1 \in 1..Len(c) /\ c[1] = a[1]
  BY <1>2, <1>5, <1>7
<1>9. QED
  BY <1>2, <1>4, <1>6, <1>8

\* Words as Written has them.
LEMMA WrittenIs ==
  ASSUME NEW words \in Seq(Seq(Points))
  PROVE  Written(words) = WrittenWords(words)
<1>1. \A k \in DOMAIN words : words[k] \in Seq(Points)
  BY ElementOfSeq, LenProperties
<1>2. \A y \in Seq(Points) : writtenWord[y] = WrittenWord(y)
  BY DEF writtenWord
<1>3. [k \in DOMAIN words |-> WrittenWord(words[k])] = Image(writtenWord, words)
  BY <1>1, <1>2 DEF Image
<1>4. QED
  BY <1>3, Zenon DEF Written, Flat, WrittenWords

\* What is painted of several words.
LEMMA DrawingIs ==
  ASSUME NEW words \in Seq(Seq(Points))
  PROVE  Drawing(words) = Painted(FlattenSeq(words)) /\ Drawing(words) \in Seq(Points)
<1>1. PICK s \in Seq(Points) : s = FlattenSeq(words)
  BY FlattenType
<1>2. [k \in DOMAIN s |-> SegmentsOf(s[k])] = Image(segments, s)
  <2>1. \A k \in DOMAIN s : s[k] \in Points
    BY ElementOfSeq, LenProperties
  <2>2. \A y \in Points : segments[y] = SegmentsOf(y)
    BY DEF segments
  <2>3. QED
    BY <2>1, <2>2 DEF Image
<1>3. FlattenSeq([k \in DOMAIN s |-> SegmentsOf(s[k])]) = Painted(s)
  BY <1>2, Zenon DEF Flat, Painted
<1>4. Drawing(words) = FlattenSeq([k \in DOMAIN s |-> SegmentsOf(s[k])])
  BY <1>1, Zenon DEF Drawing
<1>5. Painted(s) \in Seq(Points)
  BY StrokesTypes
<1>6. QED
  BY <1>1, <1>3, <1>4, <1>5, Zenon

\* The first word is painted first.
LEMMA DrawingFirst ==
  ASSUME NEW w \in Seq(Points), NEW rest \in Seq(Seq(Points))
  PROVE  Drawing(Cons(w, rest)) = Painted(w) \o Drawing(rest)
<1>1. PICK o \in Seq(Seq(Points)) : o = <<w>>
  <2>1. <<w>> \in Seq(Seq(Points))
    OBVIOUS
  <2>2. QED
    BY <2>1
<1>2. PICK s \in Seq(Points) : s = FlattenSeq(rest)
  BY FlattenType
<1>3. FlattenSeq(o) = w
  <2>1. << >> \in Seq(Seq(Points)) /\ o = Append(<< >>, w)
    BY <1>1, EmptySeq
  <2>2. FlattenSeq(Append(<< >>, w)) = FlattenSeq(<< >>) \o w
    BY <2>1, FlattenAppend
  <2>3. << >> \o w = w
    BY ConcatEmptySeq
  <2>4. QED
    BY <2>1, <2>2, <2>3, FlattenEmpty, Zenon
<1>4. FlattenSeq(o \o rest) = w \o s
  <2>1. FlattenSeq(o \o rest) = FlattenSeq(o) \o FlattenSeq(rest)
    BY FlattenConcat
  <2>2. QED
    BY <1>2, <1>3, <2>1, Zenon
<1>5. Painted(w \o s) = Painted(w) \o Painted(s)
  <2>1. Flat(segments, w \o s) = Flat(segments, w) \o Flat(segments, s)
    BY SegmentsSpelt, FlatConcat
  <2>2. QED
    BY <2>1, Zenon DEF Painted
<1>6. PICK all \in Seq(Seq(Points)) : all = o \o rest
  BY ConcatProperties
<1>7. Drawing(all) = Painted(FlattenSeq(all)) /\ Drawing(rest) = Painted(FlattenSeq(rest))
  BY DrawingIs
<1>8. QED
  BY <1>1, <1>2, <1>4, <1>5, <1>6, <1>7, Zenon DEF Cons

\* Without a word nothing is painted.
LEMMA DrawingEmpty == Drawing(<< >>) = << >>
<1>1. << >> \in Seq(Seq(Points))
  BY EmptySeq
<1>2. Drawing(<< >>) = Painted(FlattenSeq(<< >>))
  BY <1>1, DrawingIs
<1>3. QED
  BY <1>2, FlattenEmpty, PaintedFew, Zenon

-----------------------------------------------------------------------------
(* Reading words back.                                                     *)

\* Where no header is, no word is read.
LEMMA NoWordRead ==
  ASSUME NEW text \in Seq(Token), NEW p \in 1..(Len(text) + 1), ~Headed(text, p)
  PROVE  WordsFrom(text)[p] = << >>
BY WordsSteps DEF WordsBody

\* There is no header at q.
LEMMA NoHeaderAt ==
  ASSUME NEW text \in Seq(Token), NEW q, Foreign(text, q)
  PROVE  ~Headed(text, q)
<1>1. /\ q \in 1..(Len(text) + 1) /\ ~Is(text, q, "comment") /\ ~Is(text, q, "WORD")
  BY DEF Foreign, Kinds
<1>2. Len(text) \in Nat /\ DOMAIN text = 1..Len(text)
  BY LenProperties
<1>3. Start(text, q) = q
  BY <1>1, <1>2, RunEndSteps DEF Start
<1>4. QED
  BY <1>1, <1>3 DEF Headed

\* A header is found if it is there to its end, and not if q cuts it off.
LEMMA HeaderRead ==
  ASSUME NEW text \in Seq(Token), NEW q, Foreign(text, q), NEW n \in Nat, NEW p,
         Spelt(text, q, p, Header(n))
  PROVE  IF p + 3 <= q THEN Headed(text, p) /\ Start(text, p) = p + 1 ELSE ~Headed(text, p)
<1>1. /\ q \in Nat /\ q <= Len(text) + 1 /\ Len(text) \in Nat /\ DOMAIN text = 1..Len(text)
      /\ p \in 1..q /\ p \in Nat
  BY LenProperties DEF Foreign, Spelt
<1>2. ~Is(text, q, "comment") /\ ~Is(text, q, "WORD") /\ ~Is(text, q, "NUMSTROKES")
  BY DEF Foreign, Kinds
<1>3. PICK a \in Token, b \in Token, c \in Token :
        a = T("comment", 0) /\ b = T("WORD", 0) /\ c = T("NUMSTROKES", n)
  BY TokenTypes DEF Kinds
<1>4. a.kind = "comment" /\ b.kind = "WORD" /\ c.kind = "NUMSTROKES"
  BY <1>3 DEF T
<1>5. /\ p < q => text[p] = a
      /\ p + 1 < q => text[p + 1] = b
      /\ p + 2 < q => text[p + 2] = c
  <2>1. PICK h \in Seq(Token) : /\ h = Header(n) /\ Len(h) = 3
                                /\ h[1] = a /\ h[2] = b /\ h[3] = c
    BY <1>3, HeaderType
  <2>3. \A k \in 1..3 : p + k - 1 < q => text[p + k - 1] = h[k]
    BY <2>1 DEF Spelt
  <2>4. QED
    BY <1>1, <2>1, <2>3
<1>6. \A k \in 1..(q - 1) : Parses(text[k])
  BY DEF Spelt
<1>7. CASE p = q
  <2>1. ~Headed(text, p)
    BY <1>7, NoHeaderAt
  <2>2. QED
    BY <1>1, <1>7, <2>1
<1>8. CASE p + 1 = q
  <2>1. Is(text, p, "comment")
    BY <1>1, <1>4, <1>5, <1>8, <1>6 DEF Is
  <2>2. Start(text, p) = q
    <3>1. q \in 1..(Len(text) + 1) /\ \A j \in p..(q - 1) : Is(text, j, "comment")
      BY <1>1, <1>8, <2>1
    <3>2. QED
      BY <1>1, <1>2, <3>1, RunEnds DEF Start
  <2>3. ~Headed(text, p)
    BY <1>2, <2>2 DEF Headed
  <2>4. QED
    BY <1>1, <1>8, <2>3
<1>9. CASE p + 1 < q
  <2>1. Is(text, p, "comment") /\ ~Is(text, p + 1, "comment") /\ Is(text, p + 1, "WORD")
    BY <1>1, <1>4, <1>5, <1>9, <1>6 DEF Is
  <2>2. Start(text, p) = p + 1
    <3>1. PICK e : e = p + 1
      OBVIOUS
    <3>2. /\ e \in 1..(Len(text) + 1) /\ p \in 1..e /\ ~Is(text, e, "comment")
          /\ \A j \in p..(e - 1) : Is(text, j, "comment")
      BY <1>1, <1>9, <2>1, <3>1
    <3>3. QED
      BY <3>1, <3>2, RunEnds DEF Start
  <2>3. Headed(text, p) <=> Is(text, p + 2, "NUMSTROKES")
    <3>1. p + 1 + 1 = p + 2
      BY <1>1
    <3>2. QED
      BY <2>1, <2>2, <3>1 DEF Headed
  <2>4. Is(text, p + 2, "NUMSTROKES") <=> p + 2 < q
    <3>1. CASE p + 2 < q
      BY <1>1, <1>4, <1>5, <1>6, <3>1 DEF Is
    <3>2. CASE p + 2 = q
      BY <1>1, <1>2, <3>2
    <3>3. QED
      BY <1>1, <1>9, <3>1, <3>2
  <2>5. QED
    BY <1>1, <2>2, <2>3, <2>4
<1>10. QED
  BY <1>1, <1>7, <1>8, <1>9

\* What the words read from p have to do with those that are written there.
WordsAsWritten(text, q, p, words) ==
  LET r == WordsFrom(text)[p]
      e == p + Len(WrittenWords(words))
  IN  /\ r \in Seq(Seq(Points))
      /\ e = q => r = words
      /\ Begins(Drawing(r), Drawing(words), Points)

\* The parser reads words as they are written, by induction on their number: all of
\* them, or words whose drawing is the beginning of what was to be drawn.
LEMMA WordsRead ==
  ASSUME NEW text \in Seq(Token), NEW q, Foreign(text, q), NEW words \in Seq(Seq(Inked)), NEW p,
         Spelt(text, q, p, WrittenWords(words)), q <= p + Len(WrittenWords(words))
  PROVE  WordsAsWritten(text, q, p, words)
<1> DEFINE Reads(p0, s) ==
             Spelt(text, q, p0, WrittenWords(s)) /\ q <= p0 + Len(WrittenWords(s))
               => WordsAsWritten(text, q, p0, s)
           U == {n \in Nat : \A s \in Seq(Seq(Inked)) : Len(s) = n => \A p0 : Reads(p0, s)}
<1>0. q \in Nat /\ q \in 1..(Len(text) + 1) /\ Len(text) \in Nat /\ WordsFrom(text)[q] = << >>
  <2>1. q \in 1..(Len(text) + 1) /\ Len(text) \in Nat
    BY LenProperties DEF Foreign
  <2>2. WordsFrom(text)[q] = << >>
    BY <2>1, NoHeaderAt, NoWordRead
  <2>3. QED
    BY <2>1, <2>2
<1>1. 0 \in U
  <2> SUFFICES ASSUME NEW s \in Seq(Seq(Inked)), Len(s) = 0, NEW p0,
                      Spelt(text, q, p0, WrittenWords(s)), q <= p0 + Len(WrittenWords(s))
               PROVE  WordsAsWritten(text, q, p0, s)
    OBVIOUS
  <2>1. s = << >>
    OBVIOUS
  <2>2. Len(WrittenWords(s)) = 0
    <3>1. WrittenWords(s) = << >>
      BY <2>1, FlatEmpty DEF WrittenWords
    <3>2. QED
      BY <3>1
  <2>3. p0 = q
    BY <1>0, <2>2 DEF Spelt
  <2>4. WordsFrom(text)[p0] = s /\ s \in Seq(Seq(Points))
    BY <1>0, <2>1, <2>3, EmptySeq
  <2>5. Begins(Drawing(s), Drawing(s), Points)
    BY <2>4, DrawingIs, BeginsItself
  <2>6. QED
    BY <2>4, <2>5 DEF WordsAsWritten
<1>2. \A n \in Nat : n \in U => n + 1 \in U
  <2> SUFFICES ASSUME NEW n \in Nat, n \in U PROVE n + 1 \in U
    <3> HIDE DEF U
    <3>1. QED
      OBVIOUS
  <2> SUFFICES ASSUME NEW s \in Seq(Seq(Inked)), Len(s) = n + 1, NEW p0 PROVE Reads(p0, s)
    <3> HIDE DEF Reads
    <3>1. QED
      OBVIOUS
  <2> SUFFICES ASSUME Spelt(text, q, p0, WrittenWords(s)), q <= p0 + Len(WrittenWords(s))
               PROVE  WordsAsWritten(text, q, p0, s)
    OBVIOUS
  <2>1. PICK w \in Seq(Inked), rest \in Seq(Seq(Inked)) : s = Cons(w, rest) /\ Len(s) = Len(rest) + 1
    <3>1. s # << >>
      OBVIOUS
    <3>2. QED
      BY <3>1, FirstAndRest
  <2>2. Len(rest) = n
    BY <2>1, LenProperties
  <2>3. \A p1 : Reads(p1, rest)
    BY <2>2
  <2> HIDE DEF U
  <2>4. w \in Seq(Points) /\ rest \in Seq(Seq(Points)) /\ s \in Seq(Seq(Points))
    <3>1. Seq(Inked) \subseteq Seq(Points)
      BY DEF Inked
    <3>2. Seq(Seq(Inked)) \subseteq Seq(Seq(Points))
      BY <3>1, SeqMonotonic
    <3>3. QED
      BY <3>1, <3>2
  <2>5. PICK k \in Seq(Token) : k = WrittenStrokes(w)
    BY <2>4, StrokesTypes
  <2>6. PICK a \in Seq(Token) : a = WrittenWord(w) /\ Len(a) = 3 + Len(k) /\ a = Header(Len(w)) \o k
    BY <2>4, <2>5, WordIs
  <2>7. PICK b \in Seq(Token) : b = WrittenWords(rest)
    BY <2>4, WordsType
  <2>8. WrittenWords(s) = a \o b
    BY <2>1, <2>4, <2>6, <2>7, WordsSpelt
  <2>9. /\ Len(WrittenWords(s)) = Len(a) + Len(b)
        /\ Len(a) \in Nat /\ Len(b) \in Nat /\ Len(k) \in Nat
    <3>1. Len(a \o b) = Len(a) + Len(b) /\ Len(a) \in Nat /\ Len(b) \in Nat /\ Len(k) \in Nat
      BY ConcatProperties, LenProperties
    <3>2. QED
      BY <2>8, <3>1
  <2>10. Spelt(text, q, p0, a) /\ (p0 + Len(a) <= q => Spelt(text, q, p0 + Len(a), b))
    <3>1. Spelt(text, q, p0, a \o b)
      BY <2>8
    <3>2. QED
      BY <1>0, <3>1, SpeltConcat
  <2>11. p0 \in 1..q /\ p0 \in 1..(Len(text) + 1) /\ p0 \in Nat
    BY <1>0, <2>10 DEF Spelt
  <2>12. /\ Spelt(text, q, p0, Header(Len(w))) /\ Len(w) \in Nat
         /\ p0 + 3 <= q => Spelt(text, q, p0 + 3, k)
    <3>1. PICK h \in Seq(Token) : h = Header(Len(w)) /\ Len(h) = 3 /\ Len(w) \in Nat
      BY <2>4, HeaderType, LenProperties
    <3>2. Spelt(text, q, p0, h \o k)
      BY <2>6, <2>10, <3>1
    <3>3. Spelt(text, q, p0, h) /\ (p0 + Len(h) <= q => Spelt(text, q, p0 + Len(h), k))
      BY <1>0, <3>2, SpeltConcat
    <3>4. QED
      BY <3>1, <3>3
  <2>13. Drawing(s) = Painted(w) \o Drawing(rest)
    BY <2>1, <2>4, DrawingFirst
  <2>14. Painted(w) \in Seq(Points) /\ Drawing(rest) \in Seq(Points) /\ Drawing(s) \in Seq(Points)
    BY <2>4, StrokesTypes, DrawingIs
  <2>15. CASE ~(p0 + 3 <= q)
    <3>1. ~Headed(text, p0)
      BY <2>12, <2>15, HeaderRead
    <3>2. WordsFrom(text)[p0] = << >>
      BY <2>11, <3>1, NoWordRead
    <3>3. Begins(Drawing(<< >>), Drawing(s), Points)
      BY <2>14, DrawingEmpty, EmptyBegins
    <3>4. p0 + Len(WrittenWords(s)) # q /\ << >> \in Seq(Seq(Points))
      BY <1>0, <2>6, <2>9, <2>11, <2>15, EmptySeq
    <3>5. QED
      BY <3>2, <3>3, <3>4 DEF WordsAsWritten
  <2>16. CASE p0 + 3 <= q
    <3>1. Headed(text, p0) /\ Start(text, p0) = p0 + 1
      BY <2>12, <2>16, HeaderRead
    <3>2. PICK i : i = p0 + 3
      OBVIOUS
    <3>3. PICK m : m = p0 + Len(a)
      OBVIOUS
    <3>4. /\ i \in 1..(Len(text) + 1) /\ i \in 1..q /\ m \in Nat /\ m = i + Len(k)
          /\ p0 + 1 + 2 = i
          /\ m + Len(b) = p0 + Len(WrittenWords(s))
      <4>1. Len(a) = 3 + Len(k)
        BY <2>6
      <4>2. p0 \in Nat /\ q \in Nat /\ q <= Len(text) + 1 /\ Len(text) \in Nat
        BY <1>0, <2>11
      <4>3. Len(a) \in Nat /\ Len(b) \in Nat /\ Len(k) \in Nat
        BY <2>9
      <4>4. m + Len(b) = p0 + Len(WrittenWords(s))
        BY <2>9, <3>3, <4>2
      <4>5. m \in Nat /\ m = i + Len(k) /\ p0 + 1 + 2 = i
        BY <3>2, <3>3, <4>1, <4>2, <4>3
      <4>6. i \in 1..(Len(text) + 1) /\ i \in 1..q
        BY <2>16, <3>2, <4>2
      <4>7. QED
        BY <4>4, <4>5, <4>6
    <3>5. Strokes(text, p0) = StrokesFrom(text)[i]
      BY <3>1, <3>4 DEF Strokes
    <3>6. Apart(text, q, m)
      <4>1. CASE m = q
        BY <4>1 DEF Apart, Foreign, Kinds
      <4>2. CASE q < m
        BY <1>0, <3>4, <4>2 DEF Apart
      <4>3. CASE m < q
        <5>1. rest # << >>
          <6>1. ASSUME rest = << >> PROVE FALSE
            <7>1. b = << >>
              BY <2>7, <6>1, FlatEmpty DEF WrittenWords
            <7>2. Len(b) = 0
              BY <7>1
            <7>3. m \in Nat /\ m + Len(b) = p0 + Len(WrittenWords(s))
              BY <3>4
            <7>4. q <= m
              BY <7>2, <7>3
            <7>5. q \in Nat
              BY <1>0
            <7>6. QED
              BY <4>3, <7>3, <7>4, <7>5
          <6>2. QED
            BY <6>1
        <5>2. 1 \in 1..Len(b) /\ b[1] = T("comment", 0)
          BY <2>4, <2>7, <5>1, WordsHead
        <5>3. m + 1 - 1 < q /\ m + 1 - 1 = m /\ m <= q
          BY <1>0, <3>4, <4>3
        <5>4. text[m] = T("comment", 0)
          BY <2>10, <3>3, <5>2, <5>3 DEF Spelt
        <5>5. QED
          BY <5>4 DEF Apart, Is, T
      <4>4. QED
        BY <1>0, <3>4, <4>1, <4>2, <4>3
    <3>7. StrokesAsWritten(text, q, i, w)
      <4>1. Spelt(text, q, i, WrittenStrokes(w)) /\ Apart(text, q, i + Len(WrittenStrokes(w)))
        BY <2>5, <2>12, <2>16, <3>2, <3>4, <3>6
      <4>2. QED
        BY <4>1, StrokesRead
    <3>8. PICK r : r = StrokesFrom(text)[i].strokes
      OBVIOUS
    <3>9. r \in Seq(Points)
      <4>1. StrokesFrom(text)[i] \in Parsed(i..(Len(text) + 1))
        BY <3>4, StrokesSteps
      <4>2. QED
        BY <3>8, <4>1 DEF Parsed
    <3>10. WordsFrom(text)[p0] = Cons(r, WordsFrom(text)[StrokesFrom(text)[i].end])
      <4>1. WordsFrom(text)[p0] = WordsBody(text, WordsFrom(text), p0)
        BY <2>11, WordsSteps
      <4>2. QED
        BY <3>1, <3>5, <3>8, <4>1, Zenon DEF WordsBody, Cons
    <3>11. CASE m <= q
      <4>1. r = w /\ StrokesFrom(text)[i].end = m
        BY <2>5, <3>4, <3>7, <3>8, <3>11 DEF StrokesAsWritten
      <4>2. PICK t : t = WordsFrom(text)[m]
        OBVIOUS
      <4>3. WordsAsWritten(text, q, m, rest)
        <5>1. Spelt(text, q, m, WrittenWords(rest)) /\ q <= m + Len(WrittenWords(rest))
          BY <2>7, <2>10, <3>3, <3>4, <3>11
        <5>2. QED
          BY <2>3, <5>1
      <4>4. WordsFrom(text)[p0] = Cons(w, t)
        BY <3>10, <4>1, <4>2, Zenon
      <4>5. /\ t \in Seq(Seq(Points)) /\ Begins(Drawing(t), Drawing(rest), Points)
            /\ m + Len(b) = q => t = rest
        BY <2>7, <4>2, <4>3 DEF WordsAsWritten
      <4>6. Cons(w, t) \in Seq(Seq(Points))
        BY <2>4, <4>5, ConsType
      <4>7. m + Len(b) = q => Cons(w, t) = s
        BY <2>1, <4>5, Zenon
      <4>8. Drawing(Cons(w, t)) = Painted(w) \o Drawing(t) /\ Drawing(t) \in Seq(Points)
        BY <2>4, <4>5, DrawingFirst, DrawingIs
      <4>9. Begins(Painted(w) \o Drawing(t), Painted(w) \o Drawing(rest), Points)
        BY <2>14, <4>5, <4>8, BeginsAfter
      <4>10. Begins(Drawing(Cons(w, t)), Drawing(s), Points)
        BY <2>13, <4>8, <4>9, Zenon
      <4>11. QED
        BY <3>4, <4>4, <4>6, <4>7, <4>10 DEF WordsAsWritten
    <3>12. CASE ~(m <= q)
      <4>1. /\ StrokesFrom(text)[i].end = q /\ Begins(Painted(r), Painted(w), Points)
            /\ q # p0 + Len(WrittenWords(s))
        <5>1. q < m /\ q # p0 + Len(WrittenWords(s))
          <6>1. m \in Nat /\ q \in Nat /\ Len(b) \in Nat /\ q < m
            <7>1. m \in Nat
              BY <3>4
            <7>2. q \in Nat
              BY <1>0
            <7>3. Len(b) \in Nat
              BY <2>9
            <7>4. QED
              BY <3>12, <7>1, <7>2, <7>3
          <6>2. q # m + Len(b)
            BY <6>1
          <6>3. QED
            BY <3>4, <6>1, <6>2
        <5>2. q < i + Len(WrittenStrokes(w))
          BY <2>5, <3>4, <5>1
        <5>3. QED
          BY <3>7, <3>8, <5>1, <5>2 DEF StrokesAsWritten
      <4>2. WordsFrom(text)[p0] = Cons(r, << >>)
        BY <1>0, <3>10, <4>1, Zenon
      <4>3. << >> \in Seq(Seq(Points)) /\ Cons(r, << >>) \in Seq(Seq(Points))
        <5>1. << >> \in Seq(Seq(Points))
          BY EmptySeq
        <5>2. QED
          BY <3>9, <5>1, ConsType
      <4>4. Drawing(Cons(r, << >>)) = Painted(r) \o << >>
        BY <3>9, <4>3, DrawingFirst, DrawingEmpty
      <4>5. Painted(r) \in Seq(Points)
        BY <3>9, StrokesTypes
      <4>6. Painted(r) \o << >> = Painted(r)
        BY <4>5, ConcatEmptySeq
      <4>7. Begins(Painted(r), Painted(w) \o Drawing(rest), Points)
        BY <2>14, <4>1, <4>5, BeginsMore
      <4>8. Begins(Drawing(Cons(r, << >>)), Drawing(s), Points)
        BY <2>13, <4>4, <4>6, <4>7, Zenon
      <4>9. QED
        BY <4>1, <4>2, <4>3, <4>8 DEF WordsAsWritten
    <3>13. QED
      BY <3>11, <3>12
  <2>17. QED
    BY <2>15, <2>16
<1>3. Nat \subseteq U
  <2> HIDE DEF U
  <2>1. QED
    BY <1>1, <1>2, SetInduction
<1>4. QED
  <2>1. Len(words) \in U
    BY <1>3, LenProperties
  <2>2. QED
    BY <2>1

\* What can be written so that it can be read back.
Wordings == Seq(Seq(Inked))

\* Words with points are words.
LEMMA WordingsType == Wordings \subseteq Seq(Seq(Points))
<1>1. Inked \subseteq Points
  BY DEF Inked
<1>2. Seq(Inked) \subseteq Seq(Points)
  BY <1>1, SeqMonotonic
<1>3. QED
  BY <1>2, SeqMonotonic DEF Wordings

\* The parser reads a text that is what was written as far as its first n tokens go,
\* and ends there or goes on with a token that does not parse: it reads words whose
\* drawing is a beginning of the written one, and all of them if the text is whole
\* and every number fits its type (unipen/mod.rs:30, 39, 52, 60, 76).
THEOREM ReadAsFarAsItParses ==
  ASSUME NEW words \in Wordings, NEW text \in Seq(Token),
         NEW n \in 0..Len(Written(words)), n <= Len(text),
         \A k \in 1..n : text[k] = Written(words)[k],
         n < Len(text) => ~Parses(text[n + 1])
  PROVE  /\ WordsIn(text) \in Seq(Seq(Points))
         /\ Begins(Drawing(WordsIn(text)), Drawing(words), Points)
         /\ n = Len(Written(words)) /\ AllParses(text) => WordsIn(text) = words
<1>1. words \in Seq(Seq(Points)) /\ words \in Seq(Seq(Inked))
  BY WordingsType DEF Wordings
<1>2. PICK w \in Seq(Token) : w = WrittenWords(words)
  BY <1>1, WordsType
<1>3. Written(words) = w
  BY <1>1, <1>2, WrittenIs
<1>4. n \in Nat /\ n <= Len(w) /\ Len(w) \in Nat /\ Len(text) \in Nat /\ DOMAIN text = 1..Len(text)
  BY <1>3, LenProperties
<1>5. PICK q \in 1..(n + 1) : /\ q = n + 1 \/ ~Parses(text[q])
                              /\ \A k \in 1..(q - 1) : Parses(text[k])
  <2> DEFINE Faults == {k \in 1..(n + 1) : k = n + 1 \/ ~Parses(text[k])}
  <2>1. Faults \in SUBSET Nat /\ n + 1 \in Faults
    BY <1>4
  <2>2. PICK q \in Faults : \A k \in Faults : q <= k
    <3> HIDE DEF Faults
    <3>1. QED
      BY <2>1, LeastNumber
  <2>3. \A k \in 1..(q - 1) : Parses(text[k])
    <3> SUFFICES ASSUME NEW k \in 1..(q - 1), ~Parses(text[k]) PROVE FALSE
      OBVIOUS
    <3>1. k \in Faults /\ ~(q <= k)
      BY <1>4, <2>2
    <3>2. QED
      BY <2>2, <3>1
  <2>4. QED
    BY <2>2, <2>3
<1>6. q \in Nat /\ q \in 1..(Len(text) + 1) /\ q <= 1 + Len(w) /\ q <= n + 1
  BY <1>4
<1>7. Foreign(text, q)
  <2>1. q \in DOMAIN text => ~Parses(text[q])
    BY <1>4, <1>5, <1>6
  <2>2. QED
    BY <1>6, <2>1 DEF Foreign, Is
<1>8. Spelt(text, q, 1, WrittenWords(words))
  <2>1. ASSUME NEW k \in 1..Len(w), 1 + k - 1 < q PROVE text[1 + k - 1] = w[k]
    <3>1. k \in 1..n /\ 1 + k - 1 = k
      BY <1>4, <1>6, <2>1
    <3>2. QED
      BY <1>3, <3>1
  <2>2. QED
    BY <1>2, <1>5, <1>6, <2>1 DEF Spelt
<1>9. WordsAsWritten(text, q, 1, words)
  BY <1>1, <1>2, <1>6, <1>7, <1>8, WordsRead
<1>10. ASSUME n = Len(w), AllParses(text) PROVE WordsIn(text) = words
  <2>1. q \in 1..n => Parses(text[q])
    BY <1>4, <1>10 DEF AllParses
  <2>2. q = 1 + Len(w)
    BY <1>4, <1>5, <1>6, <1>10, <2>1
  <2>3. QED
    BY <1>2, <1>9, <2>2 DEF WordsAsWritten, WordsIn
<1>11. QED
  BY <1>3, <1>9, <1>10 DEF WordsAsWritten, WordsIn

\* The parser reads back what is written, if every number fits its type, and draws
\* a beginning of it if not: words (unipen/mod.rs:76).
THEOREM WrittenIsReadBack ==
  ASSUME NEW words \in Wordings
  PROVE  /\ WordsIn(Written(words)) \in Seq(Seq(Points))
         /\ Begins(Drawing(WordsIn(Written(words))), Drawing(words), Points)
         /\ AllParses(Written(words)) => WordsIn(Written(words)) = words
<1>1. PICK text : text = Written(words)
  OBVIOUS
<1>2. text \in Seq(Token)
  BY <1>1, WordingsType, WrittenIs, WordsType
<1>3. Len(text) \in 0..Len(text) /\ ~(Len(text) < Len(text))
  BY <1>2, LenProperties
<1>4. QED
  BY <1>1, <1>2, <1>3, ReadAsFarAsItParses

\* Of a damaged text the parser reads words whose drawing is a beginning of the
\* written one: it stops no later than at the damage (unipen/mod.rs:77).
THEOREM DamagedIsReadInPart ==
  ASSUME NEW words \in Wordings, NEW n \in 0..Len(Written(words))
  PROVE  /\ WordsIn(Damaged(Written(words), n)) \in Seq(Seq(Points))
         /\ Begins(Drawing(WordsIn(Damaged(Written(words), n))), Drawing(words), Points)
         /\ ~AllParses(Damaged(Written(words), n))
<1>1. words \in Seq(Seq(Points)) /\ words \in Seq(Seq(Inked))
  BY WordingsType DEF Wordings
<1>2. PICK w \in Seq(Token) : w = WrittenWords(words)
  BY <1>1, WordsType
<1>3. Written(words) = w
  BY <1>1, <1>2, WrittenIs
<1>4. n \in 0..Len(w) /\ Len(w) \in Nat /\ n \in Nat /\ n + 1 - 1 = n
  BY <1>3, LenProperties
<1>5. PICK j \in Token : j = T("junk", 0)
  BY TokenTypes DEF Kinds
<1>6. PICK u \in Seq(Token) : /\ u = SubSeq(w, 1, n) /\ Len(u) = n
                              /\ \A k \in 1..n : u[k] = w[k]
  <2>1. SubSeq(w, 1, n) = [k \in 1..n |-> w[k]]
    BY <1>4
  <2>2. \A k \in 1..n : w[k] \in Token
    BY <1>4, ElementOfSeq
  <2>3. PICK u : u = [k \in 1..n |-> w[k]]
    OBVIOUS
  <2>4. u \in Seq(Token) /\ Len(u) = n /\ \A k \in 1..n : u[k] = w[k]
    BY <1>4, <2>2, <2>3
  <2>5. QED
    BY <2>1, <2>3, <2>4
<1>7. PICK v \in Seq(Token) : v = SubSeq(w, n + 1, Len(w))
  <2>1. SubSeq(w, n + 1, Len(w)) \in Seq(Token)
    BY <1>4
  <2>2. QED
    BY <2>1
<1>8. PICK o \in Seq(Token) : o = <<j>> /\ Len(o) = 1 /\ o[1] = j
  <2>1. <<j>> \in Seq(Token)
    OBVIOUS
  <2>2. QED
    BY <2>1
<1>9. Damaged(w, n) = (u \o o) \o v
  <2>1. PICK m : m = n + 1
    OBVIOUS
  <2>2. m - 1 = n
    BY <1>4, <2>1
  <2>3. Damaged(w, n) = InsertAt(w, m, j)
    BY <1>5, <2>1 DEF Damaged
  <2>4. InsertAt(w, m, j) = SubSeq(w, 1, m - 1) \o <<j>> \o SubSeq(w, m, Len(w))
    BY DEF InsertAt
  <2>5. SubSeq(w, 1, m - 1) = u /\ SubSeq(w, m, Len(w)) = v
    BY <1>6, <1>7, <2>1, <2>2
  <2>6. QED
    BY <1>8, <2>3, <2>4, <2>5, Zenon
<1>10. PICK t \in Seq(Token) : /\ t = u \o o /\ Len(t) = n + 1 /\ t[n + 1] = j
                               /\ \A k \in 1..n : t[k] = w[k]
  <2>1. PICK t : t = u \o o
    OBVIOUS
  <2>2. /\ t \in Seq(Token) /\ Len(t) = Len(u) + Len(o)
        /\ \A i \in 1..(Len(u) + Len(o)) : t[i] = IF i <= Len(u) THEN u[i] ELSE o[i - Len(u)]
    BY <2>1, ConcatProperties
  <2>3. Len(u) = n /\ Len(o) = 1 /\ o[1] = j /\ n \in Nat
    BY <1>4, <1>6, <1>8
  <2>4. Len(t) = n + 1 /\ t[n + 1] = j
    BY <2>2, <2>3
  <2>5. ASSUME NEW k \in 1..n PROVE t[k] = w[k]
    <3>1. k \in 1..(Len(u) + Len(o)) /\ k <= Len(u)
      BY <2>3
    <3>2. t[k] = u[k]
      BY <2>2, <3>1
    <3>3. QED
      BY <1>6, <3>2
  <2>6. QED
    BY <2>1, <2>2, <2>4, <2>5
<1>11. PICK text \in Seq(Token) : /\ text = t \o v /\ n + 1 \in 1..Len(text) /\ text[n + 1] = j
                                  /\ \A k \in 1..n : text[k] = w[k]
  <2>1. PICK text : text = t \o v
    OBVIOUS
  <2>2. /\ text \in Seq(Token) /\ Len(text) = Len(t) + Len(v)
        /\ \A i \in 1..(Len(t) + Len(v)) : text[i] = IF i <= Len(t) THEN t[i] ELSE v[i - Len(t)]
    BY <2>1, ConcatProperties
  <2>3. Len(v) \in Nat
    BY LenProperties
  <2>4. n + 1 \in 1..Len(text) /\ text[n + 1] = j
    <3>1. n \in Nat /\ Len(t) = n + 1 /\ t[n + 1] = j
      BY <1>4, <1>10
    <3>2. n + 1 \in 1..(Len(t) + Len(v)) /\ n + 1 <= Len(t)
      BY <2>3, <3>1
    <3>3. text[n + 1] = t[n + 1]
      BY <2>2, <3>2
    <3>4. QED
      BY <2>2, <3>1, <3>2, <3>3
  <2>5. ASSUME NEW k \in 1..n PROVE text[k] = w[k]
    <3>1. k \in 1..(Len(t) + Len(v)) /\ k <= Len(t)
      BY <1>4, <1>10, <2>3
    <3>2. text[k] = t[k]
      BY <2>2, <3>1
    <3>3. QED
      BY <1>10, <3>2
  <2>6. QED
    BY <2>1, <2>2, <2>4, <2>5
<1>12. text = Damaged(Written(words), n)
  BY <1>3, <1>9, <1>10, <1>11, Zenon
<1>13. n + 1 \in DOMAIN text /\ ~Parses(text[n + 1]) /\ n <= Len(text)
  BY <1>4, <1>5, <1>11, LenProperties DEF Parses, T
<1>14. /\ WordsIn(text) \in Seq(Seq(Points))
       /\ Begins(Drawing(WordsIn(text)), Drawing(words), Points)
  BY <1>3, <1>11, <1>13, ReadAsFarAsItParses
<1>15. ~AllParses(text)
  BY <1>13 DEF AllParses
<1>16. QED
  BY <1>12, <1>14, <1>15
=============================================================================
