---------------------------- MODULE MusicProofs ----------------------------
(***************************************************************************)
(* Theorems about Voicings, for any chords, strings and typed shapes, and  *)
(* about Files, for any sheets.                                            *)
(***************************************************************************)
EXTENDS Voicings, Files, FiniteSetTheorems, SequenceTheorems, WellFoundedInduction, TLAPS

-----------------------------------------------------------------------------
(* Numbers and counting. *)

LEMMA LeastOf ==
    ASSUME NEW S \in SUBSET Nat, S # {}
    PROVE  Min(S) \in S /\ \A i \in S : Min(S) <= i
  <1>1. PICK m \in S : \A i \in S : ~ (<<i, m>> \in OpToRel(<, Nat))
    BY NatLessThanWellFounded, WFMin
  <1>2. \A i \in S : m <= i
    <2>1. TAKE i \in S
    <2>2. i \in Nat /\ m \in Nat /\ (i < m => <<i, m>> \in OpToRel(<, Nat))
      BY DEF OpToRel
    <2>3. ~ (i < m)
      BY <1>1, <2>2
    <2>4. i \in Nat /\ m \in Nat
      OBVIOUS
    <2>5. QED
      BY <2>3, <2>4
  <1>3. QED
    BY <1>2 DEF Min

LEMMA LeastIs ==
    ASSUME NEW S \in SUBSET Nat, S # {}
    PROVE  \E m \in S : \A i \in S : m <= i
  BY LeastOf

LEMMA GreatestOf ==
    ASSUME NEW S \in SUBSET Nat, S # {}, NEW n \in Nat, \A i \in S : i <= n
    PROVE  Max(S) \in S /\ \A i \in S : i <= Max(S)
  <1> DEFINE T == {n - i : i \in S}
  <1>0. \A i \in S : i \in Nat /\ i <= n
    OBVIOUS
  <1>1. T \in SUBSET Nat /\ T # {}
    <2>1. \A i \in S : n - i \in Nat
      BY <1>0
    <2>2. T # {}
      OBVIOUS
    <2>3. QED
      BY <2>1, <2>2
  <1>2. PICK t \in T : \A i \in T : t <= i
    BY <1>1, LeastIs
  <1>3. PICK m \in S : t = n - m
    OBVIOUS
  <1>4. \A i \in S : n - m <= n - i /\ i \in Nat /\ m \in Nat
    BY <1>2, <1>3
  <1>5. \A i \in S : i <= m
    BY <1>4
  <1>6. \E k \in S : \A i \in S : k >= i
    BY <1>5
  <1>7. Max(S) \in S /\ \A i \in S : Max(S) >= i
    BY <1>6 DEF Max
  <1>8. Max(S) \in Nat /\ \A i \in S : i \in Nat
    BY <1>7
  <1>9. QED
    BY <1>7, <1>8

\* Induction, over the set of the numbers for which something holds.
LEMMA StepByStep ==
    ASSUME NEW S, 0 \in S, NEW N \in Nat,
           \A n \in 0..(N - 1) : n \in S => n + 1 \in S
    PROVE  \A n \in 0..N : n \in S
  <1> DEFINE T == {n \in 0..N : n \notin S}
  <1>1. SUFFICES ASSUME T # {} PROVE FALSE
    OBVIOUS
  <1>2. PICK m \in T : \A i \in T : m <= i
    <2>1. T \in SUBSET Nat
      OBVIOUS
    <2>2. QED
      BY <1>1, <2>1, LeastIs
  <1>3. m \in 0..N /\ m # 0
    OBVIOUS
  <1>4. m - 1 \in 0..(N - 1) /\ ~(m <= m - 1)
    BY <1>3
  <1>5. m - 1 \in S
    BY <1>2, <1>4
  <1>6. (m - 1) + 1 \in S
    BY <1>4, <1>5
  <1>7. (m - 1) + 1 = m
    BY <1>3
  <1>8. QED
    BY <1>6, <1>7

\* How many of the first n are not gone.
Rank(gone, n) == Cardinality((1..n) \ gone)

LEMMA RankStep ==
    ASSUME NEW gone, NEW n \in Nat
    PROVE  /\ Rank(gone, n) \in Nat /\ Rank(gone, 0) = 0
           /\ Rank(gone, n + 1) = Rank(gone, n) + IF n + 1 \in gone THEN 0 ELSE 1
  <1>1. IsFiniteSet(1..n)
    BY FS_Interval
  <1>2. IsFiniteSet((1..n) \ gone)
    BY <1>1, FS_Subset
  <1>3. Rank(gone, n) \in Nat
    BY <1>2, FS_CardinalityType DEF Rank
  <1>4. (1..0) \ gone = {}
    OBVIOUS
  <1>5. Rank(gone, 0) = 0
    BY <1>4, FS_EmptySet DEF Rank
  <1>6. 1..(n + 1) = (1..n) \cup {n + 1} /\ n + 1 \notin 1..n
    OBVIOUS
  <1>7. CASE n + 1 \in gone
    <2>1. (1..(n + 1)) \ gone = (1..n) \ gone
      BY <1>6, <1>7
    <2>2. QED
      BY <1>3, <1>5, <1>7, <2>1 DEF Rank
  <1>8. CASE n + 1 \notin gone
    <2>1. (1..(n + 1)) \ gone = ((1..n) \ gone) \cup {n + 1}
      BY <1>6, <1>8
    <2>2. n + 1 \notin (1..n) \ gone
      BY <1>6
    <2>3. Cardinality((1..(n + 1)) \ gone) = Cardinality((1..n) \ gone) + 1
      BY <1>2, <2>1, <2>2, FS_AddElement
    <2>4. QED
      BY <1>3, <1>5, <1>8, <2>3 DEF Rank
  <1>9. QED
    BY <1>7, <1>8

LEMMA RankGrows ==
    ASSUME NEW gone, NEW m \in Nat, NEW n \in 0..m
    PROVE  /\ Rank(gone, n) <= Rank(gone, m)
           /\ n # m /\ m \notin gone => Rank(gone, n) < Rank(gone, m)
  <1>1. \A k \in Nat : \A i \in 0..k : Rank(gone, i) <= Rank(gone, k)
    <2>1. TAKE k \in Nat
    <2>2. TAKE i \in 0..k
    <2>3. IsFiniteSet((1..k) \ gone)
      <3>1. IsFiniteSet(1..k)
        BY FS_Interval
      <3>2. QED
        BY <3>1, FS_Subset
    <2>4. (1..i) \ gone \in SUBSET ((1..k) \ gone)
      OBVIOUS
    <2>5. QED
      BY <2>3, <2>4, FS_Subset DEF Rank
  <1>2. ASSUME n # m, m \notin gone PROVE Rank(gone, n) < Rank(gone, m)
    <2>1. PICK k \in Nat : k + 1 = m
      <3>1. m - 1 \in Nat /\ (m - 1) + 1 = m
        BY <1>2
      <3>2. QED
        BY <3>1
    <2>2. n \in 0..k
      BY <1>2, <2>1
    <2>3. Rank(gone, n) <= Rank(gone, k)
      BY <1>1, <2>2
    <2>4. Rank(gone, m) = Rank(gone, k) + 1 /\ Rank(gone, k) \in Nat
      BY <1>2, <2>1, RankStep
    <2>5. n \in Nat
      OBVIOUS
    <2>6. Rank(gone, n) \in Nat
      BY <2>5, RankStep
    <2>7. QED
      BY <2>3, <2>4, <2>6
  <1>3. QED
    BY <1>1, <1>2

\* What Without leaves: the lines that are not gone, each at its rank.
LEMMA WithoutPicks ==
    ASSUME NEW lines, NEW N \in Nat, DOMAIN lines = 1..N, Len(lines) = N,
           NEW gone \in SUBSET (1..N)
    PROVE  LET R == Rank(gone, N) IN
           /\ R \in Nat /\ Without(lines, gone) \in Seq(Range(lines))
           /\ Len(Without(lines, gone)) = R /\ DOMAIN Without(lines, gone) = 1..R
           /\ \A n \in (1..N) \ gone : /\ Rank(gone, n) \in 1..R
                                       /\ Without(lines, gone)[Rank(gone, n)] = lines[n]
           /\ \A i \in 1..R : \E n \in (1..N) \ gone : Rank(gone, n) = i
  <1>1. PICK R : R = Rank(gone, N)
    OBVIOUS
  <1>2. R \in Nat
    BY <1>1, RankStep
  <1>3. N - Cardinality(gone) = R
    <2>1. IsFiniteSet(1..N) /\ Cardinality(1..N) = N
      BY FS_Interval
    <2>2. IsFiniteSet(gone) /\ IsFiniteSet((1..N) \ gone)
      BY <2>1, FS_Subset
    <2>3. gone \cap ((1..N) \ gone) = {} /\ gone \cup ((1..N) \ gone) = 1..N
      OBVIOUS
    <2>4. Cardinality(gone \cup ((1..N) \ gone)) =
            Cardinality(gone) + Cardinality((1..N) \ gone)
              - Cardinality(gone \cap ((1..N) \ gone))
      BY <2>2, FS_Union
    <2>5. Cardinality(gone \cap ((1..N) \ gone)) = 0
      BY <2>3, FS_EmptySet
    <2>6. Cardinality(gone) \in Nat /\ Cardinality((1..N) \ gone) \in Nat
      BY <2>2, FS_CardinalityType
    <2>7. N = Cardinality(gone) + R
      <3>1. Cardinality(1..N) = Cardinality(gone) + Cardinality((1..N) \ gone) - 0
        BY <2>3, <2>4, <2>5
      <3>2. R = Cardinality((1..N) \ gone)
        BY <1>1 DEF Rank
      <3>3. N = Cardinality(gone) + R - 0
        BY <2>1, <3>1, <3>2
      <3>4. QED
        BY <1>2, <2>6, <3>3
    <2>8. QED
      BY <1>2, <2>6, <2>7
  <1> DEFINE at(i) == CHOOSE n \in DOMAIN lines \ gone : Cardinality((1..n) \ gone) = i
  <1>4. Without(lines, gone) = [i \in 1..R |-> lines[at(i)]]
    BY <1>3 DEF Without
  <1>5. \A i \in 1..R : \E n \in (1..N) \ gone : Rank(gone, n) = i
    <2>1. TAKE i \in 1..R
    <2> DEFINE reached == {n \in 0..N : i <= Rank(gone, n)}
    <2>2. reached \in SUBSET Nat /\ N \in reached
      BY <1>1, <1>2
    <2>3. PICK n \in reached : \A k \in reached : n <= k
      BY <2>2, LeastIs
    <2>4. n \in 0..N /\ i <= Rank(gone, n) /\ Rank(gone, 0) = 0
      BY <2>3, RankStep
    <2>5. n # 0
      BY <2>4
    <2>6. PICK k \in Nat : k + 1 = n
      <3>1. n - 1 \in Nat /\ (n - 1) + 1 = n
        BY <2>4, <2>5
      <3>2. QED
        BY <3>1
    <2>7. k \in 0..N /\ k \notin reached
      BY <2>3, <2>4, <2>6
    <2>8. ~(i <= Rank(gone, k))
      BY <2>7
    <2>9. Rank(gone, k) \in Nat
          /\ Rank(gone, n) = Rank(gone, k) + IF n \in gone THEN 0 ELSE 1
      BY <2>6, RankStep
    <2>10. i \in Nat
      BY <1>2
    <2>11. n \notin gone
      BY <2>4, <2>8, <2>9, <2>10
    <2>12. Rank(gone, n) = i
      BY <2>4, <2>8, <2>9, <2>10, <2>11
    <2>13. n \in (1..N) \ gone
      BY <2>4, <2>5, <2>11
    <2>14. QED
      BY <2>12, <2>13
  <1>6. \A n \in (1..N) \ gone : Rank(gone, n) \in 1..R
    <2>1. TAKE n \in (1..N) \ gone
    <2>2. n \in 0..N /\ n \in Nat /\ 0 \in 0..n /\ 0 # n
      OBVIOUS
    <2>3. Rank(gone, n) <= R
      BY <1>1, <2>2, RankGrows
    <2>4. Rank(gone, 0) < Rank(gone, n)
      BY <2>2, RankGrows
    <2>5. Rank(gone, 0) = 0 /\ Rank(gone, n) \in Nat
      BY <2>2, RankStep
    <2>6. QED
      BY <1>2, <2>3, <2>4, <2>5
  <1>7. \A m, n \in (1..N) \ gone : Rank(gone, m) = Rank(gone, n) => m = n
    <2>1. ASSUME NEW m \in (1..N) \ gone, NEW n \in (1..N) \ gone, m < n
          PROVE  Rank(gone, m) # Rank(gone, n)
      <3>1. m \in 0..n /\ n \in Nat /\ m # n /\ m \in Nat
        BY <2>1
      <3>2. Rank(gone, m) < Rank(gone, n)
        BY <3>1, RankGrows
      <3>3. Rank(gone, m) \in Nat /\ Rank(gone, n) \in Nat
        BY <3>1, RankStep
      <3>4. QED
        BY <3>2, <3>3
    <2>2. TAKE m, n \in (1..N) \ gone
    <2>3. m < n \/ n < m \/ m = n
      OBVIOUS
    <2>4. QED
      BY <2>1, <2>3
  <1>8. \A n \in (1..N) \ gone : at(Rank(gone, n)) = n
    <2>1. TAKE n \in (1..N) \ gone
    <2>2. \A m \in DOMAIN lines \ gone : Cardinality((1..m) \ gone) = Rank(gone, n) <=> m = n
      BY <1>7 DEF Rank
    <2>3. QED
      BY <2>2
  <1> HIDE DEF at
  <1>9. \A i \in 1..R : at(i) \in 1..N
    BY <1>5, <1>8
  <1>10. \A i \in 1..R : lines[at(i)] \in Range(lines)
    BY <1>9 DEF Range
  <1>11. Without(lines, gone) \in Seq(Range(lines)) /\ Len(Without(lines, gone)) = R
    BY <1>2, <1>4, <1>10
  <1>12. \A n \in (1..N) \ gone : Without(lines, gone)[Rank(gone, n)] = lines[n]
    BY <1>4, <1>6, <1>8
  <1>13. DOMAIN Without(lines, gone) = 1..R
    BY <1>4
  <1>14. QED
    BY <1>1, <1>2, <1>5, <1>6, <1>11, <1>12, <1>13

-----------------------------------------------------------------------------
(* Sequences. *)

IsSeq(s) == s \in Seq(Range(s))

LEMMA SeqIs ==
    ASSUME NEW s, NEW S, s \in Seq(S)
    PROVE  /\ IsSeq(s) /\ Len(s) \in Nat /\ DOMAIN s = 1..Len(s)
           /\ Range(s) \subseteq S /\ \A i \in 1..Len(s) : s[i] \in Range(s)
  <1>1. Len(s) \in Nat /\ DOMAIN s = 1..Len(s) /\ s \in [1..Len(s) -> S]
    BY LenProperties
  <1>2. s \in [1..Len(s) -> Range(s)] /\ Range(s) \subseteq S
    BY <1>1 DEF Range
  <1>3. s \in Seq(Range(s))
    <2>1. PICK n \in Nat : n = Len(s)
      BY <1>1
    <2>2. s \in [1..n -> Range(s)]
      BY <1>2, <2>1
    <2>3. QED
      BY <2>2
  <1>4. QED
    BY <1>1, <1>2, <1>3 DEF IsSeq

LEMMA ListIs ==
    ASSUME NEW s, NEW n \in Nat, DOMAIN s = 1..n, s = [i \in 1..n |-> s[i]]
    PROVE  IsSeq(s) /\ Len(s) = n
  <1>1. s \in [1..n -> Range(s)]
    BY DEF Range
  <1>2. s \in Seq(Range(s)) /\ Len(s) = n
    BY <1>1
  <1>3. QED
    BY <1>2 DEF IsSeq

LEMMA SameSeq ==
    ASSUME NEW s, NEW t, IsSeq(s), IsSeq(t), Len(s) = Len(t),
           \A i \in 1..Len(s) : s[i] = t[i]
    PROVE  s = t
  <1>1. s \in Seq(Range(s) \cup Range(t)) /\ t \in Seq(Range(s) \cup Range(t))
    BY SeqMonotonic DEF IsSeq
  <1>2. QED
    BY <1>1, SeqEqual

LEMMA Joined ==
    ASSUME NEW a, NEW b, IsSeq(a), IsSeq(b)
    PROVE  /\ IsSeq(a \o b) /\ Len(a) \in Nat /\ Len(b) \in Nat
           /\ Len(a \o b) = Len(a) + Len(b) /\ DOMAIN (a \o b) = 1..(Len(a) + Len(b))
           /\ \A i \in 1..Len(a) : (a \o b)[i] = a[i]
           /\ \A i \in 1..Len(b) : (a \o b)[Len(a) + i] = b[i]
  <1> DEFINE S == Range(a) \cup Range(b)
  <1>1. a \in Seq(S) /\ b \in Seq(S)
    BY SeqMonotonic DEF IsSeq
  <1>2. PICK m, n : m = Len(a) /\ n = Len(b)
    OBVIOUS
  <1>3. m \in Nat /\ n \in Nat
    BY <1>1, <1>2
  <1>4. /\ a \o b \in Seq(S) /\ Len(a \o b) = m + n
        /\ \A i \in 1..(m + n) : (a \o b)[i] = IF i <= m THEN a[i] ELSE b[i - m]
    BY <1>1, <1>2, ConcatProperties
  <1>5. \A i \in 1..m : (a \o b)[i] = a[i]
    BY <1>3, <1>4
  <1>6. \A i \in 1..n : (a \o b)[m + i] = b[i]
    <2>1. TAKE i \in 1..n
    <2>2. m + i \in 1..(m + n) /\ ~(m + i <= m) /\ (m + i) - m = i
      BY <1>3
    <2>3. QED
      BY <1>4, <2>2
  <1>7. IsSeq(a \o b) /\ DOMAIN (a \o b) = 1..(m + n)
    BY <1>4, SeqIs
  <1>8. QED
    BY <1>2, <1>3, <1>4, <1>5, <1>6, <1>7

\* What FlattenSeq has put together after each of its sequences.
LEMMA FlattenStep ==
    ASSUME NEW seqs, NEW N \in Nat \ {0}, Len(seqs) = N
    PROVE  \E F : /\ F = [i \in 1..N |-> IF i = 1 THEN seqs[i] ELSE F[i - 1] \o seqs[i]]
                  /\ FlattenSeq(seqs) = F[N]
  <1> DEFINE Is(F, n) == F = [i \in 1..n |-> IF i = 1 THEN seqs[i] ELSE F[i - 1] \o seqs[i]]
             S == {n \in Nat : \E F : Is(F, n)}
  <1>1. 0 \in S
    <2>1. Is([i \in 1..0 |-> seqs[i]], 0)
      OBVIOUS
    <2>2. QED
      BY <2>1
  <1>2. \A n \in 0..(N - 1) : n \in S => n + 1 \in S
    <2>0. \A n \in 0..(N - 1) : n \in Nat /\ n + 1 \in Nat
      OBVIOUS
    <2> HIDE DEF Is
    <2>1. SUFFICES ASSUME NEW n \in Nat, NEW F, Is(F, n) PROVE \E G : Is(G, n + 1)
      BY <2>0
    <2> USE DEF Is
    <2> DEFINE G == [i \in 1..(n + 1) |->
                        IF i = 1 THEN seqs[i]
                        ELSE IF i <= n THEN F[i] ELSE F[n] \o seqs[i]]
    <2>2. \A i \in 1..(n + 1) : i # 1 => i - 1 \in 1..n
      OBVIOUS
    <2>3. \A i \in 1..n : G[i] = F[i]
      BY <2>1
    <2>4. \A i \in 1..(n + 1) : G[i] = IF i = 1 THEN seqs[i] ELSE G[i - 1] \o seqs[i]
      <3>1. TAKE i \in 1..(n + 1)
      <3>2. CASE i = 1
        BY <3>2
      <3>3. CASE i # 1 /\ i <= n
        <4>1. i \in 1..n /\ i - 1 \in 1..n
          BY <3>3
        <4>2. G[i] = F[i] /\ G[i - 1] = F[i - 1] /\ F[i] = F[i - 1] \o seqs[i]
          BY <2>1, <2>3, <3>3, <4>1
        <4>3. QED
          BY <3>3, <4>2
      <3>4. CASE i # 1 /\ ~(i <= n)
        <4>1. i = n + 1 /\ n \in 1..n /\ i - 1 = n
          BY <3>4
        <4>2. G[n] = F[n] /\ G[i] = F[n] \o seqs[i]
          BY <2>3, <3>4, <4>1
        <4>3. QED
          BY <3>4, <4>1, <4>2
      <3>5. QED
        BY <3>2, <3>3, <3>4
    <2>5. G = [i \in 1..(n + 1) |-> G[i]]
      OBVIOUS
    <2> HIDE DEF G
    <2>6. Is(G, n + 1)
      BY <2>4, <2>5
    <2>7. QED
      BY <2>6
  <1> HIDE DEF S
  <1>3. N \in S
    <2>1. N \in Nat /\ N \in 0..N
      OBVIOUS
    <2>2. QED
      BY <1>1, <1>2, <2>1, StepByStep
  <1>4. \E F : Is(F, N)
    BY <1>3 DEF S
  <1>5. FlattenSeq(seqs) = (CHOOSE F : Is(F, N))[N]
    BY DEF FlattenSeq
  <1>6. QED
    BY <1>4, <1>5

\* FlattenSeq, by where each sequence ends: len[n] after the first n.
Lays(flat, seqs, N, len) ==
    /\ len \in [0..N -> Nat] /\ len[0] = 0
    /\ \A n \in 1..N : len[n] = len[n - 1] + Len(seqs[n])
    /\ IsSeq(flat) /\ Len(flat) = len[N]
    /\ \A n \in 1..N : \A j \in 1..Len(seqs[n]) :
        len[n - 1] + j \in 1..len[N] /\ flat[len[n - 1] + j] = seqs[n][j]
    /\ \A i \in 1..len[N] : \E n \in 1..N : \E j \in 1..Len(seqs[n]) : i = len[n - 1] + j

LEMMA LaysOut ==
    ASSUME NEW seqs, NEW N \in Nat, DOMAIN seqs = 1..N, Len(seqs) = N, NEW S,
           \A n \in 1..N : seqs[n] \in Seq(S)
    PROVE  FlattenSeq(seqs) \in Seq(S) /\ \E len : Lays(FlattenSeq(seqs), seqs, N, len)
  <1>1. CASE N = 0
    <2>1. FlattenSeq(seqs) = seqs
      BY <1>1 DEF FlattenSeq
    <2>2. seqs = <<>>
      BY <1>1
    <2>3. IsSeq(seqs) /\ seqs \in Seq(S)
      BY <2>2 DEF IsSeq
    <2>4. Lays(seqs, seqs, N, [n \in 0..N |-> 0])
      BY <1>1, <2>3 DEF Lays
    <2>5. QED
      BY <2>1, <2>3, <2>4
  <1>2. CASE N # 0
    <2>1. N \in Nat \ {0}
      BY <1>2
    <2>2. PICK F : /\ F = [i \in 1..N |-> IF i = 1 THEN seqs[i] ELSE F[i - 1] \o seqs[i]]
                   /\ FlattenSeq(seqs) = F[N]
      BY <2>1, FlattenStep
    <2> DEFINE P(n) == IF n = 0 THEN <<>> ELSE F[n]
               len == [n \in 0..N |-> Len(P(n))]
    <2>3. \A n \in 0..(N - 1) : n + 1 \in 1..N /\ n \in 0..N /\ n + 1 \in 0..N
      OBVIOUS
    <2>4. \A n \in 0..(N - 1) : P(n) \in Seq(S) => P(n + 1) = P(n) \o seqs[n + 1]
      <3>1. TAKE n \in 0..(N - 1)
      <3>2. CASE n = 0
        <4>1. P(0) = <<>> /\ P(0 + 1) = seqs[1] /\ seqs[1] \in Seq(S)
          BY <2>1, <2>2
        <4>2. <<>> \o seqs[1] = seqs[1]
          BY <4>1, ConcatEmptySeq
        <4>3. QED
          BY <3>2, <4>1, <4>2
      <3>3. CASE n # 0
        <4>1. n + 1 \in 1..N /\ n + 1 # 1 /\ n + 1 # 0 /\ (n + 1) - 1 = n
          BY <3>3
        <4>2. F[n + 1] = F[n] \o seqs[n + 1]
          BY <2>2, <4>1
        <4>3. QED
          BY <3>3, <4>1, <4>2
      <3>4. QED
        BY <3>2, <3>3
    <2> HIDE DEF P
    <2>5. P(0) = <<>> /\ P(N) = FlattenSeq(seqs)
      BY <2>1, <2>2 DEF P
    \* Each is a sequence and begins with all those before it.
    <2> DEFINE good == {n \in 0..N :
                          /\ P(n) \in Seq(S)
                          /\ \A m \in 0..n : /\ Len(P(m)) \in Nat /\ Len(P(m)) <= Len(P(n))
                                             /\ \A i \in 1..Len(P(m)) : P(n)[i] = P(m)[i]
                          /\ \A i \in 1..Len(P(n)) : \E m \in 1..n : \E j \in 1..Len(seqs[m]) :
                                i = Len(P(m - 1)) + j}
    <2>6. 0 \in good
      <3>0. <<>> \in Seq(S) /\ Len(<<>>) = 0
        OBVIOUS
      <3>1. P(0) \in Seq(S) /\ Len(P(0)) = 0 /\ 0 \in 0..N
        <4>1. P(0) = <<>> /\ 0 \in 0..N
          BY <2>5
        <4>2. QED
          BY <3>0, <4>1
      <3>2. \A m \in 0..0 : m = 0
        OBVIOUS
      <3>3. \A i \in 1..Len(P(0)) : FALSE
        BY <3>1
      <3>4. QED
        BY <3>1, <3>2, <3>3
    <2>7. ASSUME NEW n \in 0..(N - 1), n \in good PROVE n + 1 \in good
      <3>1. PICK a, b, k : a = P(n) /\ b = seqs[n + 1] /\ k = Len(a)
        OBVIOUS
      <3>2. a \in Seq(S) /\ b \in Seq(S) /\ P(n + 1) = a \o b /\ n + 1 \in 1..N
        BY <2>3, <2>4, <2>7, <3>1
      <3>3. k \in Nat /\ Len(b) \in Nat /\ IsSeq(a) /\ IsSeq(b)
        BY <3>1, <3>2, SeqIs
      <3>4. /\ Len(P(n + 1)) = k + Len(b)
            /\ \A i \in 1..k : P(n + 1)[i] = a[i]
        BY <3>1, <3>2, <3>3, Joined
      <3>5. P(n + 1) \in Seq(S)
        BY <3>2, ConcatProperties
      <3>6. ASSUME NEW m \in 0..(n + 1)
            PROVE  /\ Len(P(m)) \in Nat /\ Len(P(m)) <= Len(P(n + 1))
                   /\ \A i \in 1..Len(P(m)) : P(n + 1)[i] = P(m)[i]
        <4>1. CASE m = n + 1
          BY <3>3, <3>4, <4>1
        <4>2. CASE m # n + 1
          <5>1. m \in 0..n
            BY <4>2
          <5>2. PICK l : l = Len(P(m))
            OBVIOUS
          <5>3. l \in Nat /\ l <= k /\ \A i \in 1..l : a[i] = P(m)[i]
            BY <2>7, <3>1, <5>1, <5>2
          <5>4. \A i \in 1..l : i \in 1..k
            BY <3>3, <5>3
          <5>5. l <= k + Len(b)
            BY <3>3, <5>3
          <5>6. QED
            BY <3>4, <5>2, <5>3, <5>4, <5>5
        <4>3. QED
          BY <4>1, <4>2
      <3>7. ASSUME NEW i \in 1..Len(P(n + 1))
            PROVE  \E m \in 1..(n + 1) : \E j \in 1..Len(seqs[m]) : i = Len(P(m - 1)) + j
        <4>1. i \in 1..(k + Len(b))
          BY <3>4
        <4>2. CASE i <= k
          <5>1. i \in 1..k
            BY <3>3, <4>1, <4>2
          <5>2. PICK m \in 1..n : \E j \in 1..Len(seqs[m]) : i = Len(P(m - 1)) + j
            BY <2>7, <3>1, <5>1
          <5>3. m \in 1..(n + 1)
            OBVIOUS
          <5>4. QED
            BY <5>2, <5>3
        <4>3. CASE ~(i <= k)
          <5>1. i - k \in 1..Len(b) /\ i = k + (i - k)
            BY <3>3, <4>1, <4>3
          <5>2. n + 1 \in 1..(n + 1) /\ (n + 1) - 1 = n
            OBVIOUS
          <5>3. \E j \in 1..Len(seqs[n + 1]) : i = Len(P((n + 1) - 1)) + j
            BY <3>1, <5>1, <5>2
          <5>4. QED
            BY <5>2, <5>3
        <4>4. QED
          BY <4>2, <4>3
      <3>8. n + 1 \in 0..N
        BY <2>3
      <3>9. QED
        BY <3>5, <3>6, <3>7, <3>8
    <2> HIDE DEF good
    <2>8. N \in good /\ \A n \in 0..N : n \in good
      <3>1. N \in 0..N
        OBVIOUS
      <3>2. \A n \in 0..N : n \in good
        BY <2>6, <2>7, StepByStep
      <3>3. QED
        BY <3>1, <3>2
    <2>9. \A n \in 0..N : P(n) \in Seq(S) /\ len[n] = Len(P(n)) /\ len[n] \in Nat
      <3>1. TAKE n \in 0..N
      <3>2. P(n) \in Seq(S)
        BY <2>8 DEF good
      <3>3. QED
        BY <3>2, SeqIs
    <2>10. PICK flat : flat = FlattenSeq(seqs)
      OBVIOUS
    <2>11. \A n \in 1..N : n - 1 \in 0..(N - 1) /\ (n - 1) + 1 = n /\ n - 1 \in 0..N /\ n \in 0..N
      OBVIOUS
    <2>12. \A n \in 1..N : /\ IsSeq(P(n - 1)) /\ IsSeq(seqs[n]) /\ P(n) = P(n - 1) \o seqs[n]
                           /\ len[n] = len[n - 1] + Len(seqs[n]) /\ Len(seqs[n]) \in Nat
      <3>1. TAKE n \in 1..N
      <3>2. P(n - 1) \in Seq(S) /\ seqs[n] \in Seq(S)
        BY <2>9, <2>11
      <3>3. P(n) = P(n - 1) \o seqs[n]
        BY <2>4, <2>11, <3>2
      <3>4. IsSeq(P(n - 1)) /\ IsSeq(seqs[n])
        BY <3>2, SeqIs
      <3>5. Len(P(n - 1) \o seqs[n]) = Len(P(n - 1)) + Len(seqs[n]) /\ Len(seqs[n]) \in Nat
        BY <3>4, Joined
      <3>6. len[n] = Len(P(n)) /\ len[n - 1] = Len(P(n - 1))
        BY <2>9, <2>11
      <3> HIDE DEF len
      <3>7. QED
        BY <3>3, <3>4, <3>5, <3>6
    <2>13. IsSeq(flat) /\ Len(flat) = len[N] /\ flat \in Seq(S) /\ flat = P(N)
      <3>1. P(N) \in Seq(S) /\ len[N] = Len(P(N))
        BY <2>9
      <3>2. QED
        BY <2>5, <2>10, <3>1, SeqIs
    <2>14. ASSUME NEW n \in 1..N, NEW j \in 1..Len(seqs[n])
           PROVE  len[n - 1] + j \in 1..len[N] /\ flat[len[n - 1] + j] = seqs[n][j]
      <3>1. PICK k : k = len[n - 1]
        OBVIOUS
      <3>2. k \in Nat /\ len[n] = k + Len(seqs[n]) /\ Len(seqs[n]) \in Nat
        BY <2>9, <2>11, <2>12, <3>1
      <3>3. k + j \in 1..len[n]
        BY <3>2
      <3>4. P(n)[k + j] = seqs[n][j]
        <4>1. \A i \in 1..Len(seqs[n]) : (P(n - 1) \o seqs[n])[Len(P(n - 1)) + i] = seqs[n][i]
          BY <2>12, Joined
        <4>2. k = Len(P(n - 1))
          BY <2>9, <2>11, <3>1
        <4>3. QED
          BY <2>12, <4>1, <4>2
      <3>5. Len(P(n)) <= Len(P(N)) /\ \A i \in 1..Len(P(n)) : P(N)[i] = P(n)[i]
        BY <2>8, <2>11 DEF good
      <3>6. len[n] <= len[N] /\ len[n] \in Nat /\ len[N] \in Nat /\ len[n] = Len(P(n))
        BY <2>8, <2>9, <2>11, <3>5
      <3>7. k + j \in 1..len[N]
        BY <3>2, <3>3, <3>6
      <3>8. flat[k + j] = seqs[n][j]
        BY <2>13, <3>3, <3>4, <3>5, <3>6
      <3>9. QED
        BY <3>1, <3>7, <3>8
    <2>15. ASSUME NEW i \in 1..len[N]
           PROVE  \E n \in 1..N : \E j \in 1..Len(seqs[n]) : i = len[n - 1] + j
      <3>1. i \in 1..Len(P(N))
        BY <2>9
      <3>2. PICK n \in 1..N : \E j \in 1..Len(seqs[n]) : i = Len(P(n - 1)) + j
        BY <2>8, <3>1 DEF good
      <3>3. len[n - 1] = Len(P(n - 1))
        BY <2>9, <2>11
      <3>4. QED
        BY <3>2, <3>3
    <2>16. len \in [0..N -> Nat] /\ len[0] = 0
      <3>1. len \in [0..N -> Nat]
        BY <2>9
      <3>2. len[0] = Len(<<>>)
        BY <2>5
      <3>3. QED
        BY <3>1, <3>2
    <2> HIDE DEF len
    <2>17. Lays(flat, seqs, N, len)
      BY <2>12, <2>13, <2>14, <2>15, <2>16 DEF Lays
    <2>18. QED
      BY <2>10, <2>13, <2>17
  <1>3. QED
    BY <1>1, <1>2

LEMMA GreatestIs ==
    ASSUME NEW S \in SUBSET Nat, NEW m \in S, \A i \in S : i <= m
    PROVE  Max(S) = m
  <1>1. \A i \in S : m >= i /\ i \in Nat
    OBVIOUS
  <1>2. Max(S) \in S /\ \A i \in S : Max(S) >= i
    BY <1>1 DEF Max
  <1>3. PICK k : k = Max(S)
    OBVIOUS
  <1>4. k >= m /\ k <= m /\ k \in Nat /\ m \in Nat
    BY <1>1, <1>2, <1>3
  <1>5. QED
    BY <1>3, <1>4

\* A piece of a sequence.
Cuts(t, lines, m, n) ==
    /\ t \in Seq(Range(lines)) /\ Len(t) = n - m + 1 /\ DOMAIN t = 1..(n - m + 1)
    /\ \A i \in 1..(n - m + 1) : m + i - 1 \in 1..Len(lines) /\ t[i] = lines[m + i - 1]

LEMMA SubSeqCuts ==
    ASSUME NEW lines, IsSeq(lines), NEW m \in 1..Len(lines), NEW n \in 1..Len(lines), m <= n
    PROVE  Cuts(SubSeq(lines, m, n), lines, m, n)
  <1>1. PICK N \in Nat : N = Len(lines)
    BY SeqIs DEF IsSeq
  <1>2. m \in Int /\ n \in Int /\ m \in 1..N /\ n \in 1..N
    BY <1>1
  <1>3. \A i \in m..n : i \in 1..N
    BY <1>2
  <1>4. \A i \in m..n : lines[i] \in Range(lines)
    BY <1>1, <1>3, SeqIs DEF IsSeq
  <1>5. PICK t : t = SubSeq(lines, m, n)
    OBVIOUS
  <1>6. /\ t \in Seq(Range(lines)) /\ Len(t) = n - m + 1
        /\ \A i \in 1..(n - m + 1) : t[i] = lines[m + i - 1]
    BY <1>2, <1>4, <1>5, SubSeqProperties
  <1>7. DOMAIN t = 1..(n - m + 1)
    BY <1>6, SeqIs
  <1>8. \A i \in 1..(n - m + 1) : m + i - 1 \in 1..N
    BY <1>2
  <1>9. QED
    BY <1>1, <1>5, <1>6, <1>7, <1>8 DEF Cuts

LEMMA TrimIs ==
    ASSUME NEW lines, IsSeq(lines)
    PROVE  \/ Trim(lines) = <<>> /\ \A i \in 1..Len(lines) : lines[i].is = "blank"
           \/ \E m, n \in 1..Len(lines) :
                /\ m <= n /\ lines[m].is # "blank" /\ lines[n].is # "blank"
                /\ \A i \in 1..Len(lines) : i < m \/ n < i => lines[i].is = "blank"
                /\ Trim(lines) = SubSeq(lines, m, n)
  <1> DEFINE kept == {i \in DOMAIN lines : lines[i].is # "blank"}
  <1>1. PICK N \in Nat : N = Len(lines) /\ DOMAIN lines = 1..N
    BY SeqIs DEF IsSeq
  <1>2. CASE kept = {}
    BY <1>1, <1>2 DEF Trim
  <1>3. CASE kept # {}
    <2>1. kept \in SUBSET Nat /\ \A i \in kept : i <= N /\ i \in 1..N
      BY <1>1
    <2>2. PICK m, n : m = Min(kept) /\ n = Max(kept)
      OBVIOUS
    <2>3. m \in kept /\ (\A i \in kept : m <= i) /\ n \in kept /\ (\A i \in kept : i <= n)
      BY <1>3, <2>1, <2>2, LeastOf, GreatestOf
    <2>4. m \in 1..N /\ n \in 1..N /\ m <= n /\ lines[m].is # "blank" /\ lines[n].is # "blank"
      BY <2>1, <2>3
    <2>5. \A i \in 1..N : i < m \/ n < i => lines[i].is = "blank"
      <3>1. TAKE i \in 1..N
      <3>2. i \in kept => m <= i /\ i <= n
        BY <2>3
      <3>3. i \notin kept => lines[i].is = "blank"
        BY <1>1
      <3>4. QED
        BY <2>4, <3>2, <3>3
    <2>6. Trim(lines) = SubSeq(lines, m, n)
      BY <1>3, <2>2 DEF Trim
    <2>7. QED
      BY <1>1, <2>4, <2>5, <2>6
  <1>4. QED
    BY <1>2, <1>3

\* No blank lines at the edges.
IsTrimmed(b) == b # <<>> => b[1].is # "blank" /\ b[Len(b)].is # "blank"

LEMMA TrimTrims ==
    ASSUME NEW lines, IsSeq(lines)
    PROVE  IsTrimmed(Trim(lines)) /\ Trim(lines) \in Seq(Range(lines))
  <1>1. CASE Trim(lines) = <<>>
    <2>1. <<>> \in Seq(Range(lines))
      OBVIOUS
    <2>2. QED
      BY <1>1, <2>1 DEF IsTrimmed
  <1>2. CASE Trim(lines) # <<>>
    <2>1. PICK m, n \in 1..Len(lines) :
                /\ m <= n /\ lines[m].is # "blank" /\ lines[n].is # "blank"
                /\ Trim(lines) = SubSeq(lines, m, n)
      BY <1>2, TrimIs
    <2>2. Cuts(Trim(lines), lines, m, n)
      BY <2>1, SubSeqCuts
    <2>3. PICK k : k = n - m + 1
      OBVIOUS
    <2>4. k \in Nat /\ 1 \in 1..k /\ k \in 1..k /\ m + 1 - 1 = m /\ m + k - 1 = n
      <3>1. Len(lines) \in Nat
        BY SeqIs DEF IsSeq
      <3>2. PICK N \in Nat : N = Len(lines)
        BY <3>1
      <3>3. m \in 1..N /\ n \in 1..N /\ m <= n
        BY <2>1, <3>2
      <3>4. QED
        BY <2>3, <3>3
    <2>5. Len(Trim(lines)) = k /\ Trim(lines)[1] = lines[m] /\ Trim(lines)[k] = lines[n]
      <3>1. \A i \in 1..k : Trim(lines)[i] = lines[m + i - 1]
        BY <2>2, <2>3 DEF Cuts
      <3>2. Trim(lines)[1] = lines[m + 1 - 1] /\ Trim(lines)[k] = lines[m + k - 1]
        BY <2>4, <3>1
      <3>3. QED
        BY <2>2, <2>3, <2>4, <3>2 DEF Cuts
    <2>6. QED
      BY <2>1, <2>2, <2>5 DEF IsTrimmed, Cuts
  <1>3. QED
    BY <1>1, <1>2

\* Trimming what is trimmed, after a blank line or not, leaves it as it is.
LEMMA TrimStays ==
    ASSUME NEW b, IsSeq(b), IsTrimmed(b), NEW a, a = <<>> \/ a = <<L("blank")>>
    PROVE  Trim(a \o b) = b
  <1>1. IsSeq(a) /\ Len(a) \in {0, 1} /\ \A i \in 1..Len(a) : a[i].is = "blank"
    <2>1. CASE a = <<>>
      BY <2>1 DEF IsSeq
    <2>2. CASE a = <<L("blank")>>
      <3>1. a \in Seq({L("blank")}) /\ Len(a) = 1 /\ a[1] = L("blank")
        BY <2>2
      <3>2. IsSeq(a)
        BY <3>1, SeqIs
      <3>3. QED
        BY <3>1, <3>2 DEF L
    <2>3. QED
      BY <2>1, <2>2
  <1>2. PICK k, n : k = Len(a) /\ n = Len(b)
    OBVIOUS
  <1>3. PICK c : c = a \o b
    OBVIOUS
  <1>4. /\ IsSeq(c) /\ n \in Nat /\ k \in Nat /\ Len(c) = k + n
        /\ (\A i \in 1..k : c[i].is = "blank") /\ \A i \in 1..n : c[k + i] = b[i]
    <2>1. /\ IsSeq(c) /\ n \in Nat /\ Len(c) = k + n
          /\ (\A i \in 1..k : c[i] = a[i]) /\ \A i \in 1..n : c[k + i] = b[i]
      BY <1>1, <1>2, <1>3, Joined
    <2>2. QED
      BY <1>1, <1>2, <2>1
  <1>5. CASE b = <<>>
    <2>1. n = 0
      BY <1>2, <1>5
    <2>2. \A i \in 1..Len(c) : c[i].is = "blank"
      BY <1>4, <2>1
    <2>3. Trim(c) = <<>>
      BY <1>4, <2>2, TrimIs
    <2>4. QED
      BY <1>3, <1>5, <2>3
  <1>6. CASE b # <<>>
    <2>1. n # 0 /\ b[1].is # "blank" /\ b[n].is # "blank"
      <3>1. b \in Seq(Range(b))
        BY DEF IsSeq
      <3>2. Len(b) # 0
        BY <1>6, <3>1, EmptySeq
      <3>3. QED
        BY <1>2, <1>6, <3>2 DEF IsTrimmed
    <2>2. 1 \in 1..n /\ n \in 1..n /\ k + 1 \in 1..(k + n) /\ k + n \in 1..(k + n)
      BY <1>4, <2>1
    <2>3. c[k + 1].is # "blank" /\ c[k + n].is # "blank"
      BY <1>4, <2>1, <2>2
    <2>4. PICK m, l \in 1..(k + n) :
                /\ m <= l /\ c[m].is # "blank" /\ c[l].is # "blank"
                /\ \A i \in 1..(k + n) : i < m \/ l < i => c[i].is = "blank"
                /\ Trim(c) = SubSeq(c, m, l)
      <3>1. Len(c) = k + n /\ IsSeq(c)
        BY <1>4
      <3>2. ~ \A i \in 1..Len(c) : c[i].is = "blank"
        BY <2>2, <2>3, <3>1
      <3>3. \E m, l \in 1..Len(c) :
                /\ m <= l /\ c[m].is # "blank" /\ c[l].is # "blank"
                /\ \A i \in 1..Len(c) : i < m \/ l < i => c[i].is = "blank"
                /\ Trim(c) = SubSeq(c, m, l)
        BY <3>1, <3>2, TrimIs
      <3>4. QED
        BY <3>1, <3>3
    <2>5. m = k + 1 /\ l = k + n
      <3>1. ~(k + 1 < m) /\ ~(l < k + n)
        BY <2>2, <2>3, <2>4
      <3>2. ~(m \in 1..k)
        BY <1>4, <2>4
      <3>3. QED
        BY <1>4, <2>4, <3>1, <3>2
    <2>6. Cuts(Trim(c), c, k + 1, k + n)
      <3>1. k + 1 \in 1..Len(c) /\ k + n \in 1..Len(c) /\ k + 1 <= k + n
        BY <1>4, <2>2, <2>4, <2>5
      <3>2. QED
        BY <1>4, <2>4, <2>5, <3>1, SubSeqCuts
    <2>7. (k + n) - (k + 1) + 1 = n /\ \A i \in 1..n : (k + 1) + i - 1 = k + i
      BY <1>4
    <2>8. Trim(c) \in Seq(Range(c)) /\ Len(Trim(c)) = n /\ \A i \in 1..n : Trim(c)[i] = c[k + i]
      BY <2>6, <2>7 DEF Cuts
    <2>9. IsSeq(Trim(c)) /\ \A i \in 1..n : Trim(c)[i] = b[i]
      BY <1>4, <2>8, SeqIs
    <2>10. QED
      BY <1>2, <1>3, <2>8, <2>9, SameSeq
  <1>7. QED
    BY <1>5, <1>6

-----------------------------------------------------------------------------
(* The first of several songs. *)

\* No song starts in these lines.
NoSong(lines) == \A i \in 1..Len(lines) : lines[i].is # "newsong"

\* A text up to the first line that a song starts with.
IsUntil(u, lines) ==
    /\ IsSeq(u) /\ Len(u) \in Nat /\ Len(u) <= Len(lines) /\ NoSong(u)
    /\ \A i \in 1..Len(u) : u[i] = lines[i]
    /\ Len(u) = Len(lines) \/ lines[Len(u) + 1].is = "newsong"

LEMMA OneUntil ==
    ASSUME NEW lines, IsSeq(lines), NEW u, IsUntil(u, lines), NEW v, IsUntil(v, lines)
    PROVE  u = v
  <1>1. PICK N, k, n \in Nat : N = Len(lines) /\ k = Len(u) /\ n = Len(v)
    BY SeqIs DEF IsSeq, IsUntil
  <1>2. ASSUME NEW ch, IsUntil(ch, lines), NEW y, IsUntil(y, lines)
        PROVE  ~(Len(ch) < Len(y))
    <2>1. PICK a, b \in Nat : a = Len(ch) /\ b = Len(y)
      BY <1>2 DEF IsUntil
    <2>2. SUFFICES ASSUME a < b PROVE FALSE
      BY <2>1
    <2>3. a + 1 \in 1..b /\ b <= N
      BY <1>1, <1>2, <2>1, <2>2 DEF IsUntil
    <2>4. lines[a + 1].is = "newsong"
      BY <1>1, <1>2, <2>1, <2>2, <2>3 DEF IsUntil
    <2>5. y[a + 1] = lines[a + 1] /\ y[a + 1].is # "newsong"
      BY <1>2, <2>1, <2>3 DEF IsUntil, NoSong
    <2>6. QED
      BY <2>4, <2>5
  <1>3. ~(k < n) /\ ~(n < k)
    BY <1>1, <1>2
  <1>4. k = n
    BY <1>1, <1>3
  <1>5. \A i \in 1..k : u[i] = v[i]
    BY <1>1, <1>4 DEF IsUntil
  <1>6. QED
    BY <1>1, <1>4, <1>5, SameSeq DEF IsUntil

LEMMA UntilIs ==
    ASSUME NEW lines, IsSeq(lines)
    PROVE  /\ IsUntil(untilNewSong(lines), lines)
           /\ untilNewSong(lines) \in Seq(Range(lines))
           /\ NoSong(lines) => untilNewSong(lines) = lines
  <1> DEFINE at == {i \in DOMAIN lines : lines[i].is = "newsong"}
  <1>1. PICK N \in Nat : N = Len(lines) /\ DOMAIN lines = 1..N
    BY SeqIs DEF IsSeq
  <1>2. CASE at = {}
    <2>1. untilNewSong(lines) = lines
      BY <1>2 DEF untilNewSong
    <2>2. NoSong(lines)
      BY <1>1, <1>2 DEF NoSong
    <2>3. QED
      BY <1>1, <2>1, <2>2 DEF IsUntil, IsSeq
  <1>3. CASE at # {}
    <2>1. at \in SUBSET Nat /\ \A i \in at : i \in 1..N
      BY <1>1
    <2>2. PICK m : m = Min(at)
      OBVIOUS
    <2>3. m \in at /\ \A i \in at : m <= i
      BY <1>3, <2>1, <2>2, LeastOf
    <2>4. m \in 1..N /\ lines[m].is = "newsong"
      BY <1>1, <2>3
    <2>5. PICK k \in Nat : k = m - 1 /\ k + 1 = m
      <3>1. m - 1 \in Nat /\ (m - 1) + 1 = m
        BY <2>4
      <3>2. QED
        BY <3>1
    <2>6. PICK u : u = SubSeq(lines, 1, k)
      OBVIOUS
    <2>7. untilNewSong(lines) = u
      BY <1>3, <2>2, <2>5, <2>6 DEF untilNewSong
    <2>8. \A i \in 1..k : i \in 1..N /\ lines[i] \in Range(lines)
      <3>1. \A i \in 1..k : i \in 1..N
        BY <2>4, <2>5
      <3>2. QED
        BY <1>1, <3>1, SeqIs DEF IsSeq
    <2>9. u \in Seq(Range(lines)) /\ Len(u) = k /\ \A i \in 1..k : u[i] = lines[i]
      <3>1. /\ u \in Seq(Range(lines))
            /\ Len(u) = IF 1 <= k THEN k - 1 + 1 ELSE 0
            /\ \A i \in 1..(k - 1 + 1) : u[i] = lines[1 + i - 1]
        BY <2>6, <2>8, SubSeqProperties
      <3>2. k - 1 + 1 = k /\ \A i \in 1..k : 1 + i - 1 = i
        OBVIOUS
      <3>3. QED
        BY <3>1, <3>2
    <2>10. NoSong(u)
      <3>1. \A i \in 1..k : i < m /\ i \in 1..N
        BY <2>5, <2>8
      <3>2. \A i \in 1..k : i \notin at
        BY <2>3, <2>4, <3>1
      <3>3. QED
        BY <1>1, <2>9, <3>1, <3>2 DEF NoSong
    <2>11. k <= N /\ ~NoSong(lines)
      BY <1>1, <2>4, <2>5 DEF NoSong
    <2>12. IsUntil(u, lines)
      BY <1>1, <2>4, <2>5, <2>9, <2>10, <2>11, SeqIs DEF IsUntil
    <2>13. QED
      BY <2>7, <2>9, <2>11, <2>12
  <1>4. QED
    BY <1>2, <1>3

\* What is before the first song is before what is until then.
LEMMA UntilJoins ==
    ASSUME NEW a, NEW b, IsSeq(a), IsSeq(b), NoSong(a)
    PROVE  untilNewSong(a \o b) = a \o untilNewSong(b)
  <1>1. PICK u, c, v : u = untilNewSong(b) /\ c = a \o b /\ v = a \o u
    OBVIOUS
  <1>2. IsUntil(u, b) /\ IsSeq(u)
    BY <1>1, UntilIs DEF IsUntil
  <1>3. PICK m, k, n \in Nat : m = Len(a) /\ k = Len(u) /\ n = Len(b)
    BY <1>2, SeqIs DEF IsSeq
  <1>4. /\ IsSeq(c) /\ Len(c) = m + n
        /\ (\A i \in 1..m : c[i] = a[i]) /\ \A i \in 1..n : c[m + i] = b[i]
    BY <1>1, <1>3, Joined
  <1>5. /\ IsSeq(v) /\ Len(v) = m + k
        /\ (\A i \in 1..m : v[i] = a[i]) /\ \A i \in 1..k : v[m + i] = u[i]
    BY <1>1, <1>2, <1>3, Joined
  <1>6. \A i \in 1..(m + k) : i \in 1..m \/ (i - m \in 1..k /\ i = m + (i - m))
    OBVIOUS
  <1>7. k <= n /\ (\A i \in 1..k : i \in 1..n /\ u[i] = b[i] /\ u[i].is # "newsong")
        /\ (k = n \/ b[k + 1].is = "newsong")
    BY <1>2, <1>3 DEF IsUntil, NoSong
  <1>8. \A i \in 1..(m + k) : v[i] = c[i] /\ v[i].is # "newsong"
    <2>1. \A i \in 1..m : v[i] = c[i] /\ v[i].is # "newsong"
      BY <1>3, <1>4, <1>5 DEF NoSong
    <2>2. \A i \in 1..k : v[m + i] = c[m + i] /\ v[m + i].is # "newsong"
      BY <1>4, <1>5, <1>7
    <2>3. QED
      BY <1>6, <2>1, <2>2
  <1>9. m + k = m + n \/ c[(m + k) + 1].is = "newsong"
    <2>1. CASE k = n
      BY <2>1
    <2>2. CASE k # n
      <3>1. k + 1 \in 1..n /\ m + (k + 1) = (m + k) + 1
        BY <1>7, <2>2
      <3>2. QED
        BY <1>4, <1>7, <2>2, <3>1
    <2>3. QED
      BY <2>1, <2>2
  <1>10. IsUntil(v, c)
    BY <1>4, <1>5, <1>7, <1>8, <1>9 DEF IsUntil, NoSong
  <1>11. QED
    BY <1>1, <1>4, <1>10, UntilIs, OneUntil

\* A file that says something in its first line is of the song it starts with.
LEMMA FirstIs ==
    ASSUME NEW f, IsSeq(f), Len(f) # 0, f[1].is \notin {"blank", "newsong"}
    PROVE  firstSong(f) = untilNewSong(f)
  <1> DEFINE says == {i \in DOMAIN f : f[i].is \notin {"blank", "newsong"}}
  <1>1. PICK N \in Nat : N = Len(f) /\ DOMAIN f = 1..N /\ N # 0
    BY SeqIs DEF IsSeq
  <1>2. 1 \in says /\ says \in SUBSET Nat /\ \A i \in says : 1 <= i
    BY <1>1
  <1>3. Min(says) = 1
    <2>1. Min(says) \in says /\ \A i \in says : Min(says) <= i
      BY <1>2, LeastOf
    <2>2. Min(says) <= 1 /\ 1 <= Min(says) /\ Min(says) \in Nat
      BY <1>2, <2>1
    <2>3. QED
      BY <2>2
  <1>4. PICK t : t = SubSeq(f, 1, N)
    OBVIOUS
  <1>5. Cuts(t, f, 1, N)
    <2>1. 1 \in 1..Len(f) /\ N \in 1..Len(f) /\ 1 <= N
      BY <1>1
    <2>2. QED
      BY <1>4, <2>1, SubSeqCuts
  <1>6. Len(t) = N /\ \A i \in 1..N : t[i] = f[i]
    <2>1. N - 1 + 1 = N /\ \A i \in 1..N : 1 + i - 1 = i
      BY <1>1
    <2>2. QED
      BY <1>5, <2>1 DEF Cuts
  <1>7. t = f
    BY <1>1, <1>5, <1>6, SeqIs, SameSeq DEF Cuts
  <1>8. firstSong(f) = untilNewSong(SubSeq(f, Min(says), Len(f)))
    BY <1>2 DEF firstSong
  <1>9. QED
    BY <1>1, <1>3, <1>4, <1>7, <1>8

\* A blank line before a text goes when it is trimmed.
LEMMA TrimBlank ==
    ASSUME NEW u, IsSeq(u)
    PROVE  Trim(<<L("blank")>> \o u) = Trim(u)
  <1>1. PICK a, c : a = <<L("blank")>> /\ c = a \o u
    OBVIOUS
  <1>2. IsSeq(a) /\ Len(a) = 1 /\ a[1].is = "blank"
    <2>1. a \in Seq({L("blank")}) /\ Len(a) = 1 /\ a[1] = L("blank")
      BY <1>1
    <2>2. QED
      BY <2>1, SeqIs DEF L
  <1>3. PICK k \in Nat : k = Len(u)
    BY SeqIs DEF IsSeq
  <1>4. /\ IsSeq(c) /\ Len(c) = 1 + k /\ c[1].is = "blank"
        /\ \A i \in 1..k : c[1 + i] = u[i]
    BY <1>1, <1>2, <1>3, Joined
  <1>5. \A i \in 1..(1 + k) : i = 1 \/ (i - 1 \in 1..k /\ i = 1 + (i - 1))
    OBVIOUS
  <1>6. CASE \A i \in 1..k : u[i].is = "blank"
    <2>1. Trim(u) = <<>>
      BY <1>3, <1>6, TrimIs
    <2>2. \A i \in 1..(1 + k) : c[i].is = "blank"
      BY <1>4, <1>5, <1>6
    <2>3. Trim(c) = <<>>
      BY <1>4, <2>2, TrimIs
    <2>4. QED
      BY <1>1, <2>1, <2>3
  <1>7. CASE ~ \A i \in 1..k : u[i].is = "blank"
    <2>1. PICK m, n \in 1..k :
                /\ m <= n /\ u[m].is # "blank" /\ u[n].is # "blank"
                /\ \A i \in 1..k : i < m \/ n < i => u[i].is = "blank"
                /\ Trim(u) = SubSeq(u, m, n)
      BY <1>3, <1>7, TrimIs
    <2>2. 1 + m \in 1..(1 + k) /\ c[1 + m].is # "blank" /\ 1 + n \in 1..(1 + k)
          /\ c[1 + n].is # "blank"
      BY <1>4, <2>1
    <2>3. PICK p, q \in 1..(1 + k) :
                /\ p <= q /\ c[p].is # "blank" /\ c[q].is # "blank"
                /\ \A i \in 1..(1 + k) : i < p \/ q < i => c[i].is = "blank"
                /\ Trim(c) = SubSeq(c, p, q)
      <3>1. Len(c) = 1 + k /\ IsSeq(c)
        BY <1>4
      <3>2. ~ \A i \in 1..Len(c) : c[i].is = "blank"
        BY <2>2, <3>1
      <3>3. \E p, q \in 1..Len(c) :
                /\ p <= q /\ c[p].is # "blank" /\ c[q].is # "blank"
                /\ \A i \in 1..Len(c) : i < p \/ q < i => c[i].is = "blank"
                /\ Trim(c) = SubSeq(c, p, q)
        BY <3>1, <3>2, TrimIs
      <3>4. QED
        BY <3>1, <3>3
    <2>4. PICK v, w \in 1..k : p = 1 + v /\ q = 1 + w
      <3>1. p # 1 /\ q # 1
        BY <1>4, <2>3
      <3>2. p - 1 \in 1..k /\ p = 1 + (p - 1) /\ q - 1 \in 1..k /\ q = 1 + (q - 1)
        BY <1>5, <2>3, <3>1
      <3>3. QED
        BY <3>2
    <2>5. u[v].is # "blank" /\ u[w].is # "blank"
      BY <1>4, <2>3, <2>4
    <2>6. v = m /\ w = n
      <3>1. ~(v < m) /\ ~(n < w)
        BY <2>1, <2>4, <2>5
      <3>2. ~(1 + m < p) /\ ~(q < 1 + n)
        BY <2>2, <2>3
      <3>3. QED
        BY <2>1, <2>4, <3>1, <3>2
    <2>7. Cuts(Trim(u), u, m, n) /\ Cuts(Trim(c), c, 1 + m, 1 + n)
      <3>1. Cuts(Trim(u), u, m, n)
        BY <1>3, <2>1, SubSeqCuts
      <3>2. 1 + m \in 1..Len(c) /\ 1 + n \in 1..Len(c) /\ 1 + m <= 1 + n
        BY <1>4, <2>1, <2>2
      <3>3. Trim(c) = SubSeq(c, 1 + m, 1 + n)
        BY <2>3, <2>4, <2>6
      <3>4. QED
        BY <1>4, <3>1, <3>2, <3>3, SubSeqCuts
    <2>8. PICK d \in Nat : d = n - m + 1
      <3>1. n - m + 1 \in Nat
        BY <2>1
      <3>2. QED
        BY <3>1
    <2>9. (1 + n) - (1 + m) + 1 = d
          /\ \A i \in 1..d : m + i - 1 \in 1..k /\ (1 + m) + i - 1 = 1 + (m + i - 1)
      BY <2>1, <2>8
    <2>10. /\ Len(Trim(u)) = d /\ Len(Trim(c)) = d
           /\ \A i \in 1..d : Trim(u)[i] = u[m + i - 1] /\ Trim(c)[i] = c[(1 + m) + i - 1]
      BY <2>7, <2>8, <2>9 DEF Cuts
    <2>11. \A i \in 1..d : Trim(c)[i] = Trim(u)[i]
      BY <1>4, <2>9, <2>10
    <2>12. IsSeq(Trim(u)) /\ IsSeq(Trim(c))
      BY <2>7, SeqIs DEF Cuts
    <2>13. QED
      BY <1>1, <2>10, <2>11, <2>12, SameSeq
  <1>8. QED
    BY <1>6, <1>7

-----------------------------------------------------------------------------
(* The shapes of a chord's box. *)

\* What is asked of the shapes that Shapes computes for a chord: a list of
\* at least one.
ShapesKnown ==
    \A b \in Boxes :
        LET shapes == Known(b)
        IN /\ shapes \in Seq({shapes[i] : i \in DOMAIN shapes}) /\ shapes # <<>>
           /\ \A i \in DOMAIN shapes :
                None # (IF b.strings = <<>> THEN shapes[i] ELSE shapes[i].frets)

-----------------------------------------------------------------------------
(* Looking a shape up. *)

\* A list of shapes of these keys.
IsList(shapes, keys) ==
    /\ Len(shapes) \in Nat \ {0} /\ DOMAIN shapes = 1..Len(shapes)
    /\ keys = {keyOf(shapes[i]) : i \in DOMAIN shapes}

LEMMA IndexOfKey ==
    ASSUME NEW shapes, NEW keys, IsList(shapes, keys), NEW key
    PROVE  /\ key \in keys => /\ IndexOf(shapes, key) \in DOMAIN shapes
                              /\ keyOf(shapes[IndexOf(shapes, key)]) = key
           /\ key \notin keys => IndexOf(shapes, key) = Len(shapes) + 1
  <1> DEFINE at == {i \in DOMAIN shapes : keyOf(shapes[i]) = key}
             all == {Len(shapes) + 1} \cup at
  <1>1. all \in SUBSET Nat /\ all # {} /\ Len(shapes) \in Nat /\ at \subseteq 1..Len(shapes)
    BY DEF IsList
  <1>2. PICK least : least = Min(all)
    OBVIOUS
  <1>3. least \in all /\ \A i \in all : least <= i
    BY <1>1, <1>2, LeastOf
  <1>4. IndexOf(shapes, key) = least
    BY <1>2 DEF IndexOf
  <1>5. key \in keys <=> at # {}
    BY DEF IsList
  <1>6. CASE at = {}
    BY <1>3, <1>4, <1>5, <1>6
  <1>7. CASE at # {}
    <2>1. PICK i \in at : TRUE
      BY <1>7
    <2>2. least <= i /\ i <= Len(shapes) /\ i \in Nat
      BY <1>1, <1>3, <2>1
    <2>3. least \in at
      BY <1>1, <1>3, <2>2
    <2>4. QED
      BY <1>4, <1>5, <1>7, <2>3
  <1>8. QED
    BY <1>6, <1>7

-----------------------------------------------------------------------------
(* The box. *)

BoxInv ==
    /\ box \in Boxes /\ generated = Known(box)
    /\ {edit, moved} \subseteq BOOLEAN
    /\ edit => ~moved /\ ~piano
    /\ piano => sheetOwn = None
    /\ picks = [s \in Scopes |-> picks[s]]

\* The keys of the shapes of the box, and that of the default.
Generated == {keyOf(generated[i]) : i \in DOMAIN generated}
Keys == Generated \cup (IF own = None THEN {} ELSE {own})
Default == IF own = None THEN keyOf(generated[1]) ELSE own

\* What the box shows: the pick where it still is a shape, or the default.
Picked == IF ~edit /\ picks[scope] \in Keys THEN picks[scope] ELSE Default

LEMMA FretsAsTyped == ASSUME NEW frets PROVE voicingFromFrets(frets).frets = frets
  BY DEF voicingFromFrets, Voicing

LEMMA GeneratedList ==
    ASSUME ShapesKnown, BoxInv
    PROVE  /\ IsList(generated, Generated) /\ None \notin Generated
           /\ generated \in Seq({generated[i] : i \in DOMAIN generated})
  <1>1. generated \in Seq({generated[i] : i \in DOMAIN generated}) /\ generated # <<>>
    BY DEF ShapesKnown, BoxInv
  <1>2. \A i \in DOMAIN generated : keyOf(generated[i]) # None
    BY DEF ShapesKnown, BoxInv, keyOf, piano
  <1>3. Len(generated) \in Nat \ {0} /\ DOMAIN generated = 1..Len(generated)
    BY <1>1
  <1>4. QED
    BY <1>1, <1>2, <1>3 DEF IsList, Generated

LEMMA ListOfBox ==
    ASSUME ShapesKnown, BoxInv
    PROVE  /\ IsList(shapesList, Keys) /\ None \notin Keys
           /\ defaultIndex \in DOMAIN shapesList
           /\ keyOf(shapesList[defaultIndex]) = Default
  <1>0. /\ IsList(generated, Generated) /\ None \notin Generated
        /\ generated \in Seq({generated[i] : i \in DOMAIN generated})
        /\ Len(generated) \in Nat \ {0} /\ DOMAIN generated = 1..Len(generated)
    BY GeneratedList DEF IsList
  <1>1. CASE own = None
    BY <1>0, <1>1 DEF shapesList, defaultIndex, Keys, Default, IsList
  <1>2. CASE own # None /\ own \in Generated
    <2>1. IndexOf(generated, own) \in DOMAIN generated
          /\ keyOf(generated[IndexOf(generated, own)]) = own
      BY <1>0, <1>2, IndexOfKey
    <2>2. shapesList = generated /\ Keys = Generated
      BY <1>0, <1>2, <2>1 DEF shapesList, Keys
    <2>3. defaultIndex = IndexOf(generated, own) /\ Default = own
      BY <1>2, <2>2 DEF defaultIndex, Default
    <2>4. QED
      BY <1>0, <2>1, <2>2, <2>3
  <1>3. CASE own # None /\ own \notin Generated
    <2>1. IndexOf(generated, own) = Len(generated) + 1
      BY <1>0, <1>3, IndexOfKey
    <2>2. PICK v : v = voicingFromFrets(own)
      OBVIOUS
    <2>3. ~piano /\ keyOf(v) = own
      BY <1>3, <2>2, FretsAsTyped DEF BoxInv, own, keyOf
    <2>4. shapesList = <<v>> \o generated
      BY <1>0, <1>3, <2>1, <2>2 DEF shapesList
    <2>5. PICK n \in Nat \ {0} : n = Len(generated)
      BY <1>0
    <2>6. /\ Len(shapesList) = n + 1 /\ DOMAIN shapesList = 1..(n + 1)
          /\ shapesList[1] = v /\ \A i \in 1..n : shapesList[i + 1] = generated[i]
      <3>1. PICK S : generated \in Seq(S) /\ v \in S
        <4>1. generated \in Seq({generated[i] : i \in DOMAIN generated} \cup {v})
          BY <1>0
        <4>2. QED
          BY <4>1
      <3>2. QED
        BY <2>4, <2>5, <3>1
    <2>7. \A i \in 2..(n + 1) : i - 1 \in 1..n /\ shapesList[i] = generated[i - 1]
      BY <2>6
    <2>8. {keyOf(shapesList[i]) : i \in DOMAIN shapesList} = Generated \cup {own}
      <3>1. \A i \in DOMAIN shapesList : keyOf(shapesList[i]) \in Generated \cup {own}
        <4>1. TAKE i \in DOMAIN shapesList
        <4>2. i = 1 \/ i \in 2..(n + 1)
          BY <2>6
        <4>3. i \in 2..(n + 1) => keyOf(shapesList[i]) = keyOf(generated[i - 1])
                                  /\ i - 1 \in DOMAIN generated
          BY <1>0, <2>5, <2>7 DEF keyOf
        <4>4. keyOf(shapesList[1]) = own
          BY <2>3, <2>6 DEF keyOf
        <4>5. QED
          BY <4>2, <4>3, <4>4 DEF Generated
      <3>2. \A key \in Generated \cup {own} :
                \E i \in DOMAIN shapesList : keyOf(shapesList[i]) = key
        <4>1. TAKE key \in Generated \cup {own}
        <4>2. CASE key = own
          <5>1. 1 \in DOMAIN shapesList /\ keyOf(shapesList[1]) = own
            BY <2>3, <2>6 DEF keyOf
          <5>2. QED
            BY <4>2, <5>1
        <4>3. CASE key \in Generated
          <5>1. PICK i \in 1..n : key = keyOf(generated[i])
            BY <1>0, <2>5, <4>3 DEF Generated
          <5>2. i + 1 \in DOMAIN shapesList /\ keyOf(shapesList[i + 1]) = key
            BY <2>6, <5>1 DEF keyOf
          <5>3. QED
            BY <5>2
        <4>4. QED
          BY <4>2, <4>3
      <3>3. QED
        BY <3>1, <3>2
    <2>9. IsList(shapesList, Keys) /\ None \notin Keys
      <3>1. Keys = Generated \cup {own} /\ None \notin Generated /\ own # None
        BY <1>0, <1>3 DEF Keys
      <3>2. Len(shapesList) \in Nat \ {0} /\ DOMAIN shapesList = 1..Len(shapesList)
        BY <2>6
      <3>3. QED
        BY <2>8, <3>1, <3>2 DEF IsList
    <2>10. own \in Keys /\ Default = own /\ defaultIndex = IndexOf(shapesList, own)
      BY <1>3 DEF Keys, Default, defaultIndex
    <2>11. QED
      BY <2>9, <2>10, IndexOfKey
  <1>4. QED
    BY <1>1, <1>2, <1>3

LEMMA ShownIsPicked == ShapesKnown /\ BoxInv => index \in DOMAIN shapesList /\ Shown = Picked
  <1> SUFFICES ASSUME ShapesKnown, BoxInv
               PROVE  index \in DOMAIN shapesList /\ Shown = Picked
    OBVIOUS
  <1>1. /\ IsList(shapesList, Keys) /\ defaultIndex \in DOMAIN shapesList
        /\ keyOf(shapesList[defaultIndex]) = Default
        /\ Len(shapesList) \in Nat /\ DOMAIN shapesList = 1..Len(shapesList)
    BY ListOfBox DEF IsList
  <1>2. CASE ~edit /\ picks[scope] \in Keys
    <2>1. /\ IndexOf(shapesList, picks[scope]) \in DOMAIN shapesList
          /\ keyOf(shapesList[IndexOf(shapesList, picks[scope])]) = picks[scope]
      BY <1>1, <1>2, IndexOfKey
    <2>2. index = IndexOf(shapesList, picks[scope])
      BY <1>1, <1>2, <2>1 DEF index
    <2>3. QED
      BY <1>2, <2>1, <2>2 DEF Shown, Picked
  <1>3. CASE ~(~edit /\ picks[scope] \in Keys)
    <2>1. ~edit => IndexOf(shapesList, picks[scope]) = Len(shapesList) + 1
      BY <1>1, <1>3, IndexOfKey
    <2>2. index = defaultIndex
      BY <1>1, <2>1 DEF index
    <2>3. QED
      BY <1>1, <1>3, <2>2 DEF Shown, Picked
  <1>4. QED
    BY <1>2, <1>3

-----------------------------------------------------------------------------
(* Steps. *)

LEMMA BoxInvInit == BoxInit => BoxInv
  BY DEF BoxInit, BoxInv, piano, Scopes

LEMMA BoxInvStep == BoxInv /\ [BoxNext]_boxVars => BoxInv'
  <1> SUFFICES ASSUME BoxInv, [BoxNext]_boxVars PROVE BoxInv'
    OBVIOUS
  <1>1. CASE UNCHANGED boxVars
    BY <1>1 DEF BoxInv, boxVars, piano
  <1>2. ASSUME NEW d \in {-1, 1}, step(d) PROVE BoxInv'
    <2>1. UNCHANGED <<box, generated, edit, moved>>
      BY <1>2 DEF step
    <2>2. picks' = [s \in Scopes |-> picks'[s]]
      BY <1>2 DEF step, BoxInv
    <2>3. piano' = piano /\ (piano => sheetOwn' = sheetOwn)
      BY <1>2, <2>1 DEF step, BoxInv, piano
    <2>4. QED
      BY <2>1, <2>2, <2>3 DEF BoxInv
  <1>3. ASSUME NEW frets, TypeFrets(frets) PROVE BoxInv'
    BY <1>3 DEF TypeFrets, BoxInv, piano
  <1>4. CASE MoveChords
    BY <1>4 DEF MoveChords, BoxInv, piano
  <1>5. QED
    BY <1>1, <1>2, <1>3, <1>4 DEF BoxNext

LEMMA BoxKeepsInv == BoxSpec => []BoxInv
  BY BoxInvInit, BoxInvStep, PTL DEF BoxSpec

\* The chart plays the shape that the chord's box shows (resolveVoicing,
\* useVoicing), for any chords, picks and typed shapes.
THEOREM ResolvesAsShown == ASSUME ShapesKnown PROVE BoxSpec => []ResolveAgrees
  <1>1. BoxInv => ResolveAgrees
    <2> SUFFICES ASSUME BoxInv PROVE keyOf(resolveVoicing) = Picked
      BY ShownIsPicked DEF ResolveAgrees
    <2>1. /\ IsList(shapesList, Keys) /\ keyOf(shapesList[defaultIndex]) = Default
          /\ DOMAIN shapesList = 1..Len(shapesList) /\ Len(shapesList) \in Nat
      BY ListOfBox DEF IsList
    <2> DEFINE found == {i \in DOMAIN shapesList : ~edit /\ keyOf(shapesList[i]) = picks[scope]}
    <2>2. found # {} <=> ~edit /\ picks[scope] \in Keys
      BY <2>1 DEF IsList
    <2>3. found \in SUBSET Nat
      BY <2>1
    <2>4. resolveVoicing = Found(found)
      BY DEF resolveVoicing
    <2>5. CASE found = {}
      <3>1. resolveVoicing = shapesList[defaultIndex]
        BY <2>4, <2>5 DEF Found
      <3>2. Picked = Default
        BY <2>2, <2>5 DEF Picked
      <3>3. QED
        BY <2>1, <3>1, <3>2
    <2>6. CASE found # {}
      <3>1. PICK i : i = Min(found)
        OBVIOUS
      <3>2. i \in found
        BY <2>3, <2>6, <3>1, LeastOf
      <3>3. resolveVoicing = shapesList[i]
        BY <2>4, <2>6, <3>1 DEF Found
      <3>4. Picked = picks[scope] /\ keyOf(shapesList[i]) = picks[scope]
        BY <2>2, <2>6, <3>2 DEF Picked
      <3>5. QED
        BY <3>3, <3>4
    <2>7. QED
      BY <2>5, <2>6
  <1>2. QED
    BY <1>1, BoxKeepsInv, PTL

-----------------------------------------------------------------------------
(* Stepping. *)

LEMMA NextIsShape ==
    ASSUME ShapesKnown, BoxInv, NEW d \in {-1, 1}
    PROVE  keyOf(Next(d)) \in Keys
  <1>1. PICK n, i : n = Len(shapesList) /\ i = index
    OBVIOUS
  <1>2. n \in Nat \ {0} /\ DOMAIN shapesList = 1..n /\ i \in 1..n
    BY <1>1, ShownIsPicked, ListOfBox DEF IsList
  <1>3. 1 + ((i - 1 + d + n) % n) \in 1..n
    BY <1>2
  <1>4. QED
    BY <1>1, <1>2, <1>3, ListOfBox DEF IsList, Next

LEMMA StepShows ==
    ASSUME ShapesKnown, BoxInv, NEW d \in {-1, 1}, step(d)
    PROVE  Picked' = keyOf(Next(d)) /\ (own # None => UNCHANGED picks["all"])
  <1>1. PICK key : key = keyOf(Next(d))
    OBVIOUS
  <1>2. key \in Keys /\ None \notin Keys
    BY <1>1, NextIsShape, ListOfBox
  <1>3. /\ UNCHANGED <<box, generated, edit, moved>> /\ edit \in BOOLEAN /\ moved \in BOOLEAN
        /\ Generated' = Generated /\ keyOf(generated[1])' = keyOf(generated[1])
    BY DEF step, BoxInv, Generated, keyOf, piano
  <1>4. CASE edit
    <2>1. /\ ~moved /\ own = sheetOwn /\ own' = sheetOwn' /\ UNCHANGED picks
          /\ sheetOwn' = IF key = keyOf(generated[1]) THEN None ELSE key
      BY <1>1, <1>3, <1>4 DEF step, BoxInv, own
    <2>2. Picked' = Default'
      BY <1>3, <1>4 DEF Picked
    <2>3. QED
      BY <1>1, <1>2, <1>3, <2>1, <2>2 DEF Default
  <1>5. CASE ~edit
    <2>1. /\ own' = own /\ scope' = scope /\ Keys' = Keys /\ Default' = Default
          /\ picks' = [picks EXCEPT ![scope] = IF Next(d) = shapesList[defaultIndex]
                                               THEN None ELSE key]
      BY <1>1, <1>3, <1>5 DEF step, own, scope, Keys, Default
    <2>2. picks = [s \in Scopes |-> picks[s]] /\ scope \in Scopes
          /\ (own # None => scope = "sheet") /\ Scopes = {"sheet", "all"}
      BY DEF BoxInv, scope, Scopes
    <2>3. picks'[scope] = IF Next(d) = shapesList[defaultIndex] THEN None ELSE key
      BY <2>1, <2>2
    <2>4. own # None => picks'["all"] = picks["all"]
      BY <2>1, <2>2
    <2>5. Picked' = IF picks'[scope] \in Keys THEN picks'[scope] ELSE Default
      BY <1>3, <1>5, <2>1 DEF Picked
    <2>6. Next(d) = shapesList[defaultIndex] => key = Default
      BY <1>1, ListOfBox
    <2>7. QED
      BY <1>1, <1>2, <2>3, <2>4, <2>5, <2>6
  <1>6. QED
    BY <1>3, <1>4, <1>5

\* An arrow shows the next of the shapes counted, in the sheet and in the
\* editor, whatever is stored for it, and leaves the pick for all other
\* sheets alone where a sheet has a shape of its own (step, useVoicing).
THEOREM ArrowsShowNext == ASSUME ShapesKnown PROVE BoxSpec => StepShowsNext
  <1> DEFINE Shows == /\ \A d \in {-1, 1} : step(d) => Shown' = keyOf(Next(d))
                      /\ own # None => UNCHANGED picks["all"]
  <1>1. (ShapesKnown /\ BoxInv => Shown = Picked)'
    BY ShownIsPicked, PTL
  <1>2. ASSUME BoxInv, BoxInv', [BoxNext]_boxVars PROVE [Shows]_boxVars
    <2>1. Shown' = Picked'
      BY <1>1, <1>2
    <2>2. ASSUME NEW d \in {-1, 1}, step(d) PROVE Shown' = keyOf(Next(d))
      BY <1>2, <2>1, <2>2, StepShows
    <2>3. BoxNext => (own # None => UNCHANGED picks["all"])
      <3>1. ASSUME NEW d \in {-1, 1}, step(d) PROVE own # None => UNCHANGED picks["all"]
        BY <1>2, <3>1, StepShows
      <3>2. (\E frets \in Typed \cup {None} : TypeFrets(frets)) \/ MoveChords => UNCHANGED picks
        BY DEF TypeFrets, MoveChords
      <3>3. QED
        BY <3>1, <3>2 DEF BoxNext
    <2>4. QED
      BY <1>2, <2>2, <2>3
  <1> HIDE DEF Shows
  <1>3. BoxSpec => [][Shows]_boxVars
    BY <1>2, BoxKeepsInv, PTL DEF BoxSpec
  <1>4. QED
    BY <1>3 DEF StepShowsNext, Shows

-----------------------------------------------------------------------------
(* A file's lines. *)

LEMMA SaysOfJoin ==
    ASSUME NEW a, NEW b, IsSeq(a), IsSeq(b), NEW name, NEW nothing
    PROVE  Says(a \o b, name, nothing) = Says(b, name, Says(a, name, nothing))
  <1> DEFINE at(c) == {i \in DOMAIN c : c[i].is = "field" /\ c[i].name = name}
  <1>1. PICK m, n, c : m = Len(a) /\ n = Len(b) /\ c = a \o b
    OBVIOUS
  <1>2. /\ m \in Nat /\ n \in Nat /\ DOMAIN c = 1..(m + n)
        /\ (\A i \in 1..m : c[i] = a[i]) /\ \A i \in 1..n : c[m + i] = b[i]
    BY <1>1, Joined
  <1>3. DOMAIN a = 1..m /\ DOMAIN b = 1..n
    BY <1>1, SeqIs DEF IsSeq
  <1>4. CASE at(b) = {}
    <2>1. \A i \in 1..(m + n) : i \in 1..m \/ (i - m \in 1..n /\ i = m + (i - m))
      BY <1>2
    <2>2. \A i \in 1..n : m + i \notin at(c)
      BY <1>2, <1>3, <1>4
    <2>3. \A i : i \in at(c) <=> i \in at(a)
      <3>1. TAKE i
      <3>2. i \in at(a) => i \in 1..m /\ i \in 1..(m + n)
        BY <1>2, <1>3
      <3>3. i \in at(c) => i \in 1..m
        BY <1>2, <2>1, <2>2
      <3>4. i \in 1..m => (i \in at(c) <=> i \in at(a)) 
        <4>1. i \in 1..m => i \in 1..(m + n) /\ c[i] = a[i]
          BY <1>2
        <4>2. QED
          BY <1>2, <1>3, <4>1
      <3>5. QED
        BY <3>2, <3>3, <3>4
    <2>4. at(c) = at(a)
      BY <2>3
    <2>5. Says(b, name, Says(a, name, nothing)) = Says(a, name, nothing)
      BY <1>4 DEF Says
    <2>6. CASE at(a) = {}
      BY <1>1, <2>4, <2>5, <2>6 DEF Says
    <2>7. CASE at(a) # {}
      <3>1. PICK k : k = Max(at(a))
        OBVIOUS
      <3>2. at(a) \in SUBSET Nat /\ \A i \in at(a) : i <= m
        BY <1>2, <1>3
      <3>3. k \in at(a)
        BY <1>2, <2>7, <3>1, <3>2, GreatestOf
      <3>4. c[k] = a[k]
        BY <1>2, <1>3, <3>3
      <3>5. Says(a, name, nothing) = a[k].value /\ Says(c, name, nothing) = c[k].value
        BY <2>4, <2>7, <3>1 DEF Says
      <3>6. QED
        BY <1>1, <2>5, <3>4, <3>5
    <2>8. QED
      BY <2>6, <2>7
  <1>5. CASE at(b) # {}
    <2>1. PICK k : k = Max(at(b))
      OBVIOUS
    <2>2. at(b) \in SUBSET Nat /\ \A i \in at(b) : i <= n
      BY <1>2, <1>3
    <2>3. k \in at(b) /\ \A i \in at(b) : i <= k
      BY <1>2, <1>5, <2>1, <2>2, GreatestOf
    <2>4. k \in 1..n /\ m + k \in at(c) /\ m + k \in 1..(m + n)
      <3>1. k \in 1..n /\ m + k \in 1..(m + n)
        BY <1>2, <1>3, <2>3
      <3>2. QED
        BY <1>2, <2>3, <3>1
    <2>5. \A i \in at(c) : i <= m + k
      <3>1. TAKE i \in at(c)
      <3>2. i \in 1..(m + n)
        BY <1>2
      <3>3. CASE i <= m
        BY <1>2, <2>4, <3>2, <3>3
      <3>4. CASE ~(i <= m)
        <4>1. i - m \in 1..n /\ m + (i - m) = i
          BY <1>2, <3>2, <3>4
        <4>2. i - m \in at(b)
          BY <1>2, <1>3, <4>1
        <4>3. i - m <= k
          BY <2>3, <4>2
        <4>4. QED
          BY <1>2, <2>4, <3>2, <4>3
      <3>5. QED
        BY <3>3, <3>4
    <2>6. at(c) \in SUBSET Nat
      BY <1>2
    <2>7. Max(at(c)) = m + k
      BY <2>4, <2>5, <2>6, GreatestIs
    <2>8. Says(c, name, nothing) = c[m + k].value
      <3>1. at(c) # {}
        BY <2>4
      <3>2. QED
        BY <2>7, <3>1 DEF Says
    <2>9. \A d : Says(b, name, d) = b[k].value
      BY <1>5, <2>1 DEF Says
    <2>10. QED
      BY <1>1, <1>2, <2>4, <2>8, <2>9
  <1>6. QED
    BY <1>4, <1>5

\* Lines that say no field.
NoField(lines) == IsSeq(lines) /\ \A i \in 1..Len(lines) : lines[i].is # "field"

LEMMA NoFieldSays ==
    ASSUME NEW b, NoField(b), NEW name, NEW nothing
    PROVE  Says(b, name, nothing) = nothing
  <1>1. DOMAIN b = 1..Len(b)
    BY SeqIs DEF NoField, IsSeq
  <1>2. QED
    BY <1>1 DEF Says, NoField

\* The lines of a header.
IsHeader(lines) ==
    IsSeq(lines) /\ \A i \in 1..Len(lines) : lines[i].is \in {"field", "credit"}

LEMMA HeaderGrows ==
    ASSUME NEW a, NEW b, IsHeader(a), IsHeader(b)
    PROVE  IsHeader(a \o b)
  <1>1. PICK m, n, c : m = Len(a) /\ n = Len(b) /\ c = a \o b
    OBVIOUS
  <1>2. /\ m \in Nat /\ n \in Nat /\ Len(c) = m + n /\ IsSeq(c)
        /\ (\A i \in 1..m : c[i] = a[i]) /\ \A i \in 1..n : c[m + i] = b[i]
    BY <1>1, Joined DEF IsHeader
  <1>3. \A i \in 1..(m + n) : i \in 1..m \/ (i - m \in 1..n /\ i = m + (i - m))
    BY <1>2
  <1>4. \A i \in 1..m : c[i].is \in {"field", "credit"}
    BY <1>1, <1>2 DEF IsHeader
  <1>5. \A i \in 1..n : c[m + i].is \in {"field", "credit"}
    BY <1>1, <1>2 DEF IsHeader
  <1>6. \A i \in 1..(m + n) : c[i].is \in {"field", "credit"}
    BY <1>3, <1>4, <1>5
  <1>7. QED
    BY <1>1, <1>2, <1>6 DEF IsHeader

LEMMA OneField ==
    ASSUME NEW p, NEW field, NEW value, p = <<Field(field, value)>>
    PROVE  IsHeader(p) /\ \A name, d : Says(p, name, d) = IF field = name THEN value ELSE d
  <1>1. p \in Seq({Field(field, value)}) /\ Len(p) = 1 /\ p[1] = Field(field, value)
        /\ DOMAIN p = 1..1
    OBVIOUS
  <1>2. /\ Field(field, value).is = "field" /\ Field(field, value).name = field
        /\ Field(field, value).value = value
    BY DEF Field
  <1>3. IsHeader(p)
    <2>1. IsSeq(p)
      BY <1>1, SeqIs
    <2>2. \A i \in 1..1 : i = 1
      OBVIOUS
    <2>3. \A i \in 1..Len(p) : p[i].is = "field"
      BY <1>1, <1>2, <2>2
    <2>4. QED
      BY <2>1, <2>3 DEF IsHeader
  <1>4. ASSUME NEW name, NEW d PROVE Says(p, name, d) = IF field = name THEN value ELSE d
    <2> DEFINE at == {i \in DOMAIN p : p[i].is = "field" /\ p[i].name = name}
    <2>1. CASE field = name
      <3>1. at = {1}
        BY <1>1, <1>2, <2>1
      <3>2. Max({1}) = 1
        BY GreatestIs
      <3>3. QED
        BY <1>1, <1>2, <2>1, <3>1, <3>2 DEF Says
    <2>2. CASE field # name
      <3>1. at = {}
        BY <1>1, <1>2, <2>2
      <3>2. QED
        BY <2>2, <3>1 DEF Says
    <2>3. QED
      BY <2>1, <2>2
  <1>5. QED
    BY <1>3, <1>4

\* A field that is said unless there is nothing to say.
Piece(field, value, nothing) == IF value = nothing THEN <<>> ELSE <<Field(field, value)>>

LEMMA FieldOrNone ==
    ASSUME NEW p, NEW field, NEW value, NEW nothing, p = Piece(field, value, nothing)
    PROVE  /\ IsHeader(p)
           /\ \A name, d : Says(p, name, d) =
                IF field = name /\ value # nothing THEN value ELSE d
  <1>1. CASE value # nothing
    BY <1>1, OneField DEF Piece
  <1>2. CASE value = nothing
    <2>1. NoField(p) /\ IsHeader(p)
      BY <1>2 DEF Piece, NoField, IsHeader, IsSeq
    <2>2. QED
      BY <1>2, <2>1, NoFieldSays
  <1>3. QED
    BY <1>1, <1>2

\* The notes that a file says: their heading and so many lines.
IsNotes(lines, k) ==
    /\ IsSeq(lines) /\ Len(lines) = (IF k = 0 THEN 0 ELSE k + 1)
    /\ k # 0 => lines[1].is = "notes"
    /\ \A i \in 2..Len(lines) : lines[i].is = "hash"

\* What remains of a file after its header and its notes.
LEMMA RemainingIs ==
    ASSUME NEW head, IsHeader(head), NEW k \in Nat, NEW notes, IsNotes(notes, k),
           NEW b, IsSeq(b),
           \A i \in 1..Len(b) : b[i].is \notin {"field", "credit", "notes"},
           b # <<>> => b[1].is # "hash"
    PROVE  /\ Remaining((head \o notes) \o b).lines = b
           /\ Remaining((head \o notes) \o b).notes = k
  <1>1. PICK h, n, r, c, f : h = Len(head) /\ n = Len(notes) /\ r = Len(b) /\ c = head \o notes /\ f = c \o b
    OBVIOUS
  <1>2. /\ h \in Nat /\ n \in Nat /\ IsSeq(c) /\ Len(c) = h + n
        /\ (\A i \in 1..h : c[i] = head[i]) /\ \A i \in 1..n : c[h + i] = notes[i]
    <2>1. IsSeq(head) /\ IsSeq(notes)
      BY DEF IsHeader, IsNotes
    <2>2. /\ Len(head) \in Nat /\ Len(notes) \in Nat /\ IsSeq(head \o notes)
          /\ Len(head \o notes) = Len(head) + Len(notes)
          /\ \A i \in 1..Len(head) : (head \o notes)[i] = head[i]
          /\ \A i \in 1..Len(notes) : (head \o notes)[Len(head) + i] = notes[i]
      BY <2>1, Joined
    <2>3. QED
      BY <1>1, <2>2
  <1>3. /\ r \in Nat /\ IsSeq(f) /\ Len(f) = h + n + r /\ DOMAIN f = 1..(h + n + r)
        /\ (\A i \in 1..(h + n) : f[i] = c[i]) /\ \A i \in 1..r : f[(h + n) + i] = b[i]
    BY <1>1, <1>2, Joined
  <1>4. /\ \A i \in 1..h : i \in 1..(h + n) /\ f[i].is \in {"field", "credit"}
    <2>1. \A i \in 1..h : i \in 1..(h + n)
      BY <1>2
    <2>2. QED
      BY <1>1, <1>2, <1>3, <2>1 DEF IsHeader
  <1>5. n = (IF k = 0 THEN 0 ELSE k + 1)
    BY <1>1 DEF IsNotes
  <1>6. /\ k # 0 => f[h + 1].is = "notes"
        /\ \A i \in 2..n : f[h + i].is = "hash"
    <2>1. \A i \in 1..n : h + i \in 1..(h + n)
      BY <1>2
    <2>2. \A i \in 1..n : f[h + i] = notes[i]
      BY <1>2, <1>3, <2>1
    <2>3. (k # 0 => 1 \in 1..n) /\ \A i \in 2..n : i \in 1..n
      BY <1>2, <1>5
    <2>4. QED
      BY <1>1, <2>2, <2>3 DEF IsNotes
  <1>7. \A i \in 1..r : f[(h + n) + i].is \notin {"field", "credit", "notes"}
    BY <1>1, <1>3
  <1>8. r # 0 => f[(h + n) + 1].is # "hash"
    <2>1. r # 0 => b # <<>> /\ 1 \in 1..r
      BY <1>1, <1>3
    <2>2. QED
      BY <1>3, <2>1
  <1> DEFINE ofNotes == {i \in DOMAIN f : \E j \in 1..i :
                            f[j].is = "notes" /\ \A l \in (j + 1)..i : f[l].is = "hash"}
             gone == ofNotes \cup {i \in DOMAIN f : f[i].is \in {"field", "credit"}}
             hashes == {i \in ofNotes : f[i].is = "hash"}
  <1>9. \A i \in 1..(h + n + r) :
            \/ i \in 1..h
            \/ i = h + 1 /\ n # 0
            \/ i - h \in 2..n /\ i = h + (i - h)
            \/ i - (h + n) \in 1..r /\ i = (h + n) + (i - (h + n))
    BY <1>2, <1>3
  <1>10. \A j \in 1..(h + n + r) : f[j].is = "notes" => n # 0 /\ j = h + 1
    BY <1>4, <1>6, <1>7, <1>9
  <1>11. ofNotes = (h + 1)..(h + n)
    <2>1. ASSUME NEW i \in (h + 1)..(h + n) PROVE i \in ofNotes
      <3>1. n # 0 /\ k # 0 /\ h + 1 \in 1..i /\ i \in 1..(h + n + r)
        BY <1>2, <1>3, <1>5
      <3>2. \A l \in ((h + 1) + 1)..i : l - h \in 2..n /\ l = h + (l - h)
        BY <1>2
      <3>3. \A l \in ((h + 1) + 1)..i : f[l].is = "hash"
        BY <1>6, <3>2
      <3>4. QED
        BY <1>3, <1>6, <3>1, <3>3
    <2>2. ASSUME NEW i \in ofNotes PROVE i \in (h + 1)..(h + n)
      <3>1. i \in 1..(h + n + r)
        BY <1>3
      <3>2. PICK j \in 1..i : f[j].is = "notes" /\ \A l \in (j + 1)..i : f[l].is = "hash"
        OBVIOUS
      <3>3. j \in 1..(h + n + r)
        BY <1>2, <1>3, <3>1, <3>2
      <3>4. n # 0 /\ j = h + 1
        BY <1>10, <3>2, <3>3
      <3>5. CASE i <= h + n
        BY <1>2, <3>1, <3>4, <3>5
      <3>6. CASE ~(i <= h + n)
        <4>1. r # 0 /\ (h + n) + 1 \in (j + 1)..i
          BY <1>2, <1>3, <3>1, <3>4, <3>6
        <4>2. QED
          BY <1>8, <3>2, <4>1
      <3>7. QED
        BY <3>5, <3>6
    <2>3. QED
      BY <2>1, <2>2
  <1>12. gone = 1..(h + n)
    <2>1. \A i \in 1..(h + n) : i \in gone
      <3>1. TAKE i \in 1..(h + n)
      <3>2. i \in 1..h \/ i \in (h + 1)..(h + n)
        BY <1>2
      <3>3. i \in DOMAIN f
        BY <1>2, <1>3
      <3>4. QED
        BY <1>4, <1>11, <3>2, <3>3
    <2>2. ASSUME NEW i \in gone PROVE i \in 1..(h + n)
      <3>1. CASE i \in ofNotes
        BY <1>2, <1>11, <3>1
      <3>2. CASE i \in DOMAIN f /\ f[i].is \in {"field", "credit"}
        <4>1. i \in 1..(h + n + r) /\ ~(i - (h + n) \in 1..r /\ i = (h + n) + (i - (h + n)))
          BY <1>3, <1>7, <3>2
        <4>2. QED
          BY <1>2, <1>3, <4>1
      <3>3. QED
        BY <3>1, <3>2
    <2>3. QED
      BY <2>1, <2>2
  <1>13. Without(f, gone) = b
    <2>1. PICK N : N = h + n + r
      OBVIOUS
    <2>2. N \in Nat /\ DOMAIN f = 1..N /\ Len(f) = N /\ gone \in SUBSET (1..N)
      BY <1>2, <1>3, <1>12, <2>1
    <2> HIDE DEF gone
    <2>3. PICK t : t = Without(f, gone)
      OBVIOUS
    <2>4. /\ t \in Seq(Range(f)) /\ Len(t) = Rank(gone, N)
          /\ \A m \in (1..N) \ gone : t[Rank(gone, m)] = f[m]
      BY <2>2, <2>3, WithoutPicks
    <2>5. \A m \in (h + n)..N : Rank(gone, m) = m - (h + n)
      <3>1. TAKE m \in (h + n)..N
      <3>2. (1..m) \ gone = ((h + n) + 1)..m
        BY <1>2, <1>12
      <3>3. m \in Int /\ (h + n) + 1 \in Int
        BY <1>2, <2>2
      <3>4. Cardinality(((h + n) + 1)..m) = IF (h + n) + 1 > m THEN 0 ELSE m - ((h + n) + 1) + 1
        BY <3>3, FS_Interval
      <3>5. PICK q \in Nat : q = h + n
        BY <1>2
      <3>6. Rank(gone, m) = IF q + 1 > m THEN 0 ELSE m - (q + 1) + 1
        BY <3>2, <3>4, <3>5 DEF Rank
      <3>7. m \in q..N /\ m \in Int
        BY <3>3, <3>5
      <3>8. QED
        BY <3>5, <3>6, <3>7
    <2>6. N \in (h + n)..N /\ N - (h + n) = r
      <3>1. PICK q \in Nat : q = h + n
        BY <1>2
      <3>2. N = q + r /\ N \in q..N /\ N - q = r
        BY <1>3, <2>1, <3>1
      <3>3. QED
        BY <3>1, <3>2
    <2>7. Len(t) = r
      BY <2>4, <2>5, <2>6
    <2>8. \A i \in 1..r : /\ (h + n) + i \in (1..N) \ gone /\ (h + n) + i \in (h + n)..N
                          /\ ((h + n) + i) - (h + n) = i
      BY <1>2, <1>3, <1>12, <2>1
    <2>9. \A i \in 1..r : t[i] = b[i]
      BY <1>3, <2>4, <2>5, <2>8
    <2>10. IsSeq(t)
      BY <2>4, SeqIs
    <2>11. QED
      BY <1>1, <2>3, <2>7, <2>9, <2>10, SameSeq
  <1>14. Cardinality(hashes) = k
    <2>1. hashes = (h + 2)..(h + n)
      <3>1. \A i \in (h + 1)..(h + n) : f[i].is = "hash" <=> i # h + 1
        <4>1. TAKE i \in (h + 1)..(h + n)
        <4>2. k # 0
          BY <1>2, <1>5
        <4>3. i # h + 1 => i - h \in 2..n /\ i = h + (i - h)
          BY <1>2
        <4>4. QED
          BY <1>6, <4>2, <4>3
      <3>2. \A i : i \in (h + 2)..(h + n) <=> i \in (h + 1)..(h + n) /\ i # h + 1
        BY <1>2
      <3> HIDE DEF ofNotes
      <3>3. QED
        BY <1>11, <3>1, <3>2
    <2>2. Cardinality((h + 2)..(h + n)) = IF h + 2 > h + n THEN 0 ELSE (h + n) - (h + 2) + 1
      <3>1. h + 2 \in Int /\ h + n \in Int
        BY <1>2
      <3>2. QED
        BY <3>1, FS_Interval
    <2>3. CASE k = 0
      <3>1. n = 0 /\ h + 2 > h + n
        BY <1>2, <1>5, <2>3
      <3>2. QED
        BY <2>1, <2>2, <2>3, <3>1
    <2>4. CASE k # 0
      <3>1. n = k + 1 /\ ~(h + 2 > h + n) /\ (h + n) - (h + 2) + 1 = k
        BY <1>2, <1>5, <2>4
      <3>2. QED
        BY <2>1, <2>2, <3>1
    <2>5. QED
      BY <2>3, <2>4
  <1>15. Remaining(f) = [lines |-> Without(f, gone), notes |-> Cardinality(hashes)]
    BY DEF Remaining
  <1> HIDE DEF gone, hashes
  <1>16. QED
    BY <1>1, <1>13, <1>14, <1>15

-----------------------------------------------------------------------------
(* Out and in. *)

IsLine(l) ==
    /\ {"is", "chords"} \subseteq DOMAIN l
    /\ l.is \in (LineKinds \ {"notes", "credit"}) \cup {"unread"} /\ l.chords \in Nat
    /\ l.is \notin ChordKinds \cup {"unread"} => l.chords = 0

\* A content, as it was written or converted.
IsText(lines) == IsSeq(lines) /\ \A i \in 1..Len(lines) : IsLine(lines[i])

IsSheet(s) ==
    /\ DOMAIN s = {"title", "artist", "album", "key", "capo", "kind", "tuning", "notes",
                   "content"}
    /\ s.kind \in Kinds /\ s.notes \in Nat /\ IsText(s.content)

Reread(lines) == IF pasted(lines) THEN Trim(asChordPro(lines)) ELSE lines
Opening(s) == Trim(untilNewSong(body(s)))

\* A sheet that has been through a file.
KindBack(s) == IF s.kind = "tab" THEN "chords" ELSE s.kind
TuningBack(s) ==
    LET id == IF s.kind = "piano" THEN "standard" ELSE getTuning(s.tuning, s.kind).id
    IN IF id \in Offered(KindBack(s)) THEN id ELSE "standard"
Back(s) ==
    [title |-> s.title, artist |-> s.artist, album |-> s.album, key |-> s.key,
     capo |-> s.capo, kind |-> KindBack(s), tuning |-> TuningBack(s), notes |-> s.notes,
     content |-> Reread(Opening(s))]

LEMMA TextOf ==
    ASSUME NEW t, NEW lines, IsText(lines), t \in Seq(Range(lines))
    PROVE  IsText(t)
  <1>1. IsSeq(t) /\ Range(t) \subseteq Range(lines) /\ \A i \in 1..Len(t) : t[i] \in Range(t)
    BY SeqIs
  <1>2. DOMAIN lines = 1..Len(lines)
    BY SeqIs DEF IsText, IsSeq
  <1>3. \A l \in Range(lines) : IsLine(l)
    BY <1>2 DEF IsText, Range
  <1>4. QED
    BY <1>1, <1>3 DEF IsText

Fields(lines) == {i \in DOMAIN lines : lines[i].is = "field"}

LEMMA WithoutFields ==
    ASSUME NEW lines, IsText(lines)
    PROVE  /\ Without(lines, Fields(lines)) \in Seq(Range(lines))
           /\ \A i \in 1..Len(Without(lines, Fields(lines))) :
                Without(lines, Fields(lines))[i].is # "field"
           /\ Fields(lines) = {} => Without(lines, Fields(lines)) = lines
  <1>1. PICK N \in Nat : N = Len(lines) /\ DOMAIN lines = 1..N
    BY SeqIs DEF IsText, IsSeq
  <1>2. PICK t, gone : t = Without(lines, gone) /\ gone = Fields(lines)
    OBVIOUS
  <1>3. gone \in SUBSET (1..N)
    BY <1>1, <1>2 DEF Fields
  <1>4. /\ t \in Seq(Range(lines)) /\ Len(t) = Rank(gone, N)
        /\ \A n \in (1..N) \ gone : t[Rank(gone, n)] = lines[n]
        /\ \A i \in 1..Rank(gone, N) : \E n \in (1..N) \ gone : Rank(gone, n) = i
    BY <1>1, <1>2, <1>3, WithoutPicks
  <1>5. \A i \in 1..Len(t) : t[i].is # "field"
    <2>1. TAKE i \in 1..Len(t)
    <2>2. PICK n \in (1..N) \ gone : Rank(gone, n) = i
      BY <1>4
    <2>3. t[i] = lines[n] /\ lines[n].is # "field"
      BY <1>1, <1>2, <1>4, <2>2 DEF Fields
    <2>4. QED
      BY <2>3
  <1>6. ASSUME gone = {} PROVE t = lines
    <2>1. \A n \in 0..N : Rank(gone, n) = n
      <3>1. TAKE n \in 0..N
      <3>2. (1..n) \ gone = 1..n
        BY <1>6
      <3>3. Cardinality(1..n) = IF 1 > n THEN 0 ELSE n - 1 + 1
        BY FS_Interval
      <3>4. Rank(gone, n) = IF 1 > n THEN 0 ELSE n - 1 + 1
        BY <3>2, <3>3 DEF Rank
      <3>5. n \in Nat
        OBVIOUS
      <3>6. QED
        BY <3>4, <3>5
    <2>2. Len(t) = N /\ \A i \in 1..N : t[i] = lines[i]
      <3>1. N \in 0..N /\ \A i \in 1..N : i \in 0..N /\ i \in (1..N) \ gone
        BY <1>6
      <3>2. QED
        BY <1>4, <2>1, <3>1
    <2>3. IsSeq(t) /\ IsSeq(lines)
      BY <1>4, SeqIs DEF IsText
    <2>4. QED
      BY <1>1, <2>2, <2>3, SameSeq
  <1>7. QED
    BY <1>2, <1>4, <1>5, <1>6

\* A text that a file says as it is.
IsBody(b) == IsText(b) /\ IsTrimmed(b) /\ \A i \in 1..Len(b) : b[i].is # "field"

LEMMA TrimBody ==
    ASSUME NEW lines, IsText(lines), \A i \in 1..Len(lines) : lines[i].is # "field"
    PROVE  IsBody(Trim(lines))
  <1>1. IsTrimmed(Trim(lines)) /\ Trim(lines) \in Seq(Range(lines))
    BY TrimTrims DEF IsText
  <1>2. IsText(Trim(lines))
    BY <1>1, TextOf
  <1>3. \A l \in Range(lines) : l.is # "field"
    <2>1. DOMAIN lines = 1..Len(lines)
      BY SeqIs DEF IsText, IsSeq
    <2>2. QED
      BY <2>1 DEF Range
  <1>4. \A i \in 1..Len(Trim(lines)) : Trim(lines)[i] \in Range(lines)
    BY <1>1, SeqIs
  <1>5. QED
    BY <1>1, <1>2, <1>3, <1>4 DEF IsBody

LEMMA BodyIs ==
    ASSUME NEW s, IsText(s.content)
    PROVE  IsBody(body(s)) /\ (IsBody(s.content) => body(s) = s.content)
  <1>1. PICK lines, t : lines = s.content /\ t = Without(lines, Fields(lines))
    OBVIOUS
  <1>2. body(s) = Trim(t)
    BY <1>1 DEF body, Fields
  <1>3. /\ t \in Seq(Range(lines)) /\ \A i \in 1..Len(t) : t[i].is # "field"
        /\ Fields(lines) = {} => t = lines
    BY <1>1, WithoutFields
  <1>4. IsBody(body(s))
    BY <1>1, <1>2, <1>3, TextOf, TrimBody
  <1>5. ASSUME IsBody(lines) PROVE Trim(t) = lines
    <2>1. DOMAIN lines = 1..Len(lines)
      BY <1>1, SeqIs DEF IsText, IsSeq
    <2>2. Fields(lines) = {}
      BY <1>5, <2>1 DEF Fields, IsBody
    <2>3. IsSeq(lines) /\ IsTrimmed(lines)
      BY <1>5 DEF IsBody, IsText
    <2>4. Trim(<<>> \o lines) = lines
      BY <2>3, TrimStays
    <2>5. <<>> \o lines = lines
      BY <2>3, ConcatEmptySeq DEF IsSeq
    <2>6. QED
      BY <1>3, <2>2, <2>4, <2>5
  <1>6. QED
    BY <1>1, <1>2, <1>4, <1>5

HeaderOf(s, kind, id) ==
    ((((((<<Field("title", s.title)>>
          \o Piece("artist", s.artist, Unset)) \o Piece("album", s.album, Unset))
        \o Piece("key", s.key, Unset)) \o Piece("capo", s.capo, 0))
      \o Piece("instrument", kind, Unset)) \o Piece("tuning", id, "standard"))
    \o <<L("credit")>>

\* What a file says of each field.
LEMMA HeaderSays ==
    ASSUME NEW s, NEW kind, NEW id, NEW head, head = HeaderOf(s, kind, id)
    PROVE  /\ IsHeader(head) /\ Len(head) # 0
           /\ Says(head, "title", Unset) = s.title /\ Says(head, "artist", Unset) = s.artist
           /\ Says(head, "album", Unset) = s.album /\ Says(head, "key", Unset) = s.key
           /\ Says(head, "capo", 0) = s.capo
           /\ Says(head, "instrument", Unset) = kind
           /\ Says(head, "tuning", "standard") = id
  <1> DEFINE p1 == <<Field("title", s.title)>>
             p2 == Piece("artist", s.artist, Unset)
             p3 == Piece("album", s.album, Unset)
             p4 == Piece("key", s.key, Unset)
             p5 == Piece("capo", s.capo, 0)
             p6 == Piece("instrument", kind, Unset)
             p7 == Piece("tuning", id, "standard")
  <1> DEFINE c == <<L("credit")>>
  <1>1. IsHeader(c) /\ NoField(c) /\ Len(c) = 1
    <2>1. c \in Seq({L("credit")}) /\ Len(c) = 1 /\ c[1] = L("credit") /\ L("credit").is = "credit"
      BY DEF L
    <2>2. IsSeq(c)
      BY <2>1, SeqIs
    <2>3. \A i \in 1..Len(c) : c[i].is = "credit"
      <3>1. \A i \in 1..1 : i = 1
        OBVIOUS
      <3>2. QED
        BY <2>1, <3>1
    <2>4. QED
      BY <2>1, <2>2, <2>3 DEF IsHeader, NoField
  <1>2. IsHeader(p1) /\ \A n, d : Says(p1, n, d) = IF "title" = n THEN s.title ELSE d
    BY OneField
  <1>3. /\ IsHeader(p2)
        /\ \A n, d : Says(p2, n, d) =
            IF "artist" = n /\ s.artist # Unset THEN s.artist ELSE d
    BY FieldOrNone
  <1>4. /\ IsHeader(p3)
        /\ \A n, d : Says(p3, n, d) =
            IF "album" = n /\ s.album # Unset THEN s.album ELSE d
    BY FieldOrNone
  <1>5. /\ IsHeader(p4)
        /\ \A n, d : Says(p4, n, d) =
            IF "key" = n /\ s.key # Unset THEN s.key ELSE d
    BY FieldOrNone
  <1>6. /\ IsHeader(p5)
        /\ \A n, d : Says(p5, n, d) =
            IF "capo" = n /\ s.capo # 0 THEN s.capo ELSE d
    BY FieldOrNone
  <1>7. /\ IsHeader(p6)
        /\ \A n, d : Says(p6, n, d) =
            IF "instrument" = n /\ kind # Unset THEN kind ELSE d
    BY FieldOrNone
  <1>8. /\ IsHeader(p7)
        /\ \A n, d : Says(p7, n, d) =
            IF "tuning" = n /\ id # "standard" THEN id ELSE d
    BY FieldOrNone
  <1> DEFINE h2 == p1 \o p2
             h3 == h2 \o p3
             h4 == h3 \o p4
             h5 == h4 \o p5
             h6 == h5 \o p6
             h7 == h6 \o p7
  <1> HIDE DEF c, p1, p2, p3, p4, p5, p6, p7
  <1>9. \A a, b : IsHeader(a) /\ IsHeader(b) =>
            /\ IsHeader(a \o b)
            /\ \A n, d : Says(a \o b, n, d) = Says(b, n, Says(a, n, d))
    BY HeaderGrows, SaysOfJoin DEF IsHeader
  <1>10. /\ IsHeader(h2)
         /\ \A n, d : Says(h2, n, d) =
                IF "artist" = n /\ s.artist # Unset THEN s.artist ELSE Says(p1, n, d)
    BY <1>9, <1>2, <1>3
  <1> HIDE DEF h2
  <1>11. /\ IsHeader(h3)
         /\ \A n, d : Says(h3, n, d) =
                IF "album" = n /\ s.album # Unset THEN s.album ELSE Says(h2, n, d)
    BY <1>9, <1>10, <1>4
  <1> HIDE DEF h3
  <1>12. /\ IsHeader(h4)
         /\ \A n, d : Says(h4, n, d) =
                IF "key" = n /\ s.key # Unset THEN s.key ELSE Says(h3, n, d)
    BY <1>9, <1>11, <1>5
  <1> HIDE DEF h4
  <1>13. /\ IsHeader(h5)
         /\ \A n, d : Says(h5, n, d) =
                IF "capo" = n /\ s.capo # 0 THEN s.capo ELSE Says(h4, n, d)
    BY <1>9, <1>12, <1>6
  <1> HIDE DEF h5
  <1>14. /\ IsHeader(h6)
         /\ \A n, d : Says(h6, n, d) =
                IF "instrument" = n /\ kind # Unset THEN kind ELSE Says(h5, n, d)
    BY <1>9, <1>13, <1>7
  <1> HIDE DEF h6
  <1>15. /\ IsHeader(h7)
         /\ \A n, d : Says(h7, n, d) =
                IF "tuning" = n /\ id # "standard" THEN id ELSE Says(h6, n, d)
    BY <1>9, <1>14, <1>8
  <1> HIDE DEF h7
  <1>16. head = h7 \o c
    BY DEF h2, h3, h4, h5, h6, h7, c, p1, p2, p3, p4, p5, p6, p7, HeaderOf
  <1>17. IsHeader(head) /\ \A n, d : Says(head, n, d) = Says(h7, n, d)
    <2>1. IsHeader(h7 \o c)
      BY <1>1, <1>15, HeaderGrows
    <2>2. ASSUME NEW n, NEW d PROVE Says(h7 \o c, n, d) = Says(h7, n, d)
      BY <1>1, <1>9, <1>15, NoFieldSays
    <2>3. QED
      BY <1>16, <2>1, <2>2
  <1>17a. Len(head) # 0
    <2>1. Len(h7 \o c) = Len(h7) + Len(c) /\ Len(h7) \in Nat
      BY <1>1, <1>15, Joined DEF IsHeader
    <2>2. QED
      BY <1>1, <1>16, <2>1
  <1>18. Says(head, "title", Unset) = s.title
    <2>1. Says(p1, "title", Unset) = s.title
      BY <1>2
    <2>2. Says(h2, "title", Unset) = s.title
      BY <1>10, <2>1
    <2>3. Says(h3, "title", Unset) = s.title
      BY <1>11, <2>2
    <2>4. Says(h4, "title", Unset) = s.title
      BY <1>12, <2>3
    <2>5. Says(h5, "title", Unset) = s.title
      BY <1>13, <2>4
    <2>6. Says(h6, "title", Unset) = s.title
      BY <1>14, <2>5
    <2>7. Says(h7, "title", Unset) = s.title
      BY <1>15, <2>6
    <2>8. Says(head, "title", Unset) = s.title
      BY <1>17, <2>7
    <2>9. QED
      BY <2>8
  <1>19. Says(head, "artist", Unset) = s.artist
    <2>1. Says(p1, "artist", Unset) = Unset
      BY <1>2
    <2>2. Says(h2, "artist", Unset) = s.artist
      BY <1>10, <2>1
    <2>3. Says(h3, "artist", Unset) = s.artist
      BY <1>11, <2>2
    <2>4. Says(h4, "artist", Unset) = s.artist
      BY <1>12, <2>3
    <2>5. Says(h5, "artist", Unset) = s.artist
      BY <1>13, <2>4
    <2>6. Says(h6, "artist", Unset) = s.artist
      BY <1>14, <2>5
    <2>7. Says(h7, "artist", Unset) = s.artist
      BY <1>15, <2>6
    <2>8. Says(head, "artist", Unset) = s.artist
      BY <1>17, <2>7
    <2>9. QED
      BY <2>8
  <1>20. Says(head, "album", Unset) = s.album
    <2>1. Says(p1, "album", Unset) = Unset
      BY <1>2
    <2>2. Says(h2, "album", Unset) = Unset
      BY <1>10, <2>1
    <2>3. Says(h3, "album", Unset) = s.album
      BY <1>11, <2>2
    <2>4. Says(h4, "album", Unset) = s.album
      BY <1>12, <2>3
    <2>5. Says(h5, "album", Unset) = s.album
      BY <1>13, <2>4
    <2>6. Says(h6, "album", Unset) = s.album
      BY <1>14, <2>5
    <2>7. Says(h7, "album", Unset) = s.album
      BY <1>15, <2>6
    <2>8. Says(head, "album", Unset) = s.album
      BY <1>17, <2>7
    <2>9. QED
      BY <2>8
  <1>21. Says(head, "key", Unset) = s.key
    <2>1. Says(p1, "key", Unset) = Unset
      BY <1>2
    <2>2. Says(h2, "key", Unset) = Unset
      BY <1>10, <2>1
    <2>3. Says(h3, "key", Unset) = Unset
      BY <1>11, <2>2
    <2>4. Says(h4, "key", Unset) = s.key
      BY <1>12, <2>3
    <2>5. Says(h5, "key", Unset) = s.key
      BY <1>13, <2>4
    <2>6. Says(h6, "key", Unset) = s.key
      BY <1>14, <2>5
    <2>7. Says(h7, "key", Unset) = s.key
      BY <1>15, <2>6
    <2>8. Says(head, "key", Unset) = s.key
      BY <1>17, <2>7
    <2>9. QED
      BY <2>8
  <1>22. Says(head, "capo", 0) = s.capo
    <2>1. Says(p1, "capo", 0) = 0
      BY <1>2
    <2>2. Says(h2, "capo", 0) = 0
      BY <1>10, <2>1
    <2>3. Says(h3, "capo", 0) = 0
      BY <1>11, <2>2
    <2>4. Says(h4, "capo", 0) = 0
      BY <1>12, <2>3
    <2>5. Says(h5, "capo", 0) = s.capo
      BY <1>13, <2>4
    <2>6. Says(h6, "capo", 0) = s.capo
      BY <1>14, <2>5
    <2>7. Says(h7, "capo", 0) = s.capo
      BY <1>15, <2>6
    <2>8. Says(head, "capo", 0) = s.capo
      BY <1>17, <2>7
    <2>9. QED
      BY <2>8
  <1>23. Says(head, "instrument", Unset) = kind
    <2>1. Says(p1, "instrument", Unset) = Unset
      BY <1>2
    <2>2. Says(h2, "instrument", Unset) = Unset
      BY <1>10, <2>1
    <2>3. Says(h3, "instrument", Unset) = Unset
      BY <1>11, <2>2
    <2>4. Says(h4, "instrument", Unset) = Unset
      BY <1>12, <2>3
    <2>5. Says(h5, "instrument", Unset) = Unset
      BY <1>13, <2>4
    <2>6. Says(h6, "instrument", Unset) = kind
      BY <1>14, <2>5
    <2>7. Says(h7, "instrument", Unset) = kind
      BY <1>15, <2>6
    <2>8. Says(head, "instrument", Unset) = kind
      BY <1>17, <2>7
    <2>9. QED
      BY <2>8
  <1>24. Says(head, "tuning", "standard") = id
    <2>1. Says(p1, "tuning", "standard") = "standard"
      BY <1>2
    <2>2. Says(h2, "tuning", "standard") = "standard"
      BY <1>10, <2>1
    <2>3. Says(h3, "tuning", "standard") = "standard"
      BY <1>11, <2>2
    <2>4. Says(h4, "tuning", "standard") = "standard"
      BY <1>12, <2>3
    <2>5. Says(h5, "tuning", "standard") = "standard"
      BY <1>13, <2>4
    <2>6. Says(h6, "tuning", "standard") = "standard"
      BY <1>14, <2>5
    <2>7. Says(h7, "tuning", "standard") = id
      BY <1>15, <2>6
    <2>8. Says(head, "tuning", "standard") = id
      BY <1>17, <2>7
    <2>9. QED
      BY <2>8
  <1>25. QED
    BY <1>17, <1>17a, <1>18, <1>19, <1>20, <1>21, <1>22, <1>23, <1>24

LEMMA NotesAre ==
    ASSUME NEW k \in Nat, NEW notes,
           notes = IF k = 0 THEN <<>> ELSE <<L("notes")>> \o [i \in 1..k |-> L("hash")]
    PROVE  IsNotes(notes, k) /\ NoField(notes)
  <1>1. L("notes").is = "notes" /\ L("hash").is = "hash"
    BY DEF L
  <1>2. CASE k = 0
    <2>1. notes = <<>>
      BY <1>2
    <2>2. IsSeq(notes) /\ Len(notes) = 0
      BY <2>1 DEF IsSeq
    <2>3. QED
      BY <1>2, <2>2 DEF IsNotes, NoField
  <1>3. CASE k # 0
    <2> DEFINE a == <<L("notes")>>
               b == [i \in 1..k |-> L("hash")]
    <2>1. a \in Seq({L("notes")}) /\ Len(a) = 1 /\ a[1] = L("notes")
      OBVIOUS
    <2>2. IsSeq(a)
      BY <2>1, SeqIs
    <2>3. IsSeq(b) /\ Len(b) = k /\ \A i \in 1..k : b[i] = L("hash")
      BY ListIs
    <2> HIDE DEF a, b
    <2>4. notes = a \o b
      BY <1>3 DEF a, b
    <2>5. /\ IsSeq(notes) /\ Len(notes) = 1 + k
          /\ (\A i \in 1..1 : notes[i] = a[i]) /\ \A i \in 1..k : notes[1 + i] = b[i]
      <3>1. /\ IsSeq(a \o b) /\ Len(a \o b) = Len(a) + Len(b)
            /\ \A i \in 1..Len(a) : (a \o b)[i] = a[i]
            /\ \A i \in 1..Len(b) : (a \o b)[Len(a) + i] = b[i]
        BY <2>2, <2>3, Joined
      <3>2. Len(a) = 1 /\ Len(b) = k
        BY <2>1, <2>3
      <3>3. QED
        BY <2>4, <3>1, <3>2
    <2>6. notes[1].is = "notes"
      BY <1>1, <2>1, <2>5
    <2>7. \A i \in 2..(1 + k) : i - 1 \in 1..k /\ i = 1 + (i - 1)
      OBVIOUS
    <2>8. \A i \in 2..(1 + k) : notes[i].is = "hash"
      BY <1>1, <2>3, <2>5, <2>7
    <2>9. \A i \in 1..(1 + k) : i = 1 \/ i \in 2..(1 + k)
      OBVIOUS
    <2>10. \A i \in 1..(1 + k) : notes[i].is # "field"
      BY <2>6, <2>8, <2>9
    <2>11. 1 + k = k + 1
      OBVIOUS
    <2>12. QED
      BY <1>3, <2>5, <2>6, <2>8, <2>10, <2>11 DEF IsNotes, NoField
  <1>4. QED
    BY <1>2, <1>3

\* A sheet that goes out comes in as Back says.
LEMMA FromTo ==
    ASSUME NEW s, IsSheet(s)
    PROVE  fromChordProFile(toChordProFile(s)) = Back(s) /\ toChordProFile(s) # <<>>
  <1>1. PICK kind, id :
            /\ kind = IF s.kind \in INSTRUMENT_KINDS THEN s.kind ELSE Unset
            /\ id = IF s.kind = "piano" THEN "standard" ELSE getTuning(s.tuning, s.kind).id
    OBVIOUS
  <1>2. PICK head : head = HeaderOf(s, kind, id)
    OBVIOUS
  <1>3. PICK notes, all, b, rest :
            /\ notes = IF s.notes = 0 THEN <<>>
                       ELSE <<L("notes")>> \o [i \in 1..s.notes |-> L("hash")]
            /\ all = body(s) /\ b = untilNewSong(all) /\ rest = <<L("blank")>> \o b
    OBVIOUS
  <1>4. PICK f : f = (head \o notes) \o rest
    OBVIOUS
  <1>5. /\ IsHeader(head)
        /\ Says(head, "title", Unset) = s.title /\ Says(head, "artist", Unset) = s.artist
        /\ Says(head, "album", Unset) = s.album /\ Says(head, "key", Unset) = s.key
        /\ Says(head, "capo", 0) = s.capo
        /\ Says(head, "instrument", Unset) = kind
        /\ Says(head, "tuning", "standard") = id
    BY <1>2, HeaderSays
  <1>6. s.notes \in Nat /\ IsNotes(notes, s.notes) /\ NoField(notes)
    BY <1>3, NotesAre DEF IsSheet
  <1>7. /\ IsSeq(all) /\ IsSeq(b) /\ NoSong(b)
        /\ \A i \in 1..Len(b) : b[i].is \notin {"field", "credit", "notes"}
    <2>1. IsBody(all)
      BY <1>3, BodyIs DEF IsSheet
    <2>2. IsUntil(b, all) /\ IsSeq(all)
      BY <1>3, <2>1, UntilIs DEF IsBody, IsText
    <2>3. PICK k, n \in Nat : k = Len(b) /\ n = Len(all)
      BY <2>2, SeqIs DEF IsSeq, IsUntil
    <2>4. \A i \in 1..n : all[i].is \notin {"field", "credit", "notes"}
      BY <2>1, <2>3 DEF IsBody, IsText, IsLine, LineKinds, ChordKinds
    <2>5. \A i \in 1..k : i \in 1..n /\ b[i] = all[i]
      BY <2>2, <2>3 DEF IsUntil
    <2>6. QED
      BY <2>2, <2>3, <2>4, <2>5 DEF IsUntil
  <1>8. /\ IsSeq(rest) /\ rest[1].is = "blank"
        /\ \A i \in 1..Len(rest) : rest[i].is \notin {"field", "credit", "notes"}
    <2> DEFINE a == <<L("blank")>>
    <2>1. a \in Seq({L("blank")}) /\ Len(a) = 1 /\ a[1].is = "blank"
      BY DEF L
    <2>2. IsSeq(a) /\ IsSeq(b)
      BY <1>7, <2>1, SeqIs
    <2> HIDE DEF a
    <2>3. rest = a \o b
      BY <1>3 DEF a
    <2>4. PICK n : n = Len(b)
      OBVIOUS
    <2>5. /\ n \in Nat /\ IsSeq(rest) /\ Len(rest) = 1 + n
          /\ (\A i \in 1..1 : rest[i] = a[i]) /\ \A i \in 1..n : rest[1 + i] = b[i]
      <3>1. /\ IsSeq(a \o b) /\ Len(b) \in Nat /\ Len(a \o b) = Len(a) + Len(b)
            /\ \A i \in 1..Len(a) : (a \o b)[i] = a[i]
            /\ \A i \in 1..Len(b) : (a \o b)[Len(a) + i] = b[i]
        BY <2>2, Joined
      <3>2. QED
        BY <2>1, <2>3, <2>4, <3>1
    <2>6. rest[1].is = "blank"
      BY <2>1, <2>5
    <2>7. \A i \in 1..n : b[i].is \notin {"field", "credit", "notes"}
      BY <1>7, <2>4
    <2>8. \A i \in 1..(1 + n) : i = 1 \/ (i - 1 \in 1..n /\ i = 1 + (i - 1))
      BY <2>5
    <2>9. \A i \in 1..(1 + n) : rest[i].is \notin {"field", "credit", "notes"}
      BY <2>5, <2>6, <2>7, <2>8
    <2>10. QED
      BY <2>5, <2>6, <2>9
  <1>9. Remaining(f).lines = rest /\ Remaining(f).notes = s.notes
    <2>1. rest # <<>> => rest[1].is # "hash"
      BY <1>8
    <2>2. QED
      BY <1>4, <1>5, <1>6, <1>8, <2>1, RemainingIs
  <1>10. \A n, d : Says(f, n, d) = Says(head, n, d)
    <2>1. IsSeq(head) /\ IsSeq(notes) /\ NoField(rest)
      BY <1>5, <1>6, <1>8 DEF IsHeader, NoField
    <2>2. IsSeq(head \o notes) /\ IsSeq(rest)
      BY <1>8, <2>1, Joined
    <2>3. TAKE n, d
    <2>4. Says(f, n, d) = Says(rest, n, Says(head \o notes, n, d))
      BY <1>4, <2>2, SaysOfJoin
    <2>5. Says(head \o notes, n, d) = Says(notes, n, Says(head, n, d))
      BY <2>1, SaysOfJoin
    <2>6. QED
      BY <1>6, <2>1, <2>4, <2>5, NoFieldSays
  <1>11. Trim(rest) = Opening(s)
    BY <1>3, <1>7, TrimBlank DEF Opening
  <1>12. PICK whole : whole = (head \o notes) \o (<<L("blank")>> \o all)
    OBVIOUS
  <1>12a. toChordProFile(s) = whole
    <2>1. toChordProFile(s) = ((head \o notes) \o <<L("blank")>>) \o all
      <3>1. Piece("instrument", kind, Unset) =
                IF s.kind \in INSTRUMENT_KINDS THEN <<Field("instrument", s.kind)>> ELSE <<>>
        BY <1>1, FilesAssumption DEF Piece, INSTRUMENT_KINDS, Kinds
      <3>2. Piece("tuning", id, "standard") =
                IF s.kind = "piano" THEN <<>>
                ELSE IF getTuning(s.tuning, s.kind).id = "standard" THEN <<>>
                     ELSE <<Field("tuning", getTuning(s.tuning, s.kind).id)>>
        BY <1>1 DEF Piece
      <3>3. QED
        BY <1>2, <1>3, <3>1, <3>2 DEF toChordProFile, HeaderOf, Piece
    <2>2. IsSeq(head \o notes) /\ IsSeq(all) /\ IsSeq(<<L("blank")>>)
      <3>1. IsSeq(head) /\ IsSeq(notes) /\ IsSeq(all)
        BY <1>5, <1>6, <1>7 DEF IsHeader, NoField
      <3>2. <<L("blank")>> \in Seq({L("blank")})
        OBVIOUS
      <3>3. QED
        BY <3>1, <3>2, Joined, SeqIs
    <2>3. \A u, v, w : IsSeq(u) /\ IsSeq(v) /\ IsSeq(w) => (u \o v) \o w = u \o (v \o w)
      <3>1. TAKE u, v, w
      <3>2. SUFFICES ASSUME IsSeq(u), IsSeq(v), IsSeq(w) PROVE (u \o v) \o w = u \o (v \o w)
        OBVIOUS
      <3>3. PICK S : S = Range(u) \cup Range(v) \cup Range(w)
        OBVIOUS
      <3>4. u \in Seq(S) /\ v \in Seq(S) /\ w \in Seq(S)
        BY <3>2, <3>3, SeqMonotonic DEF IsSeq
      <3>5. QED
        BY <3>4, ConcatAssociative
    <2> DEFINE blank == <<L("blank")>>
    <2>4. /\ toChordProFile(s) = ((head \o notes) \o blank) \o all
          /\ whole = (head \o notes) \o (blank \o all) /\ IsSeq(blank)
      BY <1>12, <2>1, <2>2
    <2> HIDE DEF blank
    <2>5. ((head \o notes) \o blank) \o all = (head \o notes) \o (blank \o all)
      BY <2>2, <2>3, <2>4
    <2>6. QED
      BY <2>4, <2>5
  \* The song of the file is what it starts with, up to the next.
  <1>13. firstSong(whole) = f /\ whole # <<>>
    <2> DEFINE blank == <<L("blank")>>
               front == head \o notes
    <2>1. IsSeq(blank) /\ NoSong(blank)
      <3>1. blank \in Seq({L("blank")}) /\ Len(blank) = 1 /\ blank[1].is = "blank"
        BY DEF L
      <3>2. IsSeq(blank)
        BY <3>1, SeqIs
      <3>3. \A i \in 1..1 : i = 1
        OBVIOUS
      <3> HIDE DEF blank
      <3>4. QED
        BY <3>1, <3>2, <3>3 DEF NoSong
    <2>2. IsSeq(front) /\ NoSong(front) /\ Len(front) # 0 /\ Len(front) \in Nat
          /\ front[1].is \notin {"blank", "newsong"}
      <3>1. PICK h, n \in Nat : h = Len(head) /\ n = Len(notes)
        BY <1>5, <1>6, SeqIs DEF IsHeader, IsNotes, IsSeq
      <3>2. /\ IsSeq(front) /\ Len(front) = h + n
            /\ (\A i \in 1..h : front[i] = head[i]) /\ \A i \in 1..n : front[h + i] = notes[i]
        <4>1. IsSeq(head) /\ IsSeq(notes)
          BY <1>5, <1>6 DEF IsHeader, IsNotes
        <4>2. QED
          BY <3>1, <4>1, Joined
      <3>3. \A i \in 1..(h + n) : i \in 1..h \/ (i - h \in 1..n /\ i = h + (i - h))
        OBVIOUS
      <3>4. \A i \in 1..h : front[i].is \in {"field", "credit"}
        BY <1>5, <3>1, <3>2 DEF IsHeader
      <3>5. \A i \in 1..n : front[h + i].is \in {"notes", "hash"}
        <4>1. \A i \in 1..n : i = 1 \/ i \in 2..n
          OBVIOUS
        <4>2. n # 0 => s.notes # 0
          BY <1>6, <3>1 DEF IsNotes
        <4>3. \A i \in 1..n : notes[i].is \in {"notes", "hash"}
          BY <1>6, <3>1, <4>1, <4>2 DEF IsNotes
        <4>4. QED
          BY <3>2, <4>3
      <3>6. NoSong(front)
        BY <3>2, <3>3, <3>4, <3>5 DEF NoSong
      <3>7. h # 0
        BY <1>2, <3>1, HeaderSays
      <3>8. 1 \in 1..h
        BY <3>7
      <3>9. QED
        BY <3>2, <3>4, <3>6, <3>7, <3>8
    <2> HIDE DEF blank, front
    <2>3. whole = front \o (blank \o all) /\ f = front \o (blank \o b)
      BY <1>3, <1>4, <1>12 DEF blank, front
    <2>4. IsSeq(blank \o all)
      BY <1>7, <2>1, Joined
    <2>5. untilNewSong(whole) = f
      <3>1. untilNewSong(blank \o all) = blank \o b
        BY <1>3, <1>7, <2>1, UntilJoins
      <3>2. untilNewSong(front \o (blank \o all)) = front \o untilNewSong(blank \o all)
        BY <2>2, <2>4, UntilJoins
      <3>3. QED
        BY <2>3, <3>1, <3>2
    <2>6. /\ IsSeq(whole) /\ Len(whole) = Len(front) + Len(blank \o all)
          /\ Len(blank \o all) \in Nat /\ \A i \in 1..Len(front) : whole[i] = front[i]
      BY <2>2, <2>3, <2>4, Joined
    <2>7. Len(whole) # 0 /\ whole[1] = front[1]
      BY <2>2, <2>6
    <2>8. firstSong(whole) = f
      BY <2>2, <2>5, <2>6, <2>7, FirstIs
    <2>9. QED
      BY <2>7, <2>8
  <1>14. KindBack(s) = IF Says(f, "instrument", Unset) \in INSTRUMENT_KINDS
                       THEN Says(f, "instrument", Unset) ELSE "chords"
    <2>1. Says(f, "instrument", Unset) = kind
      BY <1>5, <1>10
    <2>2. Unset \notin INSTRUMENT_KINDS /\ s.kind \in Kinds
      BY FilesAssumption DEF INSTRUMENT_KINDS, Kinds, IsSheet
    <2>3. QED
      BY <1>1, <2>1, <2>2 DEF KindBack, INSTRUMENT_KINDS, Kinds
  <1>15. TuningBack(s) = IF Says(f, "tuning", "standard") \in Offered(KindBack(s))
                         THEN Says(f, "tuning", "standard") ELSE "standard"
    BY <1>1, <1>5, <1>10 DEF TuningBack
  <1>16. fromChordProFile(whole) =
            [title |-> Says(f, "title", Unset), artist |-> Says(f, "artist", Unset),
             album |-> Says(f, "album", Unset), key |-> Says(f, "key", Unset),
             capo |-> Says(f, "capo", 0), kind |-> KindBack(s), tuning |-> TuningBack(s),
             notes |-> Remaining(f).notes, content |-> Reread(Trim(Remaining(f).lines))]
    BY <1>13, <1>14, <1>15 DEF fromChordProFile, Reread
  <1>17. fromChordProFile(whole) = Back(s)
    BY <1>3, <1>5, <1>9, <1>10, <1>11, <1>16 DEF Back
  <1>18. QED
    BY <1>12a, <1>13, <1>17

-----------------------------------------------------------------------------
(* Chords above lyrics. *)

LEMMA OneIs ==
    ASSUME NEW u
    PROVE  IsSeq(<<u>>) /\ Len(<<u>>) = 1 /\ <<u>>[1] = u
  <1>1. <<u>> \in Seq({u}) /\ Len(<<u>>) = 1 /\ <<u>>[1] = u
    OBVIOUS
  <1>2. QED
    BY <1>1, SeqIs

LEMMA Tuples ==
    /\ \A u : <<>> \o <<u>> = <<u>> /\ <<u>> \o <<>> = <<u>>
    /\ \A u, v : <<u>> \o <<v>> = <<u, v>> /\ <<u, v>> \o <<>> = <<u, v>>
    /\ \A u, v, w : <<u, v>> \o <<w>> = <<u, v, w>>
  <1>1. ASSUME NEW u PROVE <<>> \o <<u>> = <<u>> /\ <<u>> \o <<>> = <<u>>
    <2>1. <<u>> \in Seq({u})
      OBVIOUS
    <2>2. QED
      BY <2>1, ConcatEmptySeq
  <1>2. ASSUME NEW u, NEW v PROVE <<u>> \o <<v>> = <<u, v>> /\ <<u, v>> \o <<>> = <<u, v>>
    <2>1. <<u, v>> \in Seq({u, v}) /\ Len(<<u, v>>) = 2
          /\ <<u, v>>[1] = u /\ <<u, v>>[2] = v
      OBVIOUS
    <2>2. <<u, v>> \o <<>> = <<u, v>>
      BY <2>1, ConcatEmptySeq
    <2> DEFINE a == <<u>>
               b == <<v>>
               c == <<u, v>>
    <2>3. IsSeq(a) /\ IsSeq(b) /\ IsSeq(c) /\ Len(a) = 1 /\ Len(b) = 1 /\ a[1] = u /\ b[1] = v
          /\ Len(c) = 2 /\ c[1] = u /\ c[2] = v
      BY <2>1, OneIs, SeqIs
    <2> HIDE DEF a, b, c
    <2>4. /\ IsSeq(a \o b) /\ Len(a \o b) = Len(a) + Len(b)
          /\ \A i \in 1..Len(a) : (a \o b)[i] = a[i]
          /\ \A i \in 1..Len(b) : (a \o b)[Len(a) + i] = b[i]
      <3>1. IsSeq(a)
        BY <2>3
      <3>2. IsSeq(b)
        BY <2>3
      <3>3. QED
        BY <3>1, <3>2, Joined
    <2>5. Len(a \o b) = 2 /\ (a \o b)[1] = u /\ (a \o b)[2] = v
      <3>1. 1 \in 1..1 /\ 1 + 1 = 2
        OBVIOUS
      <3>2. QED
        BY <2>3, <2>4, <3>1
    <2>6. \A i \in 1..2 : i = 1 \/ i = 2
      OBVIOUS
    <2>7. \A i \in 1..Len(c) : (a \o b)[i] = c[i]
      BY <2>3, <2>5, <2>6
    <2>8. a \o b = c
      BY <2>3, <2>4, <2>5, <2>7, SameSeq
    <2>9. QED
      BY <2>2, <2>8 DEF a, b, c
  <1>3. ASSUME NEW u, NEW v, NEW w PROVE <<u, v>> \o <<w>> = <<u, v, w>>
    <2>1. /\ <<u, v>> \in Seq({u, v}) /\ Len(<<u, v>>) = 2
          /\ <<u, v>>[1] = u /\ <<u, v>>[2] = v
          /\ <<u, v, w>> \in Seq({u, v, w}) /\ Len(<<u, v, w>>) = 3
          /\ <<u, v, w>>[1] = u /\ <<u, v, w>>[2] = v /\ <<u, v, w>>[3] = w
      OBVIOUS
    <2> DEFINE a == <<u, v>>
               b == <<w>>
               c == <<u, v, w>>
    <2>3. IsSeq(a) /\ IsSeq(b) /\ IsSeq(c) /\ Len(a) = 2 /\ Len(b) = 1
          /\ a[1] = u /\ a[2] = v /\ b[1] = w
          /\ Len(c) = 3 /\ c[1] = u /\ c[2] = v /\ c[3] = w
      BY <2>1, OneIs, SeqIs
    <2> HIDE DEF a, b, c
    <2>4. /\ IsSeq(a \o b) /\ Len(a \o b) = Len(a) + Len(b)
          /\ \A i \in 1..Len(a) : (a \o b)[i] = a[i]
          /\ \A i \in 1..Len(b) : (a \o b)[Len(a) + i] = b[i]
      <3>1. IsSeq(a)
        BY <2>3
      <3>2. IsSeq(b)
        BY <2>3
      <3>3. QED
        BY <3>1, <3>2, Joined
    <2>5. Len(a \o b) = 3 /\ (a \o b)[1] = u /\ (a \o b)[2] = v /\ (a \o b)[3] = w
      <3>1. 1 \in 1..1 /\ 1 \in 1..2 /\ 2 \in 1..2 /\ 2 + 1 = 3
        OBVIOUS
      <3>2. QED
        BY <2>3, <2>4, <3>1
    <2>6. \A i \in 1..3 : i = 1 \/ i = 2 \/ i = 3
      OBVIOUS
    <2>7. \A i \in 1..Len(c) : (a \o b)[i] = c[i]
      BY <2>3, <2>5, <2>6
    <2>8. a \o b = c
      BY <2>3, <2>4, <2>5, <2>7, SameSeq
    <2>9. QED
      BY <2>8 DEF a, b, c
  <1>4. QED
    BY <1>1, <1>2, <1>3

Merged(src, n) == n > 1 /\ isChordLine(src[n - 1]) /\ pairs(src[n])
IsTab(src, n) == n > 0 /\ src[n].is = "tab"
SameSide(src, n) == IsTab(src, n) <=> IsTab(src, n - 1)
LastTab(src, n) == IsTab(src, n) /\ n = Len(src)
Edge(src, n) == L(IF IsTab(src, n) THEN "sot" ELSE "eot")
Become(src, n) ==
    CASE src[n].is = "section" -> L("header")
      [] isChordLine(src[n]) -> inline(src[n], n < Len(src) /\ pairs(src[n + 1]))
      [] OTHER -> src[n]

\* What a line becomes: itself, after the edge of a tab or before it.
LEMMA ConvertedIs ==
    ASSUME NEW src, IsText(src), NEW n \in 1..Len(src)
    PROVE  /\ Merged(src, n) => converted(src, n) = <<>>
           /\ ~Merged(src, n) =>
                /\ SameSide(src, n) /\ ~LastTab(src, n) => converted(src, n) = <<Become(src, n)>>
                /\ ~SameSide(src, n) /\ ~LastTab(src, n) =>
                        converted(src, n) = <<Edge(src, n), Become(src, n)>>
                /\ SameSide(src, n) /\ LastTab(src, n) =>
                        converted(src, n) = <<Become(src, n), L("eot")>>
                /\ ~SameSide(src, n) /\ LastTab(src, n) =>
                        converted(src, n) = <<Edge(src, n), Become(src, n), L("eot")>>
  <1>1. PICK N \in Nat : N = Len(src)
    BY SeqIs DEF IsText, IsSeq
  <1>2. n \in Nat /\ n > 0 /\ (n > 1 <=> n - 1 > 0)
    BY <1>1
  <1>3. PICK b, e, t, c : b = Become(src, n) /\ e = Edge(src, n) /\ t = L("eot")
                          /\ c = converted(src, n)
    OBVIOUS
  <1>4. c = IF Merged(src, n) THEN <<>>
            ELSE ((IF SameSide(src, n) THEN <<>> ELSE <<e>>) \o <<b>>)
                 \o (IF LastTab(src, n) THEN <<t>> ELSE <<>>)
    BY <1>2, <1>3 DEF converted, Merged, IsTab, Edge, Become, SameSide, LastTab
  <1>5. /\ Merged(src, n) => c = <<>>
        /\ ~Merged(src, n) =>
            /\ SameSide(src, n) /\ ~LastTab(src, n) => c = <<b>>
            /\ ~SameSide(src, n) /\ ~LastTab(src, n) => c = <<e, b>>
            /\ SameSide(src, n) /\ LastTab(src, n) => c = <<b, t>>
            /\ ~SameSide(src, n) /\ LastTab(src, n) => c = <<e, b, t>>
    <2>1. /\ <<>> \o <<b>> = <<b>> /\ <<b>> \o <<>> = <<b>> /\ <<b>> \o <<t>> = <<b, t>>
          /\ <<e>> \o <<b>> = <<e, b>> /\ <<e, b>> \o <<>> = <<e, b>>
          /\ <<e, b>> \o <<t>> = <<e, b, t>>
      BY Tuples, Zenon
    <2>2. ASSUME ~Merged(src, n), SameSide(src, n), ~LastTab(src, n) PROVE c = <<b>>
      BY <1>4, <2>1, <2>2, Zenon
    <2>3. ASSUME ~Merged(src, n), ~SameSide(src, n), ~LastTab(src, n) PROVE c = <<e, b>>
      BY <1>4, <2>1, <2>3, Zenon
    <2>4. ASSUME ~Merged(src, n), SameSide(src, n), LastTab(src, n) PROVE c = <<b, t>>
      BY <1>4, <2>1, <2>4, Zenon
    <2>5. ASSUME ~Merged(src, n), ~SameSide(src, n), LastTab(src, n) PROVE c = <<e, b, t>>
      BY <1>4, <2>1, <2>5, Zenon
    <2>6. QED
      BY <1>4, <2>2, <2>3, <2>4, <2>5, Zenon
  <1>6. QED
    BY <1>3, <1>5

LEMMA BecomeIs ==
    ASSUME NEW src, IsText(src), NEW n \in 1..Len(src)
    PROVE  /\ IsLine(Become(src, n)) /\ ~isChordLine(Become(src, n))
           /\ Become(src, n).chords = src[n].chords
           /\ Become(src, n).is = "tab" <=> src[n].is = "tab"
           /\ \A is \in {"sot", "eot", "field", "newsong", "tagged"} :
                Become(src, n).is = is => src[n].is = is
           /\ Become(src, n).is = "unread" => src[n].is \in {"paren", "unread"}
  <1>1. PICK l, b : l = src[n] /\ b = Become(src, n)
    OBVIOUS
  <1>2. IsLine(l)
    BY <1>1 DEF IsText
  <1>3. CASE l.is = "section"
    <2>0. l.is = "section" /\ ~isChordLine(l)
      BY <1>3 DEF isChordLine
    <2>1. b = L("header") /\ l.chords = 0
      <3>1. b = L("header")
        BY <1>1, <2>0 DEF Become
      <3>2. l.chords = 0
        BY <1>2, <1>3 DEF IsLine, ChordKinds
      <3>3. QED
        BY <3>1, <3>2
    <2>2. b.is = "header" /\ b.chords = 0 /\ DOMAIN b = {"is", "chords"}
      BY <2>1 DEF L, ChordKinds
    <2>3. QED
      BY <1>1, <1>3, <2>1, <2>2 DEF IsLine, isChordLine, LineKinds, ChordKinds
  <1>4. CASE isChordLine(l)
    <2>1. l.is \in {"over", "paren"} /\ l.is # "section"
      BY <1>4 DEF isChordLine
    <2>2. PICK words : b = inline(l, words)
      BY <1>1, <1>4, <2>1 DEF Become
    <2>3. /\ DOMAIN b = DOMAIN l /\ b.chords = l.chords
          /\ b.is = IF l.is = "paren" THEN "unread" ELSE IF words THEN "inline" ELSE "spaced"
      BY <1>2, <2>2 DEF inline, IsLine
    <2>4. b.is \in {"unread", "inline", "spaced"} /\ (b.is = "unread" => l.is = "paren")
      BY <2>1, <2>3
    <2>5. IsLine(b)
      BY <1>2, <2>3, <2>4 DEF IsLine, LineKinds, ChordKinds
    <2>6. QED
      BY <1>1, <2>1, <2>3, <2>4, <2>5 DEF isChordLine
  <1>5. CASE l.is # "section" /\ ~isChordLine(l)
    <2>1. b = l
      BY <1>1, <1>5 DEF Become
    <2>2. QED
      BY <1>1, <1>2, <1>5, <2>1
  <1>6. QED
    BY <1>3, <1>4, <1>5

Conversion(src) == [n \in 1..Len(src) |-> converted(src, n)]

LEMMA ConvertLays ==
    ASSUME NEW src, IsText(src)
    PROVE  /\ IsText(chordsOverLyricsToChordPro(src))
           /\ \A i \in 1..Len(chordsOverLyricsToChordPro(src)) :
                \/ \E n \in 1..Len(src) : chordsOverLyricsToChordPro(src)[i] = Become(src, n)
                \/ chordsOverLyricsToChordPro(src)[i] \in {L("sot"), L("eot")}
           /\ \E len : Lays(chordsOverLyricsToChordPro(src), Conversion(src), Len(src), len)
  <1>1. PICK N \in Nat : N = Len(src) /\ DOMAIN src = 1..N
    BY SeqIs DEF IsText, IsSeq
  <1> DEFINE S == {Become(src, n) : n \in 1..N} \cup {L("sot"), L("eot")}
  <1>2. PICK seqs : seqs = Conversion(src)
    OBVIOUS
  <1>3. DOMAIN seqs = 1..N /\ \A n \in 1..N : seqs[n] = converted(src, n)
    BY <1>1, <1>2 DEF Conversion
  <1>4. Len(seqs) = N
    <2>1. seqs = [n \in 1..N |-> seqs[n]]
      BY <1>1, <1>2, <1>3 DEF Conversion
    <2>2. QED
      BY <1>3, <2>1, ListIs
  <1>5. ASSUME NEW n \in 1..N PROVE seqs[n] \in Seq(S)
    <2>1. Become(src, n) \in S /\ L("eot") \in S /\ Edge(src, n) \in S
      BY DEF Edge
    <2> HIDE DEF S
    <2>2. /\ <<>> \in Seq(S) /\ <<Become(src, n)>> \in Seq(S)
          /\ <<Edge(src, n), Become(src, n)>> \in Seq(S)
          /\ <<Become(src, n), L("eot")>> \in Seq(S)
          /\ <<Edge(src, n), Become(src, n), L("eot")>> \in Seq(S)
      BY <2>1
    <2>3. n \in 1..Len(src)
      BY <1>1
    <2>4. converted(src, n) \in Seq(S)
      BY <2>2, <2>3, ConvertedIs, Zenon
    <2>5. QED
      BY <1>3, <2>4
  <1>6. \A l \in S : IsLine(l)
    <2>1. \A n \in 1..N : IsLine(Become(src, n))
      BY <1>1, BecomeIs
    <2>2. IsLine(L("sot")) /\ IsLine(L("eot"))
      BY DEF IsLine, L, LineKinds, ChordKinds
    <2>3. QED
      BY <2>1, <2>2
  <1>7. \A l \in S : (\E n \in 1..N : l = Become(src, n)) \/ l \in {L("sot"), L("eot")}
    OBVIOUS
  <1> HIDE DEF S
  <1>8. FlattenSeq(seqs) \in Seq(S) /\ \E len : Lays(FlattenSeq(seqs), seqs, N, len)
    BY <1>3, <1>4, <1>5, LaysOut
  <1>9. chordsOverLyricsToChordPro(src) = FlattenSeq(seqs)
    BY <1>1, <1>2 DEF chordsOverLyricsToChordPro, Conversion
  <1>10. PICK t : t = FlattenSeq(seqs)
    OBVIOUS
  <1>11. IsSeq(t) /\ \A i \in 1..Len(t) : t[i] \in S
    <2>1. IsSeq(t) /\ Range(t) \subseteq S /\ \A i \in 1..Len(t) : t[i] \in Range(t)
      BY <1>8, <1>10, SeqIs
    <2>2. QED
      BY <2>1
  <1>12. IsText(t)
    BY <1>6, <1>11 DEF IsText
  <1>13. QED
    BY <1>1, <1>2, <1>7, <1>8, <1>9, <1>10, <1>11, <1>12

\* Whether a tab is open after the first p lines.
TabOpen(lines, p) ==
    \E k \in 1..p : lines[k].is = "sot" /\ \A j \in k..p : lines[j].is # "eot"

LEMMA OpenStep ==
    ASSUME NEW lines
    PROVE  /\ ~TabOpen(lines, 0)
           /\ \A p \in Nat : TabOpen(lines, p + 1) <=>
                lines[p + 1].is # "eot" /\ (lines[p + 1].is = "sot" \/ TabOpen(lines, p))
  <1>1. ~TabOpen(lines, 0)
    BY DEF TabOpen
  <1>2. SUFFICES ASSUME NEW p \in Nat
                 PROVE  TabOpen(lines, p + 1) <=>
                            lines[p + 1].is # "eot" /\ (lines[p + 1].is = "sot" \/ TabOpen(lines, p))
    BY <1>1
  <1>3. ASSUME TabOpen(lines, p + 1)
        PROVE  lines[p + 1].is # "eot" /\ (lines[p + 1].is = "sot" \/ TabOpen(lines, p))
    <2>1. PICK k \in 1..(p + 1) : lines[k].is = "sot" /\ \A j \in k..(p + 1) : lines[j].is # "eot"
      BY <1>3 DEF TabOpen
    <2>2. p + 1 \in k..(p + 1) /\ \A j \in k..p : j \in k..(p + 1)
      OBVIOUS
    <2>3. CASE k = p + 1
      BY <2>1, <2>2, <2>3
    <2>4. CASE k # p + 1
      <3>1. k \in 1..p
        BY <2>4
      <3>2. TabOpen(lines, p)
        BY <2>1, <2>2, <3>1 DEF TabOpen
      <3>3. QED
        BY <2>1, <2>2, <3>2
    <2>5. QED
      BY <2>3, <2>4
  <1>4. ASSUME lines[p + 1].is # "eot", lines[p + 1].is = "sot" PROVE TabOpen(lines, p + 1)
    <2>1. p + 1 \in 1..(p + 1) /\ \A j \in (p + 1)..(p + 1) : j = p + 1
      OBVIOUS
    <2>2. QED
      BY <1>4, <2>1 DEF TabOpen
  <1>5. ASSUME lines[p + 1].is # "eot", TabOpen(lines, p) PROVE TabOpen(lines, p + 1)
    <2>1. PICK k \in 1..p : lines[k].is = "sot" /\ \A j \in k..p : lines[j].is # "eot"
      BY <1>5 DEF TabOpen
    <2>2. k \in 1..(p + 1) /\ \A j \in k..(p + 1) : j \in k..p \/ j = p + 1
      OBVIOUS
    <2>3. \A j \in k..(p + 1) : lines[j].is # "eot"
      BY <1>5, <2>1, <2>2
    <2>4. QED
      BY <2>1, <2>2, <2>3 DEF TabOpen
  <1>6. QED
    BY <1>3, <1>4, <1>5

LEMMA InTabsAre ==
    ASSUME NEW lines, IsSeq(lines)
    PROVE  \A i : i \in InTabs(lines) <=> i \in 1..Len(lines) /\ TabOpen(lines, i - 1)
  <1>1. DOMAIN lines = 1..Len(lines)
    BY SeqIs DEF IsSeq
  <1>2. QED
    BY <1>1 DEF InTabs, TabOpen

\* The lines of a tab are in a tab, which their last edge closes.
TabbedTo(lines, p) == \A i \in 1..p : TabOpen(lines, i - 1) <=> lines[i].is \in {"tab", "eot"}
Tabbed(lines) == TabbedTo(lines, Len(lines))

LEMMA ConvertTabs ==
    ASSUME NEW src, IsText(src), \A n \in 1..Len(src) : src[n].is \notin {"sot", "eot"}
    PROVE  Tabbed(chordsOverLyricsToChordPro(src))
  <1>1. PICK N \in Nat : N = Len(src)
    BY SeqIs DEF IsText, IsSeq
  <1>2. PICK c, seqs : c = chordsOverLyricsToChordPro(src) /\ seqs = Conversion(src)
    OBVIOUS
  <1>3. PICK len : Lays(c, seqs, N, len)
    BY <1>1, <1>2, ConvertLays
  <1>4. /\ len[0] = 0 /\ Len(c) = len[N] /\ \A n \in 0..N : len[n] \in Nat
        /\ \A n \in 1..N : /\ len[n] = len[n - 1] + Len(seqs[n])
                           /\ \A j \in 1..Len(seqs[n]) : c[len[n - 1] + j] = seqs[n][j]
    BY <1>3 DEF Lays
  <1>5. \A n \in 1..N : seqs[n] = converted(src, n)
    BY <1>1, <1>2 DEF Conversion
  <1> DEFINE good == {n \in 0..N : /\ TabOpen(c, len[n]) <=> IsTab(src, n) /\ n # N
                                   /\ TabbedTo(c, len[n])}
  <1>6. 0 \in good
    <2>1. ~TabOpen(c, 0) /\ TabbedTo(c, 0) /\ 0 \in 0..N
      BY OpenStep DEF TabbedTo
    <2>2. ~IsTab(src, 0)
      BY DEF IsTab
    <2>3. QED
      BY <1>4, <2>1, <2>2
  <1>7. ASSUME NEW n \in 0..(N - 1), n \in good PROVE n + 1 \in good
    <2>1. PICK m : m = n + 1
      OBVIOUS
    <2>2. /\ m \in 1..N /\ m \in 1..Len(src) /\ m - 1 = n /\ m \in 0..N /\ m \in Nat
          /\ n \in 0..N /\ n # N
      BY <1>1, <2>1
    <2>3. PICK q \in Nat : q = len[n]
      BY <1>4, <2>2
    <2>4. PICK s : s = seqs[m]
      OBVIOUS
    <2>5. /\ len[m] = q + Len(s) /\ s = converted(src, m)
          /\ \A j \in 1..Len(s) : c[q + j] = s[j]
      BY <1>4, <1>5, <2>2, <2>3, <2>4
    <2>6. (TabOpen(c, q) <=> IsTab(src, n)) /\ TabbedTo(c, q)
      BY <1>7, <2>2, <2>3
    <2>7. \A p \in Nat : /\ TabOpen(c, p + 1) <=>
                                c[p + 1].is # "eot" /\ (c[p + 1].is = "sot" \/ TabOpen(c, p))
                         /\ TabbedTo(c, p) /\ (TabOpen(c, p) <=> c[p + 1].is \in {"tab", "eot"})
                                => TabbedTo(c, p + 1)
      <3>1. TAKE p \in Nat
      <3>2. \A i \in 1..(p + 1) : i \in 1..p \/ i = p + 1
        OBVIOUS
      <3>3. (p + 1) - 1 = p
        OBVIOUS
      <3>4. QED
        BY <3>2, <3>3, OpenStep DEF TabbedTo
    <2>8. PICK b, e : b = Become(src, m) /\ e = Edge(src, m)
      OBVIOUS
    <2>9. /\ b.is = "tab" <=> IsTab(src, m)
          /\ b.is \notin {"sot", "eot"}
          /\ e.is = IF IsTab(src, m) THEN "sot" ELSE "eot"
      <3>1. (b.is = "tab" <=> src[m].is = "tab") /\ b.is \notin {"sot", "eot"}
        BY <2>2, <2>8, BecomeIs
      <3>2. m > 0
        BY <2>2
      <3>3. QED
        BY <2>8, <3>1, <3>2 DEF IsTab, Edge, L
    <2>10. L("eot").is = "eot"
      BY DEF L
    <2>11. /\ Merged(src, m) => s = <<>>
           /\ ~Merged(src, m) =>
                /\ SameSide(src, m) /\ ~LastTab(src, m) => s = <<b>>
                /\ ~SameSide(src, m) /\ ~LastTab(src, m) => s = <<e, b>>
                /\ SameSide(src, m) /\ LastTab(src, m) => s = <<b, L("eot")>>
                /\ ~SameSide(src, m) /\ LastTab(src, m) => s = <<e, b, L("eot")>>
      BY <2>2, <2>5, <2>8, ConvertedIs, Zenon
    <2>12. SUFFICES (TabOpen(c, len[m]) <=> IsTab(src, m) /\ m # N) /\ TabbedTo(c, len[m])
      BY <2>1, <2>2
    <2>13. (SameSide(src, m) <=> (IsTab(src, m) <=> IsTab(src, n)))
           /\ (LastTab(src, m) <=> IsTab(src, m) /\ m = N)
      BY <1>1, <2>2 DEF SameSide, LastTab
    <2>14. CASE Merged(src, m)
      <3>1. Len(s) = 0 /\ len[m] = q
        BY <2>3, <2>5, <2>11, <2>14
      <3>2. isChordLine(src[n]) /\ pairs(src[m])
        BY <2>2, <2>14 DEF Merged
      <3>3. ~IsTab(src, n) /\ ~IsTab(src, m)
        BY <3>2 DEF isChordLine, pairs, IsTab
      <3>4. QED
        BY <2>6, <3>1, <3>3
    <2>15. CASE ~Merged(src, m) /\ SameSide(src, m) /\ ~LastTab(src, m)
      <3>1. s = <<b>>
        BY <2>11, <2>15
      <3>2. Len(s) = 1 /\ s[1] = b
        BY <3>1
      <3>3. len[m] = q + 1 /\ c[q + 1] = b
        BY <2>5, <3>2
      <3>4. QED
        BY <2>6, <2>7, <2>9, <2>13, <2>15, <3>3
    <2>16. CASE ~Merged(src, m) /\ ~SameSide(src, m) /\ ~LastTab(src, m)
      <3>1. s = <<e, b>>
        BY <2>11, <2>16
      <3>2. Len(s) = 2 /\ s[1] = e /\ s[2] = b
        BY <3>1
      <3>3. len[m] = (q + 1) + 1 /\ c[q + 1] = e /\ c[(q + 1) + 1] = b /\ q + 1 \in Nat
        BY <2>5, <3>2
      <3>4. TabbedTo(c, q + 1) /\ (TabOpen(c, q + 1) <=> IsTab(src, m))
        BY <2>6, <2>7, <2>9, <2>13, <2>16, <3>3
      <3>5. QED
        BY <2>7, <2>9, <2>13, <2>16, <3>3, <3>4
    <2>17. CASE ~Merged(src, m) /\ SameSide(src, m) /\ LastTab(src, m)
      <3>1. s = <<b, L("eot")>>
        BY <2>11, <2>17
      <3>2. Len(s) = 2 /\ s[1] = b /\ s[2] = L("eot")
        BY <3>1
      <3>3. len[m] = (q + 1) + 1 /\ c[q + 1] = b /\ c[(q + 1) + 1].is = "eot" /\ q + 1 \in Nat
        BY <2>5, <2>10, <3>2
      <3>4. TabbedTo(c, q + 1) /\ TabOpen(c, q + 1)
        BY <2>6, <2>7, <2>9, <2>13, <2>17, <3>3
      <3>5. QED
        BY <2>7, <2>13, <2>17, <3>3, <3>4
    <2>18. CASE ~Merged(src, m) /\ ~SameSide(src, m) /\ LastTab(src, m)
      <3>1. s = <<e, b, L("eot")>>
        BY <2>11, <2>18
      <3>2. Len(s) = 3 /\ s[1] = e /\ s[2] = b /\ s[3] = L("eot")
        BY <3>1
      <3>3. /\ len[m] = ((q + 1) + 1) + 1 /\ c[q + 1] = e /\ c[(q + 1) + 1] = b
            /\ c[((q + 1) + 1) + 1].is = "eot" /\ q + 1 \in Nat /\ (q + 1) + 1 \in Nat
        BY <2>5, <2>10, <3>2
      <3>4. TabbedTo(c, q + 1) /\ TabOpen(c, q + 1)
        BY <2>6, <2>7, <2>9, <2>13, <2>18, <3>3
      <3>5. TabbedTo(c, (q + 1) + 1) /\ TabOpen(c, (q + 1) + 1)
        BY <2>7, <2>9, <2>13, <2>18, <3>3, <3>4
      <3>6. QED
        BY <2>7, <2>13, <2>18, <3>3, <3>5
    <2>19. QED
      BY <2>14, <2>15, <2>16, <2>17, <2>18
  <1> HIDE DEF good
  <1>8. N \in good
    <2>1. N \in 0..N
      OBVIOUS
    <2>2. QED
      BY <1>6, <1>7, <2>1, StepByStep
  <1>9. QED
    BY <1>2, <1>4, <1>8 DEF good, Tabbed

\* No chord is left above the lyrics.
LEMMA ConvertText ==
    ASSUME NEW src, IsText(src), NEW c, c = chordsOverLyricsToChordPro(src)
    PROVE  /\ IsText(c) /\ ~looksLikeChordsOverLyrics(c)
           /\ \A i \in 1..Len(c) :
                /\ \A is \in {"field", "newsong", "tagged"} :
                        c[i].is = is => \E n \in 1..Len(src) : src[n].is = is
                /\ c[i].is = "unread" =>
                        \E n \in 1..Len(src) : src[n].is \in {"paren", "unread"}
  <1>1. /\ IsText(c)
        /\ \A i \in 1..Len(c) : \/ \E n \in 1..Len(src) : c[i] = Become(src, n)
                                \/ c[i] \in {L("sot"), L("eot")}
    BY ConvertLays
  <1>2. DOMAIN c = 1..Len(c)
    BY <1>1, SeqIs DEF IsText, IsSeq
  <1>3. L("sot").is = "sot" /\ L("eot").is = "eot"
    BY DEF L
  <1>4. ASSUME NEW i \in 1..Len(c)
        PROVE  /\ ~isChordLine(c[i])
               /\ \A is \in {"field", "newsong", "tagged"} :
                        c[i].is = is => \E n \in 1..Len(src) : src[n].is = is
               /\ c[i].is = "unread" =>
                        \E n \in 1..Len(src) : src[n].is \in {"paren", "unread"}
    <2>1. CASE c[i] \in {L("sot"), L("eot")}
      BY <1>3, <2>1 DEF isChordLine
    <2>2. CASE \E n \in 1..Len(src) : c[i] = Become(src, n)
      <3>1. PICK n \in 1..Len(src) : c[i] = Become(src, n)
        BY <2>2
      <3>2. /\ ~isChordLine(c[i])
            /\ \A is \in {"field", "newsong", "tagged"} : c[i].is = is => src[n].is = is
            /\ c[i].is = "unread" => src[n].is \in {"paren", "unread"}
        BY <3>1, BecomeIs
      <3>3. QED
        BY <3>2
    <2>3. QED
      BY <1>1, <2>1, <2>2
  <1>5. ~looksLikeChordsOverLyrics(c)
    BY <1>2, <1>4 DEF looksLikeChordsOverLyrics
  <1>6. QED
    BY <1>1, <1>4, <1>5

-----------------------------------------------------------------------------
(* Counting the chords of a text. *)

Weight(lines, n) ==
    IF n \in InTabs(lines) \/ lines[n].is = "unread" THEN 0 ELSE lines[n].chords

IsCount(f, lines, N) ==
    f = [n \in 0..N |->
            IF n = 0 THEN 0
            ELSE f[n - 1] + IF n \in InTabs(lines) \/ lines[n].is = "unread"
                            THEN 0 ELSE lines[n].chords]

\* The chords of the first n lines.
Counts(f, lines) ==
    /\ f \in [0..Len(lines) -> Nat] /\ f[0] = 0
    /\ \A n \in 1..Len(lines) : f[n] = f[n - 1] + Weight(lines, n)

LEMMA WeightType ==
    ASSUME NEW lines, IsText(lines), NEW n \in 1..Len(lines)
    PROVE  Weight(lines, n) \in Nat
  BY DEF Weight, IsText, IsLine

LEMMA CountIs ==
    ASSUME NEW lines, IsText(lines)
    PROVE  \E f : Counts(f, lines) /\ ChordsOf(lines) = f[Len(lines)]
  <1>1. PICK N \in Nat : N = Len(lines)
    BY SeqIs DEF IsText, IsSeq
  <1> DEFINE S == {n \in Nat : \E f : IsCount(f, lines, n)}
  <1>2. 0 \in S
    <2>1. IsCount([n \in 0..0 |-> 0], lines, 0)
      BY DEF IsCount
    <2>2. QED
      BY <2>1
  <1>3. \A n \in 0..(N - 1) : n \in S => n + 1 \in S
    <2>0. \A n \in 0..(N - 1) : n \in Nat /\ n + 1 \in Nat
      OBVIOUS
    <2>1. SUFFICES ASSUME NEW n \in Nat, NEW f, IsCount(f, lines, n)
                   PROVE  \E g : IsCount(g, lines, n + 1)
      BY <2>0
    <2> DEFINE g == [i \in 0..(n + 1) |-> IF i <= n THEN f[i] ELSE f[n] + Weight(lines, i)]
               to(i) == IF i = 0 THEN 0 ELSE g[i - 1] + Weight(lines, i)
    <2>2. f = [i \in 0..n |-> IF i = 0 THEN 0 ELSE f[i - 1] + Weight(lines, i)]
      BY <2>1 DEF IsCount, Weight
    <2>3. \A i \in 0..(n + 1) : g[i] = to(i)
      <3>1. TAKE i \in 0..(n + 1)
      <3>2. CASE i = 0
        <4>1. 0 \in 0..n
          OBVIOUS
        <4>2. f[0] = 0
          BY <2>2, <4>1
        <4>3. QED
          BY <3>2, <4>2
      <3>3. CASE i # 0 /\ i <= n
        <4>1. i \in 0..n /\ i - 1 \in 0..n /\ i - 1 \in 0..(n + 1) /\ i - 1 <= n
          BY <3>3
        <4>2. g[i] = f[i] /\ g[i - 1] = f[i - 1]
          BY <3>3, <4>1
        <4>3. f[i] = f[i - 1] + Weight(lines, i)
          BY <2>2, <3>3, <4>1
        <4>4. QED
          BY <3>3, <4>2, <4>3
      <3>4. CASE ~(i <= n)
        <4>1. i = n + 1 /\ i # 0 /\ i - 1 = n /\ n \in 0..(n + 1) /\ n <= n
          BY <3>4
        <4>2. g[i] = f[n] + Weight(lines, i) /\ g[i - 1] = f[n]
          BY <3>4, <4>1
        <4>3. QED
          BY <4>1, <4>2
      <3>5. QED
        BY <3>2, <3>3, <3>4
    <2>4. g = [i \in 0..(n + 1) |-> g[i]]
      OBVIOUS
    <2> HIDE DEF g
    <2>5. g = [i \in 0..(n + 1) |-> to(i)]
      BY <2>3, <2>4
    <2>6. IsCount(g, lines, n + 1)
      BY <2>5 DEF IsCount, Weight
    <2>7. QED
      BY <2>6
  <1> HIDE DEF S
  <1>4. N \in S
    <2>1. N \in 0..N
      OBVIOUS
    <2>2. QED
      BY <1>2, <1>3, <2>1, StepByStep
  <1>5. PICK f : f = CHOOSE g : IsCount(g, lines, N)
    OBVIOUS
  <1>6. IsCount(f, lines, N)
    BY <1>4, <1>5 DEF S
  <1>7. ChordsOf(lines) = f[N]
    BY <1>1, <1>5 DEF ChordsOf, IsCount
  <1>8. f = [n \in 0..N |-> IF n = 0 THEN 0 ELSE f[n - 1] + Weight(lines, n)]
    BY <1>6 DEF IsCount, Weight
  <1>9. f[0] = 0 /\ \A n \in 1..N : f[n] = f[n - 1] + Weight(lines, n)
    <2>1. 0 \in 0..N /\ \A n \in 1..N : n \in 0..N /\ n # 0
      OBVIOUS
    <2>2. QED
      BY <1>8, <2>1
  <1> DEFINE T == {n \in 0..N : f[n] \in Nat}
  <1>10. N \in Nat /\ 0 \in T
    BY <1>9
  <1>11. \A n \in 0..(N - 1) : n \in T => n + 1 \in T
    <2>1. TAKE n \in 0..(N - 1)
    <2>2. n + 1 \in 1..N /\ (n + 1) - 1 = n /\ n + 1 \in 0..N
      OBVIOUS
    <2>3. f[n + 1] = f[n] + Weight(lines, n + 1) /\ Weight(lines, n + 1) \in Nat
      BY <1>1, <1>9, <2>2, WeightType
    <2>4. QED
      BY <2>2, <2>3
  <1>12. \A n \in 0..N : n \in T
    <2> HIDE DEF T
    <2>1. QED
      BY <1>10, <1>11, StepByStep
  <1>13. f \in [0..N -> Nat]
    BY <1>8, <1>12
  <1>14. Counts(f, lines)
    BY <1>1, <1>9, <1>13 DEF Counts
  <1>15. QED
    BY <1>1, <1>7, <1>14

LEMMA CountSkips ==
    ASSUME NEW lines, IsText(lines), NEW f, Counts(f, lines),
           NEW a \in 0..Len(lines), NEW b \in 0..Len(lines), a <= b,
           \A i \in (a + 1)..b : Weight(lines, i) = 0
    PROVE  f[b] = f[a]
  <1>1. PICK N \in Nat : N = Len(lines)
    BY SeqIs DEF IsText, IsSeq
  <1>2. PICK d \in Nat : b = a + d
    <2>1. b - a \in Nat /\ b = a + (b - a)
      BY <1>1
    <2>2. QED
      BY <2>1
  <1> DEFINE S == {k \in 0..d : f[a + k] = f[a]}
  <1>3. 0 \in S
    BY <1>1
  <1>4. \A k \in 0..(d - 1) : k \in S => k + 1 \in S
    <2>1. TAKE k \in 0..(d - 1)
    <2>2. /\ a + (k + 1) \in 1..N /\ (a + (k + 1)) - 1 = a + k /\ a + (k + 1) \in (a + 1)..b
          /\ k + 1 \in 0..d /\ a + k \in 0..N
      BY <1>1, <1>2
    <2>3. f[a + (k + 1)] = f[a + k] + 0 /\ f[a + k] \in Nat
      BY <1>1, <2>2 DEF Counts
    <2>4. QED
      BY <2>2, <2>3
  <1>5. d \in 0..d
    OBVIOUS
  <1> HIDE DEF S
  <1>6. d \in S
    BY <1>3, <1>4, <1>5, StepByStep
  <1>7. QED
    BY <1>2, <1>6 DEF S

\* Line n of one text has its chords in one of the lines of the other that are
\* for it: len[n] of them are for the first n.
LineKept(src, c, len, n) ==
    /\ len[n - 1] <= len[n]
    /\ \/ /\ Weight(src, n) = 0
          /\ \A i \in (len[n - 1] + 1)..len[n] : Weight(c, i) = 0
       \/ \E p \in (len[n - 1] + 1)..len[n] :
            /\ Weight(c, p) = Weight(src, n)
            /\ \A i \in (len[n - 1] + 1)..len[n] : i # p => Weight(c, i) = 0

\* One text has the chords of another that it has line by line.
LEMMA SameCount ==
    ASSUME NEW src, IsText(src), NEW c, IsText(c), NEW N \in Nat, N = Len(src),
           NEW len \in [0..N -> Nat], len[0] = 0, len[N] = Len(c),
           \A n \in 1..N : LineKept(src, c, len, n)
    PROVE  ChordsOf(c) = ChordsOf(src)
  <1>1. PICK M \in Nat : M = Len(c)
    BY SeqIs DEF IsText, IsSeq
  <1>2. PICK f : Counts(f, c) /\ ChordsOf(c) = f[M]
    BY <1>1, CountIs
  <1>3. PICK g : Counts(g, src) /\ ChordsOf(src) = g[N]
    BY CountIs
  <1>4. \A n \in 0..N : len[n] \in Nat
    OBVIOUS
  <1>5. \A n \in 0..N : len[n] <= M
    <2> DEFINE S == {k \in 0..N : len[N - k] <= M}
    <2>1. 0 \in S
      BY <1>1
    <2>2. \A k \in 0..(N - 1) : k \in S => k + 1 \in S
      <3>1. TAKE k \in 0..(N - 1)
      <3>2. /\ N - k \in 1..N /\ (N - k) - 1 = N - (k + 1) /\ N - (k + 1) \in 0..N
            /\ k + 1 \in 0..N /\ N - k \in 0..N
        OBVIOUS
      <3>3. len[N - (k + 1)] <= len[N - k] /\ len[N - (k + 1)] \in Nat /\ len[N - k] \in Nat
        BY <1>4, <3>2 DEF LineKept
      <3>4. QED
        BY <1>1, <3>2, <3>3
    <2>3. \A k \in 0..N : k \in S
      <3> HIDE DEF S
      <3>1. QED
        BY <2>1, <2>2, StepByStep
    <2>4. TAKE n \in 0..N
    <2>5. N - n \in 0..N /\ N - (N - n) = n
      OBVIOUS
    <2>6. QED
      BY <2>3, <2>5
  <1> DEFINE T == {n \in 0..N : f[len[n]] = g[n]}
  <1>6. 0 \in T
    BY <1>2, <1>3 DEF Counts
  <1>7. \A n \in 0..(N - 1) : n \in T => n + 1 \in T
    <2>0. \A n \in 0..(N - 1) : n \in 0..N /\ n + 1 \in 0..N
      OBVIOUS
    <2>1. SUFFICES ASSUME NEW n \in 0..(N - 1), f[len[n]] = g[n]
                   PROVE  f[len[n + 1]] = g[n + 1]
      BY <2>0
    <2>2. PICK m : m = n + 1
      OBVIOUS
    <2>3. m \in 1..N /\ m - 1 = n /\ m \in 0..N /\ n \in 0..N
      BY <2>2
    <2>4. PICK a, b \in Nat : a = len[n] /\ b = len[m]
      BY <1>4, <2>3
    <2>5. a <= b /\ a \in 0..M /\ b \in 0..M
      BY <1>1, <1>5, <2>3, <2>4 DEF LineKept
    <2>6. g[m] = g[n] + Weight(src, m) /\ g[n] \in Nat /\ Weight(src, m) \in Nat
      BY <1>3, <2>3, WeightType DEF Counts
    <2>7. CASE Weight(src, m) = 0 /\ \A i \in (a + 1)..b : Weight(c, i) = 0
      <3>1. f[b] = f[a]
        BY <1>1, <1>2, <2>5, <2>7, CountSkips
      <3>2. QED
        BY <2>1, <2>2, <2>4, <2>6, <2>7, <3>1
    <2>8. ASSUME NEW p \in (a + 1)..b, Weight(c, p) = Weight(src, m),
                 \A i \in (a + 1)..b : i # p => Weight(c, i) = 0
          PROVE  f[b] = g[m]
      <3>1. PICK q \in Nat : q + 1 = p
        <4>1. p - 1 \in Nat /\ (p - 1) + 1 = p
          BY <2>4
        <4>2. QED
          BY <4>1
      <3>2. q \in 0..M /\ p \in 0..M /\ p \in 1..M /\ p - 1 = q /\ a <= q /\ p <= b
        BY <1>1, <2>5, <3>1
      <3>3. /\ \A i \in (a + 1)..q : i \in (a + 1)..b /\ i # p
            /\ \A i \in (p + 1)..b : i \in (a + 1)..b /\ i # p
        BY <2>5, <3>1, <3>2
      <3>4. \A i \in (a + 1)..q : Weight(c, i) = 0
        BY <2>8, <3>3
      <3>5. \A i \in (p + 1)..b : Weight(c, i) = 0
        BY <2>8, <3>3
      <3>6. f[q] = f[a]
        BY <1>1, <1>2, <2>5, <3>2, <3>4, CountSkips
      <3>7. f[b] = f[p]
        BY <1>1, <1>2, <2>5, <3>2, <3>5, CountSkips
      <3>8. f[p] = f[q] + Weight(c, p)
        BY <1>1, <1>2, <3>2 DEF Counts
      <3>9. QED
        BY <2>1, <2>4, <2>6, <2>8, <3>6, <3>7, <3>8
    <2>9. QED
      BY <2>2, <2>3, <2>4, <2>7, <2>8 DEF LineKept
  <1>8. N \in T
    <2>1. N \in 0..N
      OBVIOUS
    <2> HIDE DEF T
    <2>2. QED
      BY <1>6, <1>7, <2>1, StepByStep
  <1>9. QED
    BY <1>1, <1>2, <1>3, <1>8

\* The chords are those that were above the lyrics.
LEMMA ConvertCount ==
    ASSUME NEW src, IsText(src),
           \A n \in 1..Len(src) : src[n].is \notin {"paren", "unread", "sot", "eot"}
    PROVE  ChordsOf(chordsOverLyricsToChordPro(src)) = ChordsOf(src)
  <1>1. PICK N \in Nat : N = Len(src)
    BY SeqIs DEF IsText, IsSeq
  <1>2. PICK c, seqs : c = chordsOverLyricsToChordPro(src) /\ seqs = Conversion(src)
    OBVIOUS
  <1>3. PICK len : Lays(c, seqs, N, len)
    BY <1>1, <1>2, ConvertLays
  <1>4. /\ len \in [0..N -> Nat] /\ len[0] = 0 /\ Len(c) = len[N]
        /\ \A n \in 1..N : /\ len[n] = len[n - 1] + Len(seqs[n])
                           /\ \A j \in 1..Len(seqs[n]) :
                                /\ len[n - 1] + j \in 1..len[N]
                                /\ c[len[n - 1] + j] = seqs[n][j]
    BY <1>3 DEF Lays
  <1>5. \A n \in 1..N : seqs[n] = converted(src, n)
    BY <1>1, <1>2 DEF Conversion
  <1>6. IsText(c) /\ \A i \in 1..Len(c) : c[i].is # "unread"
    BY <1>2, ConvertText
  <1>7. ASSUME NEW i \in 1..Len(c) PROVE Weight(c, i) = c[i].chords
    <2>1. Tabbed(c)
      BY <1>2, ConvertTabs
    <2>2. i \in InTabs(c) => c[i].is \in {"tab", "eot"}
      BY <1>6, <2>1, InTabsAre DEF Tabbed, TabbedTo, IsText
    <2>3. IsLine(c[i])
      BY <1>6 DEF IsText
    <2>4. QED
      BY <1>6, <2>2, <2>3 DEF Weight, IsLine, ChordKinds
  <1>8. ASSUME NEW n \in 1..N PROVE Weight(src, n) = src[n].chords
    <2>1. n \notin InTabs(src)
      <3>1. ~TabOpen(src, n - 1)
        BY <1>1 DEF TabOpen
      <3>2. QED
        BY <1>1, <3>1, InTabsAre DEF IsText
    <2>2. QED
      BY <1>1, <2>1 DEF Weight
  <1>9. ASSUME NEW n \in 1..N PROVE LineKept(src, c, len, n)
    <2>1. n \in 1..Len(src) /\ n - 1 \in 0..N /\ n \in 0..N
      BY <1>1
    <2>2. PICK q \in Nat : q = len[n - 1]
      BY <1>4, <2>1
    <2>3. PICK s, b, e, t : /\ s = seqs[n] /\ b = Become(src, n) /\ e = Edge(src, n)
                            /\ t = L("eot")
      OBVIOUS
    <2>4. /\ len[n] = q + Len(s) /\ s = converted(src, n)
          /\ \A j \in 1..Len(s) : q + j \in 1..Len(c) /\ c[q + j] = s[j]
      BY <1>4, <1>5, <2>2, <2>3
    <2>5. e.chords = 0 /\ t.chords = 0 /\ b.chords = src[n].chords
      BY <2>1, <2>3, BecomeIs DEF Edge, L, ChordKinds
    <2>6. /\ Merged(src, n) => s = <<>>
          /\ ~Merged(src, n) =>
               /\ SameSide(src, n) /\ ~LastTab(src, n) => s = <<b>>
               /\ ~SameSide(src, n) /\ ~LastTab(src, n) => s = <<e, b>>
               /\ SameSide(src, n) /\ LastTab(src, n) => s = <<b, t>>
               /\ ~SameSide(src, n) /\ LastTab(src, n) => s = <<e, b, t>>
      BY <2>1, <2>3, <2>4, ConvertedIs, Zenon
    <2>7. CASE Merged(src, n)
      <3>1. Len(s) = 0
        BY <2>6, <2>7
      <3>2. src[n].is \in {"words", "hash", "notes", "credit"}
        BY <2>7 DEF Merged, pairs
      <3>3. src[n].chords = 0
        BY <2>1, <3>2 DEF IsText, IsLine, ChordKinds
      <3>4. len[n] = q
        BY <2>4, <3>1
      <3>5. QED
        BY <1>8, <2>2, <3>3, <3>4 DEF LineKept
    \* Where it became one line of several, from which to which.
    <2>8. ASSUME NEW k \in {1, 2}, Len(s) \in {1, 2, 3}, k <= Len(s), s[k] = b,
                 \A j \in 1..Len(s) : j # k => s[j].chords = 0
          PROVE  LineKept(src, c, len, n)
      <3>1. PICK l \in 1..3 : l = Len(s)
        BY <2>8
      <3>2. len[n] = q + l /\ k \in 1..l /\ q + k \in (q + 1)..len[n]
        BY <2>4, <2>8, <3>1
      <3>3. Weight(c, q + k) = Weight(src, n)
        BY <1>7, <1>8, <2>4, <2>5, <2>8, <3>1, <3>2
      <3>4. ASSUME NEW i \in (q + 1)..len[n], i # q + k PROVE Weight(c, i) = 0
        <4>1. PICK j \in 1..l : i = q + j
          <5>1. i - q \in 1..l /\ i = q + (i - q)
            BY <3>2
          <5>2. QED
            BY <5>1
        <4>2. j # k
          BY <3>4, <4>1
        <4>3. i \in 1..Len(c) /\ c[i].chords = 0
          BY <2>4, <2>8, <3>1, <4>1, <4>2
        <4>4. QED
          BY <1>7, <4>3
      <3>5. QED
        BY <2>2, <3>2, <3>3, <3>4 DEF LineKept
    <2>9. CASE s = <<b>>
      <3>1. Len(s) = 1 /\ s[1] = b
        BY <2>9
      <3>2. QED
        BY <2>2, <2>8, <3>1
    <2>10. CASE s = <<e, b>>
      <3>1. Len(s) = 2 /\ s[1] = e /\ s[2] = b
        BY <2>10
      <3>2. \A j \in 1..2 : j # 2 => j = 1
        OBVIOUS
      <3>3. QED
        BY <2>2, <2>5, <2>8, <3>1, <3>2
    <2>11. CASE s = <<b, t>>
      <3>1. Len(s) = 2 /\ s[1] = b /\ s[2] = t
        BY <2>11
      <3>2. \A j \in 1..2 : j # 1 => j = 2
        OBVIOUS
      <3>3. QED
        BY <2>2, <2>5, <2>8, <3>1, <3>2
    <2>12. CASE s = <<e, b, t>>
      <3>1. Len(s) = 3 /\ s[1] = e /\ s[2] = b /\ s[3] = t
        BY <2>12
      <3>2. \A j \in 1..3 : j # 2 => j = 1 \/ j = 3
        OBVIOUS
      <3>3. QED
        BY <2>2, <2>5, <2>8, <3>1, <3>2
    <2>13. QED
      BY <2>6, <2>7, <2>9, <2>10, <2>11, <2>12
  <1>10. QED
    BY <1>1, <1>2, <1>4, <1>6, <1>9, SameCount

-----------------------------------------------------------------------------
(* A text that some blank lines and fields are left out of. *)

ThinsLine(t, lines, len, n) ==
    \/ len[n] = len[n - 1] + 1 /\ t[len[n]] = lines[n]
    \/ len[n] = len[n - 1] /\ lines[n].is \in {"blank", "field"}

\* len[n] of the lines are there of the first n.
Thins(t, lines, N, len) ==
    /\ len \in [0..N -> Nat] /\ len[0] = 0 /\ len[N] = Len(t)
    /\ \A n \in 1..N : ThinsLine(t, lines, len, n)

LEMMA ThinsKeeps ==
    ASSUME NEW lines, IsText(lines), NEW t, IsText(t), NEW len, Thins(t, lines, Len(lines), len)
    PROVE  /\ ChordsOf(t) = ChordsOf(lines)
           /\ Tabbed(lines) => Tabbed(t)
           /\ looksLikeChordsOverLyrics(t) <=> looksLikeChordsOverLyrics(lines)
           /\ looksLikeTagMarkup(t) <=> looksLikeTagMarkup(lines)
  <1>1. PICK N \in Nat : N = Len(lines)
    BY SeqIs DEF IsText, IsSeq
  <1>2. /\ len \in [0..N -> Nat] /\ len[0] = 0 /\ len[N] = Len(t)
        /\ \A n \in 1..N : ThinsLine(t, lines, len, n)
    BY <1>1 DEF Thins
  <1>3. \A n \in 1..N : n - 1 \in 0..(N - 1) /\ n - 1 \in Nat /\ n - 1 \in 0..N /\ n \in 0..N
                        /\ (n - 1) + 1 = n
    OBVIOUS
  <1>4. \A n \in 0..N : len[n] \in Nat
    BY <1>2
  \* What there is of the first n lines: all but the blank ones and the fields,
  \* at its place in a tab or out of it.
  <1> DEFINE S == {n \in 0..N :
                    /\ TabOpen(t, len[n]) <=> TabOpen(lines, n)
                    /\ TabbedTo(lines, n) => TabbedTo(t, len[n])
                    /\ \A i \in 1..len[n] : \E m \in 1..n : t[i] = lines[m]
                    /\ \A m \in 1..n : \/ \E i \in 1..len[n] : t[i] = lines[m]
                                       \/ lines[m].is \in {"blank", "field"}}
  <1>5. 0 \in S
    <2>1. ~TabOpen(t, 0) /\ ~TabOpen(lines, 0) /\ TabbedTo(t, 0)
      BY OpenStep DEF TabbedTo
    <2>2. QED
      BY <1>2, <2>1
  <1>6. ASSUME NEW k \in 0..(N - 1), k \in S PROVE k + 1 \in S
    <2>1. PICK n : n = k + 1
      OBVIOUS
    <2>2. n \in 1..N /\ n - 1 = k /\ k \in Nat /\ k \in 0..N /\ n \in 0..N
      BY <2>1
    <2>3. PICK q \in Nat : q = len[k]
      BY <1>4, <2>2
    <2>4. /\ TabOpen(lines, n) <=>
                lines[n].is # "eot" /\ (lines[n].is = "sot" \/ TabOpen(lines, k))
          /\ TabOpen(t, q + 1) <=>
                t[q + 1].is # "eot" /\ (t[q + 1].is = "sot" \/ TabOpen(t, q))
      BY <2>1, <2>2, OpenStep
    <2>5. /\ TabOpen(t, q) <=> TabOpen(lines, k)
          /\ TabbedTo(lines, k) => TabbedTo(t, q)
          /\ \A i \in 1..q : \E m \in 1..k : t[i] = lines[m]
          /\ \A m \in 1..k : \/ \E i \in 1..q : t[i] = lines[m]
                             \/ lines[m].is \in {"blank", "field"}
      BY <1>6, <2>3
    <2>6. (\A m \in 1..k : m \in 1..n) /\ (\A m \in 1..n : m \in 1..k \/ m = n) /\ n \in 1..n
      BY <2>1, <2>2
    <2>7. TabbedTo(lines, n) =>
            TabbedTo(lines, k) /\ (TabOpen(lines, k) <=> lines[n].is \in {"tab", "eot"})
      BY <2>2, <2>6 DEF TabbedTo
    <2>8. CASE len[n] = len[n - 1] + 1 /\ t[len[n]] = lines[n]
      <3>1. len[n] = q + 1 /\ t[q + 1] = lines[n]
        BY <2>2, <2>3, <2>8
      <3>2. (\A i \in 1..q : i \in 1..(q + 1)) /\ (\A i \in 1..(q + 1) : i \in 1..q \/ i = q + 1)
            /\ q + 1 \in 1..(q + 1) /\ (q + 1) - 1 = q
        OBVIOUS
      <3>3. TabOpen(t, q + 1) <=> TabOpen(lines, n)
        BY <2>4, <2>5, <3>1
      <3>4. TabbedTo(lines, n) => TabbedTo(t, q + 1)
        BY <2>5, <2>7, <3>1, <3>2 DEF TabbedTo
      <3>5. \A i \in 1..(q + 1) : \E m \in 1..n : t[i] = lines[m]
        BY <2>5, <2>6, <3>1, <3>2
      <3>6. \A m \in 1..n : \/ \E i \in 1..(q + 1) : t[i] = lines[m]
                            \/ lines[m].is \in {"blank", "field"}
        BY <2>5, <2>6, <3>1, <3>2
      <3>7. QED
        BY <2>1, <2>2, <3>1, <3>3, <3>4, <3>5, <3>6
    <2>9. CASE len[n] = len[n - 1] /\ lines[n].is \in {"blank", "field"}
      <3>1. len[n] = q /\ lines[n].is \notin {"sot", "eot"}
        BY <2>2, <2>3, <2>9
      <3>2. TabOpen(t, q) <=> TabOpen(lines, n)
        BY <2>4, <2>5, <3>1
      <3>3. TabbedTo(lines, n) => TabbedTo(t, q)
        BY <2>5, <2>7
      <3>4. \A i \in 1..q : \E m \in 1..n : t[i] = lines[m]
        BY <2>5, <2>6
      <3>5. \A m \in 1..n : \/ \E i \in 1..q : t[i] = lines[m]
                            \/ lines[m].is \in {"blank", "field"}
        BY <2>5, <2>6, <2>9
      <3>6. QED
        BY <2>1, <2>2, <3>1, <3>2, <3>3, <3>4, <3>5
    <2>10. ThinsLine(t, lines, len, n)
      BY <1>2, <2>2
    <2>11. QED
      BY <2>8, <2>9, <2>10 DEF ThinsLine
  <1>7. \A n \in 0..N : n \in S
    <2> HIDE DEF S
    <2>1. QED
      BY <1>5, <1>6, StepByStep
  <1>8. N \in 0..N
    OBVIOUS
  <1>9. Tabbed(lines) => Tabbed(t)
    BY <1>1, <1>2, <1>7, <1>8 DEF Tabbed
  <1>10. /\ looksLikeChordsOverLyrics(t) <=> looksLikeChordsOverLyrics(lines)
         /\ looksLikeTagMarkup(t) <=> looksLikeTagMarkup(lines)
    <2>1. DOMAIN t = 1..Len(t) /\ DOMAIN lines = 1..N
      BY <1>1, SeqIs DEF IsText, IsSeq
    <2>2. /\ \A i \in 1..Len(t) : \E m \in 1..N : t[i] = lines[m]
          /\ \A m \in 1..N : \/ \E i \in 1..Len(t) : t[i] = lines[m]
                             \/ lines[m].is \in {"blank", "field"}
      BY <1>2, <1>7, <1>8
    <2>3. \A m \in 1..N : lines[m].is \in {"inline", "tagged"} \/ isChordLine(lines[m]) =>
                \E i \in 1..Len(t) : t[i] = lines[m]
      BY <2>2 DEF isChordLine
    <2>4. (\A i \in 1..Len(t) : t[i].is # "inline") <=> \A m \in 1..N : lines[m].is # "inline"
      BY <2>2, <2>3
    <2>5. (\E i \in 1..Len(t) : isChordLine(t[i])) <=> \E m \in 1..N : isChordLine(lines[m])
      BY <2>2, <2>3
    <2>6. (\E i \in 1..Len(t) : t[i].is = "tagged") <=> \E m \in 1..N : lines[m].is = "tagged"
      BY <2>2, <2>3
    <2>7. QED
      BY <2>1, <2>4, <2>5, <2>6 DEF looksLikeChordsOverLyrics, looksLikeTagMarkup
  <1>11. ASSUME NEW n \in 1..N PROVE LineKept(lines, t, len, n)
    <2>1. PICK k : k = n - 1
      OBVIOUS
    <2>2. k \in 0..N /\ n \in 0..N /\ n - 1 = k /\ k \in Nat
      BY <2>1
    <2>3. PICK q \in Nat : q = len[k]
      BY <1>4, <2>2
    <2>4. TabOpen(t, q) <=> TabOpen(lines, k)
      BY <1>7, <2>2, <2>3
    <2>5. CASE len[n] = len[n - 1] + 1 /\ t[len[n]] = lines[n]
      <3>1. len[n] = q + 1 /\ t[q + 1] = lines[n] /\ q <= q + 1
        BY <2>2, <2>3, <2>5
      <3>2. q + 1 \in 1..Len(t)
        <4>1. len[n] <= Len(t)
          <5> DEFINE T == {i \in 0..N : i + n <= N => len[n] <= len[n + i]}
          <5>1. 0 \in T
            BY <1>4, <2>2
          <5>2. \A i \in 0..(N - 1) : i \in T => i + 1 \in T
            <6>1. SUFFICES ASSUME NEW i \in 0..(N - 1), i \in T, (i + 1) + n <= N
                           PROVE  len[n] <= len[n + (i + 1)]
              <7>1. \A i \in 0..(N - 1) : i + 1 \in 0..N
                OBVIOUS
              <7>2. QED
                BY <7>1
            <6>2. PICK j : j = n + (i + 1)
              OBVIOUS
            <6>3. j \in 1..N /\ j - 1 = n + i /\ i + n <= N /\ j \in 0..N /\ j - 1 \in 0..N
              BY <6>1, <6>2
            <6>4. len[n] <= len[j - 1] /\ len[j - 1] \in Nat /\ len[j] \in Nat
              BY <1>4, <6>1, <6>3
            <6>5. len[j] = len[j - 1] + 1 \/ len[j] = len[j - 1]
              BY <1>2, <6>3 DEF ThinsLine
            <6>6. len[n] \in Nat
              BY <1>4, <2>2
            <6>7. QED
              BY <6>2, <6>4, <6>5, <6>6
          <5>3. \A i \in 0..N : i \in T
            <6> HIDE DEF T
            <6>1. QED
              BY <5>1, <5>2, StepByStep
          <5>4. N - n \in 0..N /\ (N - n) + n <= N /\ n + (N - n) = N
            OBVIOUS
          <5>5. QED
            BY <1>2, <5>3, <5>4
        <4>2. Len(t) \in Nat
          BY <1>2, <1>4, <1>8
        <4>3. QED
          BY <3>1, <4>1, <4>2
      <3>3. q + 1 \in InTabs(t) <=> n \in InTabs(lines)
        <4>1. (q + 1) - 1 = q
          OBVIOUS
        <4>2. q + 1 \in InTabs(t) <=> TabOpen(t, q)
          BY <3>2, <4>1, InTabsAre DEF IsText
        <4>3. n \in InTabs(lines) <=> TabOpen(lines, k)
          BY <1>1, <2>2, InTabsAre DEF IsText
        <4>4. QED
          BY <2>4, <4>2, <4>3
      <3>4. Weight(t, q + 1) = Weight(lines, n)
        BY <3>1, <3>3 DEF Weight
      <3>5. q + 1 \in (q + 1)..(q + 1) /\ \A i \in (q + 1)..(q + 1) : i = q + 1
        OBVIOUS
      <3>6. QED
        BY <2>2, <2>3, <3>1, <3>4, <3>5 DEF LineKept
    <2>6. CASE len[n] = len[n - 1] /\ lines[n].is \in {"blank", "field"}
      <3>1. lines[n].chords = 0
        BY <1>1, <2>6 DEF IsText, IsLine, ChordKinds
      <3>2. Weight(lines, n) = 0
        BY <3>1 DEF Weight
      <3>3. \A i \in (q + 1)..q : FALSE
        OBVIOUS
      <3>4. QED
        BY <2>2, <2>3, <2>6, <3>2, <3>3 DEF LineKept
    <2>7. QED
      BY <1>2, <2>5, <2>6 DEF ThinsLine
  <1>12. ChordsOf(t) = ChordsOf(lines)
    BY <1>1, <1>2, <1>11, SameCount
  <1>13. QED
    BY <1>9, <1>10, <1>12

LEMMA TrimKeeps ==
    ASSUME NEW lines, IsText(lines)
    PROVE  /\ IsText(Trim(lines))
           /\ ChordsOf(Trim(lines)) = ChordsOf(lines)
           /\ Tabbed(lines) => Tabbed(Trim(lines))
           /\ looksLikeChordsOverLyrics(Trim(lines)) <=> looksLikeChordsOverLyrics(lines)
           /\ looksLikeTagMarkup(Trim(lines)) <=> looksLikeTagMarkup(lines)
  <1>1. PICK N \in Nat : N = Len(lines)
    BY SeqIs DEF IsText, IsSeq
  <1>2. PICK t : t = Trim(lines)
    OBVIOUS
  <1>3. IsText(t)
    BY <1>2, TrimTrims, TextOf DEF IsText
  <1>4. CASE t = <<>> /\ \A i \in 1..N : lines[i].is = "blank"
    <2>1. Thins(t, lines, N, [n \in 0..N |-> 0])
      BY <1>4 DEF Thins, ThinsLine
    <2>2. QED
      BY <1>1, <1>2, <1>3, <2>1, ThinsKeeps
  <1>5. ASSUME NEW m \in 1..N, NEW k \in 1..N, m <= k,
               \A i \in 1..N : i < m \/ k < i => lines[i].is = "blank",
               t = SubSeq(lines, m, k)
        PROVE  \E len : Thins(t, lines, N, len)
    <2>1. PICK d \in Nat : d = k - m + 1 /\ k = m + d - 1
      <3>1. k - m + 1 \in Nat /\ k = m + (k - m + 1) - 1
        BY <1>5
      <3>2. QED
        BY <3>1
    <2>2. Len(t) = d /\ \A i \in 1..d : t[i] = lines[m + i - 1]
      <3>1. Cuts(t, lines, m, k)
        BY <1>1, <1>5, SubSeqCuts DEF IsText
      <3>2. QED
        BY <2>1, <3>1 DEF Cuts
    <2> DEFINE len == [n \in 0..N |-> IF n < m THEN 0 ELSE IF n <= k THEN n - m + 1 ELSE d]
    <2>3. \A n \in 0..N : len[n] \in Nat
      BY <2>1
    <2>4. len[0] = 0 /\ len[N] = d
      BY <1>5, <2>1
    <2>5. ASSUME NEW n \in 1..N PROVE ThinsLine(t, lines, len, n)
      <3>1. n \in 0..N /\ n - 1 \in 0..N
        OBVIOUS
      <3>2. CASE n < m \/ k < n
        <4>1. lines[n].is = "blank"
          BY <1>5, <3>2
        <4>2. len[n] = len[n - 1]
          BY <1>5, <2>1, <3>1, <3>2
        <4>3. QED
          BY <4>1, <4>2 DEF ThinsLine
      <3>3. CASE ~(n < m) /\ ~(k < n)
        <4>1. len[n] = n - m + 1
          BY <3>1, <3>3
        <4>2. len[n - 1] = n - m
          BY <3>1, <3>3
        <4>3. n - m + 1 \in 1..d /\ m + (n - m + 1) - 1 = n /\ n - m + 1 = (n - m) + 1
          BY <2>1, <3>3
        <4> HIDE DEF len
        <4>4. t[len[n]] = lines[n]
          BY <2>2, <4>1, <4>3
        <4>5. QED
          BY <4>1, <4>2, <4>3, <4>4 DEF ThinsLine
      <3>4. QED
        BY <3>2, <3>3
    <2>6. len \in [0..N -> Nat]
      BY <2>3
    <2> HIDE DEF len
    <2>7. QED
      BY <2>2, <2>4, <2>5, <2>6 DEF Thins
  <1>6. ASSUME \E len : Thins(t, lines, N, len)
        PROVE  /\ ChordsOf(t) = ChordsOf(lines)
               /\ Tabbed(lines) => Tabbed(t)
               /\ looksLikeChordsOverLyrics(t) <=> looksLikeChordsOverLyrics(lines)
               /\ looksLikeTagMarkup(t) <=> looksLikeTagMarkup(lines)
    BY <1>1, <1>3, <1>6, ThinsKeeps
  <1>7. CASE \E m, n \in 1..N :
                /\ m <= n /\ lines[m].is # "blank" /\ lines[n].is # "blank"
                /\ \A i \in 1..N : i < m \/ n < i => lines[i].is = "blank"
                /\ t = SubSeq(lines, m, n)
    BY <1>2, <1>3, <1>5, <1>6, <1>7
  <1>8. QED
    BY <1>1, <1>2, <1>4, <1>7, TrimIs DEF IsText

LEMMA WithoutKeeps ==
    ASSUME NEW lines, IsText(lines), NEW gone, gone \subseteq 1..Len(lines),
           \A n \in gone : lines[n].is \in {"blank", "field"}, NEW t, t = Without(lines, gone)
    PROVE  /\ IsText(t) /\ t \in Seq(Range(lines))
           /\ ChordsOf(t) = ChordsOf(lines)
           /\ Tabbed(lines) => Tabbed(t)
           /\ looksLikeChordsOverLyrics(t) <=> looksLikeChordsOverLyrics(lines)
           /\ looksLikeTagMarkup(t) <=> looksLikeTagMarkup(lines)
  <1>2. PICK N \in Nat : N = Len(lines) /\ DOMAIN lines = 1..N
    BY SeqIs DEF IsText, IsSeq
  <1>3. gone \in SUBSET (1..N)
    BY <1>2
  <1>4. /\ t \in Seq(Range(lines)) /\ Len(t) = Rank(gone, N)
        /\ \A n \in (1..N) \ gone : t[Rank(gone, n)] = lines[n]
    BY <1>2, <1>3, WithoutPicks
  <1>5. IsText(t)
    BY <1>4, TextOf
  <1> DEFINE len == [n \in 0..N |-> Rank(gone, n)]
  <1>6. \A n \in 0..N : len[n] = Rank(gone, n) /\ len[n] \in Nat
    BY RankStep
  <1>7. len[0] = 0 /\ len[N] = Len(t)
    <2>1. Rank(gone, 0) = 0
      BY <1>2, RankStep
    <2>2. QED
      BY <1>4, <1>6, <2>1
  <1>8. ASSUME NEW n \in 1..N PROVE ThinsLine(t, lines, len, n)
    <2>1. PICK k \in Nat : k + 1 = n /\ k = n - 1
      <3>1. n - 1 \in Nat /\ (n - 1) + 1 = n
        OBVIOUS
      <3>2. QED
        BY <3>1
    <2>2. Rank(gone, n) = Rank(gone, k) + IF n \in gone THEN 0 ELSE 1
      BY <2>1, RankStep
    <2>3. k \in 0..N /\ n \in 0..N
      BY <2>1
    <2>4. CASE n \in gone
      <3>1. lines[n].is \in {"blank", "field"}
        BY <2>4
      <3>2. len[n] = len[n - 1]
        BY <1>6, <2>1, <2>2, <2>3, <2>4
      <3>3. QED
        BY <3>1, <3>2 DEF ThinsLine
    <2>5. CASE n \notin gone
      <3>1. t[len[n]] = lines[n]
        BY <1>4, <1>6, <2>3, <2>5
      <3>2. len[n] = len[n - 1] + 1
        BY <1>6, <2>1, <2>2, <2>3, <2>5
      <3>3. QED
        BY <3>1, <3>2 DEF ThinsLine
    <2>6. QED
      BY <2>4, <2>5
  <1>9. len \in [0..N -> Nat]
    BY <1>6
  <1> HIDE DEF len
  <1>10. Thins(t, lines, N, len)
    BY <1>7, <1>8, <1>9 DEF Thins
  <1>11. QED
    BY <1>2, <1>4, <1>5, <1>10, ThinsKeeps

LEMMA BodyKeeps ==
    ASSUME NEW s, IsText(s.content)
    PROVE  /\ ChordsOf(body(s)) = ChordsOf(s.content)
           /\ Tabbed(s.content) => Tabbed(body(s))
           /\ pasted(body(s)) <=> pasted(s.content)
  <1>1. PICK lines, t : lines = s.content /\ t = Without(lines, Fields(lines))
    OBVIOUS
  <1>2. DOMAIN lines = 1..Len(lines)
    BY <1>1, SeqIs DEF IsText, IsSeq
  <1>3. Fields(lines) \subseteq 1..Len(lines) /\ \A n \in Fields(lines) : lines[n].is = "field"
    BY <1>2 DEF Fields
  <1>4. /\ IsText(t) /\ ChordsOf(t) = ChordsOf(lines)
        /\ Tabbed(lines) => Tabbed(t)
        /\ looksLikeChordsOverLyrics(t) <=> looksLikeChordsOverLyrics(lines)
        /\ looksLikeTagMarkup(t) <=> looksLikeTagMarkup(lines)
    BY <1>1, <1>3, WithoutKeeps
  <1>5. body(s) = Trim(t)
    BY <1>1 DEF body, Fields
  <1>6. QED
    BY <1>1, <1>4, <1>5, TrimKeeps DEF pasted

\* A text without its tags.
LEMMA UntaggedIs ==
    ASSUME NEW src, IsText(src), NEW u, u = untagged(src)
    PROVE  /\ IsText(u) /\ Len(u) = Len(src) /\ ChordsOf(u) = ChordsOf(src)
           /\ \A i \in 1..Len(src) :
                u[i].is = IF src[i].is = "tagged" THEN "over" ELSE src[i].is
  <1>1. PICK N \in Nat : N = Len(src) /\ DOMAIN src = 1..N
    BY SeqIs DEF IsText, IsSeq
  <1>2. DOMAIN u = 1..N /\ u = [i \in 1..N |-> u[i]]
        /\ \A i \in 1..N : u[i] = IF src[i].is = "tagged" THEN [src[i] EXCEPT !.is = "over"]
                                ELSE src[i]
    BY <1>1 DEF untagged
  <1>3. IsSeq(u) /\ Len(u) = N
    BY <1>2, ListIs
  <1>4. ASSUME NEW i \in 1..N
        PROVE  /\ IsLine(u[i]) /\ u[i].chords = src[i].chords
               /\ u[i].is = IF src[i].is = "tagged" THEN "over" ELSE src[i].is
    <2>1. PICK l, m : l = src[i] /\ m = u[i]
      OBVIOUS
    <2>2. IsLine(l)
      BY <1>1, <2>1 DEF IsText
    <2>3. CASE l.is = "tagged"
      <3>1. m = [l EXCEPT !.is = "over"]
        BY <1>2, <2>1, <2>3
      <3>2. DOMAIN m = DOMAIN l /\ m.is = "over" /\ m.chords = l.chords
        BY <2>2, <3>1 DEF IsLine
      <3>3. IsLine(m)
        BY <2>2, <3>2 DEF IsLine, LineKinds, ChordKinds
      <3>4. QED
        BY <2>1, <2>3, <3>2, <3>3
    <2>4. CASE l.is # "tagged"
      BY <1>2, <2>1, <2>2, <2>4
    <2>5. QED
      BY <2>3, <2>4
  <1>5. IsText(u)
    BY <1>3, <1>4 DEF IsText
  <1>6. \A i \in 1..N : i \in InTabs(u) <=> i \in InTabs(src)
    <2>1. \A i \in 1..N : \A is \in {"sot", "eot"} : u[i].is = is <=> src[i].is = is
      BY <1>4
    <2>2. TAKE i \in 1..N
    <2>3. \A k \in 1..(i - 1) : k \in 1..N /\ \A j \in k..(i - 1) : j \in 1..N
      OBVIOUS
    <2>4. QED
      BY <1>1, <1>2, <2>1, <2>3 DEF InTabs
  <1>7. \A i \in 1..N : Weight(u, i) = Weight(src, i)
    BY <1>4, <1>6 DEF Weight
  <1> DEFINE len == [n \in 0..N |-> n]
  <1>8. len \in [0..N -> Nat] /\ len[0] = 0 /\ len[N] = Len(u)
    BY <1>3
  <1>9. ASSUME NEW n \in 1..N PROVE LineKept(src, u, len, n)
    <2>1. len[n] = n /\ len[n - 1] = n - 1 /\ n - 1 <= n
      OBVIOUS
    <2>2. n \in ((n - 1) + 1)..n /\ \A i \in ((n - 1) + 1)..n : i = n
      OBVIOUS
    <2> HIDE DEF len
    <2>3. QED
      BY <1>7, <2>1, <2>2 DEF LineKept
  <1> HIDE DEF len
  <1>10. ChordsOf(u) = ChordsOf(src)
    BY <1>1, <1>5, <1>8, <1>9, SameCount
  <1>11. QED
    BY <1>1, <1>3, <1>4, <1>5, <1>10

\* What a text is as ChordPro.
LEMMA AsText ==
    ASSUME NEW src, IsText(src), NEW c, c = asChordPro(src)
    PROVE  /\ IsText(c) /\ ~pasted(c)
           /\ \A i \in 1..Len(c) : \A is \in {"field", "newsong"} :
                c[i].is = is => \E n \in 1..Len(src) : src[n].is = is
           /\ (\A n \in 1..Len(src) : src[n].is \notin {"paren", "unread", "sot", "eot"}) =>
                ChordsOf(c) = ChordsOf(src) /\ Tabbed(c)
  <1>0. ASSUME NEW ch, IsText(ch) PROVE looksLikeTagMarkup(ch) <=> \E i \in 1..Len(ch) : ch[i].is = "tagged"
    BY <1>0, SeqIs DEF looksLikeTagMarkup, IsText, IsSeq
  <1>1. CASE ~looksLikeTagMarkup(src)
    <2>1. c = chordsOverLyricsToChordPro(src)
      BY <1>1 DEF asChordPro
    <2>2. QED
      BY <1>0, <1>1, <2>1, ConvertText, ConvertTabs, ConvertCount DEF pasted
  <1>2. CASE looksLikeTagMarkup(src)
    <2>1. PICK u, p, t : /\ u = untagged(src) /\ p = chordsOverLyricsToChordPro(u)
                         /\ t = Without(p, moreBlanks(p))
      OBVIOUS
    <2>2. c = Trim(t)
      BY <1>2, <2>1 DEF asChordPro, tagMarkupToChordPro
    <2>3. /\ IsText(u) /\ Len(u) = Len(src) /\ ChordsOf(u) = ChordsOf(src)
          /\ \A i \in 1..Len(src) :
                u[i].is = IF src[i].is = "tagged" THEN "over" ELSE src[i].is
      BY <2>1, UntaggedIs
    <2>4. /\ IsText(p) /\ ~looksLikeChordsOverLyrics(p)
          /\ \A i \in 1..Len(p) : \A is \in {"field", "newsong", "tagged"} :
                p[i].is = is => \E n \in 1..Len(u) : u[n].is = is
      BY <2>1, <2>3, ConvertText
    <2>5. \A i \in 1..Len(p) : /\ p[i].is # "tagged"
                              /\ \A is \in {"field", "newsong"} :
                                    p[i].is = is => \E n \in 1..Len(src) : src[n].is = is
      BY <2>3, <2>4
    <2>6. DOMAIN p = 1..Len(p)
      BY <2>4, SeqIs DEF IsText, IsSeq
    <2>7. moreBlanks(p) \subseteq 1..Len(p) /\ \A n \in moreBlanks(p) : p[n].is = "blank"
      BY <2>6 DEF moreBlanks
    <2>8. /\ IsText(t) /\ t \in Seq(Range(p)) /\ ChordsOf(t) = ChordsOf(p)
          /\ (Tabbed(p) => Tabbed(t)) /\ ~looksLikeChordsOverLyrics(t)
          /\ looksLikeTagMarkup(t) <=> looksLikeTagMarkup(p)
      BY <2>1, <2>4, <2>7, WithoutKeeps
    <2>9. /\ IsText(c) /\ ChordsOf(c) = ChordsOf(t)
          /\ (Tabbed(t) => Tabbed(c)) /\ ~looksLikeChordsOverLyrics(c)
          /\ looksLikeTagMarkup(c) <=> looksLikeTagMarkup(t)
      BY <2>2, <2>8, TrimKeeps
    <2>10. ~pasted(c)
      BY <1>0, <2>4, <2>5, <2>8, <2>9 DEF pasted
    <2>11. \A i \in 1..Len(c) : c[i] \in Range(p)
      <3>1. c \in Seq(Range(t)) /\ Range(t) \subseteq Range(p)
        BY <2>2, <2>8, TrimTrims, SeqIs DEF IsText
      <3>2. QED
        BY <3>1, SeqIs
    <2>12. \A i \in 1..Len(c) : \E n \in 1..Len(p) : c[i] = p[n]
      BY <2>6, <2>11 DEF Range
    <2>13. ASSUME \A n \in 1..Len(src) : src[n].is \notin {"paren", "unread", "sot", "eot"}
           PROVE  ChordsOf(c) = ChordsOf(src) /\ Tabbed(c)
      <3>1. \A n \in 1..Len(u) : u[n].is \notin {"paren", "unread", "sot", "eot"}
        BY <2>3, <2>13
      <3>2. Tabbed(p) /\ ChordsOf(p) = ChordsOf(u)
        BY <2>1, <2>3, <3>1, ConvertTabs, ConvertCount
      <3>3. QED
        BY <2>3, <2>8, <2>9, <3>2
    <2>14. QED
      BY <2>5, <2>9, <2>10, <2>12, <2>13
  <1>3. QED
    BY <1>1, <1>2

-----------------------------------------------------------------------------
(* Sheets that go out and come in. *)

LEMMA StandardIsOffered ==
    ASSUME NEW k \in Kinds
    PROVE  /\ k # "piano" => "standard" \in Offered(k)
           /\ Offered("piano") = {} /\ Offered("tab") = Offered("chords")
           /\ instrumentOf("tab") = "guitar" /\ instrumentOf("chords") = "guitar"
           /\ instrumentOf("piano") = "piano" /\ (k # "piano" => instrumentOf(k) # "piano")
  <1>1. /\ instrumentOf("tab") = "guitar" /\ instrumentOf("chords") = "guitar"
        /\ instrumentOf("piano") = "piano" /\ instrumentOf("ukulele") = "ukulele"
        /\ instrumentOf("bass") = "bass"
    BY DEF instrumentOf, Instruments
  <1>2. Offered("tab") = Offered("chords")
    BY <1>1 DEF Offered, tuningsFor
  <1>3. \A t \in TUNINGS : t.instrument # "piano"
    BY DEF TUNINGS, Tuned
  <1>4. Offered("piano") = {}
    BY <1>1, <1>3 DEF Offered, tuningsFor
  <1>5. \A i \in {"guitar", "ukulele", "bass"} :
            \E t \in TUNINGS : t.instrument = i /\ t.id = "standard"
    <2>1. /\ Tuned("guitar", "standard", STANDARD_STRINGS, 0) \in TUNINGS
          /\ Tuned("ukulele", "standard", UKULELE_STRINGS, 0) \in TUNINGS
          /\ Tuned("bass", "standard", BASS_STRINGS, 0) \in TUNINGS
      BY DEF TUNINGS
    <2>2. QED
      BY <2>1 DEF Tuned
  <1>6. ASSUME k # "piano" PROVE "standard" \in Offered(k) /\ instrumentOf(k) # "piano"
    <2>1. instrumentOf(k) \in {"guitar", "ukulele", "bass"}
      BY <1>1, <1>6 DEF Kinds
    <2>2. PICK t \in TUNINGS : t.instrument = instrumentOf(k) /\ t.id = "standard"
      BY <1>5, <2>1
    <2>3. QED
      BY <2>1, <2>2 DEF Offered, tuningsFor
  <1>7. QED
    BY <1>1, <1>2, <1>4, <1>6

\* The tuning a sheet is played in.
LEMMA TuningIs ==
    ASSUME NEW k \in Kinds, k # "piano", NEW a
    PROVE  /\ getTuning(a, k).id = IF a \in Offered(k) THEN a ELSE "standard"
           /\ getTuning(a, k).id \in Offered(k)
           /\ getTuning(getTuning(a, k).id, k) = getTuning(a, k)
  <1>1. PICK id : id = IF a \in Offered(k) THEN a ELSE "standard"
    OBVIOUS
  <1>2. id \in Offered(k) /\ instrumentOf(k) # "piano"
    BY <1>1, StandardIsOffered
  <1>3. \E t \in TUNINGS : t.instrument = instrumentOf(k) /\ t.id = id
    BY <1>2 DEF Offered, tuningsFor
  <1>4. /\ getTuning(a, k) = CHOOSE t \in TUNINGS : t.instrument = instrumentOf(k) /\ t.id = id
        /\ getTuning(id, k) = CHOOSE t \in TUNINGS : t.instrument = instrumentOf(k) /\ t.id = id
    BY <1>1, <1>2 DEF getTuning
  <1>5. getTuning(a, k).id = id
    BY <1>3, <1>4
  <1>6. QED
    BY <1>1, <1>2, <1>4, <1>5

LEMMA TuningComesBack ==
    ASSUME NEW s, s.kind \in Kinds
    PROVE  /\ KindBack(s) \in Kinds
           /\ KindBack(s) # "piano" =>
                /\ getTuning(TuningBack(s), KindBack(s)) = getTuning(s.tuning, s.kind)
                /\ getTuning(TuningBack(s), KindBack(s)).id = TuningBack(s)
                /\ TuningBack(s) \in Offered(KindBack(s))
           /\ KindBack(s) = "piano" => TuningBack(s) = "standard"
  <1>1. KindBack(s) \in Kinds /\ (KindBack(s) = "piano" <=> s.kind = "piano")
    BY DEF KindBack, Kinds
  <1>2. ASSUME s.kind # "piano"
        PROVE  /\ getTuning(TuningBack(s), KindBack(s)) = getTuning(s.tuning, s.kind)
               /\ getTuning(TuningBack(s), KindBack(s)).id = TuningBack(s)
               /\ TuningBack(s) \in Offered(KindBack(s))
    <2>1. PICK k : k = KindBack(s)
      OBVIOUS
    <2>2. k \in Kinds /\ k # "piano" /\ Offered(k) = Offered(s.kind)
          /\ instrumentOf(k) = instrumentOf(s.kind)
      BY <1>1, <1>2, <2>1, StandardIsOffered DEF KindBack
    <2>3. getTuning(s.tuning, k) = getTuning(s.tuning, s.kind)
      BY <2>2 DEF getTuning
    <2>4. /\ getTuning(s.tuning, k).id \in Offered(k)
          /\ getTuning(getTuning(s.tuning, k).id, k) = getTuning(s.tuning, k)
      BY <2>2, TuningIs
    <2>5. TuningBack(s) = getTuning(s.tuning, k).id
      BY <1>2, <2>1, <2>3, <2>4 DEF TuningBack
    <2>6. QED
      BY <2>1, <2>3, <2>4, <2>5
  <1>3. ASSUME s.kind = "piano" PROVE TuningBack(s) = "standard"
    BY <1>3 DEF TuningBack
  <1>4. QED
    BY <1>1, <1>2, <1>3

\* A text without fields or edges, of one song.
IsOpening(b) == IsBody(b) /\ NoSong(b)

LEMMA OpeningIs ==
    ASSUME NEW s, IsText(s.content)
    PROVE  IsOpening(Opening(s)) /\ (IsOpening(s.content) => Opening(s) = s.content)
  <1>1. PICK b, u : b = body(s) /\ u = untilNewSong(b)
    OBVIOUS
  <1>2. IsBody(b) /\ IsText(b) /\ IsSeq(b)
    BY <1>1, BodyIs DEF IsBody, IsText
  <1>3. /\ IsUntil(u, b) /\ u \in Seq(Range(b)) /\ (NoSong(b) => u = b)
    BY <1>1, <1>2, UntilIs
  <1>4. IsText(u)
    BY <1>2, <1>3, TextOf
  <1>5. \A i \in 1..Len(u) : u[i].is # "field" /\ u[i].is # "newsong"
    <2>1. PICK k, n \in Nat : k = Len(u) /\ n = Len(b)
      BY <1>2, <1>3, SeqIs DEF IsSeq
    <2>2. \A i \in 1..k : i \in 1..n /\ u[i] = b[i] /\ u[i].is # "newsong"
      BY <1>3, <2>1 DEF IsUntil, NoSong
    <2>3. QED
      BY <1>2, <2>1, <2>2 DEF IsBody
  <1>6. IsBody(Trim(u)) /\ NoSong(Trim(u))
    <2>1. IsBody(Trim(u))
      BY <1>4, <1>5, TrimBody
    <2>2. Trim(u) \in Seq(Range(u)) /\ DOMAIN u = 1..Len(u)
      BY <1>3, <1>4, SeqIs, TrimTrims DEF IsText, IsSeq
    <2>3. \A l \in Range(u) : l.is # "newsong"
      BY <1>5, <2>2 DEF Range
    <2>4. QED
      BY <2>1, <2>2, <2>3, SeqIs DEF NoSong
  <1>7. ASSUME IsOpening(s.content) PROVE Trim(u) = s.content
    <2>1. b = s.content /\ u = b
      BY <1>1, <1>3, <1>7, BodyIs DEF IsOpening
    <2>2. IsTrimmed(b)
      BY <1>2 DEF IsBody
    <2>3. Trim(<<>> \o b) = b
      BY <1>2, <2>2, TrimStays
    <2>4. <<>> \o b = b
      BY <1>2, ConcatEmptySeq DEF IsSeq
    <2>5. QED
      BY <2>1, <2>3, <2>4
  <1>8. QED
    BY <1>1, <1>6, <1>7 DEF IsOpening, Opening

LEMMA RereadIs ==
    ASSUME NEW b, IsOpening(b)
    PROVE  /\ IsOpening(Reread(b)) /\ ~pasted(Reread(b))
           /\ ~pasted(b) => Reread(b) = b
  <1>1. CASE ~pasted(b)
    BY <1>1 DEF Reread
  <1>2. CASE pasted(b)
    <2>1. PICK c : c = asChordPro(b)
      OBVIOUS
    <2>2. /\ IsText(c) /\ ~pasted(c)
          /\ \A i \in 1..Len(c) : c[i].is # "field" /\ c[i].is # "newsong"
      BY <2>1, AsText DEF IsOpening, IsBody, NoSong
    <2>3. IsBody(Trim(c)) /\ ~pasted(Trim(c))
      BY <2>2, TrimBody, TrimKeeps DEF pasted
    <2>4. NoSong(Trim(c))
      <3>1. Trim(c) \in Seq(Range(c)) /\ DOMAIN c = 1..Len(c)
        BY <2>2, SeqIs, TrimTrims DEF IsText, IsSeq
      <3>2. \A l \in Range(c) : l.is # "newsong"
        BY <2>2, <3>1 DEF Range
      <3>3. QED
        BY <3>1, <3>2, SeqIs DEF NoSong
    <2>5. QED
      BY <1>2, <2>1, <2>3, <2>4 DEF Reread, IsOpening
  <1>3. QED
    BY <1>1, <1>2

\* Another trip changes nothing.
LEMMA BackIs ==
    ASSUME NEW s, IsSheet(s)
    PROVE  IsSheet(Back(s)) /\ Back(Back(s)) = Back(s)
  <1>1. PICK r : r = Back(s)
    OBVIOUS
  <1>2. /\ r.kind = KindBack(s) /\ r.tuning = TuningBack(s) /\ r.notes = s.notes
        /\ r.content = Reread(Opening(s))
        /\ DOMAIN r = {"title", "artist", "album", "key", "capo", "kind", "tuning", "notes",
                       "content"}
    BY <1>1 DEF Back
  <1>3. IsOpening(r.content) /\ ~pasted(r.content)
    BY <1>2, OpeningIs, RereadIs DEF IsSheet
  <1>4. IsText(r.content)
    BY <1>3 DEF IsOpening, IsBody
  <1>5. r.kind \in Kinds /\ r.notes \in Nat
    BY <1>2, TuningComesBack DEF IsSheet
  <1>6. IsSheet(r)
    BY <1>2, <1>4, <1>5 DEF IsSheet
  <1>7. Reread(Opening(r)) = r.content
    BY <1>3, <1>4, OpeningIs DEF Reread
  <1>8. KindBack(r) = r.kind
    BY <1>2 DEF KindBack
  <1>9. TuningBack(r) = r.tuning
    <2>1. s.kind \in Kinds
      BY DEF IsSheet
    <2>2. CASE r.kind = "piano"
      BY <1>2, <2>1, <2>2, TuningComesBack DEF TuningBack
    <2>3. CASE r.kind # "piano"
      <3>1. getTuning(r.tuning, r.kind).id = r.tuning /\ r.tuning \in Offered(r.kind)
        BY <1>2, <2>1, <2>3, TuningComesBack
      <3>2. QED
        BY <1>8, <2>3, <3>1 DEF TuningBack
    <2>4. QED
      BY <2>2, <2>3
  <1>10. Back(r) = r
    BY <1>1, <1>7, <1>8, <1>9 DEF Back
  <1>11. QED
    BY <1>1, <1>6, <1>10

\* A text of one song, without chords in parentheses or tabs of its own.
PlainText(lines) ==
    \A i \in 1..Len(lines) : lines[i].is \notin {"paren", "unread", "sot", "eot", "newsong"}

\* What is kept of one text in another.
Kept(c, lines) ==
    /\ ChordsOf(c) = ChordsOf(lines)
    /\ pasted(lines) => Tabbed(c) /\ ~pasted(c)

\* Of one song, all of it is the first.
LEMMA OpeningKeeps ==
    ASSUME NEW s, IsText(s.content), NoSong(s.content)
    PROVE  Opening(s) = body(s) /\ \A i \in 1..Len(body(s)) : body(s)[i] \in Range(s.content)
  <1>1. PICK lines, b, t : lines = s.content /\ b = body(s) /\ t = Without(lines, Fields(lines))
    OBVIOUS
  <1>2. IsText(lines) /\ IsBody(b) /\ IsText(b) /\ IsSeq(b)
    BY <1>1, BodyIs DEF IsBody, IsText
  <1>3. t \in Seq(Range(lines)) /\ b = Trim(t)
    BY <1>1, <1>2, WithoutFields DEF body, Fields
  <1>4. IsSeq(t) /\ Range(t) \subseteq Range(lines)
    BY <1>3, SeqIs
  <1>5. b \in Seq(Range(t))
    BY <1>3, <1>4, TrimTrims
  <1>6. \A i \in 1..Len(b) : b[i] \in Range(lines)
    BY <1>4, <1>5, SeqIs
  <1>7. DOMAIN lines = 1..Len(lines)
    BY <1>2, SeqIs DEF IsText, IsSeq
  <1>8. NoSong(b)
    <2>1. \A l \in Range(lines) : l.is # "newsong"
      BY <1>1, <1>7 DEF NoSong, Range
    <2>2. QED
      BY <1>6, <2>1 DEF NoSong
  <1>9. untilNewSong(b) = b
    BY <1>2, <1>8, UntilIs
  <1>10. Trim(<<>> \o b) = b /\ <<>> \o b = b
    <2>1. IsTrimmed(b)
      BY <1>2 DEF IsBody
    <2>2. Trim(<<>> \o b) = b
      BY <1>2, <2>1, TrimStays
    <2>3. <<>> \o b = b
      BY <1>2, ConcatEmptySeq DEF IsSeq
    <2>4. QED
      BY <2>2, <2>3
  <1>11. QED
    BY <1>1, <1>6, <1>9, <1>10 DEF Opening

LEMMA BackKeeps ==
    ASSUME NEW s, IsSheet(s), PlainText(s.content)
    PROVE  Kept(Back(s).content, s.content)
  <1>1. PICK lines, b : lines = s.content /\ b = body(s)
    OBVIOUS
  <1>2. IsText(lines) /\ IsBody(b) /\ IsText(b) /\ DOMAIN lines = 1..Len(lines)
    BY <1>1, BodyIs, SeqIs DEF IsSheet, IsBody, IsText, IsSeq
  <1>3. ChordsOf(b) = ChordsOf(lines) /\ (pasted(b) <=> pasted(lines))
    BY <1>1, <1>2, BodyKeeps
  <1>4. Opening(s) = b /\ \A i \in 1..Len(b) : b[i] \in Range(lines)
    BY <1>1, <1>2, OpeningKeeps DEF PlainText, NoSong
  <1>5. Back(s).content = Reread(b)
    BY <1>4 DEF Back
  <1>6. CASE ~pasted(b)
    BY <1>1, <1>3, <1>5, <1>6 DEF Reread, Kept
  <1>7. CASE pasted(b)
    <2>1. PICK c : c = asChordPro(b)
      OBVIOUS
    <2>2. \A i \in 1..Len(b) : b[i].is \notin {"paren", "unread", "sot", "eot"}
      <3>1. \A l \in Range(lines) : l.is \notin {"paren", "unread", "sot", "eot"}
        BY <1>1, <1>2 DEF PlainText, Range
      <3>2. QED
        BY <1>4, <3>1
    <2>3. IsText(c) /\ ~pasted(c) /\ ChordsOf(c) = ChordsOf(b) /\ Tabbed(c)
      BY <1>2, <2>1, <2>2, AsText
    <2>4. ChordsOf(Trim(c)) = ChordsOf(c) /\ Tabbed(Trim(c)) /\ ~pasted(Trim(c))
      BY <2>3, TrimKeeps DEF pasted
    <2>5. QED
      BY <1>1, <1>3, <1>5, <1>7, <2>1, <2>3, <2>4 DEF Reread, Kept
  <1>8. QED
    BY <1>6, <1>7

Converted(s) == [s EXCEPT !.content = asChordPro(@)]

\* The sheet there is and the one there was at first.
FileInv ==
    /\ original \in Originals /\ trips \in Nat /\ IsSheet(record)
    /\ file = <<>> \/ file = toChordProFile(record)
    /\ trips = 0 => \/ record = original
                    \/ record = Converted(original) /\ pasted(original.content)
    /\ trips > 0 => /\ Back(record) = record
                    /\ PlainText(original.content) => Kept(record.content, original.content)
    /\ FieldsComeBack /\ ContentComesBack

LEMMA OriginalIs ==
    ASSUME NEW o \in Originals
    PROVE  IsSheet(o) /\ \A i \in 1..Len(o.content) : o.content[i].is # "unread"
  <1>1. PICK lines : lines = o.content
    OBVIOUS
  <1>2. /\ DOMAIN o = {"title", "artist", "album", "key", "capo", "kind", "tuning", "notes",
                       "content"}
        /\ o.kind \in Kinds /\ o.notes \in Nat /\ IsContent(lines)
    BY <1>1, FilesAssumption
  <1>3. lines \in Seq(Range(lines)) /\ \A i \in 1..Len(lines) : lines[i] \in Range(lines)
    BY <1>2, SeqIs DEF IsContent
  <1>4. \A l \in Range(lines) : IsLine(l) /\ l.is # "unread"
    BY <1>2 DEF IsContent, IsLine, LineKinds, ChordKinds
  <1>5. IsText(lines) /\ \A i \in 1..Len(lines) : lines[i].is # "unread"
    BY <1>3, <1>4 DEF IsText, IsSeq
  <1>6. QED
    BY <1>1, <1>2, <1>5 DEF IsSheet

LEMMA ConvertedKeeps ==
    ASSUME NEW o, IsSheet(o)
    PROVE  /\ IsSheet(Converted(o)) /\ ~pasted(Converted(o).content)
           /\ PlainText(o.content) => /\ Kept(Converted(o).content, o.content)
                                      /\ Kept(Back(Converted(o)).content, o.content)
  <1>1. PICK c, r : c = asChordPro(o.content) /\ r = Converted(o)
    OBVIOUS
  <1>2. /\ DOMAIN r = DOMAIN o /\ r.content = c /\ r.kind = o.kind /\ r.notes = o.notes
    BY <1>1 DEF Converted, IsSheet
  <1>3. IsText(c) /\ ~pasted(c)
    BY <1>1, AsText DEF IsSheet
  <1>4. IsSheet(r)
    BY <1>2, <1>3 DEF IsSheet
  <1>5. ASSUME PlainText(o.content)
        PROVE  /\ ChordsOf(c) = ChordsOf(o.content) /\ Tabbed(c)
               /\ Back(r).content = body(r)
    <2>1. \A i \in 1..Len(o.content) : o.content[i].is \notin {"paren", "unread", "sot", "eot"}
                                      /\ o.content[i].is # "newsong"
      BY <1>5 DEF PlainText
    <2>2. ChordsOf(c) = ChordsOf(o.content) /\ Tabbed(c) /\ NoSong(c)
      BY <1>1, <2>1, AsText DEF IsSheet, NoSong
    <2>3. Opening(r) = body(r) /\ ~pasted(body(r))
      BY <1>2, <1>3, <2>2, OpeningKeeps, BodyKeeps
    <2>4. QED
      BY <2>2, <2>3 DEF Back, Reread
  <1>6. ChordsOf(body(r)) = ChordsOf(c) /\ (Tabbed(c) => Tabbed(body(r))) /\ ~pasted(body(r))
    BY <1>2, <1>3, BodyKeeps
  <1>7. QED
    BY <1>1, <1>2, <1>3, <1>4, <1>5, <1>6 DEF Kept

LEMMA FileInvHolds == FileSpec => []FileInv
  <1>1. FileInit => FileInv
    BY OriginalIs DEF FileInit, FileInv, FieldsComeBack, ContentComesBack
  <1>2. FileInv /\ [FileNext]_fileVars => FileInv'
    <2> SUFFICES ASSUME FileInv, [FileNext]_fileVars PROVE FileInv'
      OBVIOUS
    <2> USE DEF FileInv
    <2>1. CASE UNCHANGED fileVars
      BY <2>1 DEF fileVars, FieldsComeBack, ContentComesBack
    <2>2. CASE Export
      BY <2>2 DEF Export, FieldsComeBack, ContentComesBack
    <2>3. CASE Convert
      <3>1. record = original
        <4>1. IsSheet(original)
          BY OriginalIs
        <4>2. pasted(record.content) /\ trips = 0
          BY <2>3 DEF Convert
        <4>3. QED
          BY <4>1, <4>2, ConvertedKeeps
      <3>2. /\ record' = Converted(original) /\ pasted(original.content)
            /\ trips = 0 /\ trips' = 0 /\ file' = <<>> /\ original' = original
        BY <2>3, <3>1 DEF Convert, Converted
      <3>3. IsSheet(record')
        BY <3>2, OriginalIs, ConvertedKeeps
      <3>4. QED
        BY <3>2, <3>3 DEF FieldsComeBack, ContentComesBack
    <2>4. CASE Import
      <3>1. /\ file = toChordProFile(record) /\ record' = fromChordProFile(file)
            /\ trips' = trips + 1 /\ file' = <<>> /\ original' = original /\ trips' > 0
            /\ trips' \in Nat
        BY <2>4 DEF Import
      <3>2. record' = Back(record)
        BY <3>1, FromTo
      <3>3. IsSheet(record') /\ Back(record') = record'
        BY <3>2, BackIs
      <3>4. IsSheet(original)
        BY OriginalIs
      <3>5. CASE trips > 0
        <4>1. record' = record
          BY <3>2, <3>5
        <4>2. QED
          BY <3>1, <3>3, <3>5, <4>1 DEF FieldsComeBack, ContentComesBack
      <3>6. CASE trips = 0
        <4>1. PICK o, r : o = original /\ r = record
          OBVIOUS
        <4>2. r = o \/ (r = Converted(o) /\ pasted(o.content))
          BY <3>6, <4>1
        <4>3. /\ \A f \in {"title", "artist", "album", "key", "capo", "notes"} : r[f] = o[f]
              /\ r.kind = o.kind /\ r.tuning = o.tuning
          BY <3>4, <4>1, <4>2 DEF Converted, IsSheet
        <4>4. FieldsComeBack'
          <5>1. \A f \in {"title", "artist", "album", "key", "capo", "notes"} :
                    record'[f] = original'[f]
            BY <3>1, <3>2, <4>1, <4>3 DEF Back
          <5>2. record'.kind = KindBack(o) /\ record'.tuning = TuningBack(o)
            BY <3>2, <4>1, <4>3 DEF Back, KindBack, TuningBack
          <5>3. o.kind \in Kinds
            BY <3>4, <4>1 DEF IsSheet
          <5>4. KindBack(o) # "piano" =>
                    getTuning(TuningBack(o), KindBack(o)) = getTuning(o.tuning, o.kind)
            BY <5>3, TuningComesBack
          <5>5. QED
            BY <3>1, <4>1, <5>1, <5>2, <5>4 DEF FieldsComeBack, KindBack
        <4>5. IsSheet(o) /\ IsText(o.content)
          BY <3>4, <4>1 DEF IsSheet
        <4>6. ContentComesBack'
          <5>1. ASSUME ~pasted(o.content), ~pasted(Opening(o)) PROVE record'.content = Opening(o)
            BY <3>2, <4>1, <4>2, <5>1 DEF Back, Reread
          <5>2. QED
            BY <3>1, <4>1, <5>1 DEF ContentComesBack, Opening
        <4>7. PlainText(o.content) => Kept(record'.content, o.content)
          BY <3>2, <4>1, <4>2, <4>5, BackKeeps, ConvertedKeeps
        <4>8. QED
          BY <3>1, <3>3, <4>1, <4>4, <4>6, <4>7
      <3>7. QED
        BY <3>5, <3>6
    <2>5. QED
      BY <2>1, <2>2, <2>3, <2>4 DEF FileNext
  <1>3. QED
    BY <1>1, <1>2, PTL DEF FileSpec

\* Files!ConvertKeeps: whatever the sheet of one song, and through any number of
\* files, the conversion of chords in tags or above the lyrics loses no chord
\* and leaves every tab in one of its own.
THEOREM ConvertedKept == FileSpec => []ConvertKeeps
  <1>1. FileInv => ConvertKeeps
    <2> SUFFICES ASSUME FileInv PROVE ConvertKeeps
      OBVIOUS
    <2> USE DEF FileInv
    <2>1. PICK o, c : o = original.content /\ c = record.content
      OBVIOUS
    <2>2. IsSheet(original) /\ \A i \in 1..Len(o) : o[i].is # "unread"
      BY <2>1, OriginalIs
    <2>3. DOMAIN o = 1..Len(o) /\ IsSeq(c) /\ DOMAIN c = 1..Len(c)
      BY <2>1, <2>2, SeqIs DEF IsSheet, IsText, IsSeq
    <2>4. SUFFICES ASSUME \A i \in DOMAIN o : o[i].is \notin {"paren", "sot", "eot", "newsong"}
                   PROVE  /\ ChordsOf(c) = ChordsOf(o)
                          /\ pasted(o) /\ record # original =>
                            /\ \A i \in DOMAIN c :
                                    c[i].is = "tab" <=> i \in InTabs(c) /\ c[i].is # "eot"
                            /\ \A i \in DOMAIN c : c[i].is = "sot" => i \notin InTabs(c)
                            /\ ~pasted(c)
      BY <2>1 DEF ConvertKeeps
    <2>5. PlainText(o)
      BY <2>2, <2>3, <2>4 DEF PlainText
    <2>6. Kept(c, o) \/ record = original
      <3>1. CASE trips = 0
        BY <2>1, <2>2, <2>5, <3>1, ConvertedKeeps
      <3>2. CASE trips # 0
        BY <2>1, <2>5, <3>2
      <3>3. QED
        BY <3>1, <3>2
    <2>7. ASSUME Tabbed(c)
          PROVE  /\ \A i \in DOMAIN c :
                        c[i].is = "tab" <=> i \in InTabs(c) /\ c[i].is # "eot"
                 /\ \A i \in DOMAIN c : c[i].is = "sot" => i \notin InTabs(c)
      <3>1. \A i \in 1..Len(c) : i \in InTabs(c) <=> c[i].is \in {"tab", "eot"}
        BY <2>3, <2>7, InTabsAre DEF Tabbed, TabbedTo
      <3>2. QED
        BY <2>3, <3>1
    <2>8. QED
      BY <2>1, <2>6, <2>7 DEF Kept
  <1>2. QED
    BY <1>1, FileInvHolds, PTL

\* Files!FilesComeBack: whatever the sheet, downloaded and opened again it has
\* its fields, its tuning and the content of its first song, as it is unless it
\* is converted, and a second trip changes nothing.
THEOREM ComesBack == FileSpec => FilesComeBack
  <1>1. FileInv => FieldsComeBack /\ ContentComesBack
    BY DEF FileInv
  <1>2. FileInv /\ [FileNext]_fileVars => [trips = 1 /\ trips' = 2 => record' = record]_fileVars
    <2>1. SUFFICES ASSUME FileInv, FileNext, trips = 1, trips' = 2 PROVE record' = record
      OBVIOUS
    <2>2. Import
      BY <2>1 DEF FileNext, Export, Convert
    <2>3. file = toChordProFile(record) /\ record' = fromChordProFile(file)
      BY <2>1, <2>2 DEF Import, FileInv
    <2>4. record' = Back(record) /\ Back(record) = record
      BY <2>1, <2>3, FromTo DEF FileInv
    <2>5. QED
      BY <2>4
  <1>3. QED
    BY <1>1, <1>2, FileInvHolds, PTL DEF FileSpec, FilesComeBack, SecondTripSame
=============================================================================
