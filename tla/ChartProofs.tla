----------------------------- MODULE ChartProofs ----------------------------
(***************************************************************************)
(* Theorems about Charts, for any text, sections and strumming patterns.   *)
(***************************************************************************)
EXTENDS Charts, MusicProofs

LEMMA FlattenAppend ==
    ASSUME NEW S, NEW seqs \in Seq(Seq(S)), NEW s \in Seq(S)
    PROVE  FlattenSeq(seqs) \in Seq(S) /\ FlattenSeq(Append(seqs, s)) = FlattenSeq(seqs) \o s
  <1>1. PICK N \in Nat : N = Len(seqs) /\ DOMAIN seqs = 1..N
    BY SeqIs
  <1>2. PICK more : more = Append(seqs, s)
    OBVIOUS
  <1>3. /\ Len(more) = N + 1 /\ more[N + 1] = s
        /\ \A i \in 1..N : more[i] = seqs[i]
    BY <1>1, <1>2, AppendProperties
  <1>4. FlattenSeq(seqs) \in Seq(S)
    <2>1. \A n \in 1..N : seqs[n] \in Seq(S)
      BY <1>1
    <2>2. QED
      BY <1>1, <2>1, LaysOut
  <1>5. N + 1 \in Nat \ {0} /\ N + 1 \in 1..(N + 1)
    OBVIOUS
  <1>6. PICK G : /\ G = [i \in 1..(N + 1) |-> IF i = 1 THEN more[i] ELSE G[i - 1] \o more[i]]
                 /\ FlattenSeq(more) = G[N + 1]
    BY <1>3, <1>5, FlattenStep
  <1>7. CASE N = 0
    <2>1. FlattenSeq(more) = s
      <3>1. G[N + 1] = more[N + 1]
        BY <1>5, <1>6, <1>7
      <3>2. QED
        BY <1>3, <1>6, <3>1
    <2>2. FlattenSeq(seqs) = <<>>
      <3>1. FlattenSeq(seqs) = seqs
        BY <1>1, <1>7 DEF FlattenSeq
      <3>2. QED
        BY <1>1, <1>7, <3>1
    <2>3. QED
      BY <1>2, <1>4, <2>1, <2>2, ConcatEmptySeq
  <1>8. CASE N # 0
    <2>1. N \in Nat \ {0} /\ N \in 1..N /\ N \in 0..N
      BY <1>8
    <2>2. PICK F : /\ F = [i \in 1..N |-> IF i = 1 THEN seqs[i] ELSE F[i - 1] \o seqs[i]]
                   /\ FlattenSeq(seqs) = F[N]
      BY <1>1, <2>1, FlattenStep
    <2> DEFINE same == {n \in 0..N : n # 0 => G[n] = F[n]}
    <2>3. 0 \in same
      OBVIOUS
    <2>4. \A n \in 0..(N - 1) : n \in same => n + 1 \in same
      <3>1. ASSUME NEW n \in 0..(N - 1), n # 0 => G[n] = F[n] PROVE G[n + 1] = F[n + 1]
        <4>1. n + 1 \in 1..N /\ n + 1 \in 1..(N + 1) /\ (n + 1) - 1 = n /\ (n = 0 <=> n + 1 = 1)
          OBVIOUS
        <4>2. more[n + 1] = seqs[n + 1]
          BY <1>3, <4>1
        <4>3. G[n + 1] = IF n + 1 = 1 THEN more[n + 1] ELSE G[(n + 1) - 1] \o more[n + 1]
          BY <1>6, <4>1
        <4>4. F[n + 1] = IF n + 1 = 1 THEN seqs[n + 1] ELSE F[(n + 1) - 1] \o seqs[n + 1]
          BY <2>2, <4>1
        <4>5. QED
          BY <3>1, <4>1, <4>2, <4>3, <4>4
      <3>2. \A n \in 0..(N - 1) : n \in 0..N /\ n + 1 \in 0..N
        OBVIOUS
      <3>3. QED
        BY <3>1, <3>2
    <2> HIDE DEF same
    <2>5. N \in same
      BY <1>1, <2>1, <2>3, <2>4, StepByStep
    <2>6. G[N] = F[N]
      BY <1>8, <2>5 DEF same
    <2>7. G[N + 1] = G[N] \o more[N + 1]
      <3>1. G[N + 1] = IF N + 1 = 1 THEN more[N + 1] ELSE G[(N + 1) - 1] \o more[N + 1]
        BY <1>5, <1>6
      <3>2. N + 1 # 1 /\ (N + 1) - 1 = N
        BY <1>8
      <3>3. QED
        BY <3>1, <3>2
    <2>8. QED
      BY <1>2, <1>3, <1>4, <1>6, <2>2, <2>6, <2>7
  <1>9. QED
    BY <1>7, <1>8

-----------------------------------------------------------------------------
(* What a chart is made of. *)

Changes == [name : Names \cup {Null}, pattern : Patterns, once : BOOLEAN, line : 1..MaxLines]
ShownItems == {BLANK} \cup [is : {"strum"}, change : Changes]
              \cup [is : {"lyrics", "comment", "tab"}, line : 1..MaxLines, chords : Nat]
BlockSet == [kind : EnvKinds \cup {"plain"}, label : Labels \cup {Null, "Chorus"},
             lines : Seq(ShownItems), strum : Changes \cup {Null}]

\* The lines of blocks, when one is done.
LEMMA LinesAppend ==
    ASSUME NEW bs \in Seq(BlockSet), NEW b \in BlockSet
    PROVE  /\ LinesOf(bs) \in Seq(ShownItems) /\ ItemsOf(b) \in Seq(ShownItems)
           /\ LinesOf(Append(bs, b)) = LinesOf(bs) \o ItemsOf(b)
  <1>1. ASSUME NEW c \in BlockSet PROVE ItemsOf(c) \in Seq(ShownItems)
    <2>1. c.lines \in Seq(ShownItems) /\ c.strum \in Changes \cup {Null}
      BY DEF BlockSet
    <2>2. c.strum # Null => <<StrumItem(c.strum)>> \in Seq(ShownItems)
      BY <2>1 DEF StrumItem, ShownItems
    <2>3. QED
      BY <2>1, <2>2, ConcatProperties DEF ItemsOf
  <1>2. PICK N \in Nat : N = Len(bs) /\ DOMAIN bs = 1..N
    BY SeqIs
  <1>3. \A i \in 1..N : bs[i] \in BlockSet
    BY <1>2
  <1> DEFINE pieces == [i \in DOMAIN bs |-> ItemsOf(bs[i])]
             all == Append(bs, b)
             morePieces == [i \in DOMAIN all |-> ItemsOf(all[i])]
  <1>4. pieces \in Seq(Seq(ShownItems)) /\ Len(pieces) = N
    <2>1. pieces \in [1..N -> Seq(ShownItems)]
      BY <1>1, <1>2, <1>3
    <2>2. QED
      BY <2>1
  <1>5. /\ all \in Seq(BlockSet) /\ Len(all) = N + 1 /\ DOMAIN all = 1..(N + 1)
        /\ all[N + 1] = b /\ \A i \in 1..N : all[i] = bs[i]
    <2>1. /\ all \in Seq(BlockSet) /\ Len(all) = N + 1
          /\ all[N + 1] = b /\ \A i \in 1..N : all[i] = bs[i]
      BY <1>2, AppendProperties
    <2>2. QED
      BY <2>1, SeqIs
  <1>6. morePieces = Append(pieces, ItemsOf(b))
    <2>1. PICK q : q = Append(pieces, ItemsOf(b))
      OBVIOUS
    <2>2. /\ q \in Seq(Seq(ShownItems)) /\ Len(q) = N + 1
          /\ q[N + 1] = ItemsOf(b) /\ \A i \in 1..N : q[i] = pieces[i]
      BY <1>1, <1>4, <2>1, AppendProperties
    <2>3. morePieces \in Seq(Seq(ShownItems)) /\ Len(morePieces) = N + 1
      <3>1. morePieces \in [1..(N + 1) -> Seq(ShownItems)]
        BY <1>1, <1>5
      <3>2. QED
        BY <3>1
    <2>4. \A i \in 1..(N + 1) : morePieces[i] = q[i]
      <3>1. TAKE i \in 1..(N + 1)
      <3>2. morePieces[i] = ItemsOf(all[i])
        BY <1>5
      <3>3. CASE i = N + 1
        BY <1>5, <2>2, <3>2, <3>3
      <3>4. CASE i # N + 1
        <4>1. i \in 1..N
          BY <3>4
        <4>2. pieces[i] = ItemsOf(bs[i])
          BY <1>2, <4>1
        <4>3. QED
          BY <1>5, <2>2, <3>2, <4>1, <4>2
      <3>5. QED
        BY <3>3, <3>4
    <2>5. IsSeq(morePieces) /\ IsSeq(q)
      BY <2>2, <2>3, SeqIs
    <2> HIDE DEF morePieces
    <2>6. morePieces = q
      BY <2>2, <2>3, <2>4, <2>5, SameSeq
    <2>7. QED
      BY <2>1, <2>6
  <1>7. ItemsOf(b) \in Seq(ShownItems)
    BY <1>1
  <1> HIDE DEF pieces, morePieces
  <1>8. /\ FlattenSeq(pieces) \in Seq(ShownItems)
        /\ FlattenSeq(Append(pieces, ItemsOf(b))) = FlattenSeq(pieces) \o ItemsOf(b)
    BY <1>4, <1>7, FlattenAppend
  <1>9. LinesOf(bs) = FlattenSeq(pieces) /\ LinesOf(all) = FlattenSeq(morePieces)
    BY DEF LinesOf, pieces, morePieces
  <1>10. QED
    BY <1>6, <1>7, <1>8, <1>9

-----------------------------------------------------------------------------

(* Blocks without the blank lines at their edges. *)

\* Where the lines of a block begin and end that are no blanks at its edges.
Edges(lines, m, n) ==
    /\ m \in 1..Len(lines) /\ n \in 1..Len(lines) /\ m <= n
    /\ lines[m] # BLANK /\ lines[n] # BLANK
    /\ \A i \in 1..Len(lines) : i < m \/ n < i => lines[i] = BLANK

LEMMA TrimmedTo ==
    ASSUME NEW lines, IsSeq(lines), NEW m, NEW n, Edges(lines, m, n)
    PROVE  Trimmed(lines) = SubSeq(lines, m, n) /\ Trimmed(lines) # <<>>
           /\ Cuts(Trimmed(lines), lines, m, n)
  <1> DEFINE kept == {i \in DOMAIN lines : lines[i] # BLANK}
  <1>1. PICK N \in Nat : N = Len(lines) /\ DOMAIN lines = 1..N
    BY SeqIs DEF IsSeq
  <1>2. /\ m \in 1..N /\ n \in 1..N /\ m <= n /\ m \in Nat /\ n \in Nat
        /\ lines[m] # BLANK /\ lines[n] # BLANK
        /\ \A i \in 1..N : i < m \/ n < i => lines[i] = BLANK
    BY <1>1 DEF Edges
  <1>3. /\ kept \in SUBSET Nat /\ m \in kept /\ n \in kept
        /\ \A i \in kept : m <= i /\ i <= n
    <2>1. kept \in SUBSET Nat /\ m \in kept /\ n \in kept
      BY <1>1, <1>2
    <2>2. ASSUME NEW i \in kept PROVE m <= i /\ i <= n
      <3>1. i \in 1..N /\ ~(i < m \/ n < i) /\ i \in Nat
        BY <1>1, <1>2
      <3>2. QED
        BY <1>2, <3>1
    <2>3. QED
      BY <2>1, <2>2
  <1>4. Trimmed(lines) = IF kept = {} THEN <<>> ELSE SubSeq(lines, Min(kept), Max(kept))
    BY DEF Trimmed
  <1> HIDE DEF kept
  <1>5. Max(kept) = n
    BY <1>3, GreatestIs
  <1>6. Min(kept) = m
    <2>1. Min(kept) \in kept /\ \A i \in kept : Min(kept) <= i
      BY <1>3, LeastOf
    <2>2. PICK k : k = Min(kept)
      OBVIOUS
    <2>3. k \in Nat /\ k <= m /\ m <= k
      BY <1>3, <2>1, <2>2
    <2>4. QED
      BY <1>2, <2>2, <2>3
  <1>7. Trimmed(lines) = SubSeq(lines, m, n)
    BY <1>3, <1>4, <1>5, <1>6
  <1>8. m \in 1..Len(lines) /\ n \in 1..Len(lines)
    BY <1>1, <1>2
  <1>9. Cuts(SubSeq(lines, m, n), lines, m, n)
    BY <1>2, <1>8, SubSeqCuts
  <1>10. SubSeq(lines, m, n) # <<>>
    <2>1. Len(SubSeq(lines, m, n)) = n - m + 1 /\ n - m + 1 # 0
      BY <1>2, <1>9 DEF Cuts
    <2>2. QED
      BY <2>1
  <1>11. QED
    BY <1>7, <1>9, <1>10

LEMMA EdgesOrBlank ==
    ASSUME NEW lines, IsSeq(lines)
    PROVE  \/ Trimmed(lines) = <<>> /\ \A i \in 1..Len(lines) : lines[i] = BLANK
           \/ \E m, n \in 1..Len(lines) : Edges(lines, m, n)
  <1> DEFINE kept == {i \in DOMAIN lines : lines[i] # BLANK}
  <1>1. PICK N \in Nat : N = Len(lines) /\ DOMAIN lines = 1..N
    BY SeqIs DEF IsSeq
  <1>2. CASE kept = {}
    BY <1>1, <1>2 DEF Trimmed
  <1>3. CASE kept # {}
    <2>1. kept \in SUBSET Nat /\ kept \subseteq 1..N /\ \A i \in kept : i <= N
      BY <1>1
    <2> HIDE DEF kept
    <2>2. Min(kept) \in kept /\ \A i \in kept : Min(kept) <= i
      BY <1>3, <2>1, LeastOf
    <2>3. Max(kept) \in kept /\ \A i \in kept : i <= Max(kept)
      BY <1>3, <2>1, GreatestOf
    <2>4. PICK m, n : m = Min(kept) /\ n = Max(kept)
      OBVIOUS
    <2>5. m \in kept /\ n \in kept /\ \A i \in kept : m <= i /\ i <= n
      BY <2>2, <2>3, <2>4
    <2>6. m \in 1..N /\ n \in 1..N /\ m <= n
      BY <2>1, <2>5
    <2>7. lines[m] # BLANK /\ lines[n] # BLANK
      BY <2>5 DEF kept
    <2>8. ASSUME NEW i \in 1..N, i < m \/ n < i PROVE lines[i] = BLANK
      <3>1. i \notin kept
        BY <2>5, <2>6, <2>8
      <3>2. QED
        BY <1>1, <3>1 DEF kept
    <2>9. Edges(lines, m, n)
      BY <1>1, <2>6, <2>7, <2>8 DEF Edges
    <2>10. QED
      BY <1>1, <2>6, <2>9
  <1>4. QED
    BY <1>2, <1>3

\* A line after the others leaves those as they are, with the blank ones that
\* were at the end.
LEMMA TrimmedMore ==
    ASSUME NEW lines \in Seq(ShownItems), NEW tail \in Seq(ShownItems),
           tail # <<>>, tail[1] # BLANK, tail[Len(tail)] # BLANK
    PROVE  \E gap \in Seq({BLANK}) :
                /\ Trimmed(lines \o tail) = (Trimmed(lines) \o gap) \o tail
                /\ Len(lines) > 1 /\ lines[Len(lines)] = BLANK /\ lines[Len(lines) - 1] # BLANK
                     => /\ Len(gap) = 1 /\ Len(Trimmed(lines)) > 0
                        /\ Trimmed(lines)[Len(Trimmed(lines))] = lines[Len(lines) - 1]
  <1>1. PICK N, K : N = Len(lines) /\ K = Len(tail)
    OBVIOUS
  <1>2. /\ N \in Nat /\ K \in Nat /\ K # 0 /\ IsSeq(lines) /\ IsSeq(tail)
        /\ tail[1] # BLANK /\ tail[K] # BLANK
    BY <1>1, SeqIs
  <1>3. PICK all : all = lines \o tail
    OBVIOUS
  <1>4. /\ IsSeq(all) /\ Len(all) = N + K
        /\ \A i \in 1..N : all[i] = lines[i]
        /\ \A i \in 1..K : all[N + i] = tail[i]
    BY <1>1, <1>2, <1>3, Joined
  <1>5. N + K \in 1..(N + K) /\ N + 1 \in 1..(N + K) /\ all[N + K] # BLANK /\ all[N + 1] # BLANK
    <2>1. K \in 1..K /\ 1 \in 1..K
      BY <1>2
    <2>2. QED
      BY <1>2, <1>4, <2>1
  <1>6. CASE \A i \in 1..N : lines[i] = BLANK
    <2>1. Trimmed(lines) = <<>>
      <3>1. ASSUME NEW m \in 1..Len(lines), NEW n \in 1..Len(lines), Edges(lines, m, n)
            PROVE  FALSE
        BY <1>1, <1>6, <3>1 DEF Edges
      <3>2. QED
        BY <1>2, <3>1, EdgesOrBlank
    <2>2. Edges(all, N + 1, N + K)
      <3>1. ASSUME NEW i \in 1..(N + K), i < N + 1 \/ N + K < i PROVE all[i] = BLANK
        <4>1. i \in 1..N
          BY <1>2, <3>1
        <4>2. QED
          BY <1>4, <1>6, <4>1
      <3>2. N + 1 <= N + K
        BY <1>2
      <3>3. QED
        BY <1>4, <1>5, <3>1, <3>2 DEF Edges
    <2>3. Cuts(Trimmed(all), all, N + 1, N + K)
      BY <1>4, <2>2, TrimmedTo
    <2>4. PICK t : t = Trimmed(all)
      OBVIOUS
    <2>5. /\ t \in Seq(Range(all)) /\ Len(t) = K
          /\ \A i \in 1..K : t[i] = tail[i]
      <3>1. (N + K) - (N + 1) + 1 = K
        BY <1>2
      <3>2. t \in Seq(Range(all)) /\ Len(t) = K /\ \A i \in 1..K : t[i] = all[(N + 1) + i - 1]
        BY <2>3, <2>4, <3>1 DEF Cuts
      <3>3. ASSUME NEW i \in 1..K PROVE t[i] = tail[i]
        <4>1. (N + 1) + i - 1 = N + i
          BY <1>2
        <4>2. QED
          BY <1>4, <3>2, <4>1
      <3>4. QED
        BY <3>2, <3>3
    <2>6. IsSeq(t)
      BY <2>5, SeqIs
    <2>7. t = tail
      BY <1>1, <1>2, <2>5, <2>6, SameSeq
    <2>8. (<<>> \o <<>>) \o tail = tail
      BY ConcatEmptySeq
    <2>9. ~(N > 1 /\ lines[N] = BLANK /\ lines[N - 1] # BLANK)
      <3>1. N > 1 => N - 1 \in 1..N
        BY <1>2
      <3>2. QED
        BY <1>6, <3>1
    <2>10. <<>> \in Seq({BLANK})
      OBVIOUS
    <2>11. QED
      BY <1>1, <1>3, <2>1, <2>4, <2>7, <2>8, <2>9, <2>10
  <1>7. CASE ~ \A i \in 1..N : lines[i] = BLANK
    <2>1. PICK m \in 1..N, n \in 1..N : Edges(lines, m, n)
      BY <1>1, <1>2, <1>7, EdgesOrBlank
    <2>2. /\ m \in Nat /\ n \in Nat /\ m <= n /\ n <= N /\ 1 <= m
          /\ lines[m] # BLANK /\ lines[n] # BLANK
          /\ \A i \in 1..N : i < m \/ n < i => lines[i] = BLANK
      BY <1>1, <1>2, <2>1 DEF Edges
    <2>3. Edges(all, m, N + K)
      <3>1. ASSUME NEW i \in 1..(N + K), i < m \/ N + K < i PROVE all[i] = BLANK
        <4>1. i \in 1..N /\ i < m
          BY <1>2, <2>2, <3>1
        <4>2. QED
          BY <1>4, <2>2, <4>1
      <3>2. m <= N + K /\ m \in 1..(N + K) /\ all[m] # BLANK
        BY <1>2, <1>4, <2>2
      <3>3. QED
        BY <1>4, <1>5, <3>1, <3>2 DEF Edges
    <2>4. Cuts(Trimmed(all), all, m, N + K) /\ Cuts(Trimmed(lines), lines, m, n)
      BY <1>2, <1>4, <2>1, <2>3, TrimmedTo
    <2>5. PICK t, s : t = Trimmed(all) /\ s = Trimmed(lines)
      OBVIOUS
    <2>61. /\ t \in Seq(Range(all)) /\ Len(t) = N + K - m + 1
           /\ \A i \in 1..(N + K - m + 1) : t[i] = all[m + i - 1]
      <3>1. PICK z : z = N + K
        OBVIOUS
      <3>2. Cuts(t, all, m, z)
        BY <2>4, <2>5, <3>1
      <3>3. /\ t \in Seq(Range(all)) /\ Len(t) = z - m + 1
            /\ \A i \in 1..(z - m + 1) : t[i] = all[m + i - 1]
        BY <3>2 DEF Cuts
      <3>4. QED
        BY <1>2, <2>2, <3>1, <3>3
    <2>62. /\ s \in Seq(Range(lines)) /\ Len(s) = n - m + 1
           /\ \A i \in 1..(n - m + 1) : s[i] = lines[m + i - 1]
      <3>1. Cuts(s, lines, m, n)
        BY <2>4, <2>5
      <3>2. QED
        BY <3>1 DEF Cuts
    <2>6. /\ t \in Seq(Range(all)) /\ Len(t) = N + K - m + 1
          /\ \A i \in 1..(N + K - m + 1) : t[i] = all[m + i - 1]
          /\ s \in Seq(Range(lines)) /\ Len(s) = n - m + 1
          /\ \A i \in 1..(n - m + 1) : s[i] = lines[m + i - 1]
      BY <2>61, <2>62
    <2> DEFINE gap == [i \in 1..(N - n) |-> BLANK]
    <2>7. gap \in Seq({BLANK}) /\ Len(gap) = N - n /\ \A i \in 1..(N - n) : gap[i] = BLANK
      <3>1. N - n \in Nat
        BY <1>2, <2>2
      <3>2. QED
        BY <3>1
    <2>8. IsSeq(t)
      BY <2>6, SeqIs
    <2>80. IsSeq(s)
      BY <2>6, SeqIs
    <2>81. IsSeq(gap)
      BY <2>7, SeqIs
    <2>9. PICK a, b : a = s \o gap /\ b = a \o tail
      OBVIOUS
    <2> HIDE DEF gap
    <2>10. /\ IsSeq(a) /\ Len(a) = (n - m + 1) + (N - n)
           /\ \A i \in 1..(n - m + 1) : a[i] = s[i]
           /\ \A i \in 1..(N - n) : a[(n - m + 1) + i] = gap[i]
      <3>1. /\ IsSeq(s \o gap) /\ Len(s \o gap) = Len(s) + Len(gap)
            /\ \A i \in 1..Len(s) : (s \o gap)[i] = s[i]
            /\ \A i \in 1..Len(gap) : (s \o gap)[Len(s) + i] = gap[i]
        BY <2>80, <2>81, Joined
      <3>2. QED
        BY <2>6, <2>7, <2>9, <3>1
    <2>11. Len(a) = N - m + 1
      BY <1>2, <2>2, <2>10
    <2>12. /\ IsSeq(b) /\ Len(b) = (N - m + 1) + K
           /\ \A i \in 1..(N - m + 1) : b[i] = a[i]
           /\ \A i \in 1..K : b[(N - m + 1) + i] = tail[i]
      <3>1. /\ IsSeq(a \o tail) /\ Len(a \o tail) = Len(a) + Len(tail)
            /\ \A i \in 1..Len(a) : (a \o tail)[i] = a[i]
            /\ \A i \in 1..Len(tail) : (a \o tail)[Len(a) + i] = tail[i]
        BY <1>2, <2>10, Joined
      <3>2. QED
        BY <1>1, <2>9, <2>11, <3>1
    <2>13. ASSUME NEW i \in 1..(N + K - m + 1) PROVE t[i] = b[i]
      <3>1. i \in Nat /\ i >= 1
        BY <1>2, <2>2
      <3>2. CASE i <= n - m + 1
        <4>1. i \in 1..(n - m + 1) /\ i \in 1..(N - m + 1) /\ m + i - 1 \in 1..N
          BY <1>2, <2>2, <3>1, <3>2
        <4>2. QED
          BY <1>4, <2>6, <2>10, <2>12, <4>1
      <3>3. CASE n - m + 1 < i /\ i <= N - m + 1
        <4>1. PICK k : k = i - (n - m + 1)
          OBVIOUS
        <4>2. /\ k \in 1..(N - n) /\ (n - m + 1) + k = i /\ i \in 1..(N - m + 1)
              /\ m + i - 1 \in 1..N /\ n < m + i - 1
          BY <1>2, <2>2, <3>1, <3>3, <4>1
        <4>3. b[i] = BLANK
          BY <2>7, <2>10, <2>12, <4>2
        <4>4. t[i] = BLANK
          BY <1>4, <2>2, <2>6, <4>2
        <4>5. QED
          BY <4>3, <4>4
      <3>4. CASE N - m + 1 < i
        <4>1. PICK k : k = i - (N - m + 1)
          OBVIOUS
        <4>2. k \in 1..K /\ (N - m + 1) + k = i /\ m + i - 1 = N + k
          BY <1>2, <2>2, <3>1, <3>4, <4>1
        <4>3. b[i] = tail[k]
          BY <2>12, <4>2
        <4>4. t[i] = tail[k]
          BY <1>4, <2>6, <4>2
        <4>5. QED
          BY <4>3, <4>4
      <3>5. QED
        BY <1>2, <2>2, <3>1, <3>2, <3>3, <3>4
    <2>14. t = b
      <3>1. Len(b) = N + K - m + 1
        BY <1>2, <2>2, <2>12
      <3>2. QED
        BY <2>6, <2>8, <2>12, <2>13, <3>1, SameSeq
    <2>15. ASSUME N > 1, lines[N] = BLANK, lines[N - 1] # BLANK
           PROVE  Len(gap) = 1 /\ Len(s) > 0 /\ s[Len(s)] = lines[N - 1]
      <3>1. n = N - 1
        <4>1. N - 1 \in 1..N /\ N \in 1..N
          BY <1>2, <2>15
        <4>2. ~(n < N - 1)
          BY <2>2, <2>15, <4>1
        <4>3. n # N
          BY <2>2, <2>15
        <4>4. QED
          BY <1>2, <2>2, <4>2, <4>3
      <3>2. /\ N - n = 1 /\ n - m + 1 > 0 /\ n - m + 1 \in 1..(n - m + 1)
            /\ m + (n - m + 1) - 1 = N - 1
        BY <1>2, <2>2, <3>1
      <3>3. QED
        BY <2>6, <2>7, <3>2
    <2>16. QED
      BY <1>1, <1>3, <2>5, <2>7, <2>9, <2>14, <2>15
  <1>8. QED
    BY <1>6, <1>7

LEMMA TrimmedBlank ==
    ASSUME NEW lines \in Seq(ShownItems)
    PROVE  Trimmed(Append(lines, BLANK)) = Trimmed(lines)
  <1>1. PICK N \in Nat : N = Len(lines) /\ IsSeq(lines)
    BY SeqIs
  <1>2. PICK all : all = Append(lines, BLANK)
    OBVIOUS
  <1>3. /\ all \in Seq(ShownItems) /\ Len(all) = N + 1 /\ all[N + 1] = BLANK
        /\ \A i \in 1..N : all[i] = lines[i]
    <2>1. BLANK \in ShownItems
      BY DEF ShownItems
    <2>2. QED
      BY <1>1, <1>2, <2>1, AppendProperties
  <1>4. IsSeq(all)
    BY <1>3, SeqIs
  <1>5. CASE \A i \in 1..N : lines[i] = BLANK
    <2>1. Trimmed(lines) = <<>>
      <3>1. ASSUME NEW m \in 1..Len(lines), NEW n \in 1..Len(lines), Edges(lines, m, n)
            PROVE  FALSE
        BY <1>1, <1>5, <3>1 DEF Edges
      <3>2. QED
        BY <1>1, <3>1, EdgesOrBlank
    <2>2. Trimmed(all) = <<>>
      <3>1. \A i \in 1..(N + 1) : all[i] = BLANK
        <4>1. \A i \in 1..(N + 1) : i \in 1..N \/ i = N + 1
          OBVIOUS
        <4>2. QED
          BY <1>3, <1>5, <4>1
      <3>2. ASSUME NEW m \in 1..Len(all), NEW n \in 1..Len(all), Edges(all, m, n)
            PROVE  FALSE
        BY <1>3, <3>1, <3>2 DEF Edges
      <3>3. QED
        BY <1>4, <3>2, EdgesOrBlank
    <2>3. QED
      BY <1>2, <2>1, <2>2
  <1>6. CASE ~ \A i \in 1..N : lines[i] = BLANK
    <2>1. PICK m \in 1..N, n \in 1..N : Edges(lines, m, n)
      BY <1>1, <1>6, EdgesOrBlank
    <2>2. /\ m <= n /\ lines[m] # BLANK /\ lines[n] # BLANK
          /\ \A i \in 1..N : i < m \/ n < i => lines[i] = BLANK
      BY <1>1, <2>1 DEF Edges
    <2>3. Edges(all, m, n)
      <3>1. m \in 1..(N + 1) /\ n \in 1..(N + 1)
        OBVIOUS
      <3>2. \A i \in 1..(N + 1) : i \in 1..N \/ i = N + 1
        OBVIOUS
      <3>3. QED
        BY <1>3, <2>2, <3>1, <3>2 DEF Edges
    <2>4. PICK t, s : t = Trimmed(all) /\ s = Trimmed(lines)
      OBVIOUS
    <2>5. Cuts(t, all, m, n) /\ Cuts(s, lines, m, n)
      BY <1>1, <1>4, <2>1, <2>3, <2>4, TrimmedTo
    <2>6. /\ t \in Seq(Range(all)) /\ Len(t) = n - m + 1
          /\ \A i \in 1..(n - m + 1) : t[i] = all[m + i - 1]
      BY <2>5 DEF Cuts
    <2>7. /\ s \in Seq(Range(lines)) /\ Len(s) = n - m + 1
          /\ \A i \in 1..(n - m + 1) : m + i - 1 \in 1..Len(lines) /\ s[i] = lines[m + i - 1]
      BY <2>5 DEF Cuts
    <2>8. \A i \in 1..Len(t) : t[i] = s[i]
      BY <1>1, <1>3, <2>6, <2>7
    <2>9. IsSeq(t)
      BY <2>6, SeqIs
    <2>10. IsSeq(s)
      BY <2>7, SeqIs
    <2>11. t = s
      BY <2>6, <2>7, <2>8, <2>9, <2>10, SameSeq
    <2>12. QED
      BY <1>2, <2>4, <2>11
  <1>7. QED
    BY <1>5, <1>6

-----------------------------------------------------------------------------

\* What would be shown if the text ended after some blocks and another, and
\* the change that is lost if it did.
AsItem(c) == IF c = Null THEN <<>> ELSE <<StrumItem(c)>>
IsUnseen(b) == Trimmed(b.lines) = <<>> /\ b.label = Null
DocOf(bs, b) == IF IsUnseen(b) THEN bs ELSE Append(bs, [b EXCEPT !.lines = Trimmed(b.lines)])
TextSoFar(bs, b) == LinesOf(DocOf(bs, b))
HeldBy(b) == IF IsUnseen(b) THEN b.strum ELSE Null

LEMMA DocIs == Doc = DocOf(blocks, cur)
  BY DEF Doc, Flushed, DocOf, IsUnseen

LEMMA TrimmedType ==
    ASSUME NEW lines \in Seq(ShownItems)
    PROVE  Trimmed(lines) \in Seq(ShownItems)
  <1>1. IsSeq(lines) /\ Range(lines) \subseteq ShownItems
    BY SeqIs
  <1>2. ASSUME NEW m \in 1..Len(lines), NEW n \in 1..Len(lines), Edges(lines, m, n)
        PROVE  Trimmed(lines) \in Seq(ShownItems)
    <2>1. Cuts(Trimmed(lines), lines, m, n)
      BY <1>1, <1>2, TrimmedTo
    <2>2. Trimmed(lines) \in Seq(Range(lines))
      BY <2>1 DEF Cuts
    <2>3. QED
      BY <1>1, <2>2, SeqMonotonic
  <1>3. <<>> \in Seq(ShownItems)
    OBVIOUS
  <1>4. QED
    BY <1>1, <1>2, <1>3, EdgesOrBlank

LEMMA ItemType ==
    ASSUME NEW c \in Changes \cup {Null}
    PROVE  AsItem(c) \in Seq(ShownItems)
  <1>1. c # Null => StrumItem(c) \in ShownItems
    BY DEF StrumItem, ShownItems
  <1>2. QED
    BY <1>1 DEF AsItem

LEMMA TextIs ==
    ASSUME NEW bs \in Seq(BlockSet), NEW b \in BlockSet
    PROVE  /\ DocOf(bs, b) \in Seq(BlockSet) /\ LinesOf(bs) \in Seq(ShownItems)
           /\ TextSoFar(bs, b) \in Seq(ShownItems) /\ HeldBy(b) \in Changes \cup {Null}
           /\ b.lines \in Seq(ShownItems) /\ Trimmed(b.lines) \in Seq(ShownItems)
           /\ b.strum \in Changes \cup {Null}
           /\ TextSoFar(bs, b) = IF IsUnseen(b) THEN LinesOf(bs)
                                 ELSE LinesOf(bs) \o (AsItem(b.strum) \o Trimmed(b.lines))
  <1>1. /\ b.lines \in Seq(ShownItems) /\ b.strum \in Changes \cup {Null}
        /\ b.kind \in EnvKinds \cup {"plain"} /\ b.label \in Labels \cup {Null, "Chorus"}
    BY DEF BlockSet
  <1>2. Trimmed(b.lines) \in Seq(ShownItems)
    BY <1>1, TrimmedType
  <1>3. PICK t : t = [b EXCEPT !.lines = Trimmed(b.lines)]
    OBVIOUS
  <1>4. t \in BlockSet /\ t.lines = Trimmed(b.lines) /\ t.strum = b.strum
    BY <1>2, <1>3 DEF BlockSet
  <1>5. /\ LinesOf(bs) \in Seq(ShownItems) /\ ItemsOf(t) \in Seq(ShownItems)
        /\ LinesOf(Append(bs, t)) = LinesOf(bs) \o ItemsOf(t)
    BY <1>4, LinesAppend
  <1>6. ItemsOf(t) = AsItem(b.strum) \o Trimmed(b.lines)
    BY <1>4 DEF ItemsOf, AsItem
  <1>7. DocOf(bs, b) = IF IsUnseen(b) THEN bs ELSE Append(bs, t)
    BY <1>3 DEF DocOf
  <1>8. Append(bs, t) \in Seq(BlockSet)
    BY <1>4, AppendProperties
  <1>9. LinesOf(bs) \o ItemsOf(t) \in Seq(ShownItems)
    BY <1>5, ConcatProperties
  <1>10. HeldBy(b) \in Changes \cup {Null}
    BY <1>1 DEF HeldBy
  <1>11. CASE IsUnseen(b)
    BY <1>1, <1>2, <1>5, <1>7, <1>10, <1>11 DEF TextSoFar
  <1>12. CASE ~IsUnseen(b)
    BY <1>1, <1>2, <1>5, <1>6, <1>7, <1>8, <1>9, <1>10, <1>12 DEF TextSoFar
  <1>13. QED
    BY <1>11, <1>12

\* A section that opens shows its change if it has a name.
Opened(kind, label, c) == [Block(kind, label) EXCEPT !.strum = c]
ShowsOpened(bs, label, c, b) ==
    /\ b \in BlockSet
    /\ TextSoFar(bs, b) = LinesOf(bs) \o AsItem(IF label = Null THEN Null ELSE c)
    /\ HeldBy(b) = IF label = Null THEN c ELSE Null

LEMMA OpenedShows ==
    ASSUME NEW bs \in Seq(BlockSet), NEW kind \in EnvKinds \cup {"plain"},
           NEW label \in Labels \cup {Null, "Chorus"}, NEW c \in Changes \cup {Null}
    PROVE  ShowsOpened(bs, label, c, Opened(kind, label, c))
  <1>0. PICK b : b = Opened(kind, label, c)
    OBVIOUS
  <1>1. b = [kind |-> kind, label |-> label, lines |-> <<>>, strum |-> c]
    BY <1>0 DEF Block, Opened
  <1>2. b \in BlockSet /\ b.lines = <<>> /\ b.label = label /\ b.strum = c
    <2>0. <<>> \in Seq(ShownItems)
      OBVIOUS
    <2>1. PICK none : none = <<>> /\ none \in Seq(ShownItems)
      BY <2>0
    <2>2. b = [kind |-> kind, label |-> label, lines |-> none, strum |-> c]
      BY <1>1, <2>1
    <2>3. b \in BlockSet
      <3>1. ASSUME NEW k \in EnvKinds \cup {"plain"}, NEW l \in Labels \cup {Null, "Chorus"},
                   NEW s \in Seq(ShownItems), NEW d \in Changes \cup {Null}
            PROVE  [kind |-> k, label |-> l, lines |-> s, strum |-> d] \in BlockSet
        BY DEF BlockSet
      <3>2. [kind |-> kind, label |-> label, lines |-> none, strum |-> c] \in BlockSet
        BY <2>1, <3>1, Zenon
      <3>3. QED
        BY <2>2, <3>2
    <2>4. QED
      BY <2>1, <2>2, <2>3
  <1>3. Trimmed(<<>>) = <<>>
    BY DEF Trimmed
  <1>4. IsUnseen(b) <=> label = Null
    BY <1>2, <1>3 DEF IsUnseen
  <1>5. /\ LinesOf(bs) \in Seq(ShownItems)
        /\ TextSoFar(bs, b) = IF IsUnseen(b) THEN LinesOf(bs)
                              ELSE LinesOf(bs) \o (AsItem(b.strum) \o Trimmed(b.lines))
    BY <1>2, TextIs
  <1>6. AsItem(c) \in Seq(ShownItems) /\ AsItem(Null) = <<>>
    BY ItemType DEF AsItem
  <1>7. AsItem(c) \o <<>> = AsItem(c) /\ LinesOf(bs) \o <<>> = LinesOf(bs)
    BY <1>5, <1>6, ConcatEmptySeq
  <1>8. CASE label = Null
    <2>1. (IF label = Null THEN Null ELSE c) = Null
      BY <1>8
    <2>2. TextSoFar(bs, b) = LinesOf(bs) \o AsItem(Null) /\ HeldBy(b) = c
      BY <1>2, <1>4, <1>5, <1>6, <1>7, <1>8 DEF HeldBy
    <2>3. ShowsOpened(bs, label, c, b)
      BY <1>2, <1>8, <2>1, <2>2 DEF ShowsOpened
    <2>4. QED
      BY <1>0, <2>3
  <1>9. CASE label # Null
    <2>1. (IF label = Null THEN Null ELSE c) = c
      BY <1>9
    <2>2. TextSoFar(bs, b) = LinesOf(bs) \o AsItem(c) /\ HeldBy(b) = Null
      BY <1>2, <1>3, <1>4, <1>5, <1>6, <1>7, <1>9 DEF HeldBy
    <2>3. ShowsOpened(bs, label, c, b)
      BY <1>2, <1>9, <2>1, <2>2 DEF ShowsOpened
    <2>4. QED
      BY <1>0, <2>3
  <1>10. QED
    BY <1>8, <1>9

LEMMA BlankText ==
    ASSUME NEW bs \in Seq(BlockSet), NEW b \in BlockSet,
           NEW c, c = [b EXCEPT !.lines = Append(b.lines, BLANK)]
    PROVE  c \in BlockSet /\ TextSoFar(bs, c) = TextSoFar(bs, b) /\ HeldBy(c) = HeldBy(b)
  <1>1. b.lines \in Seq(ShownItems) /\ BLANK \in ShownItems
    BY DEF BlockSet, ShownItems
  <1>2. Append(b.lines, BLANK) \in Seq(ShownItems)
    BY <1>1, AppendProperties
  <1>3. /\ c \in BlockSet /\ c.lines = Append(b.lines, BLANK)
        /\ c.strum = b.strum /\ c.label = b.label
    BY <1>2 DEF BlockSet
  <1>4. Trimmed(c.lines) = Trimmed(b.lines)
    BY <1>1, <1>3, TrimmedBlank
  <1>5. (IsUnseen(c) <=> IsUnseen(b)) /\ HeldBy(c) = HeldBy(b)
    BY <1>3, <1>4 DEF IsUnseen, HeldBy
  <1>6. TextSoFar(bs, c) = IF IsUnseen(c) THEN LinesOf(bs)
                           ELSE LinesOf(bs) \o (AsItem(c.strum) \o Trimmed(c.lines))
    BY <1>3, TextIs
  <1>7. TextSoFar(bs, b) = IF IsUnseen(b) THEN LinesOf(bs)
                           ELSE LinesOf(bs) \o (AsItem(b.strum) \o Trimmed(b.lines))
    BY TextIs
  <1>8. QED
    BY <1>3, <1>4, <1>5, <1>6, <1>7

\* Blank lines at the end of a block, the last one after one that is not.
EndsBlank(lines) ==
    Len(lines) > 1 /\ lines[Len(lines)] = BLANK /\ lines[Len(lines) - 1] # BLANK

LEMMA Assoc ==
    ASSUME NEW S, NEW a, NEW b, NEW c, a \in Seq(S), b \in Seq(S), c \in Seq(S)
    PROVE  (a \o b) \o c = a \o (b \o c)
  BY ConcatAssociative

\* Brackets moved in a joined sequence.
AreSeqs(S, a, b, c, d, e) ==
    a \in Seq(S) /\ b \in Seq(S) /\ c \in Seq(S) /\ d \in Seq(S) /\ e \in Seq(S)
Regroups(a, b, c, d, e) ==
    /\ a \o (b \o ((c \o d) \o e)) = (((a \o (b \o c)) \o d) \o e)
    /\ a \o (b \o ((<<>> \o d) \o e)) = (((a \o b) \o d) \o e)

LEMMA AssocAll ==
    ASSUME NEW S, NEW a, NEW b, NEW c, NEW d, NEW e, AreSeqs(S, a, b, c, d, e)
    PROVE  Regroups(a, b, c, d, e)
  <1>0. a \in Seq(S) /\ b \in Seq(S) /\ c \in Seq(S) /\ d \in Seq(S) /\ e \in Seq(S)
    BY DEF AreSeqs
  <1>1. PICK ab, bc, de : ab = a \o b /\ bc = b \o c /\ de = d \o e
    OBVIOUS
  <1>2. ab \in Seq(S)
    BY <1>0, <1>1, ConcatProperties
  <1>20. bc \in Seq(S)
    BY <1>0, <1>1, ConcatProperties
  <1>21. de \in Seq(S)
    BY <1>0, <1>1, ConcatProperties
  <1>22. PICK abc : abc = a \o bc
    OBVIOUS
  <1>3. abc \in Seq(S)
    BY <1>0, <1>20, <1>22, ConcatProperties
  <1>4. (c \o d) \o e = c \o (d \o e)
    BY <1>0, Assoc
  <1>5. (b \o c) \o de = b \o (c \o de)
    BY <1>0, <1>21, Assoc
  <1>6. (a \o bc) \o de = a \o (bc \o de)
    BY <1>0, <1>20, <1>21, Assoc, SMTT(30)
  <1>7. (abc \o d) \o e = abc \o (d \o e)
    BY <1>0, <1>3, Assoc
  <1>8. <<>> \o d = d
    BY <1>0, ConcatEmptySeq
  <1>9. (ab \o d) \o e = ab \o (d \o e)
    BY <1>0, <1>2, Assoc
  <1>10. (a \o b) \o de = a \o (b \o de)
    BY <1>0, <1>21, Assoc
  <1>11. a \o (b \o ((c \o d) \o e)) = ((a \o (b \o c)) \o d) \o e
    BY <1>1, <1>22, <1>4, <1>5, <1>6, <1>7
  <1>12. a \o (b \o ((<<>> \o d) \o e)) = ((a \o b) \o d) \o e
    BY <1>1, <1>8, <1>9, <1>10
  <1>13. QED
    BY <1>11, <1>12 DEF Regroups

\* A line added to a block, after a change, and what is shown then.
AddedTo(bs, b, c, item, d) ==
    /\ d \in BlockSet /\ HeldBy(d) = Null
    /\ \E gap \in Seq({BLANK}) :
         /\ TextSoFar(bs, d) =
             (((TextSoFar(bs, b) \o AsItem(HeldBy(b))) \o gap) \o AsItem(c)) \o <<item>>
         /\ EndsBlank(b.lines) =>
             /\ Len(gap) = 1 /\ HeldBy(b) = Null /\ Len(TextSoFar(bs, b)) > 0
             /\ TextSoFar(bs, b)[Len(TextSoFar(bs, b))] = b.lines[Len(b.lines) - 1]

LEMMA AddedText ==
    ASSUME NEW bs \in Seq(BlockSet), NEW b \in BlockSet, NEW c \in Changes \cup {Null},
           NEW item \in ShownItems, item # BLANK,
           NEW d, d = [b EXCEPT !.lines = (b.lines \o AsItem(c)) \o <<item>>]
    PROVE  AddedTo(bs, b, c, item, d)
  <1>0. SUFFICES /\ d \in BlockSet /\ HeldBy(d) = Null
                 /\ \E gap \in Seq({BLANK}) :
                      /\ TextSoFar(bs, d) =
                          (((TextSoFar(bs, b) \o AsItem(HeldBy(b))) \o gap) \o AsItem(c)) \o <<item>>
                      /\ EndsBlank(b.lines) =>
                          /\ Len(gap) = 1 /\ HeldBy(b) = Null /\ Len(TextSoFar(bs, b)) > 0
                          /\ TextSoFar(bs, b)[Len(TextSoFar(bs, b))] = b.lines[Len(b.lines) - 1]
    BY DEF AddedTo
  <1>1. /\ b.lines \in Seq(ShownItems) /\ b.strum \in Changes \cup {Null}
        /\ LinesOf(bs) \in Seq(ShownItems) /\ Trimmed(b.lines) \in Seq(ShownItems)
        /\ AsItem(c) \in Seq(ShownItems) /\ AsItem(b.strum) \in Seq(ShownItems)
        /\ <<item>> \in Seq(ShownItems)
    <2>1. b.strum \in Changes \cup {Null}
      BY TextIs
    <2>2. AsItem(b.strum) \in Seq(ShownItems)
      BY <2>1, ItemType
    <2>3. AsItem(c) \in Seq(ShownItems)
      BY ItemType
    <2>4. QED
      BY <2>2, <2>3, TextIs
  <1>2. PICK tail : tail = AsItem(c) \o <<item>>
    OBVIOUS
  <1>3. /\ tail \in Seq(ShownItems) /\ tail # <<>>
        /\ tail[1] # BLANK /\ tail[Len(tail)] # BLANK
    <2>0. Len(<<item>>) = 1 /\ <<item>>[1] = item
      OBVIOUS
    <2>1. tail \in Seq(ShownItems)
      BY <1>1, <1>2, ConcatProperties
    <2>2. CASE c = Null
      <3>1. AsItem(c) = <<>> /\ <<>> \o <<item>> = <<item>>
        BY <1>1, <2>2, ConcatEmptySeq DEF AsItem
      <3>2. tail = <<item>>
        BY <1>2, <3>1
      <3>3. Len(tail) = 1 /\ tail[1] = item
        BY <2>0, <3>2
      <3>4. tail # <<>>
        <4>1. Len(<<>>) = 0
          OBVIOUS
        <4>2. Len(tail) # 0
          BY <3>3
        <4>3. QED
          BY <4>1, <4>2, Zenon
      <3>5. QED
        BY <2>1, <3>3, <3>4
    <2>3. CASE c # Null
      <3>1. AsItem(c) = <<StrumItem(c)>> /\ StrumItem(c) # BLANK
        BY <2>3 DEF AsItem, StrumItem, BLANK
      <3>2. Len(AsItem(c)) = 1 /\ AsItem(c)[1] # BLANK /\ Len(<<item>>) = 1
        BY <3>1
      <3>3. IsSeq(AsItem(c))
        BY <1>1, SeqIs
      <3>4. IsSeq(<<item>>)
        BY <1>1, SeqIs
      <3>5. /\ Len(AsItem(c) \o <<item>>) = Len(AsItem(c)) + Len(<<item>>)
            /\ \A i \in 1..Len(AsItem(c)) : (AsItem(c) \o <<item>>)[i] = AsItem(c)[i]
            /\ \A i \in 1..Len(<<item>>) :
                 (AsItem(c) \o <<item>>)[Len(AsItem(c)) + i] = <<item>>[i]
        BY <3>3, <3>4, Joined
      <3>6. Len(tail) = 2 /\ tail[1] = AsItem(c)[1] /\ tail[2] = item
        BY <1>2, <3>2, <3>5
      <3>7. tail # <<>> /\ tail[1] # BLANK /\ tail[2] # BLANK
        BY <3>2, <3>6
      <3>8. QED
        BY <2>1, <3>6, <3>7
    <2>4. QED
      BY <2>2, <2>3
  <1>4. (b.lines \o AsItem(c)) \o <<item>> = b.lines \o tail
    <2>1. PICK u, v, w : u = b.lines /\ v = AsItem(c) /\ w = <<item>>
      OBVIOUS
    <2>2. u \in Seq(ShownItems)
      BY <1>1, <2>1
    <2>20. v \in Seq(ShownItems)
      BY <1>1, <2>1
    <2>21. w \in Seq(ShownItems)
      BY <1>1, <2>1
    <2>3. (u \o v) \o w = u \o (v \o w)
      BY <2>2, <2>20, <2>21, ConcatAssociative
    <2>4. QED
      BY <1>2, <2>1, <2>3
  <1>5. PICK all : all = b.lines \o tail /\ all \in Seq(ShownItems)
    BY <1>1, <1>3, ConcatProperties
  <1>6. d \in BlockSet /\ d.lines = all /\ d.strum = b.strum /\ d.label = b.label
    BY <1>4, <1>5 DEF BlockSet
  <1>7. PICK gap \in Seq({BLANK}) :
            /\ Trimmed(all) = (Trimmed(b.lines) \o gap) \o tail
            /\ EndsBlank(b.lines) =>
                /\ Len(gap) = 1 /\ Len(Trimmed(b.lines)) > 0
                /\ Trimmed(b.lines)[Len(Trimmed(b.lines))] = b.lines[Len(b.lines) - 1]
    BY <1>1, <1>3, <1>5, TrimmedMore DEF EndsBlank
  <1>8. gap \in Seq(ShownItems)
    <2>1. {BLANK} \subseteq ShownItems
      BY DEF ShownItems
    <2>2. QED
      BY <2>1, SeqMonotonic
  <1>9. Trimmed(all) # <<>>
    <2>1. Trimmed(b.lines) \o gap \in Seq(ShownItems)
      BY <1>1, <1>8, ConcatProperties
    <2>2. QED
      BY <1>3, <1>7, <2>1, ConcatEqualIffEmpty
  <1>10. ~IsUnseen(d) /\ HeldBy(d) = Null
    BY <1>6, <1>9 DEF IsUnseen, HeldBy
  <1>11. TextSoFar(bs, d) = LinesOf(bs) \o (AsItem(b.strum) \o ((Trimmed(b.lines) \o gap) \o tail))
    <2>1. TextSoFar(bs, d) = IF IsUnseen(d) THEN LinesOf(bs)
                             ELSE LinesOf(bs) \o (AsItem(d.strum) \o Trimmed(d.lines))
      BY <1>6, TextIs
    <2>2. QED
      BY <1>6, <1>7, <1>10, <2>1
  <1>12. TextSoFar(bs, b) = IF IsUnseen(b) THEN LinesOf(bs)
                            ELSE LinesOf(bs) \o (AsItem(b.strum) \o Trimmed(b.lines))
    BY TextIs
  <1>13. ((TextSoFar(bs, b) \o AsItem(HeldBy(b))) \o gap) \o tail
            = ((((TextSoFar(bs, b) \o AsItem(HeldBy(b))) \o gap) \o AsItem(c)) \o <<item>>)
    <2>1. TextSoFar(bs, b) \in Seq(ShownItems) /\ HeldBy(b) \in Changes \cup {Null}
      BY TextIs
    <2>2. AsItem(HeldBy(b)) \in Seq(ShownItems)
      BY <2>1, ItemType
    <2>3. TextSoFar(bs, b) \o AsItem(HeldBy(b)) \in Seq(ShownItems)
      BY <2>1, <2>2, ConcatProperties
    <2>4. (TextSoFar(bs, b) \o AsItem(HeldBy(b))) \o gap \in Seq(ShownItems)
      BY <1>8, <2>3, ConcatProperties
    <2>5. PICK u, v, w : /\ u = (TextSoFar(bs, b) \o AsItem(HeldBy(b))) \o gap
                         /\ v = AsItem(c) /\ w = <<item>>
      OBVIOUS
    <2>6. u \in Seq(ShownItems)
      BY <2>4, <2>5
    <2>60. v \in Seq(ShownItems)
      BY <1>1, <2>5
    <2>61. w \in Seq(ShownItems)
      BY <1>1, <2>5
    <2>7. (u \o v) \o w = u \o (v \o w)
      BY <2>6, <2>60, <2>61, ConcatAssociative
    <2>8. QED
      BY <1>2, <2>5, <2>7
  <1>14. /\ LinesOf(bs) \o (AsItem(b.strum) \o ((Trimmed(b.lines) \o gap) \o tail))
              = (((LinesOf(bs) \o (AsItem(b.strum) \o Trimmed(b.lines))) \o gap) \o tail)
         /\ LinesOf(bs) \o (AsItem(b.strum) \o ((<<>> \o gap) \o tail))
              = (((LinesOf(bs) \o AsItem(b.strum)) \o gap) \o tail)
    <2>1. PICK v, w, s : v = LinesOf(bs) /\ w = AsItem(b.strum) /\ s = Trimmed(b.lines)
      OBVIOUS
    <2>2. v \in Seq(ShownItems) /\ w \in Seq(ShownItems) /\ s \in Seq(ShownItems)
      BY <1>1, <2>1
    <2>3. /\ v \o (w \o ((s \o gap) \o tail)) = (((v \o (w \o s)) \o gap) \o tail)
          /\ v \o (w \o ((<<>> \o gap) \o tail)) = (((v \o w) \o gap) \o tail)
      <3>1. tail \in Seq(ShownItems)
        BY <1>3
      <3>2. AreSeqs(ShownItems, v, w, s, gap, tail)
        BY <1>8, <2>2, <3>1 DEF AreSeqs
      <3>3. Regroups(v, w, s, gap, tail)
        BY <3>2, AssocAll
      <3>4. QED
        BY <3>3 DEF Regroups
    <2>4. QED
      BY <2>1, <2>3
  <1>15. CASE IsUnseen(b)
    <2>1. Trimmed(b.lines) = <<>> /\ HeldBy(b) = b.strum
      BY <1>15 DEF IsUnseen, HeldBy
    <2>2. TextSoFar(bs, d) = ((TextSoFar(bs, b) \o AsItem(HeldBy(b))) \o gap) \o tail
      BY <1>11, <1>12, <1>14, <1>15, <2>1
    <2>3. ~EndsBlank(b.lines)
      BY <1>7, <2>1
    <2>4. QED
      BY <1>6, <1>10, <1>13, <2>2, <2>3
  <1>16. CASE ~IsUnseen(b)
    <2>1. HeldBy(b) = Null /\ AsItem(Null) = <<>>
      BY <1>16 DEF HeldBy, AsItem
    <2>2. PICK text : text = LinesOf(bs) \o (AsItem(b.strum) \o Trimmed(b.lines))
      OBVIOUS
    <2>3. TextSoFar(bs, b) = text /\ text \in Seq(ShownItems)
      BY <1>12, <1>16, <2>2, TextIs
    <2>4. text \o <<>> = text
      BY <2>3, ConcatEmptySeq
    <2>5. TextSoFar(bs, d) = ((TextSoFar(bs, b) \o AsItem(HeldBy(b))) \o gap) \o tail
      BY <1>11, <1>14, <2>1, <2>2, <2>3, <2>4
    <2>6. EndsBlank(b.lines) => Len(text) > 0 /\ text[Len(text)] = b.lines[Len(b.lines) - 1]
      <3>1. PICK t, p, q : t = Trimmed(b.lines) /\ p = AsItem(b.strum) \o t /\ q = LinesOf(bs)
        OBVIOUS
      <3>2. IsSeq(t)
        BY <1>1, <3>1, SeqIs
      <3>3. IsSeq(AsItem(b.strum))
        BY <1>1, SeqIs
      <3>4. /\ IsSeq(p) /\ Len(p) = Len(AsItem(b.strum)) + Len(t) /\ Len(t) \in Nat
            /\ Len(AsItem(b.strum)) \in Nat
            /\ \A i \in 1..Len(t) : p[Len(AsItem(b.strum)) + i] = t[i]
        BY <3>1, <3>2, <3>3, Joined
      <3>5. IsSeq(q)
        BY <1>1, <3>1, SeqIs
      <3>6. /\ Len(text) = Len(q) + Len(p) /\ Len(q) \in Nat
            /\ \A i \in 1..Len(p) : text[Len(q) + i] = p[i]
        BY <2>2, <3>1, <3>4, <3>5, Joined
      <3>7. PICK k, m, n : k = Len(AsItem(b.strum)) /\ m = Len(t) /\ n = Len(q)
        OBVIOUS
      <3>8. /\ k \in Nat /\ m \in Nat /\ n \in Nat /\ Len(p) = k + m /\ Len(text) = n + (k + m)
            /\ (\A i \in 1..m : p[k + i] = t[i]) /\ \A i \in 1..(k + m) : text[n + i] = p[i]
        BY <3>4, <3>6, <3>7
      <3>9. SUFFICES ASSUME EndsBlank(b.lines)
                     PROVE  Len(text) > 0 /\ text[Len(text)] = b.lines[Len(b.lines) - 1]
        OBVIOUS
      <3>10. m > 0 /\ t[m] = b.lines[Len(b.lines) - 1]
        BY <1>7, <3>1, <3>7, <3>9
      <3>11. m \in 1..m /\ k + m \in 1..(k + m) /\ n + (k + m) > 0
        BY <3>8, <3>10
      <3>12. QED
        BY <3>8, <3>10, <3>11
    <2>7. QED
      BY <1>6, <1>7, <1>10, <1>13, <2>1, <2>3, <2>5, <2>6
  <1>17. QED
    BY <1>15, <1>16

-----------------------------------------------------------------------------
(* What is shown, in order. *)

\* The line of the text that an item comes from.
LineOf(z) == IF z.is = "strum" THEN z.change.line ELSE z.line

\* Those of some kinds are in the order of the text.
InOrder(t, kinds) ==
    \A i, j \in 1..Len(t) :
        i < j /\ t[i].is \in kinds /\ t[j].is \in kinds => LineOf(t[i]) < LineOf(t[j])

\* They all come before a line.
Ahead(t, kinds, m) == \A z \in Range(t) : z.is \in kinds => LineOf(z) < m

LEMMA JoinRange ==
    ASSUME NEW t, NEW e, IsSeq(t), IsSeq(e)
    PROVE  Range(t \o e) = Range(t) \cup Range(e)
  <1>1. PICK u, m, n : u = t \o e /\ m = Len(t) /\ n = Len(e)
    OBVIOUS
  <1>2. /\ m \in Nat /\ n \in Nat /\ DOMAIN u = 1..(m + n)
        /\ (\A i \in 1..m : u[i] = t[i]) /\ \A i \in 1..n : u[m + i] = e[i]
    BY <1>1, Joined
  <1>3. DOMAIN t = 1..m /\ DOMAIN e = 1..n
    BY <1>1, SeqIs DEF IsSeq
  <1>4. ASSUME NEW z \in Range(u) PROVE z \in Range(t) \cup Range(e)
    <2>1. PICK i \in 1..(m + n) : z = u[i]
      BY <1>2, <1>4 DEF Range
    <2>2. CASE i <= m
      <3>1. i \in 1..m
        BY <1>2, <2>2
      <3>2. QED
        BY <1>2, <1>3, <2>1, <3>1 DEF Range
    <2>3. CASE ~(i <= m)
      <3>1. PICK k : k = i - m
        OBVIOUS
      <3>2. k \in 1..n /\ m + k = i
        BY <1>2, <2>3, <3>1
      <3>3. QED
        BY <1>2, <1>3, <2>1, <3>2 DEF Range
    <2>4. QED
      BY <2>2, <2>3
  <1>5. ASSUME NEW z \in Range(t) PROVE z \in Range(u)
    <2>1. PICK i \in 1..m : z = t[i]
      BY <1>3, <1>5 DEF Range
    <2>2. i \in 1..(m + n)
      BY <1>2
    <2>3. QED
      BY <1>2, <2>1, <2>2 DEF Range
  <1>6. ASSUME NEW z \in Range(e) PROVE z \in Range(u)
    <2>1. PICK i \in 1..n : z = e[i]
      BY <1>3, <1>6 DEF Range
    <2>2. m + i \in 1..(m + n)
      BY <1>2
    <2>3. QED
      BY <1>2, <2>1, <2>2 DEF Range
  <1>7. QED
    BY <1>1, <1>4, <1>5, <1>6

LEMMA JoinOrder ==
    ASSUME NEW t, NEW e, IsSeq(t), IsSeq(e), NEW kinds, InOrder(t, kinds), InOrder(e, kinds),
           \A z \in Range(t), y \in Range(e) :
                z.is \in kinds /\ y.is \in kinds => LineOf(z) < LineOf(y)
    PROVE  InOrder(t \o e, kinds)
  <1>1. PICK u, m, n : u = t \o e /\ m = Len(t) /\ n = Len(e)
    OBVIOUS
  <1>2. /\ m \in Nat /\ n \in Nat /\ Len(u) = m + n
        /\ (\A i \in 1..m : u[i] = t[i]) /\ \A i \in 1..n : u[m + i] = e[i]
    BY <1>1, Joined
  <1>3. (\A i \in 1..m : t[i] \in Range(t)) /\ \A i \in 1..n : e[i] \in Range(e)
    BY <1>1, SeqIs DEF IsSeq
  <1>4. ASSUME NEW i \in 1..(m + n), NEW j \in 1..(m + n), i < j,
               u[i].is \in kinds, u[j].is \in kinds
        PROVE  LineOf(u[i]) < LineOf(u[j])
    <2>1. CASE j <= m
      <3>1. i \in 1..m /\ j \in 1..m
        BY <1>2, <1>4, <2>1
      <3>2. u[i] = t[i] /\ u[j] = t[j]
        BY <1>2, <3>1
      <3>3. QED
        BY <1>1, <1>4, <3>1, <3>2 DEF InOrder
    <2>2. CASE i <= m /\ ~(j <= m)
      <3>1. PICK k : k = j - m
        OBVIOUS
      <3>2. k \in 1..n /\ m + k = j /\ i \in 1..m
        BY <1>2, <2>2, <3>1
      <3>3. u[i] = t[i] /\ u[j] = e[k]
        BY <1>2, <3>2
      <3>4. QED
        BY <1>3, <1>4, <3>2, <3>3
    <2>3. CASE ~(i <= m)
      <3>1. PICK k, l : k = i - m /\ l = j - m
        OBVIOUS
      <3>2. k \in 1..n /\ l \in 1..n /\ m + k = i /\ m + l = j /\ k < l
        BY <1>2, <1>4, <2>3, <3>1
      <3>3. u[i] = e[k] /\ u[j] = e[l]
        BY <1>2, <3>2
      <3>4. QED
        BY <1>1, <1>4, <3>2, <3>3 DEF InOrder
    <2>4. QED
      BY <1>4, <2>1, <2>2, <2>3
  <1>5. QED
    BY <1>1, <1>2, <1>4 DEF InOrder

\* One more, or none, or blank lines.
LEMMA OneMore ==
    ASSUME NEW z
    PROVE  /\ IsSeq(<<z>>) /\ Range(<<z>>) = {z} /\ \A kinds : InOrder(<<z>>, kinds)
           /\ IsSeq(<<>>) /\ Range(<<>>) = {} /\ \A kinds : InOrder(<<>>, kinds)
  <1>1. IsSeq(<<z>>) /\ Len(<<z>>) = 1 /\ <<z>>[1] = z
    BY OneIs
  <1>2. DOMAIN <<z>> = 1..1
    BY <1>1, SeqIs DEF IsSeq
  <1>3. Range(<<z>>) = {z}
    BY <1>1, <1>2 DEF Range
  <1>4. \A i, j \in 1..1 : ~(i < j)
    OBVIOUS
  <1>5. \A kinds : InOrder(<<z>>, kinds)
    BY <1>1, <1>4 DEF InOrder
  <1>6. IsSeq(<<>>) /\ Range(<<>>) = {} /\ Len(<<>>) = 0
    <2>1. <<>> \in Seq({z}) /\ Len(<<>>) = 0 /\ DOMAIN <<>> = {}
      OBVIOUS
    <2>2. IsSeq(<<>>)
      BY <2>1, SeqIs
    <2>3. Range(<<>>) = {}
      BY <2>1 DEF Range
    <2>4. QED
      BY <2>1, <2>2, <2>3
  <1>7. \A kinds : InOrder(<<>>, kinds)
    BY <1>6 DEF InOrder
  <1>8. QED
    BY <1>1, <1>3, <1>5, <1>6, <1>7

\* A sequence begins another.
Prefix(t, u) == Len(t) <= Len(u) /\ \A i \in 1..Len(t) : u[i] = t[i]

LEMMA JoinPrefix ==
    ASSUME NEW t, NEW e, IsSeq(t), IsSeq(e)
    PROVE  Prefix(t, t \o e) /\ Len(t) \in Nat
  <1>1. PICK u, m, n : u = t \o e /\ m = Len(t) /\ n = Len(e)
    OBVIOUS
  <1>2. m \in Nat /\ n \in Nat /\ Len(u) = m + n /\ \A i \in 1..m : u[i] = t[i]
    BY <1>1, Joined
  <1>3. QED
    BY <1>1, <1>2 DEF Prefix

\* A change after the lines so far.
ChangeAdded(t, c, u) ==
    /\ u \in Seq(ShownItems) /\ Prefix(t, u)
    /\ Range(u) = Range(t) \cup (IF c = Null THEN {} ELSE {StrumItem(c)})
    /\ \A kinds : /\ InOrder(t, kinds)
                  /\ "strum" \in kinds /\ c # Null => Ahead(t, kinds, c.line)
                  => InOrder(u, kinds)

LEMMA AddChange ==
    ASSUME NEW t \in Seq(ShownItems), NEW c \in Changes \cup {Null}, NEW u, u = t \o AsItem(c)
    PROVE  ChangeAdded(t, c, u)
  <1>1. AsItem(c) \in Seq(ShownItems)
    BY ItemType
  <1>2. IsSeq(t)
    BY SeqIs
  <1>3. IsSeq(AsItem(c))
    BY <1>1, SeqIs
  <1>4. Range(AsItem(c)) = IF c = Null THEN {} ELSE {StrumItem(c)}
    BY OneMore DEF AsItem
  <1>5. \A kinds : InOrder(AsItem(c), kinds)
    BY OneMore DEF AsItem
  <1>6. u \in Seq(ShownItems)
    BY <1>1, ConcatProperties
  <1>7. Prefix(t, u)
    BY <1>2, <1>3, JoinPrefix
  <1>8. Range(u) = Range(t) \cup Range(AsItem(c))
    BY <1>2, <1>3, JoinRange
  <1>9. ASSUME NEW kinds, InOrder(t, kinds),
               "strum" \in kinds /\ c # Null => Ahead(t, kinds, c.line)
        PROVE  InOrder(u, kinds)
    <2>1. ASSUME NEW z \in Range(t), NEW y \in Range(AsItem(c)), z.is \in kinds, y.is \in kinds
          PROVE  LineOf(z) < LineOf(y)
      <3>1. c # Null /\ y = StrumItem(c)
        BY <1>4, <2>1
      <3>2. y.is = "strum" /\ LineOf(y) = c.line
        BY <3>1 DEF StrumItem, LineOf
      <3>3. QED
        BY <1>9, <2>1, <3>1, <3>2 DEF Ahead
    <2>2. InOrder(AsItem(c), kinds)
      BY <1>5
    <2>3. InOrder(t \o AsItem(c), kinds)
      BY <1>2, <1>3, <1>9, <2>1, <2>2, JoinOrder
    <2>4. QED
      BY <2>3
  <1>10. QED
    BY <1>4, <1>6, <1>7, <1>8, <1>9 DEF ChangeAdded

LEMMA AddBlanks ==
    ASSUME NEW t \in Seq(ShownItems), NEW gap \in Seq({BLANK}), NEW u, u = t \o gap
    PROVE  /\ u \in Seq(ShownItems) /\ Prefix(t, u)
           /\ Range(t) \subseteq Range(u) /\ Range(u) \subseteq Range(t) \cup {BLANK}
           /\ \A kinds : "blank" \notin kinds /\ InOrder(t, kinds) => InOrder(u, kinds)
  <1>1. gap \in Seq(ShownItems)
    <2>1. {BLANK} \subseteq ShownItems
      BY DEF ShownItems
    <2>2. QED
      BY <2>1, SeqMonotonic
  <1>2. IsSeq(t)
    BY SeqIs
  <1>3. IsSeq(gap) /\ Range(gap) \subseteq {BLANK}
    BY SeqIs
  <1>4. u \in Seq(ShownItems)
    BY <1>1, ConcatProperties
  <1>5. Prefix(t, u)
    BY <1>2, <1>3, JoinPrefix
  <1>6. Range(u) = Range(t) \cup Range(gap)
    BY <1>2, <1>3, JoinRange
  <1>7. ASSUME NEW kinds, "blank" \notin kinds, InOrder(t, kinds)
        PROVE  InOrder(u, kinds)
    <2>1. \A y \in Range(gap) : y.is \notin kinds
      BY <1>3, <1>7 DEF BLANK
    <2>2. InOrder(gap, kinds)
      <3>1. \A i \in 1..Len(gap) : gap[i] \in Range(gap)
        BY SeqIs
      <3>2. QED
        BY <2>1, <3>1 DEF InOrder
    <2>3. \A z \in Range(t), y \in Range(gap) :
                z.is \in kinds /\ y.is \in kinds => LineOf(z) < LineOf(y)
      BY <2>1
    <2>4. InOrder(t \o gap, kinds)
      BY <1>2, <1>3, <1>7, <2>2, <2>3, JoinOrder
    <2>5. QED
      BY <2>4
  <1>8. QED
    BY <1>3, <1>4, <1>5, <1>6, <1>7

LEMMA AddLine ==
    ASSUME NEW t \in Seq(ShownItems), NEW z \in ShownItems, z.is # "strum",
           NEW u, u = t \o <<z>>
    PROVE  /\ u \in Seq(ShownItems) /\ Prefix(t, u) /\ Range(u) = Range(t) \cup {z}
           /\ \A kinds : InOrder(t, kinds) /\ Ahead(t, kinds, z.line) => InOrder(u, kinds)
  <1>1. <<z>> \in Seq(ShownItems)
    OBVIOUS
  <1>2. IsSeq(t)
    BY SeqIs
  <1>3. IsSeq(<<z>>) /\ Range(<<z>>) = {z} /\ \A kinds : InOrder(<<z>>, kinds)
    BY OneMore
  <1>4. u \in Seq(ShownItems)
    BY <1>1, ConcatProperties
  <1>5. Prefix(t, u)
    BY <1>2, <1>3, JoinPrefix
  <1>6. Range(u) = Range(t) \cup Range(<<z>>)
    BY <1>2, <1>3, JoinRange
  <1>7. ASSUME NEW kinds, InOrder(t, kinds), Ahead(t, kinds, z.line)
        PROVE  InOrder(u, kinds)
    <2>1. ASSUME NEW y \in Range(t), NEW v \in Range(<<z>>), y.is \in kinds, v.is \in kinds
          PROVE  LineOf(y) < LineOf(v)
      <3>1. LineOf(v) = z.line
        BY <1>3 DEF LineOf
      <3>2. QED
        BY <1>7, <2>1, <3>1 DEF Ahead
    <2>2. InOrder(<<z>>, kinds)
      BY <1>3
    <2>3. InOrder(t \o <<z>>, kinds)
      BY <1>2, <1>3, <1>7, <2>1, <2>2, JoinOrder
    <2>4. QED
      BY <2>3
  <1>8. QED
    BY <1>3, <1>4, <1>5, <1>6, <1>7

\* What a line adds to what is shown: the change that its block holds, the
\* blank lines before it, the change that waits, and itself.
Adds(t, h, f, z, u) ==
    \E gap \in Seq({BLANK}) : u = (((t \o AsItem(h)) \o gap) \o AsItem(f)) \o <<z>>

\* In the order of the text, so far and with these.
Follows(t, h, f, z, kinds) ==
    /\ "blank" \notin kinds /\ InOrder(t, kinds) /\ Ahead(t, kinds, z.line)
    /\ "strum" \in kinds =>
        /\ h # Null => Ahead(t, kinds, h.line) /\ h.line < z.line
        /\ f # Null => Ahead(t, kinds, f.line) /\ f.line < z.line
        /\ h # Null /\ f # Null => h.line < f.line

AllAdded(t, h, f, z, u) ==
    /\ u \in Seq(ShownItems) /\ Prefix(t, u)
    /\ Range(t) \subseteq Range(u) /\ z \in Range(u)
    /\ \A c \in {h, f} \ {Null} : StrumItem(c) \in Range(u)
    /\ \A y \in Range(u) : \/ y \in Range(t) \cup {BLANK, z}
                           \/ \E c \in {h, f} \ {Null} : y = StrumItem(c)
    /\ \A kinds : Follows(t, h, f, z, kinds) => InOrder(u, kinds)

LEMMA AddsAll ==
    ASSUME NEW t \in Seq(ShownItems), NEW h \in Changes \cup {Null}, NEW f \in Changes \cup {Null},
           NEW z \in ShownItems, z.is # "strum", NEW u, Adds(t, h, f, z, u)
    PROVE  AllAdded(t, h, f, z, u)
  <1>1. PICK gap \in Seq({BLANK}) : u = (((t \o AsItem(h)) \o gap) \o AsItem(f)) \o <<z>>
    BY DEF Adds
  <1>2. PICK a, b, c : a = t \o AsItem(h) /\ b = a \o gap /\ c = b \o AsItem(f)
    OBVIOUS
  <1>3. u = c \o <<z>>
    BY <1>1, <1>2
  <1>4. /\ a \in Seq(ShownItems) /\ Prefix(t, a)
        /\ Range(a) = Range(t) \cup (IF h = Null THEN {} ELSE {StrumItem(h)})
        /\ \A kinds : /\ InOrder(t, kinds)
                      /\ "strum" \in kinds /\ h # Null => Ahead(t, kinds, h.line)
                      => InOrder(a, kinds)
    <2>1. ChangeAdded(t, h, a)
      BY <1>2, AddChange
    <2>2. QED
      BY <2>1, Zenon DEF ChangeAdded
  <1>5. /\ b \in Seq(ShownItems) /\ Prefix(a, b)
        /\ Range(a) \subseteq Range(b) /\ Range(b) \subseteq Range(a) \cup {BLANK}
        /\ \A kinds : "blank" \notin kinds /\ InOrder(a, kinds) => InOrder(b, kinds)
    BY <1>2, <1>4, AddBlanks
  <1>6. /\ c \in Seq(ShownItems) /\ Prefix(b, c)
        /\ Range(c) = Range(b) \cup (IF f = Null THEN {} ELSE {StrumItem(f)})
        /\ \A kinds : /\ InOrder(b, kinds)
                      /\ "strum" \in kinds /\ f # Null => Ahead(b, kinds, f.line)
                      => InOrder(c, kinds)
    <2>1. ChangeAdded(b, f, c)
      BY <1>2, <1>5, AddChange
    <2>2. QED
      BY <2>1, Zenon DEF ChangeAdded
  <1>7. /\ u \in Seq(ShownItems) /\ Prefix(c, u) /\ Range(u) = Range(c) \cup {z}
        /\ \A kinds : InOrder(c, kinds) /\ Ahead(c, kinds, z.line) => InOrder(u, kinds)
    BY <1>3, <1>6, AddLine
  <1>8. Prefix(t, u)
    <2>1. PICK l, m, n, o, p : l = Len(t) /\ m = Len(a) /\ n = Len(b) /\ o = Len(c) /\ p = Len(u)
      OBVIOUS
    <2>2. l \in Nat /\ m \in Nat /\ n \in Nat /\ o \in Nat /\ p \in Nat
      BY <1>4, <1>5, <1>6, <1>7, <2>1
    <2>3. l <= m /\ m <= n /\ n <= o /\ o <= p
      BY <1>4, <1>5, <1>6, <1>7, <2>1 DEF Prefix
    <2>4. ASSUME NEW i \in 1..l PROVE u[i] = t[i]
      <3>1. i \in 1..m /\ i \in 1..n /\ i \in 1..o
        BY <2>2, <2>3
      <3>2. a[i] = t[i] /\ b[i] = a[i]
        BY <1>4, <1>5, <2>1, <3>1 DEF Prefix
      <3>3. c[i] = b[i] /\ u[i] = c[i]
        BY <1>6, <1>7, <2>1, <3>1 DEF Prefix
      <3>4. QED
        BY <3>2, <3>3
    <2>5. l <= p
      BY <2>2, <2>3
    <2>6. QED
      BY <2>1, <2>4, <2>5 DEF Prefix
  <1>9. Range(t) \subseteq Range(u) /\ z \in Range(u)
    BY <1>4, <1>5, <1>6, <1>7
  <1>10. \A d \in {h, f} \ {Null} : StrumItem(d) \in Range(u)
    BY <1>4, <1>5, <1>6, <1>7
  <1>11. \A y \in Range(u) : \/ y \in Range(t) \cup {BLANK, z}
                             \/ \E d \in {h, f} \ {Null} : y = StrumItem(d)
    BY <1>4, <1>5, <1>6, <1>7
  <1>12. ASSUME NEW kinds, Follows(t, h, f, z, kinds) PROVE InOrder(u, kinds)
    <2>1. /\ "blank" \notin kinds /\ InOrder(t, kinds) /\ Ahead(t, kinds, z.line)
          /\ "strum" \in kinds /\ h # Null => Ahead(t, kinds, h.line) /\ h.line < z.line
          /\ "strum" \in kinds /\ f # Null => Ahead(t, kinds, f.line) /\ f.line < z.line
          /\ "strum" \in kinds /\ h # Null /\ f # Null => h.line < f.line
      BY <1>12 DEF Follows
    <2>2. InOrder(b, kinds)
      BY <1>4, <1>5, <2>1
    <2>3. ASSUME NEW m, Ahead(t, kinds, m), "strum" \in kinds /\ h # Null => h.line < m
          PROVE  Ahead(b, kinds, m)
      <3>1. ASSUME NEW y \in Range(b), y.is \in kinds PROVE LineOf(y) < m
        <4>1. y \in Range(t) \/ y = BLANK \/ (h # Null /\ y = StrumItem(h))
          BY <1>4, <1>5
        <4>2. y # BLANK
          BY <2>1, <3>1 DEF BLANK
        <4>3. h # Null /\ y = StrumItem(h) => y.is = "strum" /\ LineOf(y) = h.line
          BY DEF StrumItem, LineOf
        <4>4. QED
          BY <2>3, <3>1, <4>1, <4>2, <4>3 DEF Ahead
      <3>2. QED
        BY <3>1 DEF Ahead
    <2>4. "strum" \in kinds /\ f # Null => Ahead(b, kinds, f.line)
      BY <2>1, <2>3
    <2>5. InOrder(c, kinds)
      BY <1>6, <2>2, <2>4
    <2>6. Ahead(b, kinds, z.line)
      BY <2>1, <2>3
    <2>7. Ahead(c, kinds, z.line)
      <3>1. ASSUME NEW y \in Range(c), y.is \in kinds PROVE LineOf(y) < z.line
        <4>1. y \in Range(b) \/ (f # Null /\ y = StrumItem(f))
          BY <1>6
        <4>2. f # Null /\ y = StrumItem(f) => y.is = "strum" /\ LineOf(y) = f.line
          BY DEF StrumItem, LineOf
        <4>3. QED
          BY <2>1, <2>6, <3>1, <4>1, <4>2 DEF Ahead
      <3>2. QED
        BY <3>1 DEF Ahead
    <2>8. QED
      BY <1>7, <2>5, <2>7
  <1>13. QED
    BY <1>7, <1>8, <1>9, <1>10, <1>11, <1>12 DEF AllAdded

-----------------------------------------------------------------------------
(* The types of what is read, and what each line does. *)

Sectioners == {"start", "end", "header", "chorus_ref"}
SourceLines ==
    [is : {"strum"}, once : BOOLEAN, name : Names \cup {Null}, pattern : Patterns \cup {Null}]
    \cup [is : {"start"}, kind : EnvKinds] \cup [is : {"lyrics"}, chords : Nat]
    \cup [is : {"end", "comment", "chorus_ref", "skipped", "tab", "header", "blank"}]

\* The types of the parser's state.
ChartTypes ==
    /\ source \in Seq(SourceLines) /\ Len(source) <= MaxLines
    /\ blocks \in Seq(BlockSet) /\ cur \in BlockSet
    /\ inEnv \in BOOLEAN /\ started \in BOOLEAN
    /\ named \in [Names -> Patterns \cup {Null}]
    /\ strum \in Changes \cup {Null} /\ pending \in Changes \cup {Null}

\* What is shown if the text ends here, and the change of the section being
\* read, as long as that shows nothing.
ChartText == TextSoFar(blocks, cur)
Held == HeldBy(cur)

\* The line that was read, and whether the song has started with it.
HeaderKinds == {"strum", "skipped", "blank"}
Reads(line) ==
    /\ line \in SourceLines /\ Len(source) < MaxLines
    /\ source' = Append(source, line)
    /\ started' = (started \/ line.is \notin HeaderKinds)
    /\ ~started' => blocks' = blocks /\ pending' = pending

\* Shows the same.
Still == ChartText' = ChartText /\ Held' = Held

\* A line that shows nothing.
Quiet(line) ==
    /\ line.is \in {"skipped", "blank"}
    /\ Still /\ UNCHANGED <<named, strum, pending>>

\* A section: its change is shown, or waits with it, or waits on.
Opens(line) ==
    /\ line.is \in Sectioners
    /\ \/ ChartText' = ChartText \o AsItem(pending) /\ Held' = Null /\ pending' = Null
       \/ ChartText' = ChartText /\ Held' = pending /\ pending' = Null
       \/ ChartText' = ChartText /\ Held' = Null /\ pending' = pending
    /\ UNCHANGED <<named, strum>>

\* The blank line at the end of a block is shown before the line to come.
KeepsBlank(t, u, lines) ==
    /\ Len(t) \in 1..Len(u) /\ Len(t) + 1 \in 1..Len(u)
    /\ u[Len(t)] = lines[Len(lines) - 1] /\ u[Len(t) + 1] = BLANK

\* A line that is shown: what waits comes before it, if it takes that.
Puts(line, z, c) ==
    /\ z \in ShownItems /\ z.line = Len(source) + 1
    /\ \/ line.is \in {"lyrics", "comment", "tab"} /\ z.is = line.is
       \/ line.is = "header" /\ z.is = "comment"
    /\ line.is = "lyrics" => z.chords = line.chords
    /\ \/ c = pending /\ pending' = Null
       \/ c = Null /\ pending' = pending /\ line.is \in {"tab", "header"}
    /\ Adds(ChartText, Held, c, z, ChartText') /\ Held' = Null
    /\ EndsBlank(cur.lines) => KeepsBlank(ChartText, ChartText', cur.lines)
    /\ UNCHANGED <<named, strum>>

\* An environment starts the song.
EnvStarts == inEnv => started

\* The first two things of every action: its line is read, and the state
\* keeps its types.
LEMMA LineTypes ==
    /\ \A once \in BOOLEAN, name \in Names \cup {Null}, pattern \in Patterns \cup {Null} :
        [is |-> "strum", once |-> once, name |-> name, pattern |-> pattern] \in SourceLines
    /\ \A kind \in EnvKinds : [is |-> "start", kind |-> kind] \in SourceLines
    /\ \A n \in Nat : [is |-> "lyrics", chords |-> n] \in SourceLines
    /\ \A is \in {"end", "comment", "chorus_ref", "skipped", "tab", "header", "blank"} :
        [is |-> is] \in SourceLines
    /\ BLANK \in SourceLines
  BY DEF SourceLines, BLANK

LEMMA NoChange == Null \notin Changes
  BY ChartsAssumption DEF Changes

LEMMA XStrumStep ==
    ASSUME ChartTypes, EnvStarts, NEW once \in BOOLEAN, NEW name \in Names \cup {Null},
           NEW pattern \in Patterns \cup {Null}, name # Null \/ pattern # Null,
           XStrum(once, name, pattern)
    PROVE  /\ ChartTypes' /\ Still
           /\ Reads([is |-> "strum", once |-> once, name |-> name, pattern |-> pattern])
  <1> DEFINE line == [is |-> "strum", once |-> once, name |-> name, pattern |-> pattern]
             p == IF pattern = Null THEN named[name] ELSE pattern
             change == [name |-> name, pattern |-> p, once |-> once, line |-> Len(source) + 1]
             noted == \E i \in DOMAIN strums : IF name # Null THEN strums[i][1] = name
                                               ELSE strums[i] = <<Null, p>>
             first == ~once /\ (strum = Null \/ pattern = Null \/ name = Null)
  <1>1. /\ Len(source) < MaxLines /\ source' = Append(source, line)
        /\ IF p = Null THEN UNCHANGED <<named, strums, strum, pending>>
           ELSE /\ named' = IF name # Null THEN [named EXCEPT ![name] = p] ELSE named
                /\ strums' = IF once \/ noted THEN strums ELSE Append(strums, <<name, p>>)
                /\ pending' = IF started THEN change ELSE pending
                /\ strum' = IF ~started /\ first THEN change ELSE strum
        /\ UNCHANGED <<blocks, cur, inEnv, started>>
    BY Zenon DEF XStrum, Read
  <1>2. line \in SourceLines /\ line.is = "strum"
    BY LineTypes
  <1>3. p # Null => p \in Patterns
    <2>1. pattern = Null => name \in Names /\ named[name] \in Patterns \cup {Null}
      BY DEF ChartTypes
    <2>2. QED
      BY <2>1
  <1>4. p # Null => change \in Changes
    <2>1. Len(source) + 1 \in 1..MaxLines
      BY <1>1, ChartsAssumption DEF ChartTypes
    <2>2. QED
      BY <1>3, <2>1 DEF Changes
  <1>5. /\ p # Null => named' \in [Names -> Patterns \cup {Null}]
        /\ p = Null => named' = named
    <2>1. named \in [Names -> Patterns \cup {Null}]
      BY DEF ChartTypes
    <2>2. p # Null => named' = IF name # Null THEN [named EXCEPT ![name] = p] ELSE named
      BY <1>1
    <2> HIDE DEF p
    <2>3. QED
      BY <1>1, <1>3, <2>1, <2>2
  <1> HIDE DEF line, p, change, noted, first
  <1>6. ChartTypes'
    <2>1. source' \in Seq(SourceLines) /\ Len(source') <= MaxLines
      BY <1>1, <1>2, ChartsAssumption, AppendProperties DEF ChartTypes
    <2>2. strum' \in Changes \cup {Null} /\ pending' \in Changes \cup {Null}
      BY <1>1, <1>4 DEF ChartTypes
    <2>3. named' \in [Names -> Patterns \cup {Null}]
      BY <1>5 DEF ChartTypes
    <2>4. blocks' = blocks /\ cur' = cur /\ inEnv' = inEnv /\ started' = started
      BY <1>1
    <2>5. QED
      BY <2>1, <2>2, <2>3, <2>4 DEF ChartTypes
  <1>7. Still
    BY <1>1 DEF Still, ChartText, Held
  <1>8. started' = (started \/ line.is \notin HeaderKinds)
    BY <1>1, <1>2 DEF HeaderKinds, ChartTypes
  <1>9. ~started' => blocks' = blocks /\ pending' = pending
    BY <1>1
  <1>10. Reads(line)
    BY <1>1, <1>2, <1>8, <1>9 DEF Reads
  <1>11. QED
    BY <1>6, <1>7, <1>10 DEF line

LEMMA ReadIs ==
    ASSUME ChartTypes, NEW line \in SourceLines, Read(line)
    PROVE  /\ source' \in Seq(SourceLines) /\ Len(source') <= MaxLines
           /\ Len(source) < MaxLines /\ source' = Append(source, line)
           /\ source \in Seq(SourceLines) /\ blocks \in Seq(BlockSet) /\ cur \in BlockSet
           /\ pending \in Changes \cup {Null} /\ strum \in Changes \cup {Null}
           /\ named \in [Names -> Patterns \cup {Null}] /\ inEnv \in BOOLEAN /\ started \in BOOLEAN
  <1>1. /\ Len(source) < MaxLines /\ source' = Append(source, line)
        /\ source \in Seq(SourceLines)
    BY DEF Read, ChartTypes
  <1>2. source' \in Seq(SourceLines) /\ Len(source') <= MaxLines
    BY <1>1, ChartsAssumption, AppendProperties
  <1>3. QED
    BY <1>1, <1>2 DEF ChartTypes

LEMMA SkippedStep ==
    ASSUME ChartTypes, Skipped
    PROVE  ChartTypes' /\ \E line : Reads(line) /\ Quiet(line) /\ line.is = "skipped"
  <1> DEFINE line == [is |-> "skipped"]
  <1>1. line \in SourceLines /\ line.is = "skipped"
    BY LineTypes
  <1>2. Read(line) /\ UNCHANGED <<blocks, cur, inEnv, named, strum, strums, started, pending>>
    BY DEF Skipped
  <1> HIDE DEF line
  <1>3. /\ source' \in Seq(SourceLines) /\ Len(source') <= MaxLines
        /\ Len(source) < MaxLines /\ source' = Append(source, line)
    BY <1>1, <1>2, ReadIs
  <1>4. ChartTypes'
    BY <1>2, <1>3 DEF ChartTypes
  <1>5. Reads(line)
    BY <1>1, <1>2, <1>3 DEF Reads, HeaderKinds, ChartTypes
  <1>6. Quiet(line)
    BY <1>1, <1>2 DEF Quiet, Still, ChartText, Held
  <1>7. QED
    BY <1>1, <1>4, <1>5, <1>6

LEMMA BlankStep ==
    ASSUME ChartTypes, Blank
    PROVE  ChartTypes' /\ Reads(BLANK) /\ Quiet(BLANK)
  <1>1. BLANK \in SourceLines /\ BLANK.is = "blank"
    BY LineTypes DEF BLANK
  <1>2. /\ Read(BLANK) /\ cur' = [cur EXCEPT !.lines = Append(cur.lines, BLANK)]
        /\ UNCHANGED <<blocks, inEnv, named, strum, strums, started, pending>>
    BY DEF Blank
  <1>3. /\ source' \in Seq(SourceLines) /\ Len(source') <= MaxLines
        /\ Len(source) < MaxLines /\ source' = Append(source, BLANK)
        /\ blocks \in Seq(BlockSet) /\ cur \in BlockSet
    BY <1>1, <1>2, ReadIs
  <1>4. cur' \in BlockSet /\ TextSoFar(blocks, cur') = ChartText /\ HeldBy(cur') = Held
    BY <1>2, <1>3, BlankText DEF ChartText, Held
  <1>5. ChartTypes'
    BY <1>2, <1>3, <1>4 DEF ChartTypes
  <1>6. Reads(BLANK)
    BY <1>1, <1>2, <1>3 DEF Reads, HeaderKinds, ChartTypes
  <1>7. ChartText' = ChartText /\ Held' = Held
    BY <1>2, <1>4 DEF ChartText, Held
  <1>8. Quiet(BLANK)
    BY <1>1, <1>2, <1>7 DEF Quiet, Still
  <1>9. QED
    BY <1>5, <1>6, <1>8

\* What open does.
LEMMA OpenIs ==
    ASSUME ChartTypes, NEW kind \in EnvKinds \cup {"plain"}, NEW label \in Labels \cup {Null},
           open(kind, label)
    PROVE  /\ blocks' \in Seq(BlockSet) /\ cur' \in BlockSet /\ pending' \in Changes \cup {Null}
           /\ started'
           /\ \/ ChartText' = ChartText \o AsItem(pending) /\ Held' = Null /\ pending' = Null
              \/ ChartText' = ChartText /\ Held' = pending /\ pending' = Null
              \/ ChartText' = ChartText /\ Held' = Null /\ pending' = pending
  <1> DEFINE takes == pending # Null /\ (label # Null \/ kind \in {"chorus", "bridge"})
  <1>0. PICK c : c = IF takes THEN pending ELSE Null
    OBVIOUS
  <1>1. /\ blocks' = Flushed
        /\ cur' = [Block(kind, label) EXCEPT !.strum = c]
        /\ pending' = IF takes THEN Null ELSE pending
        /\ started' = TRUE
    BY <1>0 DEF open
  <1> HIDE DEF takes
  <1>2. /\ blocks \in Seq(BlockSet) /\ cur \in BlockSet /\ pending \in Changes \cup {Null}
        /\ c \in Changes \cup {Null} /\ label \in Labels \cup {Null, "Chorus"}
    BY <1>0 DEF ChartTypes
  <1>3. blocks' = DocOf(blocks, cur) /\ LinesOf(blocks') = ChartText
    BY <1>1, DocIs DEF Doc, ChartText, TextSoFar
  <1>4. blocks' \in Seq(BlockSet) /\ ChartText \in Seq(ShownItems)
    BY <1>2, <1>3, TextIs DEF ChartText
  <1>5. /\ cur' \in BlockSet
        /\ TextSoFar(blocks', cur') = LinesOf(blocks') \o AsItem(IF label = Null THEN Null ELSE c)
        /\ HeldBy(cur') = IF label = Null THEN c ELSE Null
    <2>1. cur' = Opened(kind, label, c)
      BY <1>1 DEF Opened
    <2>2. PICK bs : bs = blocks'
      OBVIOUS
    <2>3. bs \in Seq(BlockSet)
      BY <1>4, <2>2
    <2>4. ShowsOpened(bs, label, c, Opened(kind, label, c))
      BY <1>2, <2>3, OpenedShows
    <2>5. QED
      BY <2>1, <2>2, <2>4 DEF ShowsOpened
  <1>6. /\ ChartText' = ChartText \o AsItem(IF label = Null THEN Null ELSE c)
        /\ Held' = IF label = Null THEN c ELSE Null
    BY <1>3, <1>5 DEF ChartText, Held
  <1>7. ChartText \o AsItem(Null) = ChartText
    BY <1>4, ConcatEmptySeq DEF AsItem
  <1>8. CASE takes /\ label # Null
    BY <1>0, <1>1, <1>2, <1>4, <1>5, <1>6, <1>8
  <1>9. CASE takes /\ label = Null
    BY <1>0, <1>1, <1>2, <1>4, <1>5, <1>6, <1>7, <1>9
  <1>10. CASE ~takes
    <2>1. c = Null /\ pending' = pending /\ (IF label = Null THEN Null ELSE c) = Null
      BY <1>0, <1>1, <1>10
    <2>2. ChartText' = ChartText /\ Held' = Null
      BY <1>6, <1>7, <2>1
    <2>3. QED
      BY <1>1, <1>2, <1>4, <1>5, <2>1, <2>2
  <1>11. QED
    BY <1>8, <1>9, <1>10

\* A line that opens a section.
LEMMA OpenReads ==
    ASSUME ChartTypes, NEW kind \in EnvKinds \cup {"plain"}, NEW label \in Labels \cup {Null},
           NEW line \in SourceLines, Read(line), open(kind, label), line.is \in Sectioners,
           inEnv' \in BOOLEAN, UNCHANGED <<named, strum>>
    PROVE  ChartTypes' /\ Reads(line) /\ Opens(line)
  <1>1. /\ source' \in Seq(SourceLines) /\ Len(source') <= MaxLines
        /\ Len(source) < MaxLines /\ source' = Append(source, line)
    BY ReadIs
  <1>2. /\ blocks' \in Seq(BlockSet) /\ cur' \in BlockSet /\ pending' \in Changes \cup {Null}
        /\ \/ ChartText' = ChartText \o AsItem(pending) /\ Held' = Null /\ pending' = Null
           \/ ChartText' = ChartText /\ Held' = pending /\ pending' = Null
           \/ ChartText' = ChartText /\ Held' = Null /\ pending' = pending
    BY OpenIs
  <1>3. started' = TRUE
    BY DEF open
  <1>4. ChartTypes'
    BY <1>1, <1>2, <1>3 DEF ChartTypes
  <1>5. line.is \notin HeaderKinds
    BY DEF Sectioners, HeaderKinds
  <1>6. Reads(line)
    BY <1>1, <1>3, <1>5 DEF Reads
  <1>7. Opens(line)
    BY <1>2 DEF Opens
  <1>8. QED
    BY <1>4, <1>6, <1>7

LEMMA ChorusRefStep ==
    ASSUME ChartTypes, ChorusRef
    PROVE  ChartTypes' /\ \E line : Reads(line) /\ Opens(line)
  <1> DEFINE line == [is |-> "chorus_ref"]
  <1>1. line \in SourceLines /\ line.is = "chorus_ref"
    BY LineTypes
  <1>2. PICK b : b = [Block("chorus", "Chorus") EXCEPT !.strum = pending]
    OBVIOUS
  <1>3. /\ Read(line) /\ blocks' = Append(Flushed, b)
        /\ cur' = Block("plain", Null) /\ pending' = Null /\ started' = TRUE
        /\ UNCHANGED <<inEnv, named, strum, strums>>
    BY <1>2 DEF ChorusRef
  <1> HIDE DEF line
  <1>4. /\ source' \in Seq(SourceLines) /\ Len(source') <= MaxLines
        /\ Len(source) < MaxLines /\ source' = Append(source, line)
        /\ blocks \in Seq(BlockSet) /\ cur \in BlockSet
        /\ pending \in Changes \cup {Null}
    BY <1>1, <1>3, ReadIs
  <1>5. PICK done : done = DocOf(blocks, cur)
    OBVIOUS
  <1>6. /\ blocks' = Append(done, b) /\ LinesOf(done) = ChartText
        /\ done \in Seq(BlockSet) /\ ChartText \in Seq(ShownItems)
    BY <1>3, <1>4, <1>5, DocIs, TextIs DEF Doc, ChartText, TextSoFar
  <1>7. b = [kind |-> "chorus", label |-> "Chorus", lines |-> <<>>, strum |-> pending]
    BY <1>2 DEF Block
  <1>8. b \in BlockSet
    <2>1. "chorus" \in EnvKinds \cup {"plain"} /\ "Chorus" \in Labels \cup {Null, "Chorus"}
      BY DEF EnvKinds
    <2>2. ShowsOpened(done, "Chorus", pending, Opened("chorus", "Chorus", pending))
      BY <1>4, <1>6, <2>1, OpenedShows
    <2>3. QED
      BY <1>2, <2>2 DEF ShowsOpened, Opened
  <1>9. /\ LinesOf(blocks') = ChartText \o ItemsOf(b) /\ blocks' \in Seq(BlockSet)
        /\ ItemsOf(b) \in Seq(ShownItems)
    BY <1>6, <1>8, LinesAppend, AppendProperties
  <1>10. AsItem(pending) \in Seq(ShownItems)
    BY <1>4, ItemType
  <1>11. ItemsOf(b) = AsItem(pending)
    <2>1. ItemsOf(b) = AsItem(pending) \o <<>>
      BY <1>7 DEF ItemsOf, AsItem
    <2>2. QED
      BY <1>10, <2>1, ConcatEmptySeq
  <1>12. cur' = [Block("plain", Null) EXCEPT !.strum = Null]
    BY <1>3 DEF Block
  <1>13. /\ cur' \in BlockSet /\ TextSoFar(blocks', cur') = LinesOf(blocks') \o AsItem(Null)
         /\ HeldBy(cur') = Null
    <2>1. "plain" \in EnvKinds \cup {"plain"} /\ Null \in Labels \cup {Null, "Chorus"}
          /\ Null \in Changes \cup {Null}
      OBVIOUS
    <2>2. cur' = Opened("plain", Null, Null)
      BY <1>12 DEF Opened
    <2>3. PICK bs : bs = blocks'
      OBVIOUS
    <2>4. bs \in Seq(BlockSet)
      BY <1>9, <2>3
    <2>5. ShowsOpened(bs, Null, Null, Opened("plain", Null, Null))
      BY <2>1, <2>4, OpenedShows
    <2>6. QED
      BY <2>2, <2>3, <2>5 DEF ShowsOpened
  <1>14. LinesOf(blocks') \o AsItem(Null) = LinesOf(blocks')
    <2>1. LinesOf(blocks') \in Seq(ShownItems)
      BY <1>6, <1>9, ConcatProperties
    <2>2. QED
      BY <2>1, ConcatEmptySeq DEF AsItem
  <1>15. ChartText' = ChartText \o AsItem(pending) /\ Held' = Null
    BY <1>9, <1>11, <1>13, <1>14 DEF ChartText, Held
  <1>16. ChartTypes'
    BY <1>3, <1>4, <1>9, <1>13 DEF ChartTypes
  <1>17. Reads(line)
    BY <1>1, <1>3, <1>4 DEF Reads, HeaderKinds
  <1>18. Opens(line)
    BY <1>1, <1>3, <1>15 DEF Opens, Sectioners
  <1>19. QED
    BY <1>16, <1>17, <1>18

\* AddedTo, by what the item adds to what is shown.
Added(bs, b, c, z, d) ==
    /\ d \in BlockSet /\ HeldBy(d) = Null
    /\ Adds(TextSoFar(bs, b), HeldBy(b), c, z, TextSoFar(bs, d))
    /\ EndsBlank(b.lines) => KeepsBlank(TextSoFar(bs, b), TextSoFar(bs, d), b.lines)

AddsAfter(t, gap, c, z, u) == u = (((t \o AsItem(Null)) \o gap) \o AsItem(c)) \o <<z>>

OneBlank(gap) == IsSeq(gap) /\ Len(gap) = 1 /\ gap[1] = BLANK

LEMMA BlankThen ==
    ASSUME NEW t \in Seq(ShownItems), Len(t) > 0, NEW gap, OneBlank(gap),
           NEW c \in Changes \cup {Null}, NEW z \in ShownItems,
           NEW u, AddsAfter(t, gap, c, z, u)
    PROVE  /\ Len(t) \in 1..Len(u) /\ Len(t) + 1 \in 1..Len(u)
           /\ u[Len(t)] = t[Len(t)] /\ u[Len(t) + 1] = BLANK
  <1>1. t \o AsItem(Null) = t
    BY ConcatEmptySeq DEF AsItem
  <1>2. PICK v, w : v = t \o gap /\ w = v \o AsItem(c)
    OBVIOUS
  <1>3. u = w \o <<z>>
    BY <1>1, <1>2 DEF AddsAfter
  <1>4. IsSeq(t)
    BY SeqIs
  <1>5. IsSeq(gap)
    BY DEF OneBlank
  <1>6. IsSeq(AsItem(c))
    <2>1. AsItem(c) \in Seq(ShownItems)
      BY ItemType
    <2>2. QED
      BY <2>1, SeqIs
  <1>7. IsSeq(<<z>>) /\ Len(<<z>>) = 1
    BY OneIs
  <1>8. PICK n \in Nat : n = Len(t)
    BY SeqIs
  <1>9. /\ IsSeq(v) /\ Len(v) = n + 1 /\ \A i \in 1..n : v[i] = t[i]
        /\ \A i \in 1..1 : v[n + i] = gap[i]
    <2>1. /\ IsSeq(t \o gap) /\ Len(t) \in Nat /\ Len(gap) \in Nat
          /\ Len(t \o gap) = Len(t) + Len(gap) /\ DOMAIN (t \o gap) = 1..(Len(t) + Len(gap))
          /\ \A i \in 1..Len(t) : (t \o gap)[i] = t[i]
          /\ \A i \in 1..Len(gap) : (t \o gap)[Len(t) + i] = gap[i]
      BY <1>4, <1>5, Joined
    <2>2. Len(gap) = 1
      BY DEF OneBlank
    <2>3. QED
      BY <1>2, <1>8, <2>1, <2>2
  <1>10. PICK m \in Nat : m = Len(AsItem(c))
    BY <1>6, SeqIs DEF IsSeq
  <1>11. IsSeq(w) /\ Len(w) = (n + 1) + m /\ \A i \in 1..(n + 1) : w[i] = v[i]
    <2>0. IsSeq(v)
      BY <1>9
    <2>1. /\ IsSeq(v \o AsItem(c)) /\ Len(v \o AsItem(c)) = Len(v) + Len(AsItem(c))
          /\ (\A i \in 1..Len(v) : (v \o AsItem(c))[i] = v[i])
          /\ \A i \in 1..Len(AsItem(c)) : (v \o AsItem(c))[Len(v) + i] = AsItem(c)[i]
      BY <1>6, <2>0, Joined
    <2>2. QED
      BY <1>2, <1>9, <1>10, <2>1
  <1>12. Len(u) = ((n + 1) + m) + 1 /\ \A i \in 1..((n + 1) + m) : u[i] = w[i]
    <2>0. IsSeq(w) /\ IsSeq(<<z>>)
      BY <1>7, <1>11
    <2>1. /\ IsSeq(w \o <<z>>) /\ Len(w \o <<z>>) = Len(w) + Len(<<z>>)
          /\ (\A i \in 1..Len(w) : (w \o <<z>>)[i] = w[i])
          /\ \A i \in 1..Len(<<z>>) : (w \o <<z>>)[Len(w) + i] = <<z>>[i]
      BY <2>0, Joined
    <2>2. QED
      BY <1>3, <1>7, <1>11, <2>1
  <1>13. n > 0 /\ n \in 1..(n + 1) /\ n + 1 \in 1..(n + 1) /\ 1 \in 1..1
         /\ n \in 1..((n + 1) + m) /\ n + 1 \in 1..((n + 1) + m)
         /\ n \in 1..(((n + 1) + m) + 1) /\ n + 1 \in 1..(((n + 1) + m) + 1) /\ n \in 1..n
    BY <1>8
  <1>14. u[n] = t[n]
    BY <1>9, <1>11, <1>12, <1>13
  <1>15. gap[1] = BLANK
    BY DEF OneBlank
  <1>16. u[n + 1] = BLANK
    BY <1>9, <1>11, <1>12, <1>13, <1>15
  <1>17. QED
    BY <1>8, <1>12, <1>13, <1>14, <1>16

LEMMA AddedIs ==
    ASSUME NEW bs \in Seq(BlockSet), NEW b \in BlockSet, NEW c \in Changes \cup {Null},
           NEW item \in ShownItems, item # BLANK,
           NEW d, d = [b EXCEPT !.lines = (b.lines \o AsItem(c)) \o <<item>>]
    PROVE  Added(bs, b, c, item, d)
  <1>1. PICK t, h, u : t = TextSoFar(bs, b) /\ h = HeldBy(b) /\ u = TextSoFar(bs, d)
    OBVIOUS
  <1>2. /\ d \in BlockSet /\ HeldBy(d) = Null
        /\ \E gap \in Seq({BLANK}) :
             /\ u = (((t \o AsItem(h)) \o gap) \o AsItem(c)) \o <<item>>
             /\ EndsBlank(b.lines) =>
                    /\ Len(gap) = 1 /\ h = Null /\ Len(t) > 0
                    /\ t[Len(t)] = b.lines[Len(b.lines) - 1]
    <2>1. AddedTo(bs, b, c, item, d)
      BY AddedText
    <2>2. QED
      BY <1>1, <2>1 DEF AddedTo
  <1>3. PICK gap \in Seq({BLANK}) :
             /\ u = (((t \o AsItem(h)) \o gap) \o AsItem(c)) \o <<item>>
             /\ EndsBlank(b.lines) =>
                    /\ Len(gap) = 1 /\ h = Null /\ Len(t) > 0
                    /\ t[Len(t)] = b.lines[Len(b.lines) - 1]
    BY <1>2
  <1>4. Adds(t, h, c, item, u)
    BY <1>3 DEF Adds
  <1>5. ASSUME EndsBlank(b.lines) PROVE KeepsBlank(t, u, b.lines)
    <2>1. /\ Len(gap) = 1 /\ h = Null /\ Len(t) > 0
          /\ t[Len(t)] = b.lines[Len(b.lines) - 1]
      BY <1>3, <1>5
    <2>2. AddsAfter(t, gap, c, item, u)
      BY <1>3, <2>1 DEF AddsAfter
    <2>3. t \in Seq(ShownItems)
      BY <1>1, TextIs
    <2>30. OneBlank(gap)
      <3>1. /\ IsSeq(gap) /\ Range(gap) \subseteq {BLANK}
            /\ \A i \in 1..Len(gap) : gap[i] \in Range(gap)
        BY SeqIs
      <3>2. 1 \in 1..Len(gap)
        BY <2>1
      <3>3. QED
        BY <2>1, <3>1, <3>2 DEF OneBlank
    <2>4. /\ Len(t) \in 1..Len(u) /\ Len(t) + 1 \in 1..Len(u)
          /\ u[Len(t)] = t[Len(t)] /\ u[Len(t) + 1] = BLANK
      BY <2>1, <2>2, <2>3, <2>30, BlankThen
    <2>5. QED
      BY <2>1, <2>4 DEF KeepsBlank
  <1>6. QED
    BY <1>1, <1>2, <1>4, <1>5 DEF Added

\* What a block ends with after a line of lyrics, and after a blank one.
EndsLyrics(lines, n) ==
    Len(lines) > 0 /\ lines[Len(lines)].is = "lyrics" /\ lines[Len(lines)].line = n
EndsAs(line) ==
    /\ line.is = "lyrics" => EndsLyrics(cur'.lines, Len(source) + 1)
    /\ line.is = "blank" => cur'.lines = Append(cur.lines, BLANK)

LEMMA ItemShown ==
    ASSUME ChartTypes, Len(source) < MaxLines, NEW is \in {"lyrics", "comment", "tab"},
           NEW n \in Nat
    PROVE  /\ Item(is, n) \in ShownItems /\ Item(is, n) # BLANK
           /\ Item(is, n).is = is /\ Item(is, n).line = Len(source) + 1
           /\ Item(is, n).chords = n
  <1>1. Len(source) + 1 \in 1..MaxLines
    BY ChartsAssumption DEF ChartTypes
  <1>2. PICK k \in 1..MaxLines : k = Len(source) + 1
    BY <1>1
  <1>3. Item(is, n) = [is |-> is, line |-> k, chords |-> n]
    BY <1>2 DEF Item
  <1>4. [is |-> is, line |-> k, chords |-> n] \in ShownItems
    BY DEF ShownItems
  <1>5. is # "blank"
    OBVIOUS
  <1>6. QED
    BY <1>2, <1>3, <1>4, <1>5 DEF BLANK

\* A line at the end of a block.
LEMMA AddStep ==
    ASSUME ChartTypes, NEW line \in SourceLines, Read(line), NEW z \in ShownItems, z # BLANK,
           z.line = Len(source) + 1,
           \/ line.is \in {"lyrics", "comment", "tab"} /\ z.is = line.is
           \/ line.is = "header" /\ z.is = "comment",
           line.is = "lyrics" => z.chords = line.chords,
           NEW c, \/ c = pending /\ pending' = Null
                  \/ c = Null /\ pending' = pending /\ line.is \in {"tab", "header"},
           cur' = [cur EXCEPT !.lines = (cur.lines \o AsItem(c)) \o <<z>>],
           started', started' \in BOOLEAN,
           started' = (started \/ line.is \notin HeaderKinds),
           UNCHANGED <<blocks, inEnv, named, strum>>
    PROVE  ChartTypes' /\ Reads(line) /\ Puts(line, z, c) /\ EndsAs(line)
  <1>1. /\ source' \in Seq(SourceLines) /\ Len(source') <= MaxLines
        /\ Len(source) < MaxLines /\ source' = Append(source, line)
        /\ blocks \in Seq(BlockSet) /\ cur \in BlockSet
        /\ pending \in Changes \cup {Null}
    BY ReadIs
  <1>2. c \in Changes \cup {Null}
    BY <1>1
  <1>3. Added(blocks, cur, c, z, cur')
    <2>1. PICK d : d = cur'
      OBVIOUS
    <2>2. d = [cur EXCEPT !.lines = (cur.lines \o AsItem(c)) \o <<z>>]
      BY <2>1
    <2>3. Added(blocks, cur, c, z, d)
      BY <1>1, <1>2, <2>2, AddedIs
    <2>4. QED
      BY <2>1, <2>3
  <1>4. /\ cur' \in BlockSet /\ HeldBy(cur') = Null
        /\ Adds(TextSoFar(blocks, cur), HeldBy(cur), c, z, TextSoFar(blocks, cur'))
        /\ EndsBlank(cur.lines) =>
             KeepsBlank(TextSoFar(blocks, cur), TextSoFar(blocks, cur'), cur.lines)
    BY <1>3 DEF Added
  <1>5. /\ Held' = Null /\ Adds(ChartText, Held, c, z, ChartText')
        /\ EndsBlank(cur.lines) => KeepsBlank(ChartText, ChartText', cur.lines)
    BY <1>4 DEF ChartText, Held
  <1>6. ChartTypes'
    BY <1>1, <1>4 DEF ChartTypes
  <1>7. Reads(line)
    BY <1>1 DEF Reads
  <1>8. Puts(line, z, c)
    BY <1>5 DEF Puts
  <1>9. line.is = "lyrics" => EndsLyrics(cur'.lines, Len(source) + 1)
    <2>1. PICK lines, before : lines = cur'.lines /\ before = cur.lines \o AsItem(c)
      OBVIOUS
    <2>2. lines = before \o <<z>>
      BY <1>1, <2>1 DEF BlockSet
    <2>3. before \in Seq(ShownItems)
      <3>1. cur.lines \in Seq(ShownItems)
        BY <1>1 DEF BlockSet
      <3>2. AsItem(c) \in Seq(ShownItems)
        BY <1>2, ItemType
      <3>3. QED
        BY <2>1, <3>1, <3>2, ConcatProperties
    <2>4. lines = Append(before, z)
      BY <2>2, <2>3, AppendIsConcat
    <2>5. Len(lines) = Len(before) + 1 /\ lines[Len(before) + 1] = z /\ Len(before) \in Nat
      BY <2>3, <2>4, AppendProperties, LenProperties
    <2>6. line.is = "lyrics" => z.is = "lyrics" /\ z.line = Len(source) + 1
      OBVIOUS
    <2>7. Len(lines) > 0 /\ lines[Len(lines)] = z
      BY <2>5
    <2>8. line.is = "lyrics" => EndsLyrics(lines, Len(source) + 1)
      BY <2>6, <2>7 DEF EndsLyrics
    <2>9. QED
      BY <2>1, <2>8
  <1>10. line.is # "blank"
    OBVIOUS
  <1>11. EndsAs(line)
    BY <1>9, <1>10 DEF EndsAs
  <1>12. QED
    BY <1>6, <1>7, <1>8, <1>11

LEMMA CommentStep ==
    ASSUME ChartTypes, Comment
    PROVE  /\ ChartTypes' /\ Reads([is |-> "comment"]) /\ EndsAs([is |-> "comment"])
           /\ \E z, c : Puts([is |-> "comment"], z, c)
  <1>1. PICK line : line = [is |-> "comment"]
    OBVIOUS
  <1>2. line \in SourceLines /\ line.is = "comment"
    BY <1>1, LineTypes
  <1>3. PICK z : z = Item("comment", 0)
    OBVIOUS
  <1>4. /\ Read(line) /\ push(z)
        /\ UNCHANGED <<blocks, inEnv, named, strum, strums>>
    BY <1>1, <1>3 DEF Comment
  <1>5. Len(source) < MaxLines
    BY <1>4 DEF Read
  <1>6. z \in ShownItems /\ z # BLANK /\ z.is = "comment" /\ z.line = Len(source) + 1
    BY <1>3, <1>5, ItemShown
  <1>60. line.is = "lyrics" => z.chords = line.chords
    BY <1>1, <1>2, <1>3 DEF Item
  <1>7. /\ cur' = [cur EXCEPT !.lines = (cur.lines \o AsItem(pending)) \o <<z>>]
        /\ pending' = Null /\ started' = TRUE
    BY <1>4 DEF push, AsItem
  <1>8. started' = (started \/ line.is \notin HeaderKinds)
    BY <1>2, <1>7 DEF HeaderKinds
  <1>9. line.is \in {"lyrics", "comment", "tab"} /\ z.is = line.is
    BY <1>2, <1>6
  <1>10. ChartTypes' /\ Reads(line) /\ Puts(line, z, pending) /\ EndsAs(line)
    BY <1>2, <1>4, <1>6, <1>60, <1>7, <1>8, <1>9, AddStep
  <1>11. QED
    BY <1>1, <1>10

LEMMA LyricsStep ==
    ASSUME ChartTypes, NEW n \in Nat, Lyrics(n)
    PROVE  /\ ChartTypes' /\ Reads([is |-> "lyrics", chords |-> n])
           /\ EndsAs([is |-> "lyrics", chords |-> n])
           /\ \E z, c : Puts([is |-> "lyrics", chords |-> n], z, c)
  <1>1. PICK line : line = [is |-> "lyrics", chords |-> n]
    OBVIOUS
  <1>2. line \in SourceLines /\ line.is = "lyrics"
    BY <1>1, LineTypes
  <1>3. PICK z : z = Item("lyrics", n)
    OBVIOUS
  <1>4. /\ Read(line) /\ push(z)
        /\ UNCHANGED <<blocks, inEnv, named, strum, strums>>
    BY <1>1, <1>3 DEF Lyrics
  <1>5. Len(source) < MaxLines
    BY <1>4 DEF Read
  <1>6. z \in ShownItems /\ z # BLANK /\ z.is = "lyrics" /\ z.line = Len(source) + 1
    BY <1>3, <1>5, ItemShown
  <1>60. line.is = "lyrics" => z.chords = line.chords
    BY <1>1, <1>2, <1>3 DEF Item
  <1>7. /\ cur' = [cur EXCEPT !.lines = (cur.lines \o AsItem(pending)) \o <<z>>]
        /\ pending' = Null /\ started' = TRUE
    BY <1>4 DEF push, AsItem
  <1>8. started' = (started \/ line.is \notin HeaderKinds)
    BY <1>2, <1>7 DEF HeaderKinds
  <1>9. line.is \in {"lyrics", "comment", "tab"} /\ z.is = line.is
    BY <1>2, <1>6
  <1>10. ChartTypes' /\ Reads(line) /\ Puts(line, z, pending) /\ EndsAs(line)
    BY <1>2, <1>4, <1>6, <1>60, <1>7, <1>8, <1>9, AddStep
  <1>11. QED
    BY <1>1, <1>10

LEMMA TabStep ==
    ASSUME ChartTypes, TabLine
    PROVE  /\ ChartTypes' /\ Reads([is |-> "tab"]) /\ EndsAs([is |-> "tab"])
           /\ \E z, c : Puts([is |-> "tab"], z, c)
  <1>1. PICK line : line = [is |-> "tab"]
    OBVIOUS
  <1>2. line \in SourceLines /\ line.is = "tab"
    BY <1>1, LineTypes
  <1>3. PICK z : z = Item("tab", 0)
    OBVIOUS
  <1>4. /\ Read(line) /\ cur' = [cur EXCEPT !.lines = Append(cur.lines, z)]
        /\ started' = TRUE
        /\ UNCHANGED <<blocks, inEnv, named, strum, strums, pending>>
    BY <1>1, <1>3 DEF TabLine
  <1>5. Len(source) < MaxLines
    BY <1>4 DEF Read
  <1>6. z \in ShownItems /\ z # BLANK /\ z.is = "tab" /\ z.line = Len(source) + 1
    BY <1>3, <1>5, ItemShown
  <1>7. Append(cur.lines, z) = (cur.lines \o AsItem(Null)) \o <<z>>
    <2>1. cur.lines \in Seq(ShownItems)
      BY DEF ChartTypes, BlockSet
    <2>2. cur.lines \o AsItem(Null) = cur.lines
      BY <2>1, ConcatEmptySeq DEF AsItem
    <2>3. QED
      BY <1>6, <2>1, <2>2, AppendIsConcat
  <1>8. started' = (started \/ line.is \notin HeaderKinds)
    BY <1>2, <1>4 DEF HeaderKinds
  <1>9. PICK c : c = Null
    OBVIOUS
  <1>10. cur' = [cur EXCEPT !.lines = (cur.lines \o AsItem(c)) \o <<z>>]
    BY <1>4, <1>7, <1>9
  <1>11. ChartTypes' /\ Reads(line) /\ Puts(line, z, c) /\ EndsAs(line)
    BY <1>2, <1>4, <1>6, <1>8, <1>9, <1>10, AddStep
  <1>12. QED
    BY <1>1, <1>11

\* A header within an environment is one of its lines.
LEMMA HeaderStep ==
    ASSUME ChartTypes, EnvStarts, NEW label \in Labels, Header(label)
    PROVE  /\ ChartTypes' /\ Reads([is |-> "header"]) /\ EndsAs([is |-> "header"])
           /\ inEnv' = inEnv
           /\ Opens([is |-> "header"]) \/ \E z, c : Puts([is |-> "header"], z, c)
  <1>1. PICK line : line = [is |-> "header"]
    OBVIOUS
  <1>2. line \in SourceLines /\ line.is = "header"
    BY <1>1, LineTypes
  <1>3. PICK kind \in EnvKinds :
           /\ Read(line)
           /\ IF inEnv
              THEN /\ cur' = [cur EXCEPT !.lines = Append(cur.lines, Item("comment", 0))]
                   /\ UNCHANGED <<blocks, pending, started>>
              ELSE open(kind, label)
           /\ UNCHANGED <<inEnv, named, strum, strums>>
    <2>1. PICK kind : kind = IF label = "Chorus" THEN "chorus"
                             ELSE IF label = "Bridge" THEN "bridge" ELSE "section"
      OBVIOUS
    <2>2. kind \in EnvKinds
      BY <2>1 DEF EnvKinds
    <2>3. QED
      BY <1>1, <2>1, <2>2 DEF Header
  <1>4. CASE ~inEnv
    <2>1. ChartTypes' /\ Reads(line) /\ Opens(line)
      <3>1. open(kind, label) /\ UNCHANGED <<named, strum>> /\ inEnv' = inEnv
        BY <1>3, <1>4
      <3>2. inEnv' \in BOOLEAN
        BY <3>1 DEF ChartTypes
      <3>3. line.is \in Sectioners
        BY <1>2 DEF Sectioners
      <3>4. kind \in EnvKinds \cup {"plain"} /\ label \in Labels \cup {Null}
        OBVIOUS
      <3>5. QED
        BY <1>2, <1>3, <3>1, <3>2, <3>3, <3>4, OpenReads
    <2>2. EndsAs(line)
      BY <1>2 DEF EndsAs
    <2>3. QED
      BY <1>1, <1>3, <2>1, <2>2
  <1>5. CASE inEnv
    <2>1. PICK z : z = Item("comment", 0)
      OBVIOUS
    <2>2. /\ cur' = [cur EXCEPT !.lines = Append(cur.lines, z)]
          /\ UNCHANGED <<blocks, inEnv, named, strum, strums, pending, started>>
      BY <1>3, <1>5, <2>1
    <2>3. Len(source) < MaxLines
      BY <1>3 DEF Read
    <2>4. z \in ShownItems /\ z # BLANK /\ z.is = "comment" /\ z.line = Len(source) + 1
      BY <2>1, <2>3, ItemShown
    <2>5. Append(cur.lines, z) = (cur.lines \o AsItem(Null)) \o <<z>>
      <3>1. cur.lines \in Seq(ShownItems)
        BY DEF ChartTypes, BlockSet
      <3>2. cur.lines \o AsItem(Null) = cur.lines
        BY <3>1, ConcatEmptySeq DEF AsItem
      <3>3. QED
        BY <2>4, <3>1, <3>2, AppendIsConcat
    <2>6. started' = TRUE
      BY <1>5, <2>2 DEF EnvStarts, ChartTypes
    <2>7. started' = (started \/ line.is \notin HeaderKinds)
      BY <1>2, <2>6 DEF HeaderKinds
    <2>8. PICK c : c = Null
      OBVIOUS
    <2>9. cur' = [cur EXCEPT !.lines = (cur.lines \o AsItem(c)) \o <<z>>]
      BY <2>2, <2>5, <2>8
    <2>10. ChartTypes' /\ Reads(line) /\ Puts(line, z, c) /\ EndsAs(line)
      BY <1>2, <1>3, <2>2, <2>4, <2>6, <2>7, <2>8, <2>9, AddStep
    <2>11. QED
      BY <1>1, <2>2, <2>10
  <1>6. QED
    BY <1>4, <1>5

\* What each line does.
Does(line) ==
    /\ Reads(line) /\ EndsAs(line)
    /\ \/ \E once \in BOOLEAN, name \in Names \cup {Null}, pattern \in Patterns \cup {Null} :
            /\ name # Null \/ pattern # Null
            /\ line = [is |-> "strum", once |-> once, name |-> name, pattern |-> pattern]
            /\ XStrum(once, name, pattern) /\ Still
       \/ Quiet(line)
       \/ Opens(line)
       \/ \E z, c : Puts(line, z, c)

LEMMA EachLine ==
    ASSUME ChartTypes, EnvStarts, ChartNext
    PROVE  ChartTypes' /\ EnvStarts' /\ \E line : Does(line)
  <1>1. CASE \E once \in BOOLEAN, name \in Names \cup {Null}, pattern \in Patterns \cup {Null} :
                (name # Null \/ pattern # Null) /\ XStrum(once, name, pattern)
    <2>1. PICK once \in BOOLEAN, name \in Names \cup {Null}, pattern \in Patterns \cup {Null} :
                (name # Null \/ pattern # Null) /\ XStrum(once, name, pattern)
      BY <1>1
    <2>2. PICK line : line = [is |-> "strum", once |-> once, name |-> name, pattern |-> pattern]
      OBVIOUS
    <2>3. ChartTypes' /\ Still /\ Reads(line)
      BY <2>1, <2>2, XStrumStep
    <2>4. inEnv' = inEnv /\ started' = started
      BY <2>1 DEF XStrum
    <2>5. EndsAs(line)
      BY <2>2 DEF EndsAs
    <2>6. Does(line)
      BY <2>1, <2>2, <2>3, <2>5 DEF Does
    <2>7. QED
      BY <2>3, <2>4, <2>6 DEF EnvStarts
  <1>2. CASE \E kind \in EnvKinds, label \in Labels \cup {Null} : StartOf(kind, label)
    <2>1. PICK kind \in EnvKinds, label \in Labels \cup {Null} : StartOf(kind, label)
      BY <1>2
    <2>2. PICK line : line = [is |-> "start", kind |-> kind]
      OBVIOUS
    <2>3. line \in SourceLines /\ line.is = "start" /\ line.is \in Sectioners
      BY <2>2, LineTypes DEF Sectioners
    <2>4. Read(line) /\ open(kind, label) /\ inEnv' = TRUE /\ UNCHANGED <<named, strum>>
      BY <2>1, <2>2 DEF StartOf
    <2>5. kind \in EnvKinds \cup {"plain"} /\ inEnv' \in BOOLEAN
      BY <2>4
    <2>6. ChartTypes' /\ Reads(line) /\ Opens(line)
      BY <2>3, <2>4, <2>5, OpenReads
    <2>7. started' = TRUE
      BY <2>4 DEF open
    <2>8. Does(line)
      BY <2>3, <2>6 DEF Does, EndsAs
    <2>9. QED
      BY <2>6, <2>7, <2>8 DEF EnvStarts
  <1>3. CASE EndOf
    <2>1. PICK line : line = [is |-> "end"]
      OBVIOUS
    <2>2. line \in SourceLines /\ line.is = "end" /\ line.is \in Sectioners
      BY <2>1, LineTypes DEF Sectioners
    <2>3. PICK kind, label : kind = "plain" /\ label = Null
      OBVIOUS
    <2>4. Read(line) /\ open(kind, label) /\ inEnv' = FALSE /\ UNCHANGED <<named, strum>>
      BY <1>3, <2>1, <2>3 DEF EndOf
    <2>5. kind \in EnvKinds \cup {"plain"} /\ label \in Labels \cup {Null} /\ inEnv' \in BOOLEAN
      BY <2>3, <2>4
    <2>6. ChartTypes' /\ Reads(line) /\ Opens(line)
      BY <2>2, <2>4, <2>5, OpenReads
    <2>7. Does(line)
      BY <2>2, <2>6 DEF Does, EndsAs
    <2>8. QED
      BY <2>4, <2>6, <2>7 DEF EnvStarts
  <1>4. CASE Comment
    <2>1. PICK line : line = [is |-> "comment"]
      OBVIOUS
    <2>2. ChartTypes' /\ Reads(line) /\ EndsAs(line) /\ \E z, c : Puts(line, z, c)
      BY <1>4, <2>1, CommentStep
    <2>3. inEnv' = inEnv /\ started' = TRUE
      BY <1>4 DEF Comment, push
    <2>4. Does(line)
      BY <2>2 DEF Does
    <2>5. QED
      BY <2>2, <2>3, <2>4 DEF EnvStarts
  <1>5. CASE ChorusRef
    <2>1. ChartTypes' /\ \E line : Reads(line) /\ Opens(line)
      BY <1>5, ChorusRefStep
    <2>2. PICK line : Reads(line) /\ Opens(line)
      BY <2>1
    <2>3. inEnv' = inEnv /\ started' = TRUE
      BY <1>5 DEF ChorusRef
    <2>4. EndsAs(line)
      BY <2>2 DEF Opens, EndsAs, Sectioners
    <2>5. Does(line)
      BY <2>2, <2>4 DEF Does
    <2>6. QED
      BY <2>1, <2>3, <2>5 DEF EnvStarts
  <1>6. CASE Skipped
    <2>1. ChartTypes' /\ \E line : Reads(line) /\ Quiet(line) /\ line.is = "skipped"
      BY <1>6, SkippedStep
    <2>2. PICK line : Reads(line) /\ Quiet(line) /\ line.is = "skipped"
      BY <2>1
    <2>3. inEnv' = inEnv /\ started' = started
      BY <1>6 DEF Skipped
    <2>4. Does(line)
      BY <2>2 DEF Does, EndsAs
    <2>5. QED
      BY <2>1, <2>3, <2>4 DEF EnvStarts
  <1>7. CASE TabLine
    <2>1. PICK line : line = [is |-> "tab"]
      OBVIOUS
    <2>2. ChartTypes' /\ Reads(line) /\ EndsAs(line) /\ \E z, c : Puts(line, z, c)
      BY <1>7, <2>1, TabStep
    <2>3. inEnv' = inEnv /\ started' = TRUE
      BY <1>7 DEF TabLine
    <2>4. Does(line)
      BY <2>2 DEF Does
    <2>5. QED
      BY <2>2, <2>3, <2>4 DEF EnvStarts
  <1>8. CASE Blank
    <2>1. ChartTypes' /\ Reads(BLANK) /\ Quiet(BLANK)
      BY <1>8, BlankStep
    <2>2. inEnv' = inEnv /\ started' = started
      BY <1>8 DEF Blank
    <2>3. cur'.lines = Append(cur.lines, BLANK)
      BY <1>8 DEF Blank, ChartTypes, BlockSet
    <2>4. EndsAs(BLANK)
      BY <2>3 DEF EndsAs, BLANK
    <2>5. Does(BLANK)
      BY <2>1, <2>4 DEF Does
    <2>6. QED
      BY <2>1, <2>2, <2>5 DEF EnvStarts
  <1>9. CASE \E label \in Labels : Header(label)
    <2>1. PICK label \in Labels : Header(label)
      BY <1>9
    <2>2. PICK line : line = [is |-> "header"]
      OBVIOUS
    <2>3. /\ ChartTypes' /\ Reads(line) /\ EndsAs(line) /\ inEnv' = inEnv
          /\ Opens(line) \/ \E z, c : Puts(line, z, c)
      BY <2>1, <2>2, HeaderStep
    <2>4. Does(line)
      BY <2>3 DEF Does
    <2>5. started => started'
      BY <2>3 DEF Reads
    <2>6. QED
      BY <2>3, <2>4, <2>5 DEF EnvStarts
  <1>10. CASE \E n \in 0..MaxChords : Lyrics(n)
    <2>1. PICK n \in 0..MaxChords : Lyrics(n)
      BY <1>10
    <2>2. n \in Nat
      BY ChartsAssumption
    <2>3. PICK line : line = [is |-> "lyrics", chords |-> n]
      OBVIOUS
    <2>4. ChartTypes' /\ Reads(line) /\ EndsAs(line) /\ \E z, c : Puts(line, z, c)
      BY <2>1, <2>2, <2>3, LyricsStep
    <2>5. inEnv' = inEnv /\ started' = TRUE
      BY <2>1 DEF Lyrics, push
    <2>6. Does(line)
      BY <2>4 DEF Does
    <2>7. QED
      BY <2>4, <2>5, <2>6 DEF EnvStarts
  <1>11. QED
    BY <1>1, <1>2, <1>3, <1>4, <1>5, <1>6, <1>7, <1>8, <1>9, <1>10 DEF ChartNext

-----------------------------------------------------------------------------
(* What a text says of its strum directives. *)
StartsIn(src, i) == \E k \in 1..(i - 1) : src[k].is \notin HeaderKinds
MeansIn(src, name, i) ==
    {k \in 1..i : src[k].is = "strum" /\ src[k].pattern # Null /\ src[k].name = name}
LastMeant(src, name, i) ==
    IF MeansIn(src, name, i) = {} THEN Null ELSE src[Max(MeansIn(src, name, i))].pattern
MeantIn(src, i) ==
    IF src[i].pattern # Null THEN src[i].pattern ELSE LastMeant(src, src[i].name, i)
DirectivesIn(src) == {i \in DOMAIN src : src[i].is = "strum" /\ MeantIn(src, i) # Null}
OfIn(src) == {i \in DirectivesIn(src) : ~StartsIn(src, i) /\ ~src[i].once}
SaysIn(src) == {i \in OfIn(src) : src[i].name = Null \/ src[i].pattern = Null}
HeaderIn(src) ==
    IF OfIn(src) = {} THEN 0 ELSE IF SaysIn(src) = {} THEN Min(OfIn(src)) ELSE Max(SaysIn(src))

LEMMA TheText ==
    /\ \A i : StartedBy(i) <=> StartsIn(source, i)
    /\ \A i : Meant(i) = MeantIn(source, i)
    /\ Directives = DirectivesIn(source)
    /\ HeaderStrum = HeaderIn(source)
  <1>1. \A i : StartedBy(i) <=> StartsIn(source, i)
    BY DEF StartedBy, StartsIn, HeaderKinds
  <1>2. \A i : Meant(i) = MeantIn(source, i)
    BY DEF Meant, MeantIn, LastMeant, MeansIn
  <1>3. Directives = DirectivesIn(source)
    BY <1>2 DEF Directives, DirectivesIn
  <1>4. HeaderStrum = HeaderIn(source)
    <2>1. {i \in Directives : ~StartedBy(i) /\ ~source[i].once} = OfIn(source)
      BY <1>1, <1>3 DEF OfIn
    <2>2. {i \in OfIn(source) : source[i].name = Null \/ source[i].pattern = Null} = SaysIn(source)
      BY DEF SaysIn
    <2>3. QED
      BY <2>1, <2>2 DEF HeaderStrum, HeaderIn
  <1>5. QED
    BY <1>1, <1>2, <1>3, <1>4

\* A text with one more line.
Extends(src, more, n, line) ==
    /\ n \in Nat /\ DOMAIN src = 1..n /\ DOMAIN more = 1..(n + 1)
    /\ Len(src) = n /\ Len(more) = n + 1
    /\ more[n + 1] = line /\ \A i \in 1..n : more[i] = src[i]

LEMMA ReadsExtends ==
    ASSUME ChartTypes, NEW line, Reads(line)
    PROVE  \E n \in Nat : n = Len(source) /\ n + 1 \in 1..MaxLines
                          /\ Extends(source, source', n, line) /\ line \in SourceLines
  <1>1. PICK n \in Nat : n = Len(source) /\ DOMAIN source = 1..n
    BY SeqIs DEF ChartTypes
  <1>2. /\ source \in Seq(SourceLines) /\ source' = Append(source, line)
        /\ line \in SourceLines /\ n < MaxLines
    BY <1>1 DEF ChartTypes, Reads
  <1>3. /\ source' \in Seq(SourceLines) /\ Len(source') = n + 1 /\ source'[n + 1] = line
        /\ \A i \in 1..n : source'[i] = source[i]
    BY <1>1, <1>2, AppendProperties
  <1>4. DOMAIN source' = 1..(n + 1)
    BY <1>3, SeqIs
  <1>5. n + 1 \in 1..MaxLines
    BY <1>2, ChartsAssumption
  <1>6. QED
    BY <1>1, <1>2, <1>3, <1>4, <1>5 DEF Extends

LEMMA ExtendMeant ==
    ASSUME NEW src, NEW more, NEW n, NEW line, Extends(src, more, n, line)
    PROVE  /\ \A i \in 1..(n + 1) : StartsIn(more, i) <=> StartsIn(src, i)
           /\ StartsIn(more, n + 2) <=> StartsIn(src, n + 1) \/ line.is \notin HeaderKinds
           /\ \A i \in 1..n : \A name : LastMeant(more, name, i) = LastMeant(src, name, i)
           /\ \A i \in 1..n : MeantIn(more, i) = MeantIn(src, i)
  <1>0. n \in Nat /\ more[n + 1] = line /\ \A i \in 1..n : more[i] = src[i]
    BY DEF Extends
  <1>1. ASSUME NEW i \in 1..(n + 1) PROVE StartsIn(more, i) <=> StartsIn(src, i)
    <2>1. \A k \in 1..(i - 1) : k \in 1..n
      BY <1>0
    <2>2. \A k \in 1..(i - 1) : more[k] = src[k]
      BY <1>0, <2>1
    <2>3. QED
      BY <2>2 DEF StartsIn
  <1>2. StartsIn(more, n + 2) <=> StartsIn(src, n + 1) \/ line.is \notin HeaderKinds
    <2>1. 1..((n + 2) - 1) = (1..((n + 1) - 1)) \cup {n + 1}
      BY <1>0
    <2>2. \A k \in 1..((n + 1) - 1) : more[k] = src[k]
      BY <1>0
    <2>3. QED
      BY <1>0, <2>1, <2>2 DEF StartsIn
  <1>3. ASSUME NEW i \in 1..n, NEW name PROVE LastMeant(more, name, i) = LastMeant(src, name, i)
    <2>1. \A k \in 1..i : k \in 1..n
      BY <1>0
    <2>2. \A k \in 1..i : more[k] = src[k]
      BY <1>0, <2>1
    <2>3. MeansIn(more, name, i) = MeansIn(src, name, i)
      BY <2>2 DEF MeansIn
    <2>4. MeansIn(src, name, i) # {} => Max(MeansIn(src, name, i)) \in 1..i
      <3>1. MeansIn(src, name, i) \in SUBSET Nat /\ \A k \in MeansIn(src, name, i) : k <= i
        BY <1>0 DEF MeansIn
      <3>2. i \in Nat
        BY <1>0
      <3>3. MeansIn(src, name, i) # {} => Max(MeansIn(src, name, i)) \in MeansIn(src, name, i)
        BY <3>1, <3>2, GreatestOf
      <3>4. QED
        BY <3>3 DEF MeansIn
    <2>5. QED
      BY <2>2, <2>3, <2>4 DEF LastMeant
  <1>4. ASSUME NEW i \in 1..n PROVE MeantIn(more, i) = MeantIn(src, i)
    <2>1. more[i] = src[i]
      BY <1>0
    <2>2. LastMeant(more, src[i].name, i) = LastMeant(src, src[i].name, i)
      BY <1>3
    <2>3. QED
      BY <2>1, <2>2 DEF MeantIn
  <1>5. QED
    BY <1>1, <1>2, <1>3, <1>4

LEMMA ExtendDirectives ==
    ASSUME NEW src, NEW more, NEW n, NEW line, Extends(src, more, n, line)
    PROVE  /\ DirectivesIn(src) \subseteq 1..n
           /\ DirectivesIn(more) = DirectivesIn(src)
                \cup (IF line.is = "strum" /\ MeantIn(more, n + 1) # Null THEN {n + 1} ELSE {})
           /\ OfIn(src) \subseteq DirectivesIn(src) /\ SaysIn(src) \subseteq OfIn(src)
           /\ ~(line.is = "strum" /\ MeantIn(more, n + 1) # Null
                /\ ~StartsIn(src, n + 1) /\ ~line.once)
                => OfIn(more) = OfIn(src) /\ SaysIn(more) = SaysIn(src)
           /\ line.is = "strum" /\ MeantIn(more, n + 1) # Null
                /\ ~StartsIn(src, n + 1) /\ ~line.once
                => /\ OfIn(more) = OfIn(src) \cup {n + 1}
                   /\ SaysIn(more) = SaysIn(src) \cup
                        (IF line.name = Null \/ line.pattern = Null THEN {n + 1} ELSE {})
  <1>0. /\ n \in Nat /\ more[n + 1] = line /\ DOMAIN src = 1..n /\ DOMAIN more = 1..(n + 1)
        /\ \A i \in 1..n : more[i] = src[i]
    BY DEF Extends
  <1>1. /\ \A i \in 1..(n + 1) : StartsIn(more, i) <=> StartsIn(src, i)
        /\ \A i \in 1..n : MeantIn(more, i) = MeantIn(src, i)
    BY ExtendMeant
  <1>2. 1..(n + 1) = (1..n) \cup {n + 1} /\ n + 1 \notin 1..n /\ n + 1 \in 1..(n + 1)
        /\ \A i \in 1..n : i \in 1..(n + 1)
    BY <1>0
  <1>3. DirectivesIn(src) \subseteq 1..n
    BY <1>0 DEF DirectivesIn
  <1>4. DirectivesIn(more) = DirectivesIn(src)
                \cup (IF line.is = "strum" /\ MeantIn(more, n + 1) # Null THEN {n + 1} ELSE {})
    BY <1>0, <1>1, <1>2 DEF DirectivesIn
  <1>5. OfIn(src) \subseteq DirectivesIn(src) /\ SaysIn(src) \subseteq OfIn(src)
    BY DEF OfIn, SaysIn
  <1>6. OfIn(more) = OfIn(src) \cup
            (IF line.is = "strum" /\ MeantIn(more, n + 1) # Null
                /\ ~StartsIn(src, n + 1) /\ ~line.once THEN {n + 1} ELSE {})
    BY <1>0, <1>1, <1>2, <1>3, <1>4 DEF OfIn
  <1>7. SaysIn(more) = SaysIn(src) \cup
            (IF line.is = "strum" /\ MeantIn(more, n + 1) # Null
                /\ ~StartsIn(src, n + 1) /\ ~line.once
                /\ (line.name = Null \/ line.pattern = Null) THEN {n + 1} ELSE {})
    <2>1. \A i \in OfIn(src) : i \in 1..n /\ more[i] = src[i]
      BY <1>0, <1>3, <1>5
    <2>2. QED
      BY <1>0, <1>2, <1>6, <2>1 DEF SaysIn
  <1>8. QED
    BY <1>3, <1>4, <1>5, <1>6, <1>7

LEMMA ExtendLast ==
    ASSUME NEW src, NEW more, NEW n, NEW line, Extends(src, more, n, line), NEW name
    PROVE  LastMeant(more, name, n + 1) =
             IF line.is = "strum" /\ line.pattern # Null /\ line.name = name THEN line.pattern
             ELSE LastMeant(src, name, n)
  <1>0. /\ n \in Nat /\ more[n + 1] = line /\ \A i \in 1..n : more[i] = src[i]
    BY DEF Extends
  <1>1. 1..(n + 1) = (1..n) \cup {n + 1}
    BY <1>0
  <1>2. PICK means : means = MeansIn(src, name, n)
    OBVIOUS
  <1>3. means \in SUBSET Nat /\ \A k \in means : k \in 1..n /\ k <= n
    BY <1>0, <1>2 DEF MeansIn
  <1>4. CASE line.is = "strum" /\ line.pattern # Null /\ line.name = name
    <2>1. MeansIn(more, name, n + 1) = means \cup {n + 1}
      BY <1>0, <1>1, <1>2, <1>4 DEF MeansIn
    <2>2. PICK all : all = means \cup {n + 1}
      OBVIOUS
    <2>3. n + 1 \in all /\ all \in SUBSET Nat /\ \A k \in all : k <= n + 1
      BY <1>0, <1>3, <2>2
    <2>4. Max(all) = n + 1
      BY <2>3, GreatestIs
    <2>5. MeansIn(more, name, n + 1) = all /\ all # {}
      BY <2>1, <2>2, <2>3
    <2>6. QED
      BY <1>0, <1>4, <2>4, <2>5 DEF LastMeant
  <1>5. CASE ~(line.is = "strum" /\ line.pattern # Null /\ line.name = name)
    <2>1. MeansIn(more, name, n + 1) = means
      BY <1>0, <1>1, <1>2, <1>5 DEF MeansIn
    <2>2. means # {} => Max(means) \in means
      BY <1>0, <1>3, GreatestOf
    <2>3. means # {} => more[Max(means)] = src[Max(means)]
      BY <1>0, <1>3, <2>2
    <2>4. QED
      BY <1>2, <1>5, <2>1, <2>3 DEF LastMeant
  <1>6. QED
    BY <1>4, <1>5

-----------------------------------------------------------------------------
(* The parser's changes are the ones that the text directs. *)

\* A name's pattern is the one that it was last given.
NamedAsMeant == \A name \in Names : named[name] = LastMeant(source, name, Len(source))
\* Whether the song has started.
StartedAsRead == started = StartsIn(source, Len(source) + 1)
\* The change in use from the start is the header's.
StrumIsHeader ==
    /\ strum = Null => OfIn(source) = {}
    /\ strum # Null => /\ strum.line = HeaderIn(source) /\ HeaderIn(source) \in OfIn(source)
                       /\ strum.pattern = MeantIn(source, HeaderIn(source))

\* A change within the song is the directive of its line.
Stands(src, c) ==
    /\ c.line \in DirectivesIn(src) /\ StartsIn(src, c.line)
    /\ c.once = src[c.line].once /\ c.pattern = MeantIn(src, c.line)
\* So do all that are shown or wait.
AllStand(src, text, h, p) ==
    /\ \A z \in Range(text) : z.is = "strum" => Stands(src, z.change)
    /\ \A c \in {h, p} \ {Null} : Stands(src, c)

LEMMA StandsOn ==
    ASSUME NEW src, NEW more, NEW n, NEW line, Extends(src, more, n, line), NEW c, Stands(src, c)
    PROVE  Stands(more, c)
  <1>1. c.line \in 1..n /\ c.line \in DirectivesIn(more)
    BY ExtendDirectives DEF Stands
  <1>2. c.line \in 1..(n + 1) /\ more[c.line] = src[c.line]
    BY <1>1 DEF Extends
  <1>3. StartsIn(more, c.line) <=> StartsIn(src, c.line)
    BY <1>2, ExtendMeant
  <1>4. MeantIn(more, c.line) = MeantIn(src, c.line)
    BY <1>1, ExtendMeant
  <1>5. QED
    BY <1>1, <1>2, <1>3, <1>4 DEF Stands

\* The pattern of a directive that is read is what it means.
LEMMA ReadsMeant ==
    ASSUME NEW src, NEW more, NEW n, NEW line, Extends(src, more, n, line), line.is = "strum"
    PROVE  /\ line.pattern = Null => MeantIn(more, n + 1) = LastMeant(src, line.name, n)
           /\ line.pattern # Null => MeantIn(more, n + 1) = line.pattern
  <1>1. more[n + 1] = line
    BY DEF Extends
  <1>2. PICK name : name = line.name
    OBVIOUS
  <1>3. LastMeant(more, name, n + 1) =
            IF line.is = "strum" /\ line.pattern # Null /\ line.name = name THEN line.pattern
            ELSE LastMeant(src, name, n)
    BY ExtendLast
  <1>4. QED
    BY <1>1, <1>2, <1>3 DEF MeantIn

LEMMA NamedStays ==
    ASSUME ChartTypes, NamedAsMeant, NEW line, Does(line)
    PROVE  NamedAsMeant'
  <1>1. Reads(line)
    BY DEF Does
  <1>2. PICK n \in Nat : n = Len(source) /\ Extends(source, source', n, line)
    BY <1>1, ReadsExtends
  <1>3. Len(source') = n + 1
    BY <1>2 DEF Extends
  <1>4. ASSUME NEW name \in Names PROVE
            LastMeant(source', name, n + 1) =
                IF line.is = "strum" /\ line.pattern # Null /\ line.name = name THEN line.pattern
                ELSE named[name]
    <2>1. LastMeant(source', name, n + 1) =
            IF line.is = "strum" /\ line.pattern # Null /\ line.name = name THEN line.pattern
            ELSE LastMeant(source, name, n)
      BY <1>2, ExtendLast
    <2>2. QED
      BY <1>2, <2>1 DEF NamedAsMeant
  <1>5. CASE line.is # "strum" /\ named' = named
    BY <1>3, <1>4, <1>5 DEF NamedAsMeant
  <1>6. CASE \E once \in BOOLEAN, name \in Names \cup {Null}, pattern \in Patterns \cup {Null} :
                /\ name # Null \/ pattern # Null
                /\ line = [is |-> "strum", once |-> once, name |-> name, pattern |-> pattern]
                /\ XStrum(once, name, pattern) /\ Still
    <2>1. PICK once \in BOOLEAN, name \in Names \cup {Null}, pattern \in Patterns \cup {Null} :
                /\ name # Null \/ pattern # Null
                /\ line = [is |-> "strum", once |-> once, name |-> name, pattern |-> pattern]
                /\ XStrum(once, name, pattern)
      BY <1>6
    <2>2. PICK p : p = IF pattern = Null THEN named[name] ELSE pattern
      OBVIOUS
    <2>3. /\ p = Null => named' = named
          /\ p # Null => named' = IF name # Null THEN [named EXCEPT ![name] = p] ELSE named
      BY <2>1, <2>2 DEF XStrum
    <2>4. line.is = "strum" /\ line.pattern = pattern /\ line.name = name
      BY <2>1
    <2>5. ASSUME NEW other \in Names PROVE named'[other] = LastMeant(source', other, n + 1)
      <3>1. named \in [Names -> Patterns \cup {Null}]
        BY DEF ChartTypes
      <3>2. Null \notin Names
        BY ChartsAssumption
      <3>3. CASE other = name
        <4>1. named'[other] = p
          BY <2>2, <2>3, <3>1, <3>2, <3>3
        <4>2. LastMeant(source', other, n + 1) = IF pattern # Null THEN pattern ELSE named[name]
          BY <1>4, <2>4, <3>3
        <4>3. QED
          BY <2>2, <4>1, <4>2
      <3>4. CASE other # name
        <4>1. named'[other] = named[other]
          BY <2>3, <3>1, <3>4
        <4>2. LastMeant(source', other, n + 1) = named[other]
          BY <1>4, <2>4, <3>4
        <4>3. QED
          BY <4>1, <4>2
      <3>5. QED
        BY <3>3, <3>4
    <2>6. QED
      BY <1>3, <2>5 DEF NamedAsMeant
  <1>7. CASE Quiet(line)
    BY <1>5, <1>7 DEF Quiet
  <1>8. CASE Opens(line)
    BY <1>5, <1>8 DEF Opens, Sectioners
  <1>9. CASE \E z, c : Puts(line, z, c)
    <2>1. line.is # "strum" /\ named' = named
      BY <1>9 DEF Puts
    <2>2. QED
      BY <1>5, <2>1
  <1>10. QED
    BY <1>6, <1>7, <1>8, <1>9 DEF Does

LEMMA StartedStays ==
    ASSUME ChartTypes, StartedAsRead, NEW line, Does(line)
    PROVE  StartedAsRead'
  <1>1. Reads(line)
    BY DEF Does
  <1>2. PICK n \in Nat : n = Len(source) /\ Extends(source, source', n, line)
    BY <1>1, ReadsExtends
  <1>3. StartsIn(source', n + 2) <=> StartsIn(source, n + 1) \/ line.is \notin HeaderKinds
    BY <1>2, ExtendMeant
  <1>4. Len(source') + 1 = n + 2
    BY <1>2 DEF Extends
  <1>5. started' = (started \/ line.is \notin HeaderKinds) /\ started = StartsIn(source, n + 1)
    BY <1>1, <1>2 DEF Reads, StartedAsRead
  <1>6. started' \in BOOLEAN /\ StartsIn(source', n + 2) \in BOOLEAN
    BY <1>5 DEF StartsIn
  <1>7. started' = StartsIn(source', n + 2)
    BY <1>3, <1>5, <1>6
  <1>8. QED
    BY <1>4, <1>7 DEF StartedAsRead

LEMMA HeaderIs ==
    ASSUME NEW src, NEW n \in Nat, OfIn(src) \subseteq 1..n, OfIn(src) # {}
    PROVE  HeaderIn(src) \in OfIn(src)
  <1>1. OfIn(src) \in SUBSET Nat /\ SaysIn(src) \in SUBSET Nat /\ SaysIn(src) \subseteq OfIn(src)
        /\ \A i \in SaysIn(src) : i <= n
    BY DEF SaysIn
  <1>2. Min(OfIn(src)) \in OfIn(src)
    BY <1>1, LeastOf
  <1>3. SaysIn(src) # {} => Max(SaysIn(src)) \in SaysIn(src)
    BY <1>1, GreatestOf
  <1>4. QED
    BY <1>1, <1>2, <1>3 DEF HeaderIn

LEMMA ChangeIs ==
    ASSUME ChartTypes, NEW name \in Names \cup {Null}, NEW pattern \in Patterns \cup {Null},
           name # Null \/ pattern # Null, NEW once \in BOOLEAN, NEW l \in 1..MaxLines,
           NEW p, p = IF pattern = Null THEN named[name] ELSE pattern, p # Null
    PROVE  /\ [name |-> name, pattern |-> p, once |-> once, line |-> l] \in Changes
           /\ [name |-> name, pattern |-> p, once |-> once, line |-> l] # Null
  <1>1. p \in Patterns
    <2>1. pattern = Null => named[name] \in Patterns \cup {Null}
      BY DEF ChartTypes
    <2>2. QED
      BY <2>1
  <1>2. [name |-> name, pattern |-> p, once |-> once, line |-> l] \in Changes
    BY <1>1 DEF Changes
  <1>3. QED
    BY <1>2, NoChange

LEMMA StrumStays ==
    ASSUME ChartTypes, NamedAsMeant, StartedAsRead, StrumIsHeader, NEW line, Does(line)
    PROVE  StrumIsHeader'
  <1>1. Reads(line)
    BY DEF Does
  <1>2. PICK n \in Nat : /\ n = Len(source) /\ n + 1 \in 1..MaxLines
                         /\ Extends(source, source', n, line)
    BY <1>1, ReadsExtends
  <1>3. OfIn(source) \subseteq 1..n /\ SaysIn(source) \subseteq OfIn(source)
        /\ 1..n \in SUBSET Nat
    BY <1>2, ExtendDirectives
  <1>4. \A i \in 1..n : MeantIn(source', i) = MeantIn(source, i)
    BY <1>2, ExtendMeant
  <1> DEFINE heads == /\ line.is = "strum" /\ MeantIn(source', n + 1) # Null
                      /\ ~StartsIn(source, n + 1) /\ ~line.once
  <1>5. /\ ~heads => OfIn(source') = OfIn(source) /\ SaysIn(source') = SaysIn(source)
        /\ heads => /\ OfIn(source') = OfIn(source) \cup {n + 1}
                    /\ SaysIn(source') = SaysIn(source) \cup
                         (IF line.name = Null \/ line.pattern = Null THEN {n + 1} ELSE {})
    BY <1>2, ExtendDirectives
  <1>6. ASSUME strum' = strum, HeaderIn(source') = HeaderIn(source),
               OfIn(source) \subseteq OfIn(source'), strum = Null => OfIn(source') = {}
        PROVE  StrumIsHeader'
    <2>1. strum # Null => HeaderIn(source) \in 1..n
      BY <1>3 DEF StrumIsHeader
    <2>2. strum # Null => MeantIn(source', HeaderIn(source)) = MeantIn(source, HeaderIn(source))
      BY <1>4, <2>1
    <2>3. QED
      BY <1>6, <2>2 DEF StrumIsHeader
  <1>7. ASSUME ~heads, strum' = strum PROVE StrumIsHeader'
    <2>1. OfIn(source') = OfIn(source) /\ SaysIn(source') = SaysIn(source)
      BY <1>5, <1>7
    <2>2. HeaderIn(source') = HeaderIn(source)
      BY <2>1 DEF HeaderIn
    <2> HIDE DEF heads
    <2>3. QED
      BY <1>6, <1>7, <2>1, <2>2 DEF StrumIsHeader
  <1>8. CASE line.is # "strum" /\ strum' = strum
    BY <1>7, <1>8
  <1>9. CASE \E once \in BOOLEAN, name \in Names \cup {Null}, pattern \in Patterns \cup {Null} :
                /\ name # Null \/ pattern # Null
                /\ line = [is |-> "strum", once |-> once, name |-> name, pattern |-> pattern]
                /\ XStrum(once, name, pattern) /\ Still
    <2>1. PICK once \in BOOLEAN, name \in Names \cup {Null}, pattern \in Patterns \cup {Null} :
                /\ name # Null \/ pattern # Null
                /\ line = [is |-> "strum", once |-> once, name |-> name, pattern |-> pattern]
                /\ XStrum(once, name, pattern)
      BY <1>9
    <2>2. PICK p : p = IF pattern = Null THEN named[name] ELSE pattern
      OBVIOUS
    <2>3. PICK change :
            change = [name |-> name, pattern |-> p, once |-> once, line |-> n + 1]
      OBVIOUS
    <2>4. PICK first \in BOOLEAN :
            first = (~once /\ (strum = Null \/ pattern = Null \/ name = Null))
      OBVIOUS
    <2>5. /\ p = Null => strum' = strum
          /\ p # Null => strum' = IF ~started /\ first THEN change ELSE strum
      BY <1>2, <2>1, <2>2, <2>3, <2>4 DEF XStrum
    <2>6. MeantIn(source', n + 1) = p
      <3>1. line.is = "strum" /\ line.name = name /\ line.pattern = pattern
        BY <2>1
      <3>2. Extends(source, source', n, line)
        BY <1>2
      <3>3. /\ pattern = Null => MeantIn(source', n + 1) = LastMeant(source, name, n)
            /\ pattern # Null => MeantIn(source', n + 1) = pattern
        BY <3>1, <3>2, ReadsMeant
      <3>4. pattern = Null => named[name] = LastMeant(source, name, n)
        BY <1>2, <2>1 DEF NamedAsMeant
      <3>5. QED
        BY <2>2, <3>3, <3>4
    <2>7. /\ line.is = "strum" /\ line.pattern = pattern /\ line.name = name
          /\ line.once = once
      BY <2>1
    <2>8. started = StartsIn(source, n + 1)
      BY <1>2 DEF StartedAsRead
    <2>9. heads <=> p # Null /\ ~started /\ ~once
      BY <2>6, <2>7, <2>8
    <2> HIDE DEF heads
    <2>10. CASE ~heads
      <3>1. strum' = strum
        BY <2>4, <2>5, <2>9, <2>10
      <3>2. QED
        BY <1>7, <2>10, <3>1
    <2>11. CASE heads /\ (name = Null \/ pattern = Null)
      <3>1. strum' = change
        BY <2>4, <2>5, <2>9, <2>11
      <3>2. PICK says : says = SaysIn(source) \cup {n + 1}
        OBVIOUS
      <3>3. SaysIn(source') = says /\ n + 1 \in OfIn(source')
        BY <1>5, <2>7, <2>11, <3>2
      <3>4. says \in SUBSET Nat /\ n + 1 \in says /\ \A i \in says : i <= n + 1
        BY <1>3, <3>2
      <3>5. Max(says) = n + 1
        BY <3>4, GreatestIs
      <3>6. HeaderIn(source') = n + 1
        BY <3>3, <3>4, <3>5 DEF HeaderIn
      <3>7. change.line = n + 1 /\ change.pattern = p /\ OfIn(source') # {}
        BY <2>3, <3>3
      <3>8. change # Null
        <4>1. n + 1 \in 1..MaxLines /\ p # Null
          BY <1>2, <2>9, <2>11
        <4>2. QED
          BY <2>1, <2>2, <2>3, <4>1, ChangeIs
      <3>9. QED
        BY <2>6, <3>1, <3>3, <3>6, <3>7, <3>8 DEF StrumIsHeader
    <2>12. CASE heads /\ ~(name = Null \/ pattern = Null) /\ strum = Null
      <3>1. strum' = change
        BY <2>4, <2>5, <2>9, <2>12
      <3>2. OfIn(source) = {} /\ SaysIn(source) = {}
        BY <1>3, <2>12 DEF StrumIsHeader
      <3>3. OfIn(source') = {n + 1} /\ SaysIn(source') = {}
        BY <1>5, <2>7, <2>12, <3>2
      <3>4. Min({n + 1}) = n + 1
        <4>1. PICK only : only = {n + 1}
          OBVIOUS
        <4>2. only \in SUBSET Nat /\ only # {}
          BY <4>1
        <4>3. Min(only) \in only
          BY <4>2, LeastOf
        <4>4. QED
          BY <4>1, <4>3
      <3>5. HeaderIn(source') = n + 1
        BY <3>3, <3>4 DEF HeaderIn
      <3>6. change.line = n + 1 /\ change.pattern = p
        BY <2>3
      <3>7. change # Null
        <4>1. n + 1 \in 1..MaxLines /\ p # Null
          BY <1>2, <2>9, <2>12
        <4>2. QED
          BY <2>1, <2>2, <2>3, <4>1, ChangeIs
      <3>8. QED
        BY <2>6, <3>1, <3>3, <3>5, <3>6, <3>7 DEF StrumIsHeader
    <2>13. CASE heads /\ ~(name = Null \/ pattern = Null) /\ strum # Null
      <3>1. strum' = strum
        BY <2>4, <2>5, <2>9, <2>13
      <3>2. OfIn(source) # {}
        BY <2>13 DEF StrumIsHeader
      <3>3. PICK of, more : of = OfIn(source) /\ more = of \cup {n + 1}
        OBVIOUS
      <3>4. OfIn(source') = more /\ SaysIn(source') = SaysIn(source)
        BY <1>5, <2>7, <2>13, <3>3
      <3>5. of \in SUBSET Nat /\ of # {} /\ more \in SUBSET Nat /\ more # {}
            /\ \A i \in of : i \in 1..n
        BY <1>3, <3>2, <3>3
      <3>6. Min(of) \in of /\ \A i \in of : Min(of) <= i
        BY <3>5, LeastOf
      <3>7. Min(more) \in more /\ \A i \in more : Min(more) <= i
        BY <3>5, LeastOf
      <3>8. PICK l, m : l = Min(of) /\ m = Min(more)
        OBVIOUS
      <3>9. l \in 1..n /\ l \in of /\ l \in more /\ m \in more /\ (m \in of \/ m = n + 1) /\ m <= l
            /\ (m \in of => l <= m) /\ m \in Nat
        BY <3>3, <3>5, <3>6, <3>7, <3>8
      <3>10. l = m
        BY <3>9
      <3>11. HeaderIn(source') = HeaderIn(source)
        BY <3>2, <3>3, <3>4, <3>5, <3>8, <3>10 DEF HeaderIn
      <3>12. OfIn(source) \subseteq OfIn(source')
        BY <3>3, <3>4
      <3>13. QED
        BY <1>6, <2>13, <3>1, <3>11, <3>12
    <2>14. QED
      BY <2>10, <2>11, <2>12, <2>13
  <1>10. CASE Quiet(line)
    BY <1>8, <1>10 DEF Quiet
  <1>11. CASE Opens(line)
    BY <1>8, <1>11 DEF Opens, Sectioners
  <1>12. CASE \E z, c : Puts(line, z, c)
    <2>1. line.is # "strum" /\ strum' = strum
      BY <1>12 DEF Puts
    <2>2. QED
      BY <1>8, <2>1
  <1>13. QED
    BY <1>9, <1>10, <1>11, <1>12 DEF Does

-----------------------------------------------------------------------------
(* What is shown is in the order of the text. *)
Written == {"lyrics", "comment", "tab"}
Strummed == {"strum", "lyrics"}
\* What is shown is in order, and a change that waits comes after it.
TextOrder(t, h, p, n) ==
    /\ t \in Seq(ShownItems) /\ h \in Changes \cup {Null} /\ p \in Changes \cup {Null}
    /\ InOrder(t, Written) /\ InOrder(t, Strummed)
    /\ \A z \in Range(t) : z # BLANK => LineOf(z) <= n
    /\ \A c \in {h, p} \ {Null} : c.line <= n /\ Ahead(t, Strummed, c.line)
    /\ h # Null /\ p # Null => h.line < p.line

LEMMA ItemLine ==
    /\ \A z \in ShownItems : z # BLANK => LineOf(z) \in 1..MaxLines /\ LineOf(z) \in Nat
    /\ \A c \in Changes : /\ LineOf(StrumItem(c)) = c.line /\ c.line \in Nat
                          /\ StrumItem(c).is = "strum" /\ StrumItem(c).change = c
                          /\ StrumItem(c) # BLANK
  <1>1. ASSUME NEW z \in ShownItems, z # BLANK PROVE LineOf(z) \in 1..MaxLines
    <2>1. CASE z \in [is : {"strum"}, change : Changes]
      <3>1. z.is = "strum" /\ z.change \in Changes
        BY <2>1
      <3>2. z.change.line \in 1..MaxLines
        BY <3>1 DEF Changes
      <3>3. QED
        BY <3>1, <3>2 DEF LineOf
    <2>2. CASE z \in [is : {"lyrics", "comment", "tab"}, line : 1..MaxLines, chords : Nat]
      <3>1. z.is # "strum" /\ z.line \in 1..MaxLines
        BY <2>2
      <3>2. QED
        BY <3>1 DEF LineOf
    <2>3. QED
      BY <1>1, <2>1, <2>2 DEF ShownItems
  <1>2. 1..MaxLines \subseteq Nat
    BY ChartsAssumption
  <1>3. \A c \in Changes : c.line \in 1..MaxLines
    BY DEF Changes
  <1>4. \A c : /\ StrumItem(c).is = "strum" /\ StrumItem(c).change = c
               /\ LineOf(StrumItem(c)) = c.line /\ StrumItem(c) # BLANK
    BY DEF StrumItem, LineOf, BLANK
  <1>5. QED
    BY <1>1, <1>2, <1>3, <1>4

LEMMA OrderLater ==
    ASSUME NEW t, NEW h, NEW p, NEW n \in Nat, TextOrder(t, h, p, n)
    PROVE  TextOrder(t, h, p, n + 1) /\ TextOrder(t, p, Null, n + 1) /\ TextOrder(t, Null, p, n + 1)
  <1>1. \A z \in Range(t) : z \in ShownItems
    BY SeqIs DEF TextOrder
  <1>2. \A z \in Range(t) : z # BLANK => LineOf(z) <= n + 1
    BY <1>1, ItemLine DEF TextOrder
  <1>3. \A c \in {h, p} \ {Null} : c.line <= n + 1
    BY ItemLine DEF TextOrder
  <1>4. Null \in Changes \cup {Null}
    OBVIOUS
  <1>5. QED
    BY <1>2, <1>3, <1>4 DEF TextOrder

LEMMA OrderStrum ==
    ASSUME NEW t, NEW h, NEW p, NEW n \in Nat, TextOrder(t, h, p, n),
           NEW c \in Changes, c.line = n + 1
    PROVE  TextOrder(t, h, c, n + 1)
  <1>1. TextOrder(t, h, Null, n + 1)
    <2>1. TextOrder(t, h, p, n + 1)
      BY OrderLater
    <2>2. Null \in Changes \cup {Null}
      OBVIOUS
    <2>3. QED
      BY <2>1, <2>2 DEF TextOrder
  <1>2. Ahead(t, Strummed, n + 1)
    <2>1. \A z \in Range(t) : z \in ShownItems
      BY SeqIs DEF TextOrder
    <2>2. ASSUME NEW z \in Range(t), z.is \in Strummed PROVE LineOf(z) < n + 1
      <3>1. z # BLANK
        BY <2>2 DEF BLANK, Strummed
      <3>2. LineOf(z) \in Nat /\ LineOf(z) <= n
        BY <2>1, <3>1, ItemLine DEF TextOrder
      <3>3. QED
        BY <3>2
    <2>3. QED
      BY <2>2 DEF Ahead
  <1>3. h # Null => h.line < n + 1
    BY ItemLine DEF TextOrder
  <1>4. QED
    BY <1>1, <1>2, <1>3 DEF TextOrder

LEMMA OrderShows ==
    ASSUME NEW t, NEW h, NEW p, NEW n \in Nat, TextOrder(t, h, p, n),
           NEW u, u = t \o AsItem(p)
    PROVE  TextOrder(u, Null, Null, n + 1)
  <1>1. t \in Seq(ShownItems) /\ p \in Changes \cup {Null}
    BY DEF TextOrder
  <1>2. ChangeAdded(t, p, u)
    BY <1>1, AddChange
  <1>3. /\ u \in Seq(ShownItems)
        /\ Range(u) = Range(t) \cup (IF p = Null THEN {} ELSE {StrumItem(p)})
    BY <1>2, Zenon DEF ChangeAdded
  <1>4. ASSUME NEW kinds, InOrder(t, kinds),
               "strum" \in kinds /\ p # Null => Ahead(t, kinds, p.line)
        PROVE  InOrder(u, kinds)
    BY <1>2, <1>4, Zenon DEF ChangeAdded
  <1>5. InOrder(u, Written)
    <2>1. InOrder(t, Written) /\ "strum" \notin Written
      BY DEF TextOrder, Written
    <2>2. QED
      BY <1>4, <2>1
  <1>6. InOrder(u, Strummed)
    <2>1. InOrder(t, Strummed) /\ (p # Null => Ahead(t, Strummed, p.line))
      BY DEF TextOrder
    <2>2. QED
      BY <1>4, <2>1
  <1>7. ASSUME NEW z \in Range(u), z # BLANK PROVE LineOf(z) <= n + 1
    <2>1. CASE z \in Range(t)
      BY <1>7, <2>1, OrderLater DEF TextOrder
    <2>2. CASE p # Null /\ z = StrumItem(p)
      <3>1. LineOf(z) = p.line /\ p.line <= n /\ p.line \in Nat
        BY <1>1, <2>2, ItemLine DEF TextOrder
      <3>2. QED
        BY <3>1
    <2>3. QED
      BY <1>3, <1>7, <2>1, <2>2
  <1>8. Null \in Changes \cup {Null}
    OBVIOUS
  <1>9. QED
    BY <1>3, <1>5, <1>6, <1>7, <1>8 DEF TextOrder

LEMMA OrderPuts ==
    ASSUME NEW t, NEW h, NEW p, NEW n \in Nat, TextOrder(t, h, p, n),
           NEW z \in ShownItems, z.is \in Written, z.line = n + 1,
           NEW c, NEW q, \/ c = p /\ q = Null
                         \/ c = Null /\ q = p /\ z.is # "lyrics",
           NEW u, Adds(t, h, c, z, u)
    PROVE  TextOrder(u, Null, q, n + 1)
  <1>1. t \in Seq(ShownItems) /\ h \in Changes \cup {Null} /\ p \in Changes \cup {Null}
    BY DEF TextOrder
  <1>2. c \in Changes \cup {Null} /\ q \in Changes \cup {Null} /\ (c = Null \/ q = Null)
    BY <1>1
  <1>3. z.is # "strum" /\ LineOf(z) = n + 1
    BY DEF Written, LineOf
  <1>4. /\ u \in Seq(ShownItems)
        /\ \A y \in Range(u) : \/ y \in Range(t) \cup {BLANK, z}
                               \/ \E d \in {h, c} \ {Null} : y = StrumItem(d)
        /\ \A kinds : Follows(t, h, c, z, kinds) => InOrder(u, kinds)
    <2>1. AllAdded(t, h, c, z, u)
      BY <1>1, <1>2, <1>3, AddsAll
    <2>2. QED
      BY <2>1, Zenon DEF AllAdded
  <1>5. \A d \in {h, c} \ {Null} : d \in Changes /\ d.line <= n /\ d.line < n + 1 /\ d.line \in Nat
    <2>1. \A d \in {h, c} \ {Null} : d \in Changes /\ d.line <= n
      BY <1>1 DEF TextOrder
    <2>2. QED
      BY <2>1, ItemLine
  <1>6. ASSUME NEW kinds, "blank" \notin kinds PROVE Ahead(t, kinds, n + 1)
    <2>1. \A y \in Range(t) : y \in ShownItems
      BY <1>1, SeqIs
    <2>2. ASSUME NEW y \in Range(t), y.is \in kinds PROVE LineOf(y) < n + 1
      <3>1. y # BLANK
        BY <1>6, <2>2 DEF BLANK
      <3>2. LineOf(y) \in Nat /\ LineOf(y) <= n
        BY <2>1, <3>1, ItemLine DEF TextOrder
      <3>3. QED
        BY <3>2
    <2>3. QED
      BY <2>2 DEF Ahead
  <1>7. InOrder(u, Written)
    <2>1. "blank" \notin Written /\ "strum" \notin Written
      BY DEF Written
    <2>2. Ahead(t, Written, n + 1) /\ InOrder(t, Written)
      BY <1>6, <2>1 DEF TextOrder
    <2>3. Follows(t, h, c, z, Written)
      BY <2>1, <2>2 DEF Follows
    <2>4. QED
      BY <1>4, <2>3
  <1>8. InOrder(u, Strummed)
    <2>1. "blank" \notin Strummed
      BY DEF Strummed
    <2>2. Ahead(t, Strummed, n + 1) /\ InOrder(t, Strummed)
      BY <1>6, <2>1 DEF TextOrder
    <2>3. /\ h # Null => Ahead(t, Strummed, h.line) /\ h.line < z.line
          /\ c # Null => Ahead(t, Strummed, c.line) /\ c.line < z.line
          /\ h # Null /\ c # Null => h.line < c.line
      BY <1>5 DEF TextOrder
    <2>4. Follows(t, h, c, z, Strummed)
      BY <2>1, <2>2, <2>3 DEF Follows
    <2>5. QED
      BY <1>4, <2>4
  <1>9. ASSUME NEW y \in Range(u), y # BLANK PROVE LineOf(y) <= n + 1
    <2>1. CASE y \in Range(t)
      BY <1>9, <2>1, OrderLater DEF TextOrder
    <2>2. CASE y = z
      BY <1>3, <2>2
    <2>3. CASE \E d \in {h, c} \ {Null} : y = StrumItem(d)
      <3>1. PICK d \in {h, c} \ {Null} : y = StrumItem(d)
        BY <2>3
      <3>2. LineOf(y) = d.line /\ d.line <= n /\ d.line \in Nat
        BY <1>5, <3>1, ItemLine
      <3>3. QED
        BY <3>2
    <2>4. QED
      BY <1>4, <1>9, <2>1, <2>2, <2>3
  <1>10. q # Null => q.line <= n + 1 /\ Ahead(u, Strummed, q.line)
    <2>1. SUFFICES ASSUME q # Null PROVE q.line <= n + 1 /\ Ahead(u, Strummed, q.line)
      OBVIOUS
    <2>2. q = p /\ c = Null /\ z.is \in {"comment", "tab"} /\ p \in Changes
      BY <1>2, <2>1 DEF Written
    <2>3. /\ p.line <= n /\ Ahead(t, Strummed, p.line) /\ p.line \in Nat
          /\ h # Null => h.line < p.line
      BY <2>1, <2>2, ItemLine DEF TextOrder
    <2>4. ASSUME NEW y \in Range(u), y.is \in Strummed PROVE LineOf(y) < p.line
      <3>1. y # BLANK /\ y # z
        BY <2>2, <2>4 DEF BLANK, Strummed
      <3>2. CASE y \in Range(t)
        BY <2>3, <2>4, <3>2 DEF Ahead
      <3>3. CASE h # Null /\ y = StrumItem(h)
        BY <1>1, <2>3, <3>3, ItemLine
      <3>4. QED
        BY <1>4, <2>2, <3>1, <3>2, <3>3
    <2>5. QED
      BY <2>2, <2>3, <2>4 DEF Ahead
  <1>11. Null \in Changes \cup {Null}
    OBVIOUS
  <1>12. QED
    BY <1>2, <1>4, <1>7, <1>8, <1>9, <1>10, <1>11 DEF TextOrder

-----------------------------------------------------------------------------
(* A line's effect on what is shown and on the changes that wait. *)

\* The change that waits after a strum directive: its own, once the song has
\* started, or the one before.
Marks(more, p, n, line, q) ==
    /\ line.is = "strum"
    /\ q = p \/ (q \in Changes /\ q.line = n + 1 /\ Stands(more, q))
    /\ n + 1 \in DirectivesIn(more) /\ StartsIn(more, n + 1) => q \in Changes /\ q.line = n + 1
\* What becomes of a waiting change at a section.
OpensTo(t, p, u, g, q) ==
    \/ u = t \o AsItem(p) /\ g = Null /\ q = Null
    \/ u = t /\ g = p /\ q = Null
    \/ u = t /\ g = Null /\ q = p
\* What a line that is shown adds.
PutsTo(t, h, p, n, line, z, c, u, g, q) ==
    /\ z \in ShownItems /\ z.line = n + 1 /\ z.is \in Written
    /\ \/ line.is \in Written /\ z.is = line.is
       \/ line.is = "header" /\ z.is = "comment"
    /\ line.is = "lyrics" => z.chords = line.chords
    /\ \/ c = p /\ q = Null
       \/ c = Null /\ q = p /\ line.is \in {"tab", "header"}
    /\ Adds(t, h, c, z, u) /\ g = Null
\* Any line of the text does one of these.
Moves(more, t, h, p, n, line, u, g, q) ==
    \/ Marks(more, p, n, line, q) /\ u = t /\ g = h
    \/ line.is \in {"skipped", "blank"} /\ u = t /\ g = h /\ q = p
    \/ line.is \in Sectioners /\ OpensTo(t, p, u, g, q)
    \/ \E z, c : PutsTo(t, h, p, n, line, z, c, u, g, q)

LEMMA LineMoves ==
    ASSUME ChartTypes, NamedAsMeant, StartedAsRead, NEW line, Does(line)
    PROVE  \E n \in Nat :
            /\ n = Len(source) /\ Extends(source, source', n, line) /\ line \in SourceLines
            /\ Moves(source', ChartText, Held, pending, n, line, ChartText', Held', pending')
  <1>1. Reads(line)
    BY DEF Does
  <1>2. PICK n \in Nat : /\ n = Len(source) /\ n + 1 \in 1..MaxLines
                         /\ Extends(source, source', n, line) /\ line \in SourceLines
    BY <1>1, ReadsExtends
  <1>3. PICK more, t, h, p, u, g, q :
            /\ more = source' /\ t = ChartText /\ h = Held /\ p = pending
            /\ u = ChartText' /\ g = Held' /\ q = pending'
    OBVIOUS
  <1>4. SUFFICES Moves(more, t, h, p, n, line, u, g, q)
    BY <1>2, <1>3
  <1>5. CASE \E once \in BOOLEAN, name \in Names \cup {Null}, pattern \in Patterns \cup {Null} :
                /\ name # Null \/ pattern # Null
                /\ line = [is |-> "strum", once |-> once, name |-> name, pattern |-> pattern]
                /\ XStrum(once, name, pattern) /\ Still
    <2>1. PICK once \in BOOLEAN, name \in Names \cup {Null}, pattern \in Patterns \cup {Null} :
                /\ name # Null \/ pattern # Null
                /\ line = [is |-> "strum", once |-> once, name |-> name, pattern |-> pattern]
                /\ XStrum(once, name, pattern) /\ Still
      BY <1>5
    <2>2. PICK m : m = IF pattern = Null THEN named[name] ELSE pattern
      OBVIOUS
    <2>3. PICK change :
            change = [name |-> name, pattern |-> m, once |-> once, line |-> n + 1]
      OBVIOUS
    <2>4. /\ m = Null => pending' = pending
          /\ m # Null => pending' = IF started THEN change ELSE pending
      BY <1>2, <2>1, <2>2, <2>3 DEF XStrum
    <2>5. u = t /\ g = h
      BY <1>3, <2>1 DEF Still
    <2>6. line.is = "strum" /\ line.name = name /\ line.pattern = pattern /\ line.once = once
      BY <2>1
    <2>7. MeantIn(more, n + 1) = m
      <3>1. line.is = "strum" /\ line.name = name /\ line.pattern = pattern
        BY <2>1
      <3>2. Extends(source, source', n, line)
        BY <1>2
      <3>3. /\ pattern = Null => MeantIn(source', n + 1) = LastMeant(source, name, n)
            /\ pattern # Null => MeantIn(source', n + 1) = pattern
        BY <3>1, <3>2, ReadsMeant
      <3>4. pattern = Null => named[name] = LastMeant(source, name, n)
        BY <1>2, <2>1 DEF NamedAsMeant
      <3>5. QED
        BY <1>3, <2>2, <3>3, <3>4
    <2>8. /\ DOMAIN more = 1..(n + 1) /\ more[n + 1] = line /\ n + 1 \in 1..(n + 1)
      BY <1>2, <1>3 DEF Extends
    <2>9. n + 1 \in DirectivesIn(more) <=> m # Null
      BY <2>6, <2>7, <2>8 DEF DirectivesIn
    <2>10. StartsIn(more, n + 1) <=> started
      <3>1. StartsIn(source', n + 1) <=> StartsIn(source, n + 1)
        BY <1>2, <2>8, ExtendMeant
      <3>2. QED
        BY <1>2, <1>3, <3>1 DEF StartedAsRead
    <2>11. CASE m # Null /\ started
      <3>1. q = change
        BY <1>3, <2>4, <2>11
      <3>2. change \in Changes
        BY <1>2, <2>1, <2>2, <2>3, <2>11, ChangeIs
      <3>3. Stands(more, change)
        BY <2>3, <2>6, <2>7, <2>8, <2>9, <2>10, <2>11 DEF Stands
      <3>4. change.line = n + 1
        BY <2>3
      <3>5. Marks(more, p, n, line, q)
        BY <2>6, <3>1, <3>2, <3>3, <3>4 DEF Marks
      <3>6. QED
        BY <2>5, <3>5 DEF Moves
    <2>12. CASE ~(m # Null /\ started)
      <3>1. q = p
        BY <1>3, <2>4, <2>12
      <3>2. Marks(more, p, n, line, q)
        BY <2>6, <2>9, <2>10, <2>12, <3>1 DEF Marks
      <3>3. QED
        BY <2>5, <3>2 DEF Moves
    <2>13. QED
      BY <2>11, <2>12
  <1>6. CASE Quiet(line)
    <2>1. line.is \in {"skipped", "blank"} /\ u = t /\ g = h /\ q = p
      BY <1>3, <1>6 DEF Quiet, Still
    <2>2. QED
      BY <2>1 DEF Moves
  <1>7. CASE Opens(line)
    <2>1. line.is \in Sectioners /\ OpensTo(t, p, u, g, q)
      BY <1>3, <1>7 DEF Opens, OpensTo
    <2>2. QED
      BY <2>1 DEF Moves
  <1>8. CASE \E z, c : Puts(line, z, c)
    <2>1. PICK z, c : Puts(line, z, c)
      BY <1>8
    <2>2. PutsTo(t, h, p, n, line, z, c, u, g, q)
      BY <1>2, <1>3, <2>1 DEF Puts, PutsTo, Written
    <2>3. QED
      BY <2>2 DEF Moves
  <1>9. QED
    BY <1>5, <1>6, <1>7, <1>8 DEF Does

LEMMA OrderMoves ==
    ASSUME NEW more, NEW t, NEW h, NEW p, NEW n \in Nat, NEW line, NEW u, NEW g, NEW q,
           Moves(more, t, h, p, n, line, u, g, q), TextOrder(t, h, p, n)
    PROVE  TextOrder(u, g, q, n + 1)
  <1>1. CASE Marks(more, p, n, line, q) /\ u = t /\ g = h
    <2>1. CASE q = p
      BY <1>1, <2>1, OrderLater
    <2>2. CASE q \in Changes /\ q.line = n + 1
      BY <1>1, <2>2, OrderStrum
    <2>3. QED
      BY <1>1, <2>1, <2>2 DEF Marks
  <1>2. CASE u = t /\ g = h /\ q = p
    BY <1>2, OrderLater
  <1>3. CASE OpensTo(t, p, u, g, q)
    <2>1. CASE u = t \o AsItem(p) /\ g = Null /\ q = Null
      BY <2>1, OrderShows
    <2>2. CASE u = t /\ g = p /\ q = Null
      BY <2>2, OrderLater
    <2>3. CASE u = t /\ g = Null /\ q = p
      BY <2>3, OrderLater
    <2>4. QED
      BY <1>3, <2>1, <2>2, <2>3 DEF OpensTo
  <1>4. ASSUME NEW z, NEW c, PutsTo(t, h, p, n, line, z, c, u, g, q)
        PROVE  TextOrder(u, g, q, n + 1)
    <2>1. z \in ShownItems /\ z.is \in Written /\ z.line = n + 1 /\ Adds(t, h, c, z, u) /\ g = Null
      BY <1>4 DEF PutsTo
    <2>2. \/ c = p /\ q = Null
          \/ c = Null /\ q = p /\ z.is # "lyrics"
      BY <1>4 DEF PutsTo
    <2>3. TextOrder(u, Null, q, n + 1)
      BY <2>1, <2>2, OrderPuts
    <2>4. QED
      BY <2>1, <2>3
  <1>5. QED
    BY <1>1, <1>2, <1>3, <1>4 DEF Moves

\* What is shown stays, and what comes was waiting or is the line's.
IsNew(y, n, line) ==
    /\ y.is \in Written /\ y.line = n + 1
    /\ y.is = "lyrics" => line.is = "lyrics" /\ y.chords = line.chords
ShowsMore(more, t, h, p, n, line, u, g, q) ==
    /\ Prefix(t, u) /\ Range(t) \subseteq Range(u)
    /\ \A y \in Range(u) : \/ y \in Range(t) \cup {BLANK} \/ IsNew(y, n, line)
                           \/ \E d \in {h, p} \ {Null} : y = StrumItem(d)
    /\ line.is \in Written => \E y \in Range(u) : y.is = line.is /\ y.line = n + 1
    /\ g \in {h, p, Null} /\ (q \in {p, Null} \/ Stands(more, q))

LEMMA SameShown ==
    ASSUME NEW t \in Seq(ShownItems)
    PROVE  Prefix(t, t) /\ Range(t) \subseteq Range(t)
  <1>1. Len(t) \in Nat
    BY SeqIs
  <1>2. QED
    BY <1>1 DEF Prefix

LEMMA MovesShow ==
    ASSUME NEW more, NEW t, NEW h, NEW p, NEW n \in Nat, NEW line, NEW u, NEW g, NEW q,
           Moves(more, t, h, p, n, line, u, g, q), TextOrder(t, h, p, n)
    PROVE  ShowsMore(more, t, h, p, n, line, u, g, q)
  <1>0. t \in Seq(ShownItems) /\ h \in Changes \cup {Null} /\ p \in Changes \cup {Null}
    BY DEF TextOrder
  <1>1. ASSUME u = t, line.is \notin Written, g \in {h, p, Null}, q \in {p, Null} \/ Stands(more, q)
        PROVE  ShowsMore(more, t, h, p, n, line, u, g, q)
    <2>1. Prefix(t, u) /\ Range(t) \subseteq Range(u)
      BY <1>0, <1>1, SameShown
    <2>2. \A y \in Range(u) : y \in Range(t) \cup {BLANK}
      BY <1>1
    <2>3. QED
      BY <1>1, <2>1, <2>2 DEF ShowsMore
  <1>2. CASE Marks(more, p, n, line, q) /\ u = t /\ g = h
    <2>1. line.is \notin Written /\ (q = p \/ Stands(more, q))
      BY <1>2 DEF Marks, Written
    <2>2. QED
      BY <1>1, <1>2, <2>1
  <1>3. CASE line.is \in {"skipped", "blank"} /\ u = t /\ g = h /\ q = p
    <2>1. line.is \notin Written
      BY <1>3 DEF Written
    <2>2. QED
      BY <1>1, <1>3, <2>1
  <1>4. CASE line.is \in Sectioners /\ OpensTo(t, p, u, g, q)
    <2>1. line.is \notin Written
      BY <1>4 DEF Written, Sectioners
    <2>2. CASE u = t \o AsItem(p) /\ g = Null /\ q = Null
      <3>1. ChangeAdded(t, p, u)
        BY <1>0, <2>2, AddChange
      <3>2. Prefix(t, u) /\ Range(u) = Range(t) \cup (IF p = Null THEN {} ELSE {StrumItem(p)})
        BY <3>1, Zenon DEF ChangeAdded
      <3>3. Range(t) \subseteq Range(u)
        BY <3>2
      <3>4. \A y \in Range(u) : y \in Range(t) \/ (p # Null /\ y = StrumItem(p))
        BY <3>2
      <3>5. \A y \in Range(u) : y \in Range(t) \cup {BLANK}
                                \/ \E d \in {h, p} \ {Null} : y = StrumItem(d)
        BY <3>4
      <3>6. QED
        BY <2>1, <2>2, <3>2, <3>3, <3>5 DEF ShowsMore
    <2>3. CASE u = t /\ g \in {h, p, Null} /\ q \in {p, Null}
      BY <1>1, <2>1, <2>3
    <2>4. QED
      BY <1>4, <2>2, <2>3 DEF OpensTo
  <1>5. ASSUME NEW z, NEW c, PutsTo(t, h, p, n, line, z, c, u, g, q)
        PROVE  ShowsMore(more, t, h, p, n, line, u, g, q)
    <2>1. /\ z \in ShownItems /\ z.line = n + 1 /\ z.is \in Written
          /\ \/ line.is \in Written /\ z.is = line.is
             \/ line.is = "header" /\ z.is = "comment"
          /\ line.is = "lyrics" => z.chords = line.chords
          /\ Adds(t, h, c, z, u) /\ c \in {p, Null} /\ g = Null /\ q \in {p, Null}
      BY <1>5 DEF PutsTo
    <2>2. c \in Changes \cup {Null} /\ z.is # "strum"
      BY <1>0, <2>1 DEF Written
    <2>3. AllAdded(t, h, c, z, u)
      BY <1>0, <2>1, <2>2, AddsAll
    <2>4. /\ Prefix(t, u) /\ Range(t) \subseteq Range(u) /\ z \in Range(u)
          /\ \A y \in Range(u) : \/ y \in Range(t) \cup {BLANK, z}
                                 \/ \E d \in {h, c} \ {Null} : y = StrumItem(d)
      BY <2>3, Zenon DEF AllAdded
    <2>5. IsNew(z, n, line)
      BY <2>1 DEF IsNew, Written
    <2>6. line.is \in Written => z.is = line.is
      BY <2>1 DEF Written
    <2>7. \A y \in Range(u) : \/ y \in Range(t) \cup {BLANK} \/ IsNew(y, n, line)
                              \/ \E d \in {h, p} \ {Null} : y = StrumItem(d)
      BY <2>1, <2>4, <2>5
    <2>8. QED
      BY <2>1, <2>4, <2>6, <2>7 DEF ShowsMore
  <1>6. QED
    BY <1>2, <1>3, <1>4, <1>5 DEF Moves

-----------------------------------------------------------------------------

\* Everything written is shown, and the lyrics with the chords they have.
AllRead(src, t) ==
    /\ \A i \in DOMAIN src : src[i].is \in Written =>
            \E z \in Range(t) : z.is = src[i].is /\ z.line = i
    /\ \A z \in Range(t) : z.is = "lyrics" =>
            /\ z.line \in DOMAIN src
            /\ src[z.line].is = "lyrics" /\ z.chords = src[z.line].chords

LEMMA ReadMoves ==
    ASSUME NEW src, NEW more, NEW t, NEW h, NEW p, NEW n \in Nat, NEW line, NEW u, NEW g, NEW q,
           Extends(src, more, n, line), ShowsMore(more, t, h, p, n, line, u, g, q),
           AllRead(src, t)
    PROVE  AllRead(more, u)
  <1>1. /\ DOMAIN src = 1..n /\ DOMAIN more = 1..(n + 1)
        /\ more[n + 1] = line /\ \A i \in 1..n : more[i] = src[i]
    BY DEF Extends
  <1>2. ASSUME NEW i \in 1..(n + 1), more[i].is \in Written
        PROVE  \E z \in Range(u) : z.is = more[i].is /\ z.line = i
    <2>1. CASE i = n + 1
      BY <1>1, <1>2, <2>1 DEF ShowsMore
    <2>2. CASE i # n + 1
      <3>1. i \in 1..n /\ more[i] = src[i]
        BY <1>1, <2>2
      <3>2. PICK z \in Range(t) : z.is = src[i].is /\ z.line = i
        BY <1>1, <1>2, <3>1 DEF AllRead
      <3>3. z \in Range(u)
        BY DEF ShowsMore
      <3>4. QED
        BY <3>1, <3>2, <3>3
    <2>3. QED
      BY <2>1, <2>2
  <1>3. ASSUME NEW z \in Range(u), z.is = "lyrics"
        PROVE  /\ z.line \in 1..(n + 1)
               /\ more[z.line].is = "lyrics" /\ z.chords = more[z.line].chords
    <2>1. CASE z \in Range(t)
      <3>1. /\ z.line \in 1..n
            /\ src[z.line].is = "lyrics" /\ z.chords = src[z.line].chords
        BY <1>1, <1>3, <2>1 DEF AllRead
      <3>2. more[z.line] = src[z.line] /\ z.line \in 1..(n + 1)
        BY <1>1, <3>1
      <3>3. QED
        BY <3>1, <3>2
    <2>2. CASE IsNew(z, n, line)
      <3>1. z.line = n + 1 /\ line.is = "lyrics" /\ z.chords = line.chords
        BY <1>3, <2>2 DEF IsNew
      <3>2. QED
        BY <1>1, <3>1
    <2>3. z # BLANK /\ \A d : z # StrumItem(d)
      BY <1>3 DEF BLANK, StrumItem
    <2>4. QED
      BY <2>1, <2>2, <2>3 DEF ShowsMore
  <1>4. QED
    BY <1>1, <1>2, <1>3 DEF AllRead

LEMMA StandMoves ==
    ASSUME NEW src, NEW more, NEW t, NEW h, NEW p, NEW n \in Nat, NEW line, NEW u, NEW g, NEW q,
           Extends(src, more, n, line), ShowsMore(more, t, h, p, n, line, u, g, q),
           AllStand(src, t, h, p)
    PROVE  AllStand(more, u, g, q)
  <1>1. \A c \in {h, p} \ {Null} : Stands(more, c)
    BY StandsOn DEF AllStand
  <1>2. ASSUME NEW z \in Range(u), z.is = "strum" PROVE Stands(more, z.change)
    <2>1. CASE z \in Range(t)
      <3>1. Stands(src, z.change)
        BY <1>2, <2>1 DEF AllStand
      <3>2. QED
        BY <3>1, StandsOn
    <2>2. CASE \E d \in {h, p} \ {Null} : z = StrumItem(d)
      <3>1. PICK d \in {h, p} \ {Null} : z = StrumItem(d)
        BY <2>2
      <3>2. z.change = d
        BY <3>1 DEF StrumItem
      <3>3. QED
        BY <1>1, <3>2
    <2>3. z # BLANK /\ ~IsNew(z, n, line)
      BY <1>2 DEF BLANK, IsNew, Written
    <2>4. QED
      BY <2>1, <2>2, <2>3 DEF ShowsMore
  <1>3. \A c \in {g, q} \ {Null} : Stands(more, c)
    BY <1>1 DEF ShowsMore
  <1>4. QED
    BY <1>2, <1>3 DEF AllStand

-----------------------------------------------------------------------------
(* Where the directives are. *)

Halts == {"lyrics", "comment"}
\* A directive's change is shown.
IsPlaced(t, i) == \E z \in Range(t) : z.is = "strum" /\ z.change.line = i
\* No line comes that it could be for.
Clear(src, i, k) == \A m \in i..k : src[m].is \notin Halts
\* Another directive comes, or two sections.
Crossed(src, i, k) ==
    \/ \E j \in (i + 1)..k : src[j].is = "strum"
    \/ \E j, m \in (i + 1)..k : j < m /\ src[j].is \in Sectioners /\ src[m].is \in Sectioners
\* A directive waits, with its section or for the next line.
WaitsAt(src, t, h, p, n, i) ==
    \/ IsPlaced(t, i)
    \/ p # Null /\ p.line = i
    \/ h # Null /\ h.line = i /\ \E j \in (i + 1)..n : src[j].is \in Sectioners
    \/ Crossed(src, i, n)

\* A directive waits until there is a line it is for, if nothing comes
\* between, and is shown at that line.
Waits(src, t, h, p, n) ==
    \A i \in DirectivesIn(src) : StartsIn(src, i) =>
        /\ Clear(src, i, n) => WaitsAt(src, t, h, p, n, i)
        /\ \A k \in i..n : src[k].is \in Halts /\ Clear(src, i, k - 1)
                           => IsPlaced(t, i) \/ Crossed(src, i, k - 1)

LEMMA CrossedOn ==
    ASSUME NEW src, NEW more, NEW n, NEW line, Extends(src, more, n, line), NEW i \in 1..n
    PROVE  /\ \A k \in 0..n : (Clear(more, i, k) <=> Clear(src, i, k))
                              /\ (Crossed(more, i, k) <=> Crossed(src, i, k))
           /\ Crossed(src, i, n) => Crossed(more, i, n + 1)
           /\ Clear(more, i, n + 1) => Clear(src, i, n) /\ line.is \notin Halts
           /\ line.is = "strum" => Crossed(more, i, n + 1)
           /\ line.is \in Sectioners /\ (\E j \in (i + 1)..n : src[j].is \in Sectioners)
                => Crossed(more, i, n + 1)
  <1>0. n \in Nat /\ more[n + 1] = line /\ (\A k \in 1..n : more[k] = src[k]) /\ i \in Nat /\ i > 0
    BY DEF Extends
  <1>1. ASSUME NEW k \in 0..n
        PROVE  /\ \A m \in i..k : more[m] = src[m]
               /\ \A m \in (i + 1)..k : more[m] = src[m]
    BY <1>0
  <1>2. ASSUME NEW k \in 0..n
        PROVE  /\ Clear(more, i, k) <=> Clear(src, i, k)
               /\ Crossed(more, i, k) <=> Crossed(src, i, k)
    <2>1. Clear(more, i, k) <=> Clear(src, i, k)
      BY <1>1 DEF Clear
    <2>2. Crossed(more, i, k) <=> Crossed(src, i, k)
      BY <1>1 DEF Crossed
    <2>3. QED
      BY <2>1, <2>2
  <1>3. /\ \A j \in (i + 1)..n : j \in (i + 1)..(n + 1) /\ more[j] = src[j] /\ j < n + 1
        /\ \A j \in i..n : j \in i..(n + 1) /\ more[j] = src[j]
        /\ n + 1 \in (i + 1)..(n + 1) /\ n + 1 \in i..(n + 1)
    BY <1>0
  <1>4. Crossed(src, i, n) => Crossed(more, i, n + 1)
    BY <1>3 DEF Crossed
  <1>5. Clear(more, i, n + 1) => Clear(src, i, n) /\ line.is \notin Halts
    BY <1>0, <1>3 DEF Clear
  <1>6. line.is = "strum" => Crossed(more, i, n + 1)
    BY <1>0, <1>3 DEF Crossed
  <1>7. line.is \in Sectioners /\ (\E j \in (i + 1)..n : src[j].is \in Sectioners)
                => Crossed(more, i, n + 1)
    BY <1>0, <1>3 DEF Crossed
  <1>8. QED
    BY <1>2, <1>4, <1>5, <1>6, <1>7

LEMMA PlacedIs ==
    ASSUME NEW u, NEW d, StrumItem(d) \in Range(u)
    PROVE  IsPlaced(u, d.line)
  BY DEF IsPlaced, StrumItem

LEMMA PutsPlaces ==
    ASSUME NEW t, NEW h, NEW p, NEW n \in Nat, TextOrder(t, h, p, n), NEW line, NEW u, NEW g, NEW q,
           NEW z, NEW c, PutsTo(t, h, p, n, line, z, c, u, g, q)
    PROVE  /\ h # Null => IsPlaced(u, h.line)
           /\ p # Null => IsPlaced(u, p.line) \/ (q = p /\ line.is \in {"tab", "header"})
  <1>0. t \in Seq(ShownItems) /\ h \in Changes \cup {Null} /\ p \in Changes \cup {Null}
    BY DEF TextOrder
  <1>1. /\ z \in ShownItems /\ z.is \in Written /\ Adds(t, h, c, z, u)
        /\ \/ c = p /\ q = Null
           \/ c = Null /\ q = p /\ line.is \in {"tab", "header"}
    BY DEF PutsTo
  <1>2. c \in Changes \cup {Null} /\ z.is # "strum"
    BY <1>0, <1>1 DEF Written
  <1>3. AllAdded(t, h, c, z, u)
    BY <1>0, <1>1, <1>2, AddsAll
  <1>4. \A d \in {h, c} \ {Null} : StrumItem(d) \in Range(u)
    BY <1>3, Zenon DEF AllAdded
  <1>5. h # Null => StrumItem(h) \in Range(u)
    BY <1>4
  <1>6. c # Null => StrumItem(c) \in Range(u)
    BY <1>4
  <1>7. QED
    BY <1>1, <1>5, <1>6, PlacedIs

LEMMA WaitMoves ==
    ASSUME NEW src, NEW more, NEW t, NEW h, NEW p, NEW n \in Nat, NEW line, NEW u, NEW g, NEW q,
           Extends(src, more, n, line), Moves(more, t, h, p, n, line, u, g, q),
           TextOrder(t, h, p, n), Waits(src, t, h, p, n)
    PROVE  Waits(more, u, g, q, n + 1)
  <1>1. ShowsMore(more, t, h, p, n, line, u, g, q)
    BY MovesShow
  <1>2. \A i : IsPlaced(t, i) => IsPlaced(u, i)
    BY <1>1 DEF ShowsMore, IsPlaced
  <1>3. more[n + 1] = line /\ \A i \in 1..n : more[i] = src[i]
    BY DEF Extends
  <1>4. /\ DirectivesIn(src) \subseteq 1..n
        /\ \A i \in DirectivesIn(more) :
             i \in DirectivesIn(src) \/ (i = n + 1 /\ line.is = "strum")
    <2>1. /\ DirectivesIn(src) \subseteq 1..n
          /\ DirectivesIn(more) = DirectivesIn(src)
                \cup (IF line.is = "strum" /\ MeantIn(more, n + 1) # Null THEN {n + 1} ELSE {})
      BY ExtendDirectives
    <2>2. QED
      BY <2>1
  <1>5. ASSUME NEW i \in DirectivesIn(src), StartsIn(more, i)
        PROVE  /\ Clear(more, i, n + 1) => WaitsAt(more, u, g, q, n + 1, i)
               /\ \A k \in i..(n + 1) : more[k].is \in Halts /\ Clear(more, i, k - 1)
                                        => IsPlaced(u, i) \/ Crossed(more, i, k - 1)
    <2>1. i \in 1..n /\ i \in Nat
      BY <1>4
    <2>2. StartsIn(src, i)
      <3>1. i \in 1..(n + 1)
        BY <2>1
      <3>2. StartsIn(more, i) <=> StartsIn(src, i)
        BY <3>1, ExtendMeant
      <3>3. QED
        BY <1>5, <3>2
    <2>3. /\ Clear(src, i, n) => WaitsAt(src, t, h, p, n, i)
          /\ \A k \in i..n : src[k].is \in Halts /\ Clear(src, i, k - 1)
                             => IsPlaced(t, i) \/ Crossed(src, i, k - 1)
      BY <2>2 DEF Waits
    <2>4. /\ \A k \in 0..n : (Clear(more, i, k) <=> Clear(src, i, k))
                             /\ (Crossed(more, i, k) <=> Crossed(src, i, k))
          /\ Crossed(src, i, n) => Crossed(more, i, n + 1)
          /\ Clear(more, i, n + 1) => Clear(src, i, n) /\ line.is \notin Halts
          /\ line.is = "strum" => Crossed(more, i, n + 1)
          /\ line.is \in Sectioners /\ (\E j \in (i + 1)..n : src[j].is \in Sectioners)
                => Crossed(more, i, n + 1)
      BY <2>1, CrossedOn
    <2>5. (\E j \in (i + 1)..n : src[j].is \in Sectioners)
            => \E j \in (i + 1)..(n + 1) : more[j].is \in Sectioners
      <3>1. \A j \in (i + 1)..n : j \in (i + 1)..(n + 1) /\ j \in 1..n
        BY <2>1
      <3>2. QED
        BY <1>3, <3>1
    <2>6. ASSUME Clear(more, i, n + 1) PROVE WaitsAt(more, u, g, q, n + 1, i)
      <3>1. WaitsAt(src, t, h, p, n, i) /\ line.is \notin Halts
        BY <2>3, <2>4, <2>6
      <3>2. CASE IsPlaced(t, i) \/ Crossed(src, i, n)
        BY <1>2, <2>4, <3>2 DEF WaitsAt
      <3>3. CASE line.is = "strum"
        BY <2>4, <3>3 DEF WaitsAt
      <3>4. CASE u = t /\ g = h /\ q = p
        BY <1>2, <2>4, <2>5, <3>1, <3>4 DEF WaitsAt
      <3>5. CASE line.is \in Sectioners /\ OpensTo(t, p, u, g, q)
        <4>1. CASE p # Null /\ p.line = i
          <5>1. CASE u = t \o AsItem(p)
            <6>1. t \in Seq(ShownItems) /\ p \in Changes \cup {Null}
              BY DEF TextOrder
            <6>2. ChangeAdded(t, p, u)
              BY <5>1, <6>1, AddChange
            <6>3. Range(u) = Range(t) \cup (IF p = Null THEN {} ELSE {StrumItem(p)})
              BY <6>2, Zenon DEF ChangeAdded
            <6>4. IsPlaced(u, p.line)
              BY <4>1, <6>3, PlacedIs
            <6>5. QED
              BY <4>1, <6>4 DEF WaitsAt
          <5>2. CASE g = p
            <6>1. n + 1 \in (i + 1)..(n + 1)
              BY <2>1
            <6>2. QED
              BY <1>3, <3>5, <4>1, <5>2, <6>1 DEF WaitsAt
          <5>3. CASE q = p
            BY <4>1, <5>3 DEF WaitsAt
          <5>4. QED
            BY <3>5, <5>1, <5>2, <5>3 DEF OpensTo
        <4>2. CASE h # Null /\ h.line = i /\ \E j \in (i + 1)..n : src[j].is \in Sectioners
          BY <2>4, <3>5, <4>2 DEF WaitsAt
        <4>3. QED
          BY <3>1, <3>2, <4>1, <4>2 DEF WaitsAt
      <3>6. ASSUME NEW z, NEW c, PutsTo(t, h, p, n, line, z, c, u, g, q)
            PROVE  WaitsAt(more, u, g, q, n + 1, i)
        <4>1. /\ h # Null => IsPlaced(u, h.line)
              /\ p # Null => IsPlaced(u, p.line) \/ q = p
          BY <3>6, PutsPlaces
        <4>2. CASE p # Null /\ p.line = i
          BY <4>1, <4>2 DEF WaitsAt
        <4>3. CASE h # Null /\ h.line = i
          BY <4>1, <4>3 DEF WaitsAt
        <4>4. QED
          BY <3>1, <3>2, <4>2, <4>3 DEF WaitsAt
      <3>7. QED
        BY <3>3, <3>4, <3>5, <3>6 DEF Moves, Marks
    <2>7. ASSUME NEW k \in i..(n + 1), more[k].is \in Halts, Clear(more, i, k - 1)
          PROVE  IsPlaced(u, i) \/ Crossed(more, i, k - 1)
      <3>1. CASE k \in i..n
        <4>1. k \in 1..n /\ k - 1 \in 0..n
          BY <2>1, <3>1
        <4>2. src[k].is \in Halts /\ Clear(src, i, k - 1)
          BY <1>3, <2>4, <2>7, <4>1
        <4>3. IsPlaced(t, i) \/ Crossed(src, i, k - 1)
          BY <2>3, <3>1, <4>2
        <4>4. QED
          BY <1>2, <2>4, <4>1, <4>3
      <3>2. CASE k = n + 1
        <4>1. k - 1 = n /\ n \in 0..n
          BY <3>2
        <4>2. Clear(src, i, n) /\ line.is \in Halts
          BY <1>3, <2>4, <2>7, <3>2, <4>1
        <4>3. WaitsAt(src, t, h, p, n, i)
          BY <2>3, <4>2
        <4>4. PICK z, c : PutsTo(t, h, p, n, line, z, c, u, g, q)
          BY <4>2 DEF Moves, Marks, Halts, Sectioners
        <4>5. /\ h # Null => IsPlaced(u, h.line)
              /\ p # Null => IsPlaced(u, p.line)
          BY <4>2, <4>4, PutsPlaces DEF Halts
        <4>6. IsPlaced(u, i) \/ Crossed(src, i, n)
          BY <1>2, <4>3, <4>5 DEF WaitsAt
        <4>7. QED
          BY <2>4, <4>1, <4>6
      <3>3. QED
        BY <2>1, <3>1, <3>2
    <2>8. QED
      BY <2>6, <2>7
  <1>6. ASSUME n + 1 \in DirectivesIn(more), line.is = "strum", StartsIn(more, n + 1)
        PROVE  /\ WaitsAt(more, u, g, q, n + 1, n + 1)
               /\ \A k \in (n + 1)..(n + 1) : more[k].is \notin Halts
    <2>1. Marks(more, p, n, line, q)
      BY <1>6 DEF Moves, Sectioners, PutsTo, Written
    <2>2. q \in Changes /\ q.line = n + 1
      BY <1>6, <2>1 DEF Marks
    <2>3. q # Null
      BY <2>2, NoChange
    <2>4. \A k \in (n + 1)..(n + 1) : k = n + 1
      OBVIOUS
    <2>5. more[n + 1].is \notin Halts
      BY <1>3, <1>6 DEF Halts
    <2>6. QED
      BY <2>2, <2>3, <2>4, <2>5 DEF WaitsAt
  <1>7. ASSUME NEW i \in DirectivesIn(more), StartsIn(more, i)
        PROVE  /\ Clear(more, i, n + 1) => WaitsAt(more, u, g, q, n + 1, i)
               /\ \A k \in i..(n + 1) : more[k].is \in Halts /\ Clear(more, i, k - 1)
                                        => IsPlaced(u, i) \/ Crossed(more, i, k - 1)
    <2>1. CASE i \in DirectivesIn(src)
      BY <1>5, <1>7, <2>1
    <2>2. CASE i = n + 1 /\ line.is = "strum"
      BY <1>6, <1>7, <2>2
    <2>3. QED
      BY <1>4, <2>1, <2>2
  <1>8. QED
    BY <1>7 DEF Waits

\* A blank line between two lines of lyrics is shown.
BlankShown(t, i) ==
    \E j \in 2..Len(t) : t[j] = BLANK /\ t[j - 1].is = "lyrics" /\ t[j - 1].line = i - 1
\* And so will one that ends the block, if lyrics come next.
Blanks(src, t, lines, n) ==
    /\ n > 0 /\ src[n].is = "lyrics" => EndsLyrics(lines, n)
    /\ n > 1 /\ src[n] = BLANK /\ src[n - 1].is = "lyrics" =>
        /\ EndsBlank(lines)
        /\ lines[Len(lines) - 1].is = "lyrics" /\ lines[Len(lines) - 1].line = n - 1
    /\ \A i \in 2..(n - 1) :
        src[i] = BLANK /\ src[i - 1].is = "lyrics" /\ src[i + 1].is = "lyrics"
            => BlankShown(t, i)

LEMMA ShownOn ==
    ASSUME NEW t, NEW u, Prefix(t, u), Len(t) \in Nat, Len(u) \in Nat, NEW i, BlankShown(t, i)
    PROVE  BlankShown(u, i)
  <1>1. PICK m \in Nat, n \in Nat : m = Len(t) /\ n = Len(u) /\ m <= n
    BY DEF Prefix
  <1>2. PICK j \in 2..m : t[j] = BLANK /\ t[j - 1].is = "lyrics" /\ t[j - 1].line = i - 1
    BY <1>1 DEF BlankShown
  <1>3. j \in 1..m /\ j - 1 \in 1..m /\ j \in 2..n
    BY <1>1, <1>2
  <1>4. u[j] = t[j] /\ u[j - 1] = t[j - 1]
    BY <1>1, <1>3 DEF Prefix
  <1>5. QED
    BY <1>1, <1>2, <1>3, <1>4 DEF BlankShown

\* A blank line after one of lyrics.
LEMMA LyricsThenBlank ==
    ASSUME NEW lines \in Seq(ShownItems), NEW n, EndsLyrics(lines, n),
           NEW more, more = Append(lines, BLANK)
    PROVE  /\ EndsBlank(more) /\ more[Len(more) - 1].is = "lyrics"
           /\ more[Len(more) - 1].line = n
  <1>1. PICK k \in Nat : k = Len(lines)
    BY SeqIs
  <1>2. k > 0 /\ lines[k].is = "lyrics" /\ lines[k].line = n
    BY <1>1 DEF EndsLyrics
  <1>3. BLANK \in ShownItems
    BY DEF ShownItems
  <1>4. Len(more) = k + 1 /\ more[k + 1] = BLANK /\ \A i \in 1..k : more[i] = lines[i]
    BY <1>1, <1>3, AppendProperties
  <1>5. more[k] = lines[k] /\ Len(more) - 1 = k /\ Len(more) > 1
    BY <1>2, <1>4
  <1>6. more[k] # BLANK
    BY <1>2, <1>5 DEF BLANK
  <1>7. QED
    BY <1>2, <1>4, <1>5, <1>6 DEF EndsBlank

BlanksKept == Blanks(source, ChartText, cur.lines, Len(source))

LEMMA BlanksStay ==
    ASSUME ChartTypes, ChartTypes', NEW line, Does(line), BlanksKept,
           Prefix(ChartText, ChartText'), ChartText \in Seq(ShownItems),
           ChartText' \in Seq(ShownItems)
    PROVE  BlanksKept'
  <1>1. Reads(line) /\ EndsAs(line)
    BY DEF Does
  <1>2. PICK n \in Nat : /\ n = Len(source) /\ n + 1 \in 1..MaxLines
                         /\ Extends(source, source', n, line)
    BY <1>1, ReadsExtends
  <1>3. /\ Len(source') = n + 1 /\ source'[n + 1] = line
        /\ \A i \in 1..n : source'[i] = source[i]
    BY <1>2 DEF Extends
  <1>4. PICK src, more, t, u, lines, linesNow :
            /\ src = source /\ more = source' /\ t = ChartText /\ u = ChartText'
            /\ lines = cur.lines /\ linesNow = cur'.lines
    OBVIOUS
  <1>5. Blanks(src, t, lines, n)
    BY <1>2, <1>4 DEF BlanksKept
  <1>6. line.is = "lyrics" => EndsLyrics(linesNow, n + 1)
    BY <1>1, <1>2, <1>4 DEF EndsAs
  <1>7. line.is = "blank" => linesNow = Append(lines, BLANK)
    BY <1>1, <1>4 DEF EndsAs
  <1>8. line.is = "lyrics" /\ EndsBlank(lines) => KeepsBlank(t, u, lines)
    BY <1>4 DEF Does, Quiet, Opens, Sectioners, Puts
  <1>9. lines \in Seq(ShownItems)
    BY <1>4 DEF ChartTypes, BlockSet
  <1>10. Prefix(t, u) /\ Len(t) \in Nat /\ Len(u) \in Nat
    <2>1. Len(ChartText) \in Nat
      BY SeqIs
    <2>2. Len(ChartText') \in Nat
      <3>1. PICK v : v = ChartText' /\ v \in Seq(ShownItems)
        OBVIOUS
      <3>2. Len(v) \in Nat
        BY <3>1, SeqIs
      <3>3. QED
        BY <3>1, <3>2
    <2>3. QED
      BY <1>4, <2>1, <2>2
  <1>11. more[n + 1] = line /\ \A i \in 1..n : more[i] = src[i]
    BY <1>3, <1>4
  <1>12. more[n + 1].is = "lyrics" => EndsLyrics(linesNow, n + 1)
    BY <1>6, <1>11
  <1>13. ASSUME n + 1 > 1, more[n + 1] = BLANK, more[(n + 1) - 1].is = "lyrics"
         PROVE  /\ EndsBlank(linesNow)
                /\ linesNow[Len(linesNow) - 1].is = "lyrics"
                /\ linesNow[Len(linesNow) - 1].line = (n + 1) - 1
    <2>1. n \in 1..n /\ (n + 1) - 1 = n /\ n > 0
      BY <1>13
    <2>2. src[n].is = "lyrics"
      BY <1>11, <1>13, <2>1
    <2>3. EndsLyrics(lines, n)
      BY <1>5, <2>1, <2>2 DEF Blanks
    <2>4. line.is = "blank"
      BY <1>11, <1>13 DEF BLANK
    <2>5. linesNow = Append(lines, BLANK)
      BY <1>7, <2>4
    <2>6. QED
      BY <1>9, <2>1, <2>3, <2>5, LyricsThenBlank
  <1>14. ASSUME NEW i \in 2..((n + 1) - 1), more[i] = BLANK, more[i - 1].is = "lyrics",
                more[i + 1].is = "lyrics"
         PROVE  BlankShown(u, i)
    <2>1. i \in 1..n /\ i - 1 \in 1..n
      BY <1>14
    <2>2. src[i] = BLANK /\ src[i - 1].is = "lyrics"
      BY <1>11, <1>14, <2>1
    <2>3. CASE i < n
      <3>1. i + 1 \in 1..n /\ i \in 2..(n - 1)
        BY <2>3
      <3>2. src[i + 1].is = "lyrics"
        BY <1>11, <1>14, <3>1
      <3>3. BlankShown(t, i)
        BY <1>5, <2>2, <3>1, <3>2 DEF Blanks
      <3>4. QED
        BY <1>10, <3>3, ShownOn
    <2>4. CASE i = n
      <3>1. n > 1 /\ line.is = "lyrics"
        BY <1>11, <1>14, <2>4
      <3>2. /\ EndsBlank(lines)
            /\ lines[Len(lines) - 1].is = "lyrics" /\ lines[Len(lines) - 1].line = n - 1
        BY <1>5, <2>2, <2>4, <3>1 DEF Blanks
      <3>3. KeepsBlank(t, u, lines)
        BY <1>8, <3>1, <3>2
      <3>4. PICK k \in Nat, m \in Nat : k = Len(t) /\ m = Len(u)
        BY <1>10
      <3>5. /\ k \in 1..m /\ k + 1 \in 1..m
            /\ u[k] = lines[Len(lines) - 1] /\ u[k + 1] = BLANK
        BY <3>3, <3>4 DEF KeepsBlank
      <3>6. k + 1 \in 2..m /\ (k + 1) - 1 = k
        BY <3>5
      <3>7. QED
        BY <2>4, <3>2, <3>4, <3>5, <3>6 DEF BlankShown
    <2>5. QED
      BY <1>14, <2>3, <2>4
  <1>15. Blanks(more, u, linesNow, n + 1)
    BY <1>12, <1>13, <1>14 DEF Blanks
  <1>16. QED
    BY <1>3, <1>4, <1>15 DEF BlanksKept

-----------------------------------------------------------------------------
(* The invariant of reading a chart. *)

\* Nothing waits and nothing is done before the song starts.
Idle == ~started => pending = Null /\ blocks = <<>>
ChartOrder == TextOrder(ChartText, Held, pending, Len(source))
ChartRead == AllRead(source, ChartText)
ChartStands == AllStand(source, ChartText, Held, pending)
ChartWaits == Waits(source, ChartText, Held, pending, Len(source))

\* What is shown so far is what the text says so far: in its order, with each
\* change the one that its directive asks for; and a directive that stands
\* apart is shown or waits, in pending or with the section it came before.
ChartInv ==
    /\ ChartTypes /\ EnvStarts /\ StartedAsRead /\ NamedAsMeant /\ StrumIsHeader /\ Idle
    /\ ChartOrder /\ ChartRead /\ ChartStands /\ ChartWaits /\ BlanksKept

LEMMA NoneShown ==
    ASSUME NEW S, NEW e \in Seq(S), Len(e) = 0
    PROVE  DOMAIN e = {} /\ Range(e) = {}
  <1>1. DOMAIN e = 1..0
    BY SeqIs
  <1>2. DOMAIN e = {}
    BY <1>1
  <1>3. Range(e) = {}
    BY <1>2 DEF Range
  <1>4. QED
    BY <1>2, <1>3

LEMMA InitText ==
    ASSUME ChartInit
    PROVE  /\ ChartText = <<>> /\ Held = Null /\ cur \in BlockSet /\ cur.lines = <<>>
  <1>1. cur = Opened("plain", Null, Null) /\ blocks = <<>>
    BY DEF ChartInit, Block, Opened
  <1>2. <<>> \in Seq(BlockSet)
    OBVIOUS
  <1>3. PICK bs : bs = <<>> /\ bs \in Seq(BlockSet)
    BY <1>2
  <1>4. Null \in Changes \cup {Null} /\ Null \in Labels \cup {Null, "Chorus"}
        /\ "plain" \in EnvKinds \cup {"plain"}
    OBVIOUS
  <1>5. ShowsOpened(bs, Null, Null, Opened("plain", Null, Null))
    BY <1>3, <1>4, OpenedShows
  <1>6. /\ cur \in BlockSet
        /\ TextSoFar(bs, cur) = LinesOf(bs) \o AsItem(Null)
        /\ HeldBy(cur) = Null
    BY <1>1, <1>5 DEF ShowsOpened
  <1>7. LinesOf(bs) = <<>>
    <2>1. PICK pieces : pieces = [i \in DOMAIN bs |-> ItemsOf(bs[i])]
      OBVIOUS
    <2>2. DOMAIN bs = {}
      BY <1>3, NoneShown
    <2>3. DOMAIN pieces = {}
      BY <2>1, <2>2
    <2>4. pieces = <<>>
      BY <1>3, <2>1, <2>2, <2>3
    <2>5. FlattenSeq(<<>>) = <<>>
      BY DEF FlattenSeq
    <2>6. QED
      BY <2>1, <2>4, <2>5 DEF LinesOf
  <1>8. <<>> \o <<>> = <<>>
    <2>1. <<>> \in Seq(ShownItems)
      OBVIOUS
    <2>2. PICK e : e = <<>> /\ e \in Seq(ShownItems)
      BY <2>1
    <2>3. e \o <<>> = e
      BY <2>2, ConcatEmptySeq
    <2>4. QED
      BY <2>2, <2>3
  <1>9. AsItem(Null) = <<>>
    BY DEF AsItem
  <1>10. cur.lines = <<>>
    BY DEF ChartInit, Block
  <1>11. QED
    BY <1>1, <1>3, <1>6, <1>7, <1>8, <1>9, <1>10 DEF ChartText, Held

LEMMA InitInv == ChartInit => ChartInv
  <1>0. SUFFICES ASSUME ChartInit PROVE ChartInv
    OBVIOUS
  <1>1. /\ source = <<>> /\ blocks = <<>> /\ inEnv = FALSE
        /\ named = [n \in Names |-> Null] /\ strum = Null
        /\ started = FALSE /\ pending = Null
    BY <1>0 DEF ChartInit
  <1>2. ChartText = <<>> /\ Held = Null /\ cur \in BlockSet /\ cur.lines = <<>>
    BY <1>0, InitText
  <1>3. Len(source) = 0 /\ DOMAIN source = {} /\ source \in Seq(SourceLines)
    <2>1. Len(source) = 0 /\ source \in Seq(SourceLines)
      BY <1>1
    <2>2. DOMAIN source = 1..0
      BY <2>1, SeqIs
    <2>3. QED
      BY <2>1, <2>2
  <1>4. ChartTypes
    <2>1. blocks \in Seq(BlockSet)
      BY <1>1
    <2>2. named \in [Names -> Patterns \cup {Null}]
      BY <1>1
    <2>3. 0 <= MaxLines
      BY ChartsAssumption
    <2>4. QED
      BY <1>1, <1>2, <1>3, <2>1, <2>2, <2>3 DEF ChartTypes
  <1>5. EnvStarts /\ Idle
    BY <1>1 DEF EnvStarts, Idle
  <1>6. \A i : i \in 1..0 => FALSE
    OBVIOUS
  <1>7. StartedAsRead
    <2>1. ~StartsIn(source, 0 + 1)
      <3>1. \A k \in 1..((0 + 1) - 1) : FALSE
        OBVIOUS
      <3>2. QED
        BY <3>1 DEF StartsIn
    <2>2. StartsIn(source, 0 + 1) \in BOOLEAN
      BY DEF StartsIn
    <2>3. QED
      BY <1>1, <1>3, <2>1, <2>2 DEF StartedAsRead
  <1>8. NamedAsMeant
    <2>1. \A name : MeansIn(source, name, 0) = {}
      BY <1>6 DEF MeansIn
    <2>2. \A name : LastMeant(source, name, 0) = Null
      BY <2>1 DEF LastMeant
    <2>3. QED
      BY <1>1, <1>3, <2>2 DEF NamedAsMeant
  <1>9. DirectivesIn(source) = {}
    BY <1>3 DEF DirectivesIn
  <1>10. StrumIsHeader
    BY <1>1, <1>9 DEF StrumIsHeader, OfIn
  <1>11. PICK t : t = <<>> /\ t \in Seq(ShownItems) /\ Range(t) = {} /\ Len(t) = 0
    <2>1. PICK t : t = <<>> /\ t \in Seq(ShownItems)
      <3>1. <<>> \in Seq(ShownItems)
        OBVIOUS
      <3>2. QED
        BY <3>1
    <2>2. Len(t) = 0
      BY <2>1
    <2>3. Range(t) = {}
      BY <2>1, <2>2, NoneShown
    <2>4. QED
      BY <2>1, <2>2, <2>3
  <1>12. ChartOrder
    <2>1. InOrder(t, Written) /\ InOrder(t, Strummed)
      BY <1>11 DEF InOrder
    <2>2. TextOrder(t, Null, Null, 0)
      BY <1>11, <2>1 DEF TextOrder
    <2>3. QED
      BY <1>1, <1>2, <1>3, <1>11, <2>2 DEF ChartOrder
  <1>13. ChartRead
    BY <1>2, <1>3, <1>11 DEF ChartRead, AllRead
  <1>14. ChartStands
    BY <1>1, <1>2, <1>11 DEF ChartStands, AllStand
  <1>15. ChartWaits
    BY <1>9 DEF ChartWaits, Waits
  <1>16. BlanksKept
    <2>1. \A i : i \in 2..(0 - 1) => FALSE
      OBVIOUS
    <2>2. Blanks(source, ChartText, cur.lines, 0)
      BY <2>1 DEF Blanks
    <2>3. QED
      BY <1>3, <2>2 DEF BlanksKept
  <1>17. QED
    BY <1>4, <1>5, <1>7, <1>8, <1>10, <1>12, <1>13, <1>14, <1>15, <1>16 DEF ChartInv

LEMMA StepInv == ChartInv /\ ChartNext => ChartInv'
  <1>0. SUFFICES ASSUME ChartInv, ChartNext PROVE ChartInv'
    OBVIOUS
  <1>1. /\ ChartTypes /\ EnvStarts /\ StartedAsRead /\ NamedAsMeant /\ StrumIsHeader /\ Idle
        /\ ChartOrder /\ ChartRead /\ ChartStands /\ ChartWaits /\ BlanksKept
    BY <1>0 DEF ChartInv
  <1>2. ChartTypes' /\ EnvStarts' /\ \E line : Does(line)
    BY <1>0, <1>1, EachLine
  <1>3. PICK line : Does(line)
    BY <1>2
  <1>4. StartedAsRead' /\ NamedAsMeant' /\ StrumIsHeader'
    BY <1>1, <1>3, NamedStays, StartedStays, StrumStays
  <1>5. Idle'
    <2>1. Reads(line)
      BY <1>3 DEF Does
    <2>2. /\ started' = (started \/ line.is \notin HeaderKinds)
          /\ ~started' => blocks' = blocks /\ pending' = pending
      BY <2>1 DEF Reads
    <2>3. QED
      BY <1>1, <2>2 DEF Idle
  <1>6. PICK n \in Nat :
            /\ n = Len(source) /\ Extends(source, source', n, line) /\ line \in SourceLines
            /\ Moves(source', ChartText, Held, pending, n, line, ChartText', Held', pending')
    BY <1>1, <1>3, LineMoves
  <1>7. PICK src, more, t, h, p, u, g, q :
            /\ src = source /\ more = source' /\ t = ChartText /\ h = Held /\ p = pending
            /\ u = ChartText' /\ g = Held' /\ q = pending'
    OBVIOUS
  <1>8. /\ Extends(src, more, n, line) /\ Moves(more, t, h, p, n, line, u, g, q)
        /\ TextOrder(t, h, p, n) /\ AllRead(src, t) /\ AllStand(src, t, h, p)
        /\ Waits(src, t, h, p, n)
    BY <1>1, <1>6, <1>7 DEF ChartOrder, ChartRead, ChartStands, ChartWaits
  <1>9. Len(source') = n + 1
    BY <1>6 DEF Extends
  <1>10. TextOrder(u, g, q, n + 1)
    BY <1>8, OrderMoves
  <1>11. ShowsMore(more, t, h, p, n, line, u, g, q)
    BY <1>8, MovesShow
  <1>12. AllRead(more, u)
    BY <1>8, <1>11, ReadMoves
  <1>13. AllStand(more, u, g, q)
    BY <1>8, <1>11, StandMoves
  <1>14. Waits(more, u, g, q, n + 1)
    BY <1>8, WaitMoves
  <1>15. ChartOrder' /\ ChartRead' /\ ChartStands' /\ ChartWaits'
    BY <1>7, <1>9, <1>10, <1>12, <1>13, <1>14 DEF ChartOrder, ChartRead, ChartStands, ChartWaits
  <1>16. BlanksKept'
    <2>1. Prefix(t, u)
      BY <1>11 DEF ShowsMore
    <2>2. t \in Seq(ShownItems)
      BY <1>8 DEF TextOrder
    <2>3. u \in Seq(ShownItems)
      BY <1>10 DEF TextOrder
    <2>4. /\ Prefix(ChartText, ChartText') /\ ChartText \in Seq(ShownItems)
          /\ ChartText' \in Seq(ShownItems)
      BY <1>7, <2>1, <2>2, <2>3
    <2>5. QED
      BY <1>1, <1>2, <1>3, <2>4, BlanksStay
  <1>17. QED
    BY <1>2, <1>4, <1>5, <1>15, <1>16 DEF ChartInv

LEMMA SameInv == ChartInv /\ UNCHANGED chartVars => ChartInv'
  <1>0. SUFFICES ASSUME ChartInv, UNCHANGED chartVars PROVE ChartInv'
    OBVIOUS
  <1>1. /\ source' = source /\ blocks' = blocks /\ cur' = cur /\ inEnv' = inEnv
        /\ named' = named /\ strum' = strum /\ started' = started /\ pending' = pending
    BY <1>0 DEF chartVars
  <1>2. ChartText' = ChartText /\ Held' = Held
    BY <1>1 DEF ChartText, Held
  <1>3. (ChartTypes <=> ChartTypes') /\ (EnvStarts <=> EnvStarts') /\ (Idle <=> Idle')
    BY <1>1 DEF ChartTypes, EnvStarts, Idle
  <1>4. /\ (StartedAsRead <=> StartedAsRead')
        /\ (NamedAsMeant <=> NamedAsMeant')
        /\ (StrumIsHeader <=> StrumIsHeader')
    BY <1>1 DEF StartedAsRead, NamedAsMeant, StrumIsHeader
  <1>5. /\ (ChartOrder <=> ChartOrder') /\ (ChartRead <=> ChartRead')
        /\ (ChartStands <=> ChartStands') /\ (ChartWaits <=> ChartWaits')
    BY <1>1, <1>2 DEF ChartOrder, ChartRead, ChartStands, ChartWaits
  <1>6. BlanksKept <=> BlanksKept'
    BY <1>1, <1>2 DEF BlanksKept
  <1>7. QED
    BY <1>0, <1>3, <1>4, <1>5, <1>6 DEF ChartInv

\* ChartInv holds of any text, line after line (parseChordPro).
THEOREM ChartReads == ChartSpec => []ChartInv
  <1>1. ChartInit => ChartInv
    BY InitInv
  <1>2. ChartInv /\ [ChartNext]_chartVars => ChartInv'
    BY StepInv, SameInv
  <1>3. QED
    BY <1>1, <1>2, PTL DEF ChartSpec

\* What the invariant says of the types.
LEMMA TypesHold == ChartInv => ChartTypeOK
  <1>0. SUFFICES ASSUME ChartInv PROVE ChartTypeOK
    OBVIOUS
  <1>1. ChartTypes /\ StrumIsHeader /\ Idle /\ ChartOrder
    BY <1>0 DEF ChartInv
  <1>2. /\ Len(source) <= MaxLines /\ {inEnv, started} \subseteq BOOLEAN
        /\ cur.kind \in EnvKinds \cup {"plain"} /\ cur.label \in Labels \cup {Null, "Chorus"}
        /\ named \in [Names -> Patterns \cup {Null}]
        /\ strum \in Changes \cup {Null} /\ pending \in Changes \cup {Null}
    BY <1>1 DEF ChartTypes, BlockSet
  <1>3. ~started => pending = Null /\ blocks = <<>>
    BY <1>1 DEF Idle
  <1>4. \A c \in {strum, pending} \ {Null} : c.pattern \in Patterns
    BY <1>2 DEF Changes
  <1>5. PICK n \in Nat : n = Len(source) /\ DOMAIN source = 1..n
    BY <1>1, SeqIs DEF ChartTypes
  <1>6. strum # Null => strum.line <= n
    <2>1. OfIn(source) \subseteq 1..n
      BY <1>5 DEF OfIn, DirectivesIn
    <2>2. strum # Null => strum.line \in 1..n
      BY <1>1, <2>1 DEF StrumIsHeader
    <2>3. QED
      BY <2>2
  <1>7. pending # Null => pending.line <= n
    BY <1>1, <1>5 DEF ChartOrder, TextOrder
  <1>8. QED
    BY <1>2, <1>3, <1>4, <1>5, <1>6, <1>7 DEF ChartTypeOK

LEMMA ShownKinds ==
    /\ \A z \in ShownItems : z.is \notin {"blank", "strum"} <=> z.is \in Written
    /\ \A z \in ShownItems : z.is \in Written => LineOf(z) = z.line
  BY DEF ShownItems, BLANK, Written, LineOf

\* What it says of what is shown.
LEMMA AllShow == ChartInv => ShowsAll
  <1>0. SUFFICES ASSUME ChartInv PROVE ShowsAll
    OBVIOUS
  <1>1. ChartTypes /\ ChartOrder /\ ChartRead /\ BlanksKept
    BY <1>0 DEF ChartInv
  <1>2. PICK src, t : src = source /\ t = ChartText
    OBVIOUS
  <1>3. LinesOf(Doc) = t
    BY <1>2, DocIs DEF ChartText, TextSoFar
  <1>4. PICK n \in Nat : n = Len(src) /\ DOMAIN src = 1..n
    BY <1>1, <1>2, SeqIs DEF ChartTypes
  <1>5. t \in Seq(ShownItems) /\ InOrder(t, Written)
    BY <1>1, <1>2 DEF ChartOrder, TextOrder
  <1>6. PICK m \in Nat : m = Len(t) /\ DOMAIN t = 1..m
    BY <1>5, SeqIs
  <1>7. \A i \in 1..m : t[i] \in ShownItems
    BY <1>5, <1>6
  <1> DEFINE isShown(i) == t[i].is \notin {"blank", "strum"}
  <1>8. \A i \in 1..m : (isShown(i) <=> t[i].is \in Written)
                        /\ (t[i].is \in Written => LineOf(t[i]) = t[i].line)
    BY <1>7, ShownKinds
  <1> HIDE DEF isShown
  <1>9. \A i, j \in 1..m : i < j /\ isShown(i) /\ isShown(j) => t[i].line < t[j].line
    BY <1>5, <1>6, <1>8 DEF InOrder
  <1>10. \A i \in 1..n : src[i].is \in {"lyrics", "comment", "tab"} =>
            \E j \in 1..m : isShown(j) /\ t[j].line = i
    <2>1. ASSUME NEW i \in 1..n, src[i].is \in Written
          PROVE  \E j \in 1..m : isShown(j) /\ t[j].line = i
      <3>1. PICK z \in Range(t) : z.is = src[i].is /\ z.line = i
        BY <1>1, <1>2, <1>4, <2>1 DEF ChartRead, AllRead
      <3>2. PICK j \in 1..m : z = t[j]
        BY <1>6 DEF Range
      <3>3. QED
        BY <1>8, <2>1, <3>1, <3>2
    <2>2. QED
      BY <2>1 DEF Written
  <1>11. \A i \in 2..(n - 1) :
            src[i] = BLANK /\ src[i - 1].is = "lyrics" /\ src[i + 1].is = "lyrics"
                => \E j \in 1..m : /\ j > 1 /\ t[j] = BLANK
                                   /\ isShown(j - 1) /\ t[j - 1].line = i - 1
    <2>1. ASSUME NEW i \in 2..(n - 1), src[i] = BLANK, src[i - 1].is = "lyrics",
                 src[i + 1].is = "lyrics"
          PROVE  \E j \in 1..m : /\ j > 1 /\ t[j] = BLANK
                                 /\ isShown(j - 1) /\ t[j - 1].line = i - 1
      <3>1. Blanks(src, t, cur.lines, n)
        BY <1>1, <1>2, <1>4 DEF BlanksKept
      <3>2. BlankShown(t, i)
        BY <2>1, <3>1 DEF Blanks
      <3>3. PICK j \in 2..m : t[j] = BLANK /\ t[j - 1].is = "lyrics" /\ t[j - 1].line = i - 1
        BY <1>6, <3>2 DEF BlankShown
      <3>4. j \in 1..m /\ j > 1 /\ j - 1 \in 1..m
        BY <3>3
      <3>5. isShown(j - 1)
        BY <1>8, <3>3, <3>4 DEF Written
      <3>6. QED
        BY <3>3, <3>4, <3>5
    <2>2. QED
      BY <2>1
  <1> USE DEF isShown
  <1>12. QED
    BY <1>2, <1>3, <1>4, <1>6, <1>9, <1>10, <1>11 DEF ShowsAll

-----------------------------------------------------------------------------
(* The chords to play, and the change in use at each. *)

\* A function that takes each of its values from the one before.
TakesWithin(N, X, g) == \A n \in 1..N : \A z \in X : g[n][z] \in X
TakesAll(N, X, a, g) ==
    \E F \in [0..N -> X] : F[0] = a /\ \A n \in 1..N : F[n] = g[n][F[n - 1]]

LEMMA Recursion ==
    ASSUME NEW N \in Nat, NEW X, NEW a \in X, NEW g, TakesWithin(N, X, g)
    PROVE  TakesAll(N, X, a, g)
  <1> DEFINE Is(F, m) == F \in [0..m -> X] /\ F[0] = a /\ \A n \in 1..m : F[n] = g[n][F[n - 1]]
             S == {m \in 0..N : \E F : Is(F, m)}
  <1>1. 0 \in S
    <2>1. PICK F : F = [i \in 0..0 |-> a]
      OBVIOUS
    <2>2. F \in [0..0 -> X] /\ F[0] = a /\ \A n \in 1..0 : F[n] = g[n][F[n - 1]]
      BY <2>1
    <2>3. 0 \in 0..N
      OBVIOUS
    <2>4. QED
      BY <2>2, <2>3
  <1>2. ASSUME NEW m \in 0..(N - 1), m \in S PROVE m + 1 \in S
    <2>1. PICK F : Is(F, m)
      BY <1>2
    <2>2. /\ F \in [0..m -> X] /\ F[0] = a
          /\ \A n \in 1..m : F[n] = g[n][F[n - 1]]
      BY <2>1
    <2>3. m + 1 \in 1..N /\ m \in 0..m /\ m + 1 \in 0..N
      OBVIOUS
    <2>4. F[m] \in X
      BY <2>2, <2>3
    <2>5. g[m + 1][F[m]] \in X
      BY <2>3, <2>4 DEF TakesWithin
    <2>6. PICK G : G = [i \in 0..(m + 1) |-> IF i = m + 1 THEN g[m + 1][F[m]] ELSE F[i]]
      OBVIOUS
    <2>7. \A i \in 0..m : G[i] = F[i]
      BY <2>6
    <2>8. G[m + 1] = g[m + 1][F[m]]
      BY <2>6
    <2>9. G \in [0..(m + 1) -> X]
      <3>1. ASSUME NEW i \in 0..(m + 1)
            PROVE  (IF i = m + 1 THEN g[m + 1][F[m]] ELSE F[i]) \in X
        <4>1. i # m + 1 => i \in 0..m
          OBVIOUS
        <4>2. QED
          BY <2>2, <2>5, <4>1
      <3>2. QED
        BY <2>6, <3>1
    <2>10. \A n \in 1..(m + 1) : G[n] = g[n][G[n - 1]]
      <3>1. ASSUME NEW n \in 1..(m + 1) PROVE G[n] = g[n][G[n - 1]]
        <4>1. CASE n = m + 1
          <5>1. n - 1 = m
            BY <4>1
          <5>2. G[n - 1] = F[m]
            BY <2>3, <2>7, <5>1
          <5>3. QED
            BY <2>8, <4>1, <5>2
        <4>2. CASE n # m + 1
          <5>1. n \in 1..m /\ n \in 0..m /\ n - 1 \in 0..m
            BY <4>2
          <5>2. G[n] = F[n] /\ G[n - 1] = F[n - 1] /\ F[n] = g[n][F[n - 1]]
            BY <2>2, <2>7, <5>1
          <5>3. QED
            BY <5>2
        <4>3. QED
          BY <4>1, <4>2
      <3>2. QED
        BY <3>1
    <2>11. G[0] = a
      BY <2>2, <2>7
    <2>12. Is(G, m + 1)
      BY <2>9, <2>10, <2>11
    <2> HIDE DEF Is
    <2>13. QED
      BY <2>3, <2>12
  <1> HIDE DEF S
  <1>3. N \in S
    <2>1. \A m \in 0..(N - 1) : m \in S => m + 1 \in S
      BY <1>2
    <2>2. \A m \in 0..N : m \in S
      BY <1>1, <2>1, StepByStep
    <2>3. QED
      BY <2>2
  <1>4. QED
    BY <1>3 DEF S, TakesAll

\* Two lists that are laid out alike.
Alike(a, b, N, S, T) ==
    /\ DOMAIN a = 1..N /\ DOMAIN b = 1..N /\ Len(a) = N /\ Len(b) = N
    /\ \A n \in 1..N : a[n] \in Seq(S) /\ b[n] \in Seq(T) /\ Len(a[n]) = Len(b[n])
OneForOne(f, g, a, b, N, S, T) ==
    /\ f \in Seq(S) /\ g \in Seq(T) /\ DOMAIN f = DOMAIN g
    /\ \A k \in DOMAIN f : \E n \in 1..N : \E j \in 1..Len(a[n]) :
        f[k] = a[n][j] /\ g[k] = b[n][j]

LEMMA LaidAlike ==
    ASSUME NEW a, NEW b, NEW N \in Nat, NEW S, NEW T, Alike(a, b, N, S, T)
    PROVE  OneForOne(FlattenSeq(a), FlattenSeq(b), a, b, N, S, T)
  <1>0. /\ DOMAIN a = 1..N /\ DOMAIN b = 1..N /\ Len(a) = N /\ Len(b) = N
        /\ \A n \in 1..N : a[n] \in Seq(S) /\ b[n] \in Seq(T) /\ Len(a[n]) = Len(b[n])
    BY DEF Alike
  <1>1. PICK f, g : f = FlattenSeq(a) /\ g = FlattenSeq(b)
    OBVIOUS
  <1>2. f \in Seq(S) /\ \E len : Lays(f, a, N, len)
    <2>1. \A n \in 1..N : a[n] \in Seq(S)
      BY <1>0
    <2>2. FlattenSeq(a) \in Seq(S) /\ \E len : Lays(FlattenSeq(a), a, N, len)
      BY <1>0, <2>1, LaysOut
    <2>3. QED
      BY <1>1, <2>2
  <1>3. g \in Seq(T) /\ \E len : Lays(g, b, N, len)
    <2>1. \A n \in 1..N : b[n] \in Seq(T)
      BY <1>0
    <2>2. FlattenSeq(b) \in Seq(T) /\ \E len : Lays(FlattenSeq(b), b, N, len)
      BY <1>0, <2>1, LaysOut
    <2>3. QED
      BY <1>1, <2>2
  <1>4. PICK la : Lays(f, a, N, la)
    BY <1>2
  <1>5. PICK lb : Lays(g, b, N, lb)
    BY <1>3
  <1>6. /\ la \in [0..N -> Nat] /\ la[0] = 0 /\ Len(f) = la[N]
        /\ \A n \in 1..N : la[n] = la[n - 1] + Len(a[n])
        /\ \A n \in 1..N : \A j \in 1..Len(a[n]) :
             la[n - 1] + j \in 1..la[N] /\ f[la[n - 1] + j] = a[n][j]
        /\ \A i \in 1..la[N] : \E n \in 1..N : \E j \in 1..Len(a[n]) : i = la[n - 1] + j
    BY <1>4 DEF Lays
  <1>7. /\ lb[0] = 0 /\ Len(g) = lb[N]
        /\ \A n \in 1..N : lb[n] = lb[n - 1] + Len(b[n])
        /\ \A n \in 1..N : \A j \in 1..Len(b[n]) :
             lb[n - 1] + j \in 1..lb[N] /\ g[lb[n - 1] + j] = b[n][j]
    BY <1>5 DEF Lays
  <1>8. \A n \in 0..N : lb[n] = la[n]
    <2> DEFINE U == {n \in 0..N : lb[n] = la[n]}
    <2>1. 0 \in U
      BY <1>6, <1>7
    <2>2. ASSUME NEW n \in 0..(N - 1), n \in U PROVE n + 1 \in U
      <3>1. n + 1 \in 1..N /\ n + 1 \in 0..N /\ (n + 1) - 1 = n
        OBVIOUS
      <3>2. la[n + 1] = la[n] + Len(a[n + 1])
        BY <1>6, <3>1
      <3>3. lb[n + 1] = lb[n] + Len(b[n + 1])
        BY <1>7, <3>1
      <3>4. Len(a[n + 1]) = Len(b[n + 1])
        BY <1>0, <3>1
      <3>5. QED
        BY <2>2, <3>1, <3>2, <3>3, <3>4
    <2> HIDE DEF U
    <2>3. \A n \in 0..N : n \in U
      <3>1. \A n \in 0..(N - 1) : n \in U => n + 1 \in U
        BY <2>2
      <3>2. QED
        BY <2>1, <3>1, StepByStep
    <2>4. QED
      BY <2>3 DEF U
  <1>9. DOMAIN f = 1..la[N] /\ DOMAIN g = 1..la[N]
    <2>1. DOMAIN f = 1..Len(f)
      BY <1>2, SeqIs
    <2>2. DOMAIN g = 1..Len(g)
      BY <1>3, SeqIs
    <2>3. N \in 0..N
      OBVIOUS
    <2>4. QED
      BY <1>6, <1>7, <1>8, <2>1, <2>2, <2>3
  <1>10. ASSUME NEW k \in 1..la[N]
         PROVE  \E n \in 1..N : \E j \in 1..Len(a[n]) : f[k] = a[n][j] /\ g[k] = b[n][j]
    <2>1. PICK n \in 1..N : \E j \in 1..Len(a[n]) : k = la[n - 1] + j
      BY <1>6
    <2>2. PICK j \in 1..Len(a[n]) : k = la[n - 1] + j
      BY <2>1
    <2>3. n - 1 \in 0..N /\ j \in 1..Len(b[n])
      BY <1>0
    <2>4. lb[n - 1] = la[n - 1]
      BY <1>8, <2>3
    <2>5. f[k] = a[n][j]
      BY <1>6, <2>2
    <2>6. g[k] = b[n][j]
      BY <1>7, <2>2, <2>3, <2>4
    <2>7. QED
      BY <2>5, <2>6
  <1>11. OneForOne(f, g, a, b, N, S, T)
    BY <1>2, <1>3, <1>9, <1>10 DEF OneForOne
  <1>12. QED
    BY <1>1, <1>11

\* The chords of a line.
Chorded(z) == z.is = "lyrics" /\ z.chords > 0
Chords == (1..MaxLines) \X (Nat \ {0})

LEMMA SegmentsAre ==
    ASSUME NEW z \in ShownItems
    PROVE  /\ Segments(z) \in Seq(Chords) /\ (Segments(z) # <<>> <=> Chorded(z))
           /\ DOMAIN Segments(z) = 1..Len(Segments(z))
           /\ \A j \in 1..Len(Segments(z)) : Chorded(z) /\ Segments(z)[j] = <<z.line, j>>
  <1>1. CASE z.is # "lyrics"
    <2>1. Segments(z) = <<>>
      BY <1>1 DEF Segments
    <2>2. PICK e : e = Segments(z)
      OBVIOUS
    <2>3. e = <<>>
      BY <2>1, <2>2
    <2>4. e \in Seq(Chords) /\ Len(e) = 0
      BY <2>3
    <2>5. DOMAIN e = 1..Len(e)
      BY <2>4, SeqIs
    <2>6. \A j \in 1..0 : FALSE
      OBVIOUS
    <2>7. ~Chorded(z)
      BY <1>1 DEF Chorded
    <2>8. QED
      BY <2>2, <2>3, <2>4, <2>5, <2>6, <2>7
  <1>2. CASE z.is = "lyrics"
    <2>1. z.line \in 1..MaxLines /\ z.chords \in Nat
      BY <1>2 DEF ShownItems, BLANK
    <2>2. PICK n, l, e : n = z.chords /\ l = z.line /\ e = Segments(z)
      OBVIOUS
    <2>3. n \in Nat /\ l \in 1..MaxLines
      BY <2>1, <2>2
    <2>4. e = [i \in 1..n |-> <<l, i>>]
      BY <1>2, <2>2 DEF Segments
    <2>5. \A i \in 1..n : <<l, i>> \in Chords
      BY <2>3 DEF Chords
    <2>6. e \in Seq(Chords) /\ Len(e) = n /\ DOMAIN e = 1..n
      <3>1. e \in [1..n -> Chords]
        BY <2>4, <2>5
      <3>2. QED
        BY <2>3, <3>1
    <2>7. e # <<>> <=> n > 0
      BY <2>3, <2>4, <2>6
    <2>8. Chorded(z) <=> n > 0
      BY <1>2, <2>2 DEF Chorded
    <2>9. \A j \in 1..n : n > 0 /\ e[j] = <<l, j>>
      BY <2>3, <2>4
    <2>10. QED
      BY <2>2, <2>6, <2>7, <2>8, <2>9
  <1>3. QED
    BY <1>1, <1>2

\* The change in use, and the "once" that waits, after each of the lines.
Uses == [current : Changes \cup {Null}, once : Changes \cup {Null}]
\* It is worked out line after line.
Walks(at, t, s, N) ==
    at = [i \in 0..N |-> IF i = 0 THEN [current |-> s, once |-> Null] ELSE After(at[i - 1], t[i])]
IsStrum(z, once) == z.is = "strum" /\ z.change.once = once

LEMMA AfterOnce ==
    ASSUME NEW p, NEW z, z.is = "strum", z.change.once = TRUE
    PROVE  After(p, z) = [p EXCEPT !.once = z.change]
  <1>1. z.is = "strum" /\ z.change.once
    OBVIOUS
  <1>2. ~(z.is = "strum" /\ ~z.change.once)
    OBVIOUS
  <1>3. Segments(z) = <<>>
    BY DEF Segments
  <1>4. QED
    BY <1>1, <1>2, <1>3 DEF After

LEMMA AfterLasting ==
    ASSUME NEW p, NEW z, z.is = "strum", z.change.once = FALSE
    PROVE  After(p, z) = [current |-> z.change, once |-> Null]
  <1>1. z.is = "strum" /\ ~z.change.once
    OBVIOUS
  <1>2. ~(z.is = "strum" /\ z.change.once)
    OBVIOUS
  <1>3. Segments(z) = <<>>
    BY DEF Segments
  <1>4. QED
    BY <1>1, <1>2, <1>3 DEF After

LEMMA AfterIs ==
    ASSUME NEW p \in Uses, NEW z \in ShownItems
    PROVE  /\ After(p, z) \in Uses
           /\ IsStrum(z, TRUE) => After(p, z).current = p.current /\ After(p, z).once = z.change
           /\ IsStrum(z, FALSE) => After(p, z).current = z.change /\ After(p, z).once = Null
           /\ Chorded(z) => After(p, z).current = p.current /\ After(p, z).once = Null
           /\ z.is # "strum" /\ ~Chorded(z) => After(p, z) = p
           /\ z.is = "strum" => z.change \in Changes /\ (IsStrum(z, TRUE) \/ IsStrum(z, FALSE))
  <1>1. p.current \in Changes \cup {Null} /\ p.once \in Changes \cup {Null}
    BY DEF Uses
  <1>2. ASSUME NEW c \in Changes \cup {Null}, NEW o \in Changes \cup {Null}
        PROVE  [current |-> c, once |-> o] \in Uses
    BY DEF Uses
  <1>3. Null \in Changes \cup {Null}
    OBVIOUS
  <1>4. PICK a : a = After(p, z)
    OBVIOUS
  <1>5. z.is = "strum" => z.change \in Changes /\ z.change.once \in BOOLEAN
    <2>1. z.is = "strum" => z.change \in Changes
      BY DEF ShownItems, BLANK
    <2>2. \A c \in Changes : c.once \in BOOLEAN
      BY DEF Changes
    <2>3. QED
      BY <2>1, <2>2
  <1>6. CASE IsStrum(z, TRUE)
    <2>0. z.is = "strum" /\ z.change.once = TRUE
      BY <1>6 DEF IsStrum
    <2>1. a = [p EXCEPT !.once = z.change]
      BY <1>4, <2>0, AfterOnce
    <2>2. a.current = p.current /\ a.once = z.change /\ a \in Uses
      BY <1>5, <1>6, <2>1 DEF Uses, IsStrum
    <2>3. ~IsStrum(z, FALSE) /\ ~Chorded(z) /\ z.is = "strum"
      BY <1>6 DEF IsStrum, Chorded
    <2>4. QED
      BY <1>4, <1>5, <1>6, <2>2, <2>3
  <1>7. CASE IsStrum(z, FALSE)
    <2>0. z.is = "strum" /\ z.change.once = FALSE
      BY <1>7 DEF IsStrum
    <2>1. a = [current |-> z.change, once |-> Null]
      BY <1>4, <2>0, AfterLasting
    <2>2. a.current = z.change /\ a.once = Null /\ a \in Uses
      BY <1>2, <1>3, <1>5, <1>7, <2>1 DEF IsStrum
    <2>3. ~IsStrum(z, TRUE) /\ ~Chorded(z) /\ z.is = "strum"
      BY <1>7 DEF IsStrum, Chorded
    <2>4. QED
      BY <1>4, <1>5, <1>7, <2>2, <2>3
  <1>8. CASE Chorded(z)
    <2>1. z.is # "strum" /\ Segments(z) # <<>>
      BY <1>8, SegmentsAre DEF Chorded
    <2>2. a = [p EXCEPT !.once = Null]
      BY <1>4, <2>1 DEF After
    <2>3. a.current = p.current /\ a.once = Null /\ a \in Uses
      BY <1>3, <2>2 DEF Uses
    <2>4. ~IsStrum(z, TRUE) /\ ~IsStrum(z, FALSE)
      BY <2>1 DEF IsStrum
    <2>5. QED
      BY <1>4, <1>8, <2>1, <2>3, <2>4
  <1>9. CASE z.is # "strum" /\ ~Chorded(z)
    <2>1. ~(Segments(z) # <<>>)
      BY <1>9, SegmentsAre
    <2>2. a = p
      BY <1>4, <1>9, <2>1 DEF After
    <2>3. ~IsStrum(z, TRUE) /\ ~IsStrum(z, FALSE)
      BY <1>9 DEF IsStrum
    <2>4. QED
      BY <1>4, <1>9, <2>2, <2>3
  <1>10. z.is = "strum" => IsStrum(z, TRUE) \/ IsStrum(z, FALSE)
    BY <1>5 DEF IsStrum
  <1>11. QED
    BY <1>6, <1>7, <1>8, <1>9, <1>10

LEMMA WalkIs ==
    ASSUME NEW t \in Seq(ShownItems), NEW s \in Changes \cup {Null}, NEW N \in Nat, N = Len(t)
    PROVE  \E at : Walks(at, t, s, N)
  <1>1. PICK a : a = [current |-> s, once |-> Null]
    OBVIOUS
  <1>2. a \in Uses
    BY <1>1 DEF Uses
  <1>3. \A n \in 1..N : t[n] \in ShownItems
    OBVIOUS
  <1>4. PICK g : g = [n \in 1..N |-> [z \in Uses |-> After(z, t[n])]]
    OBVIOUS
  <1>5. \A n \in 1..N : \A z \in Uses : g[n][z] = After(z, t[n])
    BY <1>4
  <1>6. \A n \in 1..N : \A z \in Uses : g[n][z] \in Uses
    BY <1>3, <1>5, AfterIs
  <1>7. PICK F \in [0..N -> Uses] : F[0] = a /\ \A n \in 1..N : F[n] = g[n][F[n - 1]]
    <2>1. TakesWithin(N, Uses, g)
      BY <1>6 DEF TakesWithin
    <2>2. TakesAll(N, Uses, a, g)
      BY <1>2, <2>1, Recursion
    <2>3. QED
      BY <2>2 DEF TakesAll
  <1>8. \A n \in 1..N : F[n] = After(F[n - 1], t[n])
    <2>1. \A n \in 1..N : n - 1 \in 0..N
      OBVIOUS
    <2>2. QED
      BY <1>5, <1>7, <2>1
  <1>9. \A n \in 0..N : F[n] = IF n = 0 THEN a ELSE After(F[n - 1], t[n])
    <2>1. ASSUME NEW n \in 0..N PROVE F[n] = IF n = 0 THEN a ELSE After(F[n - 1], t[n])
      <3>1. n # 0 => n \in 1..N
        OBVIOUS
      <3>2. QED
        BY <1>7, <1>8, <3>1
    <2>2. QED
      BY <2>1
  <1>10. F = [i \in 0..N |-> IF i = 0 THEN a ELSE After(F[i - 1], t[i])]
    BY <1>7, <1>9
  <1>11. QED
    BY <1>1, <1>10 DEF Walks

LEMMA WalkTypes ==
    ASSUME NEW t \in Seq(ShownItems), NEW s \in Changes \cup {Null}, NEW N \in Nat, N = Len(t),
           NEW at, Walks(at, t, s, N)
    PROVE  /\ at[0] = [current |-> s, once |-> Null]
           /\ \A n \in 1..N : at[n] = After(at[n - 1], t[n])
           /\ \A n \in 0..N : at[n] \in Uses
  <1>1. PICK a : a = [current |-> s, once |-> Null]
    OBVIOUS
  <1>2. at = [i \in 0..N |-> IF i = 0 THEN a ELSE After(at[i - 1], t[i])]
    BY <1>1 DEF Walks
  <1>3. \A n \in 0..N : at[n] = IF n = 0 THEN a ELSE After(at[n - 1], t[n])
    BY <1>2
  <1>4. at[0] = a
    BY <1>3
  <1>5. \A n \in 1..N : at[n] = After(at[n - 1], t[n])
    <2>1. \A n \in 1..N : n \in 0..N /\ n # 0
      OBVIOUS
    <2>2. QED
      BY <1>3, <2>1
  <1>6. a \in Uses
    BY <1>1 DEF Uses
  <1>7. \A n \in 0..N : at[n] \in Uses
    <2> DEFINE S == {n \in 0..N : at[n] \in Uses}
    <2>1. 0 \in S
      BY <1>4, <1>6
    <2>2. ASSUME NEW n \in 0..(N - 1), n \in S PROVE n + 1 \in S
      <3>1. n + 1 \in 1..N /\ n + 1 \in 0..N /\ (n + 1) - 1 = n
        OBVIOUS
      <3>2. t[n + 1] \in ShownItems /\ at[n] \in Uses
        BY <2>2, <3>1
      <3>3. After(at[n], t[n + 1]) \in Uses
        BY <3>2, AfterIs
      <3>4. at[n + 1] = After(at[n], t[n + 1])
        BY <1>5, <3>1
      <3>5. QED
        BY <3>1, <3>3, <3>4
    <2> HIDE DEF S
    <2>3. \A n \in 0..(N - 1) : n \in S => n + 1 \in S
      BY <2>2
    <2>4. \A n \in 0..N : n \in S
      BY <2>1, <2>3, StepByStep
    <2>5. QED
      BY <2>4 DEF S
  <1>8. QED
    BY <1>1, <1>4, <1>5, <1>7

\* The change in use is the last one that is no "once", and a "once" waits
\* that has come since, and since the last chord.
LastingIs(t, s, i, c) ==
    \/ c = s /\ \A k \in 1..i : ~IsStrum(t[k], FALSE)
    \/ \E k \in 1..i : /\ IsStrum(t[k], FALSE) /\ c = t[k].change
                       /\ \A l \in (k + 1)..i : ~IsStrum(t[l], FALSE)
OnceIs(t, i, c) ==
    \/ /\ c = Null
       /\ \A k \in 1..i : IsStrum(t[k], TRUE) =>
            \E l \in (k + 1)..i : IsStrum(t[l], FALSE) \/ Chorded(t[l])
    \/ \E k \in 1..i : /\ IsStrum(t[k], TRUE) /\ c = t[k].change
                       /\ \A l \in (k + 1)..i : t[l].is # "strum" /\ ~Chorded(t[l])

LEMMA LastingStep ==
    ASSUME NEW t, NEW s, NEW i \in Nat, NEW c, LastingIs(t, s, i, c), NEW d,
           IsStrum(t[i + 1], FALSE) => d = t[i + 1].change,
           ~IsStrum(t[i + 1], FALSE) => d = c
    PROVE  LastingIs(t, s, i + 1, d)
  <1>1. /\ \A k \in 1..(i + 1) : k \in 1..i \/ k = i + 1
        /\ i + 1 \in 1..(i + 1) /\ \A k \in 1..i : k \in 1..(i + 1)
        /\ \A l \in ((i + 1) + 1)..(i + 1) : FALSE
    OBVIOUS
  <1>2. \A k \in 1..i : \A l \in (k + 1)..(i + 1) : l \in (k + 1)..i \/ l = i + 1
    OBVIOUS
  <1>3. CASE IsStrum(t[i + 1], FALSE)
    BY <1>1, <1>3 DEF LastingIs
  <1>4. CASE ~IsStrum(t[i + 1], FALSE)
    <2>1. CASE c = s /\ \A k \in 1..i : ~IsStrum(t[k], FALSE)
      BY <1>1, <1>4, <2>1 DEF LastingIs
    <2>2. CASE \E k \in 1..i : /\ IsStrum(t[k], FALSE) /\ c = t[k].change
                               /\ \A l \in (k + 1)..i : ~IsStrum(t[l], FALSE)
      <3>1. PICK k \in 1..i : /\ IsStrum(t[k], FALSE) /\ c = t[k].change
                              /\ \A l \in (k + 1)..i : ~IsStrum(t[l], FALSE)
        BY <2>2
      <3>2. \A l \in (k + 1)..(i + 1) : ~IsStrum(t[l], FALSE)
        BY <1>2, <1>4, <3>1
      <3>3. k \in 1..(i + 1) /\ d = c
        BY <1>1, <1>4
      <3>4. QED
        BY <3>1, <3>2, <3>3 DEF LastingIs
    <2>3. QED
      BY <2>1, <2>2 DEF LastingIs
  <1>5. QED
    BY <1>3, <1>4

LEMMA OnceStep ==
    ASSUME NEW t, NEW i \in Nat, NEW c, OnceIs(t, i, c), NEW d,
           IsStrum(t[i + 1], TRUE) => d = t[i + 1].change,
           IsStrum(t[i + 1], FALSE) \/ Chorded(t[i + 1]) => d = Null,
           t[i + 1].is # "strum" /\ ~Chorded(t[i + 1]) => d = c,
           t[i + 1].is = "strum" => IsStrum(t[i + 1], TRUE) \/ IsStrum(t[i + 1], FALSE)
    PROVE  OnceIs(t, i + 1, d)
  <1>1. /\ \A k \in 1..(i + 1) : k \in 1..i \/ k = i + 1
        /\ i + 1 \in 1..(i + 1) /\ \A k \in 1..i : k \in 1..(i + 1)
        /\ \A l \in ((i + 1) + 1)..(i + 1) : FALSE
    OBVIOUS
  <1>2. \A k \in 1..i : /\ \A l \in (k + 1)..(i + 1) : l \in (k + 1)..i \/ l = i + 1
                        /\ \A l \in (k + 1)..i : l \in (k + 1)..(i + 1)
                        /\ i + 1 \in (k + 1)..(i + 1)
    OBVIOUS
  <1>3. CASE IsStrum(t[i + 1], TRUE)
    BY <1>1, <1>3 DEF OnceIs
  <1>4. CASE ~IsStrum(t[i + 1], TRUE) /\ (IsStrum(t[i + 1], FALSE) \/ Chorded(t[i + 1]))
    <2>1. ASSUME NEW k \in 1..(i + 1), IsStrum(t[k], TRUE)
          PROVE  \E l \in (k + 1)..(i + 1) : IsStrum(t[l], FALSE) \/ Chorded(t[l])
      <3>1. k \in 1..i
        BY <1>1, <1>4, <2>1
      <3>2. QED
        BY <1>2, <1>4, <3>1
    <2>2. d = Null
      BY <1>4
    <2>3. QED
      BY <2>1, <2>2 DEF OnceIs
  <1>5. CASE t[i + 1].is # "strum" /\ ~Chorded(t[i + 1])
    <2>1. d = c /\ ~IsStrum(t[i + 1], TRUE)
      BY <1>5 DEF IsStrum
    <2>2. CASE /\ c = Null
               /\ \A k \in 1..i : IsStrum(t[k], TRUE) =>
                    \E l \in (k + 1)..i : IsStrum(t[l], FALSE) \/ Chorded(t[l])
      <3>1. ASSUME NEW k \in 1..(i + 1), IsStrum(t[k], TRUE)
            PROVE  \E l \in (k + 1)..(i + 1) : IsStrum(t[l], FALSE) \/ Chorded(t[l])
        <4>1. k \in 1..i
          BY <1>1, <2>1, <3>1
        <4>2. PICK l \in (k + 1)..i : IsStrum(t[l], FALSE) \/ Chorded(t[l])
          BY <2>2, <3>1, <4>1
        <4>3. QED
          BY <1>2, <4>1, <4>2
      <3>2. QED
        BY <2>1, <2>2, <3>1 DEF OnceIs
    <2>3. CASE \E k \in 1..i : /\ IsStrum(t[k], TRUE) /\ c = t[k].change
                               /\ \A l \in (k + 1)..i : t[l].is # "strum" /\ ~Chorded(t[l])
      <3>1. PICK k \in 1..i : /\ IsStrum(t[k], TRUE) /\ c = t[k].change
                              /\ \A l \in (k + 1)..i : t[l].is # "strum" /\ ~Chorded(t[l])
        BY <2>3
      <3>2. \A l \in (k + 1)..(i + 1) : t[l].is # "strum" /\ ~Chorded(t[l])
        BY <1>2, <1>5, <3>1
      <3>3. QED
        BY <1>1, <2>1, <3>1, <3>2 DEF OnceIs
    <2>4. QED
      BY <2>2, <2>3 DEF OnceIs
  <1>6. QED
    BY <1>3, <1>4, <1>5

LEMMA WalkLasts ==
    ASSUME NEW t \in Seq(ShownItems), NEW s \in Changes \cup {Null}, NEW N \in Nat, N = Len(t),
           NEW at, Walks(at, t, s, N)
    PROVE  \A i \in 0..N : LastingIs(t, s, i, at[i].current) /\ OnceIs(t, i, at[i].once)
  <1>1. /\ at[0] = [current |-> s, once |-> Null]
        /\ \A n \in 1..N : at[n] = After(at[n - 1], t[n])
        /\ \A n \in 0..N : at[n] \in Uses
    BY WalkTypes
  <1> DEFINE S == {i \in 0..N : LastingIs(t, s, i, at[i].current) /\ OnceIs(t, i, at[i].once)}
  <1>2. 0 \in S
    <2>1. \A k \in 1..0 : FALSE
      OBVIOUS
    <2>2. at[0].current = s /\ at[0].once = Null
      BY <1>1
    <2>3. LastingIs(t, s, 0, at[0].current) /\ OnceIs(t, 0, at[0].once)
      BY <2>1, <2>2 DEF LastingIs, OnceIs
    <2>4. QED
      BY <2>3
  <1>3. ASSUME NEW i \in 0..(N - 1), i \in S PROVE i + 1 \in S
    <2>1. /\ i \in Nat /\ i + 1 \in 1..N /\ i + 1 \in 0..N /\ (i + 1) - 1 = i /\ i \in 0..N
      OBVIOUS
    <2>2. PICK p, q, z : p = at[i] /\ q = at[i + 1] /\ z = t[i + 1]
      OBVIOUS
    <2>3. p \in Uses /\ z \in ShownItems /\ q = After(p, z)
      BY <1>1, <2>1, <2>2
    <2>4. /\ IsStrum(z, TRUE) => q.current = p.current /\ q.once = z.change
          /\ IsStrum(z, FALSE) => q.current = z.change /\ q.once = Null
          /\ Chorded(z) => q.current = p.current /\ q.once = Null
          /\ z.is # "strum" /\ ~Chorded(z) => q = p
          /\ z.is = "strum" => IsStrum(z, TRUE) \/ IsStrum(z, FALSE)
      BY <2>3, AfterIs
    <2>5. LastingIs(t, s, i, p.current) /\ OnceIs(t, i, p.once)
      BY <1>3, <2>2
    <2>6. LastingIs(t, s, i + 1, q.current)
      <3>1. IsStrum(t[i + 1], FALSE) => q.current = t[i + 1].change
        BY <2>2, <2>4
      <3>2. ~IsStrum(t[i + 1], FALSE) => q.current = p.current
        BY <2>2, <2>4
      <3>3. QED
        BY <2>1, <2>5, <3>1, <3>2, LastingStep
    <2>7. OnceIs(t, i + 1, q.once)
      <3>1. IsStrum(t[i + 1], TRUE) => q.once = t[i + 1].change
        BY <2>2, <2>4
      <3>2. IsStrum(t[i + 1], FALSE) \/ Chorded(t[i + 1]) => q.once = Null
        BY <2>2, <2>4
      <3>3. t[i + 1].is # "strum" /\ ~Chorded(t[i + 1]) => q.once = p.once
        BY <2>2, <2>4
      <3>4. t[i + 1].is = "strum" => IsStrum(t[i + 1], TRUE) \/ IsStrum(t[i + 1], FALSE)
        BY <2>2, <2>4
      <3>5. QED
        BY <2>1, <2>5, <3>1, <3>2, <3>3, <3>4, OnceStep
    <2>8. QED
      BY <2>1, <2>2, <2>6, <2>7
  <1> HIDE DEF S
  <1>4. \A i \in 0..N : i \in S
    <2>1. \A i \in 0..(N - 1) : i \in S => i + 1 \in S
      BY <1>3
    <2>2. QED
      BY <1>2, <2>1, StepByStep
  <1>5. QED
    BY <1>4 DEF S

-----------------------------------------------------------------------------
(* What a text directs at a chord. *)

\* The parts of Charts!Directed, for a text.
ChordedIn(src, l) == {i \in 1..(l - 1) : src[i].is = "lyrics" /\ src[i].chords > 0}
BeforeIn(src, l) == {i \in DirectivesIn(src) : i < l /\ StartsIn(src, i)}
LastsIn(src, l) == {HeaderIn(src)} \cup {i \in BeforeIn(src, l) : ~src[i].once}
LastingIn(src, l) == Max(LastsIn(src, l))
OncesIn(src, l) == {i \in BeforeIn(src, l) : /\ src[i].once /\ i > LastingIn(src, l)
                                             /\ \A k \in ChordedIn(src, l) : k < i}
DirectedIn(src, seg) ==
    IF seg[2] = 1 /\ OncesIn(src, seg[1]) # {} THEN Max(OncesIn(src, seg[1]))
    ELSE LastingIn(src, seg[1])

LEMMA TextDirects == \A seg : Directed(seg) = DirectedIn(source, seg)
  <1>1. ASSUME NEW seg PROVE Directed(seg) = DirectedIn(source, seg)
    <2>1. PICK l : l = seg[1]
      OBVIOUS
    <2>2. {i \in Directives : i < seg[1] /\ StartedBy(i)} = BeforeIn(source, l)
      BY <2>1, TheText DEF BeforeIn
    <2>3. {i \in 1..(seg[1] - 1) : source[i].is = "lyrics" /\ source[i].chords > 0}
            = ChordedIn(source, l)
      BY <2>1 DEF ChordedIn
    <2>4. HeaderStrum = HeaderIn(source)
      BY TheText
    <2>5. QED
      BY <2>1, <2>2, <2>3, <2>4 DEF Directed, DirectedIn, LastingIn, LastsIn, OncesIn
  <1>2. QED
    BY <1>1

\* What is shown of a text, as far as its chords and changes go.
Shows(src, t, n) ==
    /\ DOMAIN src = 1..n /\ t \in Seq(ShownItems) /\ InOrder(t, Strummed) /\ AllRead(src, t)
    /\ \A z \in Range(t) : z.is = "strum" => Stands(src, z.change)

\* A change is the one that a directive asks for; none is, if there is none.
Directs(src, d, c) ==
    /\ d = 0 => c = Null
    /\ d # 0 => c # Null /\ c.line = d /\ c.pattern = MeantIn(src, d)

\* Which of the changes shown come before a chord.
AtChord(src, t, n, i) ==
    /\ Shows(src, t, n) /\ i \in 1..Len(t) /\ Chorded(t[i])
    /\ \A d \in BeforeIn(src, t[i].line) : IsPlaced(t, d)
ItemsBefore(src, t, i) ==
    /\ \A k \in 1..(i - 1) : t[k].is = "strum" =>
        /\ t[k].change \in Changes /\ t[k].change.line \in BeforeIn(src, t[i].line)
        /\ t[k].change.once = src[t[k].change.line].once
        /\ t[k].change.pattern = MeantIn(src, t[k].change.line)
    /\ \A d \in BeforeIn(src, t[i].line) : \E k \in 1..(i - 1) :
        t[k].is = "strum" /\ t[k].change.line = d
    /\ \A k, m \in 1..(i - 1) : k < m /\ t[k].is = "strum" /\ t[m].is = "strum" =>
        t[k].change.line < t[m].change.line
    /\ \A k, m \in 1..(i - 1) : k < m /\ t[k].is = "strum" /\ Chorded(t[m]) =>
        t[k].change.line < t[m].line
    /\ \A k, m \in 1..(i - 1) : k < m /\ Chorded(t[k]) /\ t[m].is = "strum" =>
        t[k].line < t[m].change.line
    /\ \A k \in 1..(i - 1) : Chorded(t[k]) => t[k].line \in ChordedIn(src, t[i].line)
    /\ \A l \in ChordedIn(src, t[i].line) : \E k \in 1..(i - 1) : Chorded(t[k]) /\ t[k].line = l

LEMMA ItemsAre ==
    ASSUME NEW src, NEW t, NEW n \in Nat, NEW i, AtChord(src, t, n, i)
    PROVE  ItemsBefore(src, t, i)
  <1>1. /\ DOMAIN src = 1..n /\ t \in Seq(ShownItems) /\ InOrder(t, Strummed) /\ AllRead(src, t)
        /\ \A z \in Range(t) : z.is = "strum" => Stands(src, z.change)
        /\ i \in 1..Len(t) /\ Chorded(t[i])
        /\ \A d \in BeforeIn(src, t[i].line) : IsPlaced(t, d)
    BY DEF AtChord, Shows
  <1>2. PICK m \in Nat : m = Len(t) /\ DOMAIN t = 1..m
    BY <1>1, SeqIs
  <1>3. /\ \A k \in 1..m : t[k] \in ShownItems /\ t[k] \in Range(t)
        /\ \A z \in Range(t) : \E k \in 1..m : z = t[k]
    <2>1. \A k \in 1..m : t[k] \in Range(t)
      BY <1>1, <1>2, SeqIs
    <2>2. \A k \in 1..m : t[k] \in ShownItems
      BY <1>1, <1>2
    <2>3. \A z \in Range(t) : \E k \in 1..m : z = t[k]
      BY <1>2 DEF Range
    <2>4. QED
      BY <2>1, <2>2, <2>3
  <1>4. /\ \A k \in 1..m : t[k].is = "strum" =>
             /\ LineOf(t[k]) = t[k].change.line /\ t[k].is \in Strummed
             /\ t[k].change \in Changes /\ t[k].change.line \in Nat
             /\ Stands(src, t[k].change)
        /\ \A k \in 1..m : Chorded(t[k]) =>
             /\ LineOf(t[k]) = t[k].line /\ t[k].is \in Strummed /\ t[k].is = "lyrics"
             /\ t[k].line \in 1..n /\ src[t[k].line].is = "lyrics"
             /\ t[k].chords = src[t[k].line].chords /\ t[k].chords > 0
    <2>1. ASSUME NEW k \in 1..m, t[k].is = "strum"
          PROVE  /\ LineOf(t[k]) = t[k].change.line /\ t[k].is \in Strummed
                 /\ t[k].change \in Changes /\ t[k].change.line \in Nat
                 /\ Stands(src, t[k].change)
      <3>1. t[k].change \in Changes
        BY <1>3, <2>1 DEF ShownItems, BLANK
      <3>2. t[k].change.line \in Nat
        BY <3>1, ItemLine
      <3>3. QED
        BY <1>1, <1>3, <2>1, <3>1, <3>2 DEF LineOf, Strummed
    <2>2. ASSUME NEW k \in 1..m, Chorded(t[k])
          PROVE  /\ LineOf(t[k]) = t[k].line /\ t[k].is \in Strummed /\ t[k].is = "lyrics"
                 /\ t[k].line \in 1..n /\ src[t[k].line].is = "lyrics"
                 /\ t[k].chords = src[t[k].line].chords /\ t[k].chords > 0
      <3>1. t[k].is = "lyrics" /\ t[k].chords > 0
        BY <2>2 DEF Chorded
      <3>2. /\ t[k].line \in 1..n /\ src[t[k].line].is = "lyrics"
            /\ t[k].chords = src[t[k].line].chords
        BY <1>1, <1>3, <3>1 DEF AllRead
      <3>3. QED
        BY <3>1, <3>2 DEF LineOf, Strummed
    <2>3. QED
      BY <2>1, <2>2
  <1>5. \A k, j \in 1..m : k < j /\ t[k].is \in Strummed /\ t[j].is \in Strummed
                             => LineOf(t[k]) < LineOf(t[j])
    BY <1>1, <1>2 DEF InOrder
  <1>6. PICK l \in 1..n : l = t[i].line /\ LineOf(t[i]) = l
    BY <1>1, <1>2, <1>4
  <1>7. i \in 1..m /\ t[i].is \in Strummed /\ t[i].is = "lyrics"
    BY <1>1, <1>2, <1>4
  <1>8. \A k \in 1..(i - 1) : k \in 1..m /\ k < i
    BY <1>7
  <1>9. ASSUME NEW k \in 1..(i - 1), t[k].is = "strum"
        PROVE  /\ t[k].change \in Changes /\ t[k].change.line \in BeforeIn(src, l)
               /\ t[k].change.once = src[t[k].change.line].once
               /\ t[k].change.pattern = MeantIn(src, t[k].change.line)
    <2>1. /\ LineOf(t[k]) = t[k].change.line /\ t[k].is \in Strummed
          /\ t[k].change \in Changes /\ Stands(src, t[k].change)
      BY <1>4, <1>8, <1>9
    <2>2. t[k].change.line < l
      BY <1>5, <1>6, <1>7, <1>8, <2>1
    <2>3. QED
      BY <2>1, <2>2 DEF Stands, BeforeIn
  <1>10. ASSUME NEW d \in BeforeIn(src, l)
         PROVE  \E k \in 1..(i - 1) : t[k].is = "strum" /\ t[k].change.line = d
    <2>1. IsPlaced(t, d) /\ d < l
      BY <1>1, <1>6, <1>10 DEF BeforeIn
    <2>2. PICK z \in Range(t) : z.is = "strum" /\ z.change.line = d
      BY <2>1 DEF IsPlaced
    <2>3. PICK k \in 1..m : z = t[k]
      BY <1>3
    <2>4. LineOf(t[k]) = d /\ t[k].is \in Strummed /\ d \in Nat
      BY <1>4, <2>2, <2>3
    <2>5. k # i
      BY <1>7, <2>2, <2>3
    <2>6. ~(i < k)
      <3>1. i < k => l < d
        BY <1>5, <1>6, <1>7, <2>4
      <3>2. QED
        BY <2>1, <2>4, <3>1
    <2>7. k \in 1..(i - 1)
      BY <1>7, <2>5, <2>6
    <2>8. QED
      BY <2>2, <2>3, <2>7
  <1>11. \A k, j \in 1..(i - 1) : k < j /\ t[k].is = "strum" /\ t[j].is = "strum" =>
            t[k].change.line < t[j].change.line
    BY <1>4, <1>5, <1>8
  <1>12. \A k, j \in 1..(i - 1) : k < j /\ t[k].is = "strum" /\ Chorded(t[j]) =>
            t[k].change.line < t[j].line
    BY <1>4, <1>5, <1>8
  <1>13. \A k, j \in 1..(i - 1) : k < j /\ Chorded(t[k]) /\ t[j].is = "strum" =>
            t[k].line < t[j].change.line
    BY <1>4, <1>5, <1>8
  <1>14. ASSUME NEW k \in 1..(i - 1), Chorded(t[k]) PROVE t[k].line \in ChordedIn(src, l)
    <2>1. /\ LineOf(t[k]) = t[k].line /\ t[k].is \in Strummed
          /\ t[k].line \in 1..n /\ src[t[k].line].is = "lyrics"
          /\ t[k].chords = src[t[k].line].chords /\ t[k].chords > 0
      BY <1>4, <1>8, <1>14
    <2>2. t[k].line < l
      BY <1>5, <1>6, <1>7, <1>8, <2>1
    <2>3. t[k].line \in 1..(l - 1)
      BY <2>1, <2>2
    <2>4. QED
      BY <2>1, <2>3 DEF ChordedIn
  <1>15. ASSUME NEW e \in ChordedIn(src, l)
         PROVE  \E k \in 1..(i - 1) : Chorded(t[k]) /\ t[k].line = e
    <2>1. e \in 1..(l - 1) /\ src[e].is = "lyrics" /\ src[e].chords > 0
      BY <1>15 DEF ChordedIn
    <2>2. e \in 1..n /\ e < l /\ src[e].is \in Written
      BY <2>1 DEF Written
    <2>3. PICK z \in Range(t) : z.is = src[e].is /\ z.line = e
      BY <1>1, <2>2 DEF AllRead
    <2>4. z.is = "lyrics" /\ z.chords = src[e].chords
      BY <1>1, <2>1, <2>3 DEF AllRead
    <2>5. Chorded(z)
      BY <2>1, <2>4 DEF Chorded
    <2>6. PICK k \in 1..m : z = t[k]
      BY <1>3
    <2>7. LineOf(t[k]) = e /\ t[k].is \in Strummed
      BY <1>4, <2>3, <2>5, <2>6
    <2>8. k # i
      BY <1>6, <2>2, <2>3, <2>6
    <2>9. ~(i < k)
      <3>1. i < k => l < e
        BY <1>5, <1>6, <1>7, <2>7
      <3>2. QED
        BY <2>2, <3>1
    <2>10. k \in 1..(i - 1)
      BY <1>7, <2>8, <2>9
    <2>11. QED
      BY <2>3, <2>5, <2>6, <2>10
  <1>16. QED
    BY <1>6, <1>9, <1>10, <1>11, <1>12, <1>13, <1>14, <1>15 DEF ItemsBefore

-----------------------------------------------------------------------------

\* The change in use from the start is the one that the header asks for.
FromHeader(src, s) ==
    /\ s = Null => OfIn(src) = {}
    /\ s # Null => s.line = HeaderIn(src) /\ HeaderIn(src) \in OfIn(src)
                   /\ s.pattern = MeantIn(src, HeaderIn(src))

\* The header comes before every directive within the song.
LEMMA HeaderFirst ==
    ASSUME NEW src, NEW n \in Nat, DOMAIN src = 1..n
    PROVE  /\ HeaderIn(src) \in 0..n /\ (OfIn(src) = {} => HeaderIn(src) = 0)
           /\ OfIn(src) \subseteq 1..n
           /\ \A d \in DirectivesIn(src) : d \in 1..n /\ (StartsIn(src, d) => HeaderIn(src) < d)
  <1>1. /\ OfIn(src) \subseteq 1..n /\ DirectivesIn(src) \subseteq 1..n
        /\ \A e \in OfIn(src) : ~StartsIn(src, e)
    BY DEF OfIn, DirectivesIn
  <1>2. OfIn(src) = {} => HeaderIn(src) = 0
    BY DEF HeaderIn
  <1>3. OfIn(src) # {} => HeaderIn(src) \in OfIn(src)
    BY <1>1, HeaderIs
  <1>4. HeaderIn(src) \in 0..n
    BY <1>1, <1>2, <1>3
  <1>5. ASSUME NEW d \in 1..n, StartsIn(src, d), NEW e \in 1..n, ~StartsIn(src, e) PROVE e < d
    <2>1. PICK k \in 1..(d - 1) : src[k].is \notin HeaderKinds
      BY <1>5 DEF StartsIn
    <2>2. ~(e >= d)
      <3>1. e >= d => k \in 1..(e - 1)
        OBVIOUS
      <3>2. QED
        BY <1>5, <2>1, <3>1 DEF StartsIn
    <2>3. QED
      BY <2>2
  <1>6. ASSUME NEW d \in DirectivesIn(src), StartsIn(src, d) PROVE HeaderIn(src) < d
    <2>1. d \in 1..n
      BY <1>1
    <2>2. CASE OfIn(src) = {}
      BY <1>2, <2>1, <2>2
    <2>3. CASE OfIn(src) # {}
      BY <1>1, <1>3, <1>5, <1>6, <2>1, <2>3
    <2>4. QED
      BY <2>2, <2>3
  <1>7. QED
    BY <1>1, <1>2, <1>4, <1>6

LEMMA LastsAre ==
    ASSUME NEW src, NEW n \in Nat, DOMAIN src = 1..n, NEW l
    PROVE  /\ LastingIn(src, l) \in LastsIn(src, l) /\ LastingIn(src, l) \in 0..n
           /\ \A i \in LastsIn(src, l) : i <= LastingIn(src, l)
           /\ BeforeIn(src, l) \subseteq 1..n
           /\ \A d \in BeforeIn(src, l) : HeaderIn(src) < d
  <1>1. /\ HeaderIn(src) \in 0..n
        /\ \A d \in DirectivesIn(src) : d \in 1..n /\ (StartsIn(src, d) => HeaderIn(src) < d)
    BY HeaderFirst
  <1>2. /\ BeforeIn(src, l) \subseteq 1..n
        /\ \A d \in BeforeIn(src, l) : HeaderIn(src) < d
    BY <1>1 DEF BeforeIn
  <1>3. PICK S : S = LastsIn(src, l)
    OBVIOUS
  <1>4. S \subseteq 0..n /\ S # {}
    BY <1>1, <1>2, <1>3 DEF LastsIn
  <1>5. S \in SUBSET Nat /\ \A i \in S : i <= n
    BY <1>4
  <1>6. Max(S) \in S /\ \A i \in S : i <= Max(S)
    BY <1>4, <1>5, GreatestOf
  <1>7. QED
    BY <1>2, <1>3, <1>4, <1>6 DEF LastingIn

LEMMA LastingDirects ==
    ASSUME NEW src, NEW t, NEW n \in Nat, NEW i, AtChord(src, t, n, i), NEW s, FromHeader(src, s),
           NEW c, LastingIs(t, s, i - 1, c)
    PROVE  Directs(src, LastingIn(src, t[i].line), c)
  <1>0. DOMAIN src = 1..n
    BY DEF AtChord, Shows
  <1>1. PICK l, d : l = t[i].line /\ d = LastingIn(src, l)
    OBVIOUS
  <1>2. /\ d \in LastsIn(src, l) /\ d \in 0..n /\ \A e \in LastsIn(src, l) : e <= d
        /\ BeforeIn(src, l) \subseteq 1..n /\ \A e \in BeforeIn(src, l) : HeaderIn(src) < e
    BY <1>0, <1>1, LastsAre
  <1>3. ItemsBefore(src, t, i)
    BY ItemsAre
  <1>4. /\ \A k \in 1..(i - 1) : t[k].is = "strum" =>
            /\ t[k].change \in Changes /\ t[k].change.line \in BeforeIn(src, l)
            /\ t[k].change.once = src[t[k].change.line].once
            /\ t[k].change.pattern = MeantIn(src, t[k].change.line)
        /\ \A e \in BeforeIn(src, l) : \E k \in 1..(i - 1) :
            t[k].is = "strum" /\ t[k].change.line = e
        /\ \A k, m \in 1..(i - 1) : k < m /\ t[k].is = "strum" /\ t[m].is = "strum" =>
            t[k].change.line < t[m].change.line
    BY <1>1, <1>3 DEF ItemsBefore
  <1>5. ASSUME NEW k \in 1..(i - 1), t[k].is = "strum"
        PROVE  IsStrum(t[k], FALSE) <=> ~src[t[k].change.line].once
    <2>1. t[k].change \in Changes /\ t[k].change.once = src[t[k].change.line].once
      BY <1>4, <1>5
    <2>2. t[k].change.once \in BOOLEAN
      BY <2>1 DEF Changes
    <2>3. QED
      BY <1>5, <2>1, <2>2 DEF IsStrum
  <1>6. CASE c = s /\ \A k \in 1..(i - 1) : ~IsStrum(t[k], FALSE)
    <2>1. \A e \in BeforeIn(src, l) : src[e].once
      BY <1>4, <1>5, <1>6
    <2>2. d = HeaderIn(src)
      BY <1>2, <2>1 DEF LastsIn
    <2>3. OfIn(src) \subseteq 1..n /\ (OfIn(src) = {} => HeaderIn(src) = 0)
      BY <1>0, HeaderFirst
    <2>4. s # Null => d \in 1..n
      BY <2>2, <2>3 DEF FromHeader
    <2>5. Directs(src, d, c)
      BY <1>6, <2>2, <2>3, <2>4 DEF FromHeader, Directs
    <2>6. QED
      BY <1>1, <2>5
  <1>7. CASE \E k \in 1..(i - 1) : /\ IsStrum(t[k], FALSE) /\ c = t[k].change
                                   /\ \A m \in (k + 1)..(i - 1) : ~IsStrum(t[m], FALSE)
    <2>1. PICK k \in 1..(i - 1) : /\ IsStrum(t[k], FALSE) /\ c = t[k].change
                                  /\ \A m \in (k + 1)..(i - 1) : ~IsStrum(t[m], FALSE)
      BY <1>7
    <2>2. t[k].is = "strum"
      BY <2>1 DEF IsStrum
    <2>3. /\ c \in Changes /\ c.line \in BeforeIn(src, l) /\ ~src[c.line].once
          /\ c.pattern = MeantIn(src, c.line)
      BY <1>4, <1>5, <2>1, <2>2
    <2>4. c.line \in LastsIn(src, l) /\ c.line \in 1..n /\ HeaderIn(src) < c.line
      BY <1>2, <2>3 DEF LastsIn
    <2>5. c.line <= d
      BY <1>2, <2>4
    <2>6. ASSUME NEW e \in BeforeIn(src, l), ~src[e].once PROVE e <= c.line
      <3>1. PICK m \in 1..(i - 1) : t[m].is = "strum" /\ t[m].change.line = e
        BY <1>4
      <3>2. IsStrum(t[m], FALSE)
        BY <1>5, <2>6, <3>1
      <3>3. m \notin (k + 1)..(i - 1)
        BY <2>1, <3>2
      <3>4. m < k \/ m = k
        BY <3>3
      <3>5. e \in 1..n
        BY <1>2
      <3>6. CASE m < k
        <4>1. e < c.line
          BY <1>4, <2>1, <2>2, <3>1, <3>6
        <4>2. QED
          BY <2>4, <3>5, <4>1
      <3>7. CASE m = k
        BY <2>1, <2>4, <3>1, <3>7
      <3>8. QED
        BY <3>4, <3>6, <3>7
    <2>7. d # HeaderIn(src)
      BY <1>2, <2>4, <2>5
    <2>8. d \in BeforeIn(src, l) /\ ~src[d].once
      BY <1>2, <2>7 DEF LastsIn
    <2>9. d <= c.line
      BY <2>6, <2>8
    <2>10. d = c.line /\ d # 0
      BY <1>2, <2>4, <2>5, <2>9
    <2>11. c # Null
      BY <2>3, NoChange
    <2>12. Directs(src, d, c)
      BY <2>3, <2>10, <2>11 DEF Directs
    <2>13. QED
      BY <1>1, <2>12
  <1>8. QED
    BY <1>6, <1>7 DEF LastingIs

\* A "once" waits for a line if the text has one since the last chord.
OnceAsked(src, l, c) ==
    /\ c = Null => OncesIn(src, l) = {}
    /\ c # Null => OncesIn(src, l) # {} /\ Directs(src, Max(OncesIn(src, l)), c)

LEMMA OnceDirects ==
    ASSUME NEW src, NEW t, NEW n \in Nat, NEW i, AtChord(src, t, n, i),
           NEW c, OnceIs(t, i - 1, c)
    PROVE  OnceAsked(src, t[i].line, c)
  <1>0. DOMAIN src = 1..n
    BY DEF AtChord, Shows
  <1>1. PICK l, d : l = t[i].line /\ d = LastingIn(src, l)
    OBVIOUS
  <1>2. /\ d \in LastsIn(src, l) /\ d \in 0..n /\ \A e \in LastsIn(src, l) : e <= d
        /\ BeforeIn(src, l) \subseteq 1..n /\ \A e \in BeforeIn(src, l) : HeaderIn(src) < e
    BY <1>0, <1>1, LastsAre
  <1>3. ItemsBefore(src, t, i)
    BY ItemsAre
  <1>4. /\ \A k \in 1..(i - 1) : t[k].is = "strum" =>
            /\ t[k].change \in Changes /\ t[k].change.line \in BeforeIn(src, l)
            /\ t[k].change.once = src[t[k].change.line].once
            /\ t[k].change.pattern = MeantIn(src, t[k].change.line)
        /\ \A e \in BeforeIn(src, l) : \E k \in 1..(i - 1) :
            t[k].is = "strum" /\ t[k].change.line = e
        /\ \A k, m \in 1..(i - 1) : k < m /\ t[k].is = "strum" /\ t[m].is = "strum" =>
            t[k].change.line < t[m].change.line
        /\ \A k, m \in 1..(i - 1) : k < m /\ t[k].is = "strum" /\ Chorded(t[m]) =>
            t[k].change.line < t[m].line
        /\ \A k, m \in 1..(i - 1) : k < m /\ Chorded(t[k]) /\ t[m].is = "strum" =>
            t[k].line < t[m].change.line
        /\ \A k \in 1..(i - 1) : Chorded(t[k]) => t[k].line \in ChordedIn(src, l)
        /\ \A e \in ChordedIn(src, l) : \E k \in 1..(i - 1) : Chorded(t[k]) /\ t[k].line = e
    BY <1>1, <1>3, Zenon DEF ItemsBefore
  <1>5. ASSUME NEW k \in 1..(i - 1), t[k].is = "strum"
        PROVE  /\ IsStrum(t[k], FALSE) <=> ~src[t[k].change.line].once
               /\ IsStrum(t[k], TRUE) <=> src[t[k].change.line].once = TRUE
               /\ src[t[k].change.line].once \in BOOLEAN
    <2>1. t[k].change \in Changes /\ t[k].change.once = src[t[k].change.line].once
      BY <1>4, <1>5
    <2>2. t[k].change.once \in BOOLEAN
      BY <2>1 DEF Changes
    <2>3. QED
      BY <1>5, <2>1, <2>2 DEF IsStrum
  <1>6. \A e \in ChordedIn(src, l) : e \in Int
    <2>1. \A e \in ChordedIn(src, l) : e \in 1..(l - 1)
      BY DEF ChordedIn
    <2>2. QED
      BY <2>1
  <1>7. ASSUME NEW e \in OncesIn(src, l)
        PROVE  /\ e \in BeforeIn(src, l) /\ e \in 1..n /\ src[e].once /\ e > d
               /\ \A k \in ChordedIn(src, l) : k < e
    BY <1>1, <1>2, <1>7 DEF OncesIn
  <1>8. ASSUME /\ c = Null
               /\ \A k \in 1..(i - 1) : IsStrum(t[k], TRUE) =>
                    \E m \in (k + 1)..(i - 1) : IsStrum(t[m], FALSE) \/ Chorded(t[m])
        PROVE  OncesIn(src, l) = {}
    <2>1. SUFFICES ASSUME NEW e \in OncesIn(src, l) PROVE FALSE
      OBVIOUS
    <2>2. /\ e \in BeforeIn(src, l) /\ e \in 1..n /\ src[e].once /\ e > d
          /\ \A k \in ChordedIn(src, l) : k < e
      BY <1>7
    <2>3. PICK k \in 1..(i - 1) : t[k].is = "strum" /\ t[k].change.line = e
      BY <1>4, <2>2
    <2>4. IsStrum(t[k], TRUE)
      BY <1>5, <2>2, <2>3
    <2>5. PICK m \in (k + 1)..(i - 1) : IsStrum(t[m], FALSE) \/ Chorded(t[m])
      BY <1>8, <2>4
    <2>6. m \in 1..(i - 1) /\ k < m
      OBVIOUS
    <2>7. CASE IsStrum(t[m], FALSE)
      <3>1. t[m].is = "strum"
        BY <2>7 DEF IsStrum
      <3>2. PICK f : f = t[m].change.line
        OBVIOUS
      <3>3. e < f /\ f \in BeforeIn(src, l) /\ ~src[f].once
        BY <1>4, <1>5, <2>3, <2>6, <2>7, <3>1, <3>2
      <3>4. f \in LastsIn(src, l) /\ f \in 1..n
        BY <1>2, <3>3 DEF LastsIn
      <3>5. f <= d
        BY <1>2, <3>4
      <3>6. QED
        BY <1>2, <2>2, <3>3, <3>4, <3>5
    <2>8. CASE Chorded(t[m])
      <3>1. PICK f : f = t[m].line
        OBVIOUS
      <3>2. f \in ChordedIn(src, l) /\ e < f
        BY <1>4, <2>3, <2>6, <2>8, <3>1
      <3>3. f < e /\ f \in Int
        BY <1>6, <2>2, <3>2
      <3>4. QED
        BY <2>2, <3>2, <3>3
    <2>9. QED
      BY <2>5, <2>7, <2>8
  <1>9. ASSUME NEW k \in 1..(i - 1), IsStrum(t[k], TRUE), c = t[k].change,
               \A m \in (k + 1)..(i - 1) : t[m].is # "strum" /\ ~Chorded(t[m])
        PROVE  c # Null /\ OncesIn(src, l) # {} /\ Directs(src, Max(OncesIn(src, l)), c)
    <2>1. t[k].is = "strum"
      BY <1>9 DEF IsStrum
    <2>2. PICK e : e = c.line
      OBVIOUS
    <2>3. /\ c \in Changes /\ e \in BeforeIn(src, l) /\ src[e].once /\ e \in 1..n
          /\ c.pattern = MeantIn(src, e)
      BY <1>2, <1>4, <1>5, <1>9, <2>1, <2>2
    <2>4. \A m \in 1..(i - 1) : t[m].is = "strum" \/ Chorded(t[m]) => m < k \/ m = k
      <3>1. ASSUME NEW m \in 1..(i - 1), t[m].is = "strum" \/ Chorded(t[m])
            PROVE  m < k \/ m = k
        <4>1. m \notin (k + 1)..(i - 1)
          BY <1>9, <3>1
        <4>2. QED
          BY <4>1
      <3>2. QED
        BY <3>1
    <2>5. ASSUME NEW f \in BeforeIn(src, l) PROVE f < e \/ f = e
      <3>1. PICK m \in 1..(i - 1) : t[m].is = "strum" /\ t[m].change.line = f
        BY <1>4
      <3>2. CASE m < k
        BY <1>4, <1>9, <2>1, <2>2, <3>1, <3>2
      <3>3. CASE m = k
        BY <1>9, <2>2, <3>1, <3>3
      <3>4. QED
        BY <2>4, <3>1, <3>2, <3>3
    <2>6. e > d
      <3>1. CASE d = HeaderIn(src)
        BY <1>2, <2>3, <3>1
      <3>2. CASE d # HeaderIn(src)
        <4>1. d \in BeforeIn(src, l) /\ ~src[d].once
          BY <1>2, <3>2 DEF LastsIn
        <4>2. d # e
          BY <2>3, <4>1
        <4>3. d < e
          BY <2>5, <4>1, <4>2
        <4>4. QED
          BY <1>2, <2>3, <4>3
      <3>3. QED
        BY <3>1, <3>2
    <2>7. ASSUME NEW f \in ChordedIn(src, l) PROVE f < e
      <3>1. PICK m \in 1..(i - 1) : Chorded(t[m]) /\ t[m].line = f
        BY <1>4
      <3>2. m # k
        BY <2>1, <3>1 DEF Chorded
      <3>3. m < k
        BY <2>4, <3>1, <3>2
      <3>4. QED
        BY <1>4, <1>9, <2>1, <2>2, <3>1, <3>3
    <2>8. e \in OncesIn(src, l)
      BY <1>1, <2>3, <2>6, <2>7 DEF OncesIn
    <2>9. Max(OncesIn(src, l)) = e
      <3>1. PICK S : S = OncesIn(src, l)
        OBVIOUS
      <3>2. \A f \in S : f \in BeforeIn(src, l) /\ f \in 1..n
        BY <1>7, <3>1
      <3>3. S \in SUBSET Nat
        BY <3>2
      <3>4. \A f \in S : f <= e
        <4>1. ASSUME NEW f \in S PROVE f <= e
          <5>1. f \in 1..n /\ (f < e \/ f = e)
            BY <2>5, <3>2
          <5>2. QED
            BY <2>3, <5>1
        <4>2. QED
          BY <4>1
      <3>5. e \in S
        BY <2>8, <3>1
      <3>6. Max(S) = e
        BY <3>3, <3>4, <3>5, GreatestIs
      <3>7. QED
        BY <3>1, <3>6
    <2>10. c # Null
      BY <2>3, NoChange
    <2>11. Directs(src, e, c)
      BY <2>2, <2>3, <2>10 DEF Directs
    <2>12. QED
      BY <2>8, <2>9, <2>10, <2>11
  <1>10. CASE /\ c = Null
              /\ \A k \in 1..(i - 1) : IsStrum(t[k], TRUE) =>
                   \E m \in (k + 1)..(i - 1) : IsStrum(t[m], FALSE) \/ Chorded(t[m])
    BY <1>1, <1>8, <1>10 DEF OnceAsked
  <1>11. CASE \E k \in 1..(i - 1) :
                /\ IsStrum(t[k], TRUE) /\ c = t[k].change
                /\ \A m \in (k + 1)..(i - 1) : t[m].is # "strum" /\ ~Chorded(t[m])
    <2>1. c # Null /\ OncesIn(src, l) # {} /\ Directs(src, Max(OncesIn(src, l)), c)
      BY <1>9, <1>11
    <2>2. QED
      BY <1>1, <2>1 DEF OnceAsked
  <1>12. QED
    BY <1>10, <1>11 DEF OnceIs

-----------------------------------------------------------------------------
(* Where a directive stands apart from others, it is shown before the line *)
(* that it is for.                                                         *)

\* Charts!Apart, for a text: nothing comes between a directive and the line
\* it is for.
ApartIn(src, n) ==
    \A i \in DirectivesIn(src) : StartsIn(src, i) =>
        \E k \in i..n :
            /\ src[k].is \in {"lyrics", "comment"} \/ k = n
            /\ \A j \in (i + 1)..(k - 1) : src[j].is # "strum"
            /\ Cardinality({j \in (i + 1)..(k - 1) : src[j].is \in Sectioners}) <= 1

LEMMA ApartIs == Apart <=> ApartIn(source, Len(source))
  <1>1. Directives = DirectivesIn(source) /\ \A i : StartedBy(i) <=> StartsIn(source, i)
    BY TheText
  <1>2. QED
    BY <1>1 DEF Apart, ApartIn, Sectioners

LEMMA TwoOfMany ==
    ASSUME NEW a \in Nat, NEW b \in Int, NEW S \in SUBSET (a..b), NEW z \in S, NEW y \in S, z < y
    PROVE  ~(Cardinality(S) <= 1)
  <1>1. IsFiniteSet(a..b)
    BY FS_Interval
  <1>2. IsFiniteSet(S)
    BY <1>1, FS_Subset
  <1>3. PICK T : T = {z, y}
    OBVIOUS
  <1>4. z # y
    OBVIOUS
  <1>5. IsFiniteSet(T) /\ Cardinality(T) = 2
    <2>1. IsFiniteSet({y}) /\ Cardinality({y}) = 1
      BY FS_Singleton
    <2>2. z \notin {y} /\ T = {y} \cup {z}
      BY <1>3, <1>4
    <2>3. Cardinality({y} \cup {z}) = 1 + 1 /\ IsFiniteSet({y} \cup {z})
      BY <2>1, <2>2, FS_AddElement
    <2>4. QED
      BY <2>2, <2>3
  <1>6. T \subseteq S
    BY <1>3
  <1>7. Cardinality(T) <= Cardinality(S)
    BY <1>2, <1>6, FS_Subset
  <1>8. Cardinality(S) \in Nat
    BY <1>2, FS_CardinalityType
  <1>9. QED
    BY <1>5, <1>7, <1>8

LEMMA PlacedBefore ==
    ASSUME NEW src, NEW t, NEW h, NEW p, NEW n \in Nat, DOMAIN src = 1..n,
           Waits(src, t, h, p, n), ApartIn(src, n),
           NEW l \in 1..n, src[l].is = "lyrics", NEW d \in BeforeIn(src, l)
    PROVE  IsPlaced(t, d)
  <1>1. d \in DirectivesIn(src) /\ d < l /\ StartsIn(src, d) /\ d \in 1..n
    BY DEF BeforeIn, DirectivesIn
  <1>2. PICK S : S = {m \in d..n : src[m].is \in Halts}
    OBVIOUS
  <1>3. S \in SUBSET Nat /\ l \in S
    BY <1>1, <1>2 DEF Halts
  <1>4. PICK m \in S : \A e \in S : m <= e
    BY <1>3, LeastIs
  <1>5. m \in d..n /\ src[m].is \in Halts /\ m <= l
    BY <1>2, <1>3, <1>4
  <1>6. Clear(src, d, m - 1)
    <2>1. ASSUME NEW e \in d..(m - 1) PROVE src[e].is \notin Halts
      <3>1. e \in d..n /\ ~(m <= e)
        BY <1>1, <1>5
      <3>2. e \notin S
        BY <1>4, <3>1
      <3>3. QED
        BY <1>2, <3>1, <3>2
    <2>2. QED
      BY <2>1 DEF Clear
  <1>7. PICK k \in d..n :
            /\ src[k].is \in {"lyrics", "comment"} \/ k = n
            /\ \A j \in (d + 1)..(k - 1) : src[j].is # "strum"
            /\ Cardinality({j \in (d + 1)..(k - 1) : src[j].is \in Sectioners}) <= 1
    BY <1>1 DEF ApartIn
  <1>8. m <= k
    <2>1. CASE k = n
      BY <1>1, <1>5, <2>1
    <2>2. CASE src[k].is \in {"lyrics", "comment"}
      <3>1. k \in S
        BY <1>2, <2>2 DEF Halts
      <3>2. QED
        BY <1>4, <3>1
    <2>3. QED
      BY <1>7, <2>1, <2>2
  <1>9. \A j \in (d + 1)..(m - 1) : j \in (d + 1)..(k - 1)
    BY <1>1, <1>5, <1>8
  <1>10. ~Crossed(src, d, m - 1)
    <2>1. \A j \in (d + 1)..(m - 1) : src[j].is # "strum"
      BY <1>7, <1>9
    <2>2. ASSUME NEW j \in (d + 1)..(m - 1), NEW e \in (d + 1)..(m - 1), j < e,
                 src[j].is \in Sectioners, src[e].is \in Sectioners
          PROVE  FALSE
      <3>1. PICK T : T = {f \in (d + 1)..(k - 1) : src[f].is \in Sectioners}
        OBVIOUS
      <3>2. j \in T /\ e \in T /\ T \in SUBSET ((d + 1)..(k - 1))
        BY <1>9, <2>2, <3>1
      <3>3. d + 1 \in Nat /\ k - 1 \in Int
        BY <1>1
      <3>4. ~(Cardinality(T) <= 1)
        BY <2>2, <3>2, <3>3, TwoOfMany
      <3>5. QED
        BY <1>7, <3>1, <3>4
    <2>3. QED
      BY <2>1, <2>2 DEF Crossed
  <1>11. \A e \in d..n : src[e].is \in Halts /\ Clear(src, d, e - 1)
                         => IsPlaced(t, d) \/ Crossed(src, d, e - 1)
    BY <1>1 DEF Waits
  <1>12. QED
    BY <1>5, <1>6, <1>10, <1>11

\* The change in use at a line's chord, and the list of them for a chart.
UseAt(at, i, j) ==
    IF j = 1 /\ at[i - 1].once # Null THEN at[i - 1].once ELSE at[i - 1].current
IsUsed(t, at, i, j, seg, use) ==
    Chorded(t[i]) /\ seg = <<t[i].line, j>> /\ use = UseAt(at, i, j)

UsesIn(lines, s) ==
    LET at[i \in 0..Len(lines)] == IF i = 0 THEN [current |-> s, once |-> Null]
                                   ELSE After(at[i - 1], lines[i])
        use(i, j) == IF j = 1 /\ at[i - 1].once # Null THEN at[i - 1].once ELSE at[i - 1].current
    IN FlattenSeq([i \in DOMAIN lines |-> [j \in DOMAIN Segments(lines[i]) |-> use(i, j)]])

LEMMA UsesUnfold ==
    ASSUME NEW t, NEW s, NEW at, at = CHOOSE f : Walks(f, t, s, Len(t))
    PROVE  UsesIn(t, s) = FlattenSeq([i \in DOMAIN t |->
                                [j \in DOMAIN Segments(t[i]) |-> UseAt(at, i, j)]])
  BY DEF UsesIn, Walks, UseAt

\* The chords to play and the changes in use there, one for one.
LEMMA UsesAre ==
    ASSUME ChartInv
    PROVE  /\ strumsByChord(Doc) \in Seq(Changes \cup {Null}) /\ segmentsIn(Doc) \in Seq(Chords)
           /\ DOMAIN segmentsIn(Doc) = DOMAIN strumsByChord(Doc)
           /\ \E at : /\ Walks(at, ChartText, strum, Len(ChartText))
                      /\ \A k \in DOMAIN segmentsIn(Doc) :
                            \E i \in 1..Len(ChartText), j \in Nat :
                                IsUsed(ChartText, at, i, j, segmentsIn(Doc)[k],
                                       strumsByChord(Doc)[k])
  <1>1. ChartTypes /\ ChartOrder
    BY DEF ChartInv
  <1>2. PICK t, s : t = ChartText /\ s = strum
    OBVIOUS
  <1>3. LinesOf(Doc) = t
    BY <1>2, DocIs DEF ChartText, TextSoFar
  <1>4. t \in Seq(ShownItems) /\ s \in Changes \cup {Null}
    BY <1>1, <1>2 DEF ChartOrder, TextOrder, ChartTypes
  <1>5. PICK m \in Nat : m = Len(t) /\ DOMAIN t = 1..m
    BY <1>4, SeqIs
  <1>6. PICK at : at = CHOOSE f : Walks(f, t, s, m)
    OBVIOUS
  <1>7. Walks(at, t, s, m)
    <2>1. \E f : Walks(f, t, s, m)
      BY <1>4, <1>5, WalkIs
    <2>2. QED
      BY <1>6, <2>1, Zenon
  <1>8. strumsByChord(Doc) = FlattenSeq([i \in DOMAIN t |->
                                [j \in DOMAIN Segments(t[i]) |-> UseAt(at, i, j)]])
    <2>1. strumsByChord(Doc) = UsesIn(LinesOf(Doc), strum)
      BY DEF strumsByChord, UsesIn
    <2>2. strumsByChord(Doc) = UsesIn(t, s)
      BY <1>2, <1>3, <2>1
    <2>3. at = CHOOSE f : Walks(f, t, s, Len(t))
      BY <1>5, <1>6
    <2>4. QED
      BY <2>2, <2>3, UsesUnfold
  <1>9. segmentsIn(Doc) = FlattenSeq([i \in DOMAIN t |-> Segments(t[i])])
    BY <1>3 DEF segmentsIn
  <1>10. PICK a, b : /\ a = [i \in DOMAIN t |-> Segments(t[i])]
                     /\ b = [i \in DOMAIN t |-> [j \in DOMAIN Segments(t[i]) |-> UseAt(at, i, j)]]
    OBVIOUS
  <1>11. segmentsIn(Doc) = FlattenSeq(a) /\ strumsByChord(Doc) = FlattenSeq(b)
    BY <1>8, <1>9, <1>10
  <1>12. \A i \in 1..m : t[i] \in ShownItems
    BY <1>4, <1>5
  <1>13. \A n \in 0..m : at[n] \in Uses
    BY <1>4, <1>5, <1>7, WalkTypes
  <1>14. ASSUME NEW i \in 1..m
         PROVE  /\ a[i] \in Seq(Chords) /\ b[i] \in Seq(Changes \cup {Null})
                /\ Len(a[i]) = Len(b[i])
                /\ \A j \in 1..Len(a[i]) : IsUsed(t, at, i, j, a[i][j], b[i][j])
    <2>1. PICK q : q = Segments(t[i])
      OBVIOUS
    <2>2. /\ q \in Seq(Chords) /\ DOMAIN q = 1..Len(q)
          /\ \A j \in 1..Len(q) : Chorded(t[i]) /\ q[j] = <<t[i].line, j>>
      BY <1>12, <2>1, SegmentsAre
    <2>3. PICK l \in Nat : l = Len(q)
      BY <2>2, SeqIs
    <2>4. a[i] = q /\ b[i] = [j \in 1..l |-> UseAt(at, i, j)]
      BY <1>5, <1>10, <2>1, <2>2, <2>3
    <2>5. at[i - 1] \in Uses
      <3>1. i - 1 \in 0..m
        OBVIOUS
      <3>2. QED
        BY <1>13, <3>1
    <2>6. \A j \in 1..l : UseAt(at, i, j) \in Changes \cup {Null}
      BY <2>5 DEF UseAt, Uses
    <2>7. b[i] \in Seq(Changes \cup {Null}) /\ Len(b[i]) = l
      <3>1. b[i] \in [1..l -> Changes \cup {Null}]
        BY <2>4, <2>6
      <3>2. QED
        BY <3>1
    <2>8. \A j \in 1..l : b[i][j] = UseAt(at, i, j)
      BY <2>4
    <2>9. QED
      BY <2>2, <2>3, <2>4, <2>7, <2>8 DEF IsUsed
  <1>15. Len(a) = m /\ Len(b) = m /\ DOMAIN a = 1..m /\ DOMAIN b = 1..m
    <2>1. DOMAIN a = 1..m /\ DOMAIN b = 1..m
      BY <1>5, <1>10
    <2>2. a \in [1..m -> Seq(Chords)] /\ b \in [1..m -> Seq(Changes \cup {Null})]
      BY <1>5, <1>10, <1>14
    <2>3. Len(a) = m
      BY <2>2
    <2>4. Len(b) = m
      BY <2>2
    <2>5. QED
      BY <2>1, <2>3, <2>4
  <1>16. Alike(a, b, m, Chords, Changes \cup {Null})
    BY <1>14, <1>15 DEF Alike
  <1>18. PICK f, g : f = FlattenSeq(a) /\ g = FlattenSeq(b)
    OBVIOUS
  <1>17. /\ f \in Seq(Chords) /\ g \in Seq(Changes \cup {Null}) /\ DOMAIN f = DOMAIN g
         /\ \A k \in DOMAIN f : \E n \in 1..m : \E j \in 1..Len(a[n]) :
                f[k] = a[n][j] /\ g[k] = b[n][j]
    <2>1. OneForOne(f, g, a, b, m, Chords, Changes \cup {Null})
      BY <1>16, <1>18, LaidAlike
    <2>2. QED
      BY <2>1, Zenon DEF OneForOne
  <1>19. ASSUME NEW k \in DOMAIN f
         PROVE  \E i \in 1..m, j \in Nat : IsUsed(t, at, i, j, f[k], g[k])
    <2>1. PICK i \in 1..m : \E j \in 1..Len(a[i]) : f[k] = a[i][j] /\ g[k] = b[i][j]
      BY <1>17
    <2>2. PICK j \in 1..Len(a[i]) : f[k] = a[i][j] /\ g[k] = b[i][j]
      BY <2>1
    <2>3. IsUsed(t, at, i, j, a[i][j], b[i][j])
      BY <1>14
    <2>4. j \in Nat
      <3>1. Len(a[i]) \in Nat
        BY <1>14, SeqIs
      <3>2. QED
        BY <3>1
    <2>5. QED
      BY <2>2, <2>3, <2>4
  <1>20. /\ f \in Seq(Chords) /\ g \in Seq(Changes \cup {Null}) /\ DOMAIN f = DOMAIN g
         /\ f = segmentsIn(Doc) /\ g = strumsByChord(Doc)
    BY <1>11, <1>17, <1>18
  <1>21. QED
    BY <1>2, <1>5, <1>7, <1>19, <1>20

LEMMA DirectsApart == ChartInv => DirectedApart
  <1>0. SUFFICES ASSUME ChartInv, Apart PROVE AsDirected
    BY DEF DirectedApart
  <1>1. /\ ChartTypes /\ StrumIsHeader /\ ChartOrder /\ ChartRead /\ ChartStands /\ ChartWaits
    BY <1>0 DEF ChartInv
  <1>2. PICK src, t, s : src = source /\ t = ChartText /\ s = strum
    OBVIOUS
  <1>3. PICK n \in Nat : n = Len(src) /\ DOMAIN src = 1..n
    BY <1>1, <1>2, SeqIs DEF ChartTypes
  <1>4. t \in Seq(ShownItems) /\ s \in Changes \cup {Null} /\ InOrder(t, Strummed)
    BY <1>1, <1>2 DEF ChartOrder, TextOrder, ChartTypes
  <1>5. PICK m \in Nat : m = Len(t)
    BY <1>4, SeqIs
  <1>6. Shows(src, t, n)
    BY <1>1, <1>2, <1>3, <1>4 DEF Shows, ChartRead, ChartStands, AllStand
  <1>7. FromHeader(src, s)
    BY <1>1, <1>2 DEF StrumIsHeader, FromHeader
  <1>8. Waits(src, t, Held, pending, n) /\ ApartIn(src, n)
    BY <1>0, <1>1, <1>2, <1>3, ApartIs DEF ChartWaits
  <1>9. PICK segs, uses : segs = segmentsIn(Doc) /\ uses = strumsByChord(Doc)
    OBVIOUS
  <1>10. \E at : /\ Walks(at, t, s, m)
                 /\ \A k \in DOMAIN segs : \E i \in 1..m, j \in Nat :
                        IsUsed(t, at, i, j, segs[k], uses[k])
    BY <1>0, <1>2, <1>5, <1>9, UsesAre
  <1>11. PICK at : /\ Walks(at, t, s, m)
                   /\ \A k \in DOMAIN segs : \E i \in 1..m, j \in Nat :
                          IsUsed(t, at, i, j, segs[k], uses[k])
    BY <1>10
  <1>12. \A i \in 0..m : LastingIs(t, s, i, at[i].current) /\ OnceIs(t, i, at[i].once)
    BY <1>4, <1>5, <1>11, WalkLasts
  <1>13. ASSUME NEW i \in 1..m, Chorded(t[i]) PROVE AtChord(src, t, n, i)
    <2>1. t[i] \in Range(t) /\ t[i].is = "lyrics"
      BY <1>4, <1>5, <1>13, SeqIs DEF Chorded
    <2>2. t[i].line \in 1..n /\ src[t[i].line].is = "lyrics"
      BY <1>3, <1>6, <2>1 DEF Shows, AllRead
    <2>3. PICK l \in 1..n : l = t[i].line /\ src[l].is = "lyrics"
      BY <2>2
    <2>4. \A d \in BeforeIn(src, l) : IsPlaced(t, d)
      BY <1>3, <1>8, <2>3, PlacedBefore
    <2>5. QED
      BY <1>5, <1>6, <1>13, <2>3, <2>4 DEF AtChord
  <1>14. ASSUME NEW k \in DOMAIN segs PROVE Directs(src, DirectedIn(src, segs[k]), uses[k])
    <2>1. PICK i \in 1..m, j \in Nat : IsUsed(t, at, i, j, segs[k], uses[k])
      BY <1>11
    <2>2. Chorded(t[i]) /\ segs[k] = <<t[i].line, j>> /\ uses[k] = UseAt(at, i, j)
      BY <2>1 DEF IsUsed
    <2>3. segs[k][1] = t[i].line /\ segs[k][2] = j
      BY <2>2
    <2>4. AtChord(src, t, n, i)
      BY <1>13, <2>2
    <2>5. i - 1 \in 0..m
      OBVIOUS
    <2>6. PICK c, o : c = at[i - 1].current /\ o = at[i - 1].once
      OBVIOUS
    <2>7. LastingIs(t, s, i - 1, c) /\ OnceIs(t, i - 1, o)
      BY <1>12, <2>5, <2>6
    <2>8. Directs(src, LastingIn(src, t[i].line), c)
      BY <1>7, <2>4, <2>7, LastingDirects
    <2>9. /\ o = Null => OncesIn(src, t[i].line) = {}
          /\ o # Null => /\ OncesIn(src, t[i].line) # {}
                         /\ Directs(src, Max(OncesIn(src, t[i].line)), o)
      <3>1. OnceAsked(src, t[i].line, o)
        BY <2>4, <2>7, OnceDirects
      <3>2. QED
        BY <3>1, Zenon DEF OnceAsked
    <2>10. uses[k] = IF j = 1 /\ o # Null THEN o ELSE c
      BY <2>2, <2>6 DEF UseAt
    <2>11. DirectedIn(src, segs[k]) =
                IF j = 1 /\ OncesIn(src, t[i].line) # {} THEN Max(OncesIn(src, t[i].line))
                ELSE LastingIn(src, t[i].line)
      BY <2>3 DEF DirectedIn
    <2>12. CASE j = 1 /\ o # Null
      BY <2>9, <2>10, <2>11, <2>12
    <2>13. CASE ~(j = 1 /\ o # Null)
      BY <2>8, <2>9, <2>10, <2>11, <2>13
    <2>14. QED
      BY <2>12, <2>13
  <1>15. ASSUME NEW k \in DOMAIN segs
         PROVE  IF Directed(segs[k]) = 0 THEN uses[k] = Null
                ELSE /\ uses[k] # Null /\ uses[k].line = Directed(segs[k])
                     /\ uses[k].pattern = Meant(Directed(segs[k]))
    <2>1. PICK d : d = Directed(segs[k])
      OBVIOUS
    <2>2. Directs(src, d, uses[k])
      BY <1>2, <1>14, <2>1, TextDirects
    <2>3. Meant(d) = MeantIn(src, d)
      BY <1>2, TheText
    <2>4. QED
      BY <2>1, <2>2, <2>3 DEF Directs
  <1>16. QED
    BY <1>9, <1>15 DEF AsDirected

-----------------------------------------------------------------------------
(* The bars of a pattern take turns. *)

LEMMA Rest ==
    ASSUME NEW K \in Nat \ {0}, NEW q \in Nat, NEW r \in 0..(K - 1)
    PROVE  (K * q + r) % K = r
  OBVIOUS

LEMMA NextTurn ==
    ASSUME NEW K \in Nat \ {0}, NEW r \in Nat
    PROVE  (1 + r) % K = (1 + (r % K)) % K
  <1>1. PICK q \in Nat, m \in 0..(K - 1) : r = K * q + m
    <2>1. r \div K \in Nat /\ r % K \in 0..(K - 1) /\ r = K * (r \div K) + (r % K)
      OBVIOUS
    <2>2. QED
      BY <2>1
  <1>2. r % K = m
    BY <1>1, Rest
  <1>3. CASE m + 1 < K
    <2>1. m + 1 \in 0..(K - 1)
      BY <1>3
    <2>2. (K * q + (m + 1)) % K = m + 1
      BY <2>1, Rest
    <2>3. K * q \in Nat
      OBVIOUS
    <2>4. 1 + r = K * q + (m + 1)
      BY <1>1, <2>3
    <2>5. (1 + m) % K = m + 1
      <3>1. (K * 0 + (m + 1)) % K = m + 1
        BY <2>1, Rest
      <3>2. K * 0 + (m + 1) = 1 + m
        OBVIOUS
      <3>3. QED
        BY <3>1, <3>2
    <2>6. QED
      BY <1>2, <2>2, <2>4, <2>5
  <1>4. CASE ~(m + 1 < K)
    <2>1. m + 1 = K /\ 0 \in 0..(K - 1) /\ q + 1 \in Nat
      BY <1>4
    <2>2. (K * (q + 1) + 0) % K = 0
      BY <2>1, Rest
    <2>3. K * (q + 1) = K * q + K
      OBVIOUS
    <2>4. K * q \in Nat
      OBVIOUS
    <2>5. 1 + r = K * (q + 1) + 0
      BY <1>1, <2>1, <2>3, <2>4
    <2>6. (1 + m) % K = 0
      <3>1. (K * 1 + 0) % K = 0
        BY <2>1, Rest
      <3>2. K * 1 + 0 = 1 + m
        BY <2>1
      <3>3. QED
        BY <3>1, <3>2
    <2>7. QED
      BY <1>2, <2>2, <2>5, <2>6
  <1>5. QED
    BY <1>3, <1>4

\* How often a change has been in use, chord after chord.
RunsAre(f, uses) ==
    f = [i \in DOMAIN uses |-> IF i > 1 /\ uses[i] = uses[i - 1] THEN 1 + f[i - 1] ELSE 0]

LEMMA CountsAre ==
    ASSUME NEW uses, NEW N \in Nat, DOMAIN uses = 1..N
    PROVE  \E f \in [1..N -> Nat] : RunsAre(f, uses)
  <1>1. PICK g : g = [i \in 1..N |-> [z \in Nat |->
                        IF i > 1 /\ uses[i] = uses[i - 1] THEN 1 + z ELSE 0]]
    OBVIOUS
  <1>2. TakesWithin(N, Nat, g)
    BY <1>1 DEF TakesWithin
  <1>3. TakesAll(N, Nat, 0, g)
    BY <1>2, Recursion
  <1>4. PICK F \in [0..N -> Nat] : \A i \in 1..N : F[i] = g[i][F[i - 1]]
    BY <1>3 DEF TakesAll
  <1>5. PICK f : f = [i \in 1..N |-> F[i]]
    OBVIOUS
  <1>6. \A i \in 1..N : f[i] = F[i] /\ F[i] \in Nat
    <2>1. \A i \in 1..N : i \in 0..N
      OBVIOUS
    <2>2. QED
      BY <1>4, <1>5, <2>1
  <1>7. ASSUME NEW i \in 1..N
        PROVE  f[i] = IF i > 1 /\ uses[i] = uses[i - 1] THEN 1 + f[i - 1] ELSE 0
    <2>1. i - 1 \in 0..N
      OBVIOUS
    <2>2. F[i - 1] \in Nat
      BY <1>4, <2>1
    <2>3. f[i] = IF i > 1 /\ uses[i] = uses[i - 1] THEN 1 + F[i - 1] ELSE 0
      BY <1>1, <1>4, <1>6, <2>2
    <2>4. i > 1 => i - 1 \in 1..N
      OBVIOUS
    <2>5. QED
      BY <1>6, <2>3, <2>4
  <1>8. f = [i \in 1..N |-> IF i > 1 /\ uses[i] = uses[i - 1] THEN 1 + f[i - 1] ELSE 0]
    BY <1>5, <1>7
  <1>9. f \in [1..N -> Nat]
    BY <1>5, <1>6
  <1>10. QED
    BY <1>8, <1>9 DEF RunsAre

\* The bar at a chord, and the bars of a chart.
BarAt(uses, runs, i) == IF uses[i] = Null THEN 0 ELSE 1 + (runs[i] % Len(Bars[uses[i].pattern]))

BarsWith(uses, runs) == [i \in DOMAIN uses |-> BarAt(uses, runs, i)]

LEMMA BarsUnfold ==
    ASSUME NEW uses PROVE barOf(uses) = BarsWith(uses, CHOOSE f : RunsAre(f, uses))
  BY DEF barOf, RunsAre, BarAt, BarsWith

LEMMA CountTypes ==
    ASSUME NEW uses, NEW N \in Nat, DOMAIN uses = 1..N, NEW f, RunsAre(f, uses)
    PROVE  f \in [1..N -> Nat]
  <1> DEFINE S == {n \in 0..N : n # 0 => f[n] \in Nat}
  <1>1. \A i \in 1..N : f[i] = IF i > 1 /\ uses[i] = uses[i - 1] THEN 1 + f[i - 1] ELSE 0
    BY DEF RunsAre
  <1>2. 0 \in S
    OBVIOUS
  <1>3. ASSUME NEW n \in 0..(N - 1), n \in S PROVE n + 1 \in S
    <2>1. n + 1 \in 1..N /\ n + 1 \in 0..N /\ (n + 1) - 1 = n
      OBVIOUS
    <2>2. f[n + 1] = IF n + 1 > 1 /\ uses[n + 1] = uses[n] THEN 1 + f[n] ELSE 0
      BY <1>1, <2>1
    <2>3. n + 1 > 1 => f[n] \in Nat
      BY <1>3
    <2>4. QED
      BY <2>1, <2>2, <2>3
  <1> HIDE DEF S
  <1>4. \A n \in 0..N : n \in S
    <2>1. \A n \in 0..(N - 1) : n \in S => n + 1 \in S
      BY <1>3
    <2>2. QED
      BY <1>2, <2>1, StepByStep
  <1>5. \A n \in 1..N : f[n] \in Nat
    <2>1. ASSUME NEW n \in 1..N PROVE f[n] \in Nat
      <3>1. n \in 0..N /\ n # 0
        OBVIOUS
      <3>2. QED
        BY <1>4, <3>1 DEF S
    <2>2. QED
      BY <2>1
  <1>6. DOMAIN f = 1..N /\ f = [i \in 1..N |-> f[i]]
    BY DEF RunsAre
  <1>7. QED
    BY <1>5, <1>6

\* Where the strokes of each bar begin.
Begin(f, bars) == f = [b \in 1..Len(bars) |-> IF b = 1 THEN 0 ELSE f[b - 1] + bars[b - 1]]

LEMMA BeginsAt ==
    ASSUME NEW K \in Nat, NEW bars, K = Len(bars), bars \in [1..K -> Nat \ {0}]
    PROVE  \E f \in [1..K -> Nat] : Begin(f, bars)
  <1>1. PICK g : g = [b \in 1..K |-> [z \in Nat |-> IF b = 1 THEN 0 ELSE z + bars[b - 1]]]
    OBVIOUS
  <1>2. TakesWithin(K, Nat, g)
    <2>1. ASSUME NEW b \in 1..K, NEW z \in Nat
          PROVE  (IF b = 1 THEN 0 ELSE z + bars[b - 1]) \in Nat
      <3>1. b # 1 => b - 1 \in 1..K
        OBVIOUS
      <3>2. b # 1 => bars[b - 1] \in Nat
        BY <3>1
      <3>3. QED
        BY <3>2
    <2>2. QED
      BY <1>1, <2>1 DEF TakesWithin
  <1>3. TakesAll(K, Nat, 0, g)
    BY <1>2, Recursion
  <1>4. PICK F \in [0..K -> Nat] : \A b \in 1..K : F[b] = g[b][F[b - 1]]
    BY <1>3 DEF TakesAll
  <1>5. PICK f : f = [b \in 1..K |-> F[b]]
    OBVIOUS
  <1>6. \A b \in 1..K : f[b] = F[b] /\ F[b] \in Nat
    <2>1. \A b \in 1..K : b \in 0..K
      OBVIOUS
    <2>2. QED
      BY <1>4, <1>5, <2>1
  <1>7. ASSUME NEW b \in 1..K PROVE f[b] = IF b = 1 THEN 0 ELSE f[b - 1] + bars[b - 1]
    <2>1. b - 1 \in 0..K
      OBVIOUS
    <2>2. F[b - 1] \in Nat
      BY <1>4, <2>1
    <2>3. f[b] = IF b = 1 THEN 0 ELSE F[b - 1] + bars[b - 1]
      BY <1>1, <1>4, <1>6, <2>2
    <2>4. b # 1 => b - 1 \in 1..K
      OBVIOUS
    <2>5. QED
      BY <1>6, <2>3, <2>4
  <1>8. f = [b \in 1..K |-> IF b = 1 THEN 0 ELSE f[b - 1] + bars[b - 1]]
    BY <1>5, <1>7
  <1>9. f \in [1..K -> Nat]
    BY <1>5, <1>6
  <1>10. QED
    BY <1>8, <1>9 DEF Begin

LEMMA BeginTypes ==
    ASSUME NEW K \in Nat, NEW bars, K = Len(bars), bars \in [1..K -> Nat \ {0}],
           NEW f, Begin(f, bars)
    PROVE  f \in [1..K -> Nat]
  <1> DEFINE S == {n \in 0..K : n # 0 => f[n] \in Nat}
  <1>1. \A b \in 1..K : f[b] = IF b = 1 THEN 0 ELSE f[b - 1] + bars[b - 1]
    BY DEF Begin
  <1>2. 0 \in S
    OBVIOUS
  <1>3. ASSUME NEW n \in 0..(K - 1), n \in S PROVE n + 1 \in S
    <2>1. n + 1 \in 1..K /\ n + 1 \in 0..K /\ (n + 1) - 1 = n
      OBVIOUS
    <2>2. f[n + 1] = IF n + 1 = 1 THEN 0 ELSE f[n] + bars[n]
      BY <1>1, <2>1
    <2>3. n + 1 # 1 => f[n] \in Nat /\ n \in 1..K
      BY <1>3
    <2>4. n + 1 # 1 => bars[n] \in Nat
      BY <2>3
    <2>5. f[n + 1] \in Nat
      BY <2>2, <2>3, <2>4
    <2>6. QED
      BY <2>1, <2>5
  <1> HIDE DEF S
  <1>4. \A n \in 0..K : n \in S
    <2>1. \A n \in 0..(K - 1) : n \in S => n + 1 \in S
      BY <1>3
    <2>2. QED
      BY <1>2, <2>1, StepByStep
  <1>5. \A n \in 1..K : f[n] \in Nat
    <2>1. ASSUME NEW n \in 1..K PROVE f[n] \in Nat
      <3>1. n \in 0..K /\ n # 0
        OBVIOUS
      <3>2. QED
        BY <1>4, <3>1 DEF S
    <2>2. QED
      BY <2>1
  <1>6. DOMAIN f = 1..K /\ f = [i \in 1..K |-> f[i]]
    BY DEF Begin
  <1>7. QED
    BY <1>5, <1>6

\* A bar's strokes end before a later bar's begin.
LEMMA LaterBegin ==
    ASSUME NEW K \in Nat, NEW bars, K = Len(bars), bars \in [1..K -> Nat \ {0}],
           NEW f \in [1..K -> Nat], Begin(f, bars),
           NEW b \in 1..K, NEW c \in 1..K, b < c
    PROVE  f[b] + bars[b] <= f[c]
  <1> DEFINE S == {n \in 0..K : n \in (b + 1)..K => f[b] + bars[b] <= f[n]}
  <1>1. \A n \in 1..K : f[n] = IF n = 1 THEN 0 ELSE f[n - 1] + bars[n - 1]
    BY DEF Begin
  <1>2. f[b] \in Nat /\ bars[b] \in Nat
    OBVIOUS
  <1>3. 0 \in S
    OBVIOUS
  <1>4. ASSUME NEW n \in 0..(K - 1), n \in S PROVE n + 1 \in S
    <2>1. n + 1 \in 0..K /\ n \in 0..K
      OBVIOUS
    <2>2. ASSUME n + 1 \in (b + 1)..K PROVE f[b] + bars[b] <= f[n + 1]
      <3>1. n + 1 \in 1..K /\ n + 1 # 1 /\ n \in 1..K /\ (n + 1) - 1 = n
        BY <2>2
      <3>2. f[n + 1] = f[n] + bars[n]
        BY <1>1, <3>1
      <3>3. f[n] \in Nat /\ bars[n] \in Nat
        BY <3>1
      <3>4. CASE n = b
        BY <1>2, <3>2, <3>4
      <3>5. CASE n # b
        <4>1. n \in (b + 1)..K
          BY <2>2, <3>5
        <4>2. f[b] + bars[b] <= f[n]
          BY <1>4, <4>1
        <4>3. QED
          BY <1>2, <3>2, <3>3, <4>2
      <3>6. QED
        BY <3>4, <3>5
    <2>3. QED
      BY <2>1, <2>2
  <1> HIDE DEF S
  <1>5. \A n \in 0..K : n \in S
    <2>1. \A n \in 0..(K - 1) : n \in S => n + 1 \in S
      BY <1>4
    <2>2. QED
      BY <1>3, <2>1, StepByStep
  <1>6. c \in 0..K /\ c \in (b + 1)..K
    OBVIOUS
  <1>7. QED
    BY <1>5, <1>6 DEF S

\* The strokes of a bar, from where it begins.
StrokesAt(f, pattern, bar) == f[bar]..(f[bar] + Bars[pattern][bar] - 1)

LEMMA StrokesUnfold ==
    ASSUME NEW pattern, NEW bar, NEW f, f = CHOOSE h : Begin(h, Bars[pattern])
    PROVE  strokesOf(pattern, bar) = StrokesAt(f, pattern, bar)
  BY DEF strokesOf, Begin, StrokesAt

LEMMA StrokesApart ==
    ASSUME NEW p \in Patterns, NEW K \in Nat, K = Len(Bars[p]),
           NEW b \in 1..K, NEW c \in 1..K, b # c
    PROVE  strokesOf(p, b) \cap strokesOf(p, c) = {}
  <1>1. PICK bars : bars = Bars[p]
    OBVIOUS
  <1>2. bars \in [1..K -> Nat \ {0}]
    <2>1. bars \in Seq(Nat \ {0})
      BY <1>1, ChartsAssumption
    <2>2. QED
      BY <1>1, <2>1
  <1>3. PICK f : f = CHOOSE h : Begin(h, bars)
    OBVIOUS
  <1>4. Begin(f, bars)
    <2>1. \E h : Begin(h, bars)
      BY <1>1, <1>2, BeginsAt
    <2>2. QED
      BY <1>3, <2>1, Zenon
  <1>5. f \in [1..K -> Nat]
    BY <1>1, <1>2, <1>4, BeginTypes
  <1>6. \A z : strokesOf(p, z) = f[z]..(f[z] + bars[z] - 1)
    BY <1>1, <1>3, StrokesUnfold DEF StrokesAt
  <1>7. f[b] \in Nat /\ f[c] \in Nat /\ bars[b] \in Nat /\ bars[c] \in Nat
    BY <1>2, <1>5
  <1>8. CASE b < c
    <2>1. f[b] + bars[b] <= f[c]
      BY <1>1, <1>2, <1>4, <1>5, <1>8, LaterBegin
    <2>2. QED
      BY <1>6, <1>7, <2>1
  <1>9. CASE ~(b < c)
    <2>1. c < b
      BY <1>9
    <2>2. f[c] + bars[c] <= f[b]
      BY <1>1, <1>2, <1>4, <1>5, <2>1, LaterBegin
    <2>3. QED
      BY <1>6, <1>7, <2>2
  <1>10. QED
    BY <1>8, <1>9

\* Of a few chords ahead, the first is next.
LEMMA FirstAhead ==
    ASSUME NEW uses, NEW N \in Nat, Len(uses) = N, NEW i \in 2..N,
           uses[i] # Null, uses[i] # uses[i - 1]
    PROVE  strumNext(uses, i - 1) = uses[i]
  <1>1. PICK ahead : ahead = {k \in ((i - 1) + 1)..Min({Len(uses), (i - 1) + 4}) :
                                uses[k] # Null /\ uses[k] # uses[i - 1]}
    OBVIOUS
  <1>2. strumNext(uses, i - 1) = IF ahead = {} THEN Null ELSE uses[Min(ahead)]
    BY <1>1 DEF strumNext
  <1>3. PICK m : m = Min({N, (i - 1) + 4})
    OBVIOUS
  <1>4. m \in Nat /\ i <= m
    <2>1. {N, (i - 1) + 4} \in SUBSET Nat /\ {N, (i - 1) + 4} # {}
      OBVIOUS
    <2>2. m \in {N, (i - 1) + 4}
      BY <1>3, <2>1, LeastOf
    <2>3. QED
      BY <2>2
  <1>5. i \in ahead /\ ahead \subseteq i..m
    <2>1. ahead = {k \in ((i - 1) + 1)..m : uses[k] # Null /\ uses[k] # uses[i - 1]}
      BY <1>1, <1>3
    <2>2. (i - 1) + 1 = i /\ i \in i..m
      BY <1>4
    <2>3. QED
      BY <2>1, <2>2
  <1>6. Min(ahead) = i
    <2>1. ahead \in SUBSET Nat /\ ahead # {}
      BY <1>4, <1>5
    <2>2. Min(ahead) \in ahead /\ \A k \in ahead : Min(ahead) <= k
      BY <2>1, LeastOf
    <2>3. PICK k : k = Min(ahead)
      OBVIOUS
    <2>4. k \in i..m /\ k <= i
      BY <1>5, <2>2, <2>3
    <2>5. k = i
      BY <1>4, <2>4
    <2>6. QED
      BY <2>3, <2>5
  <1>7. QED
    BY <1>2, <1>5, <1>6

\* Charts!BarsTakeTurns at one chord.
TurnAt(uses, i) ==
    IF i > 1 /\ uses[i - 1] = uses[i]
    THEN /\ barOf(uses)[i] = 1 + (barOf(uses)[i - 1] % Len(Bars[uses[i].pattern]))
         /\ barOf(uses)[i] # barOf(uses)[i - 1] =>
              strokesOf(uses[i].pattern, barOf(uses)[i])
                 \cap strokesOf(uses[i].pattern, barOf(uses)[i - 1]) = {}
    ELSE barOf(uses)[i] = 1 /\ (i > 1 => strumNext(uses, i - 1) = uses[i])

LEMMA TurnsAre ==
    ASSUME NEW uses \in Seq(Changes \cup {Null}), NEW i \in DOMAIN uses, uses[i] # Null
    PROVE  TurnAt(uses, i)
  <1>1. PICK N \in Nat : N = Len(uses) /\ DOMAIN uses = 1..N
    BY SeqIs
  <1>2. PICK r : r = CHOOSE f : RunsAre(f, uses)
    OBVIOUS
  <1>3. RunsAre(r, uses)
    <2>1. \E f : RunsAre(f, uses)
      BY <1>1, CountsAre
    <2>2. QED
      BY <1>2, <2>1, Zenon
  <1>4. r \in [1..N -> Nat]
    BY <1>1, <1>3, CountTypes
  <1>5. \A k \in 1..N : r[k] = IF k > 1 /\ uses[k] = uses[k - 1] THEN 1 + r[k - 1] ELSE 0
    BY <1>1, <1>3 DEF RunsAre
  <1>6. PICK bars : bars = barOf(uses)
    OBVIOUS
  <1>7. \A k \in 1..N : bars[k] = BarAt(uses, r, k)
    <2>1. barOf(uses) = BarsWith(uses, CHOOSE f : RunsAre(f, uses))
      BY BarsUnfold
    <2>2. bars = BarsWith(uses, r)
      BY <1>2, <1>6, <2>1, Zenon
    <2>3. QED
      BY <1>1, <2>2 DEF BarsWith
  <1>8. i \in 1..N /\ uses[i] \in Changes
    <2>1. i \in 1..N
      BY <1>1
    <2>2. uses[i] \in Changes \cup {Null}
      BY <1>1, <2>1
    <2>3. QED
      BY <2>1, <2>2
  <1>9. PICK p \in Patterns : p = uses[i].pattern
    BY <1>8 DEF Changes
  <1>10. PICK K \in Nat \ {0} : K = Len(Bars[p])
    <2>1. Bars[p] \in Seq(Nat \ {0}) /\ Bars[p] # <<>>
      BY ChartsAssumption
    <2>2. QED
      BY <2>1
  <1>11. bars[i] = 1 + (r[i] % K)
    <2>1. bars[i] = BarAt(uses, r, i)
      BY <1>7, <1>8
    <2>2. QED
      BY <1>9, <1>10, <2>1 DEF BarAt
  <1>12. CASE i > 1 /\ uses[i - 1] = uses[i]
    <2>1. i - 1 \in 1..N
      BY <1>8, <1>12
    <2>2. r[i] = 1 + r[i - 1]
      BY <1>5, <1>8, <1>12
    <2>3. PICK z \in Nat : z = r[i - 1]
      BY <1>4, <2>1
    <2>4. bars[i - 1] = 1 + (z % K)
      <3>1. bars[i - 1] = BarAt(uses, r, i - 1)
        BY <1>7, <2>1
      <3>2. QED
        BY <1>9, <1>10, <1>12, <2>3, <3>1 DEF BarAt
    <2>5. bars[i] = 1 + ((1 + z) % K)
      BY <1>11, <2>2, <2>3
    <2>6. (1 + z) % K = (1 + (z % K)) % K
      BY NextTurn
    <2>7. bars[i] = 1 + (bars[i - 1] % K)
      BY <2>4, <2>5, <2>6
    <2>8. bars[i] \in 1..K /\ bars[i - 1] \in 1..K
      <3>1. z % K \in 0..(K - 1)
        OBVIOUS
      <3>2. (1 + z) % K \in 0..(K - 1)
        OBVIOUS
      <3>3. QED
        BY <2>4, <2>5, <3>1, <3>2
    <2>9. bars[i] # bars[i - 1] => strokesOf(p, bars[i]) \cap strokesOf(p, bars[i - 1]) = {}
      BY <1>10, <2>8, StrokesApart
    <2>10. QED
      BY <1>6, <1>9, <1>10, <1>12, <2>7, <2>9 DEF TurnAt
  <1>13. CASE ~(i > 1 /\ uses[i - 1] = uses[i])
    <2>1. r[i] = 0
      BY <1>5, <1>8, <1>13
    <2>2. 0 % K = 0
      OBVIOUS
    <2>3. bars[i] = 1
      BY <1>11, <2>1, <2>2
    <2>4. i > 1 => strumNext(uses, i - 1) = uses[i]
      <3>1. SUFFICES ASSUME i > 1 PROVE strumNext(uses, i - 1) = uses[i]
        OBVIOUS
      <3>2. i \in 2..N /\ uses[i] # uses[i - 1]
        BY <1>8, <1>13, <3>1
      <3>3. QED
        BY <1>1, <3>2, FirstAhead
    <2>5. QED
      BY <1>6, <1>13, <2>3, <2>4 DEF TurnAt
  <1>14. QED
    BY <1>12, <1>13

LEMMA TurnsTaken == ChartInv => BarsTakeTurns
  <1>1. SUFFICES ASSUME ChartInv PROVE BarsTakeTurns
    OBVIOUS
  <1>2. PICK uses : uses = strumsByChord(Doc)
    OBVIOUS
  <1>3. uses \in Seq(Changes \cup {Null})
    BY <1>1, <1>2, UsesAre
  <1>4. \A i \in DOMAIN uses : uses[i] # Null => TurnAt(uses, i)
    BY <1>3, TurnsAre
  <1>5. QED
    BY <1>2, <1>4 DEF BarsTakeTurns, TurnAt

\* What a chart's text says is what the page shows and plays: every line of
\* it once and in its order, at each chord the strum pattern that the text
\* directs there (parseChordPro, strumsByChord), and of that pattern the
\* bars in turn (hear).
THEOREM ChartsAsWritten == ChartSpec => []ChartAsWritten
  <1>1. ChartInv => ChartAsWritten
    BY TypesHold, AllShow, DirectsApart, TurnsTaken DEF ChartAsWritten
  <1>2. ChartSpec => []ChartInv
    BY ChartReads
  <1>3. QED
    BY <1>1, <1>2, PTL
=============================================================================
