---------------------------- MODULE IndexProofs ----------------------------
(***************************************************************************)
(* Theorems about Index, for every set of accounts, records and subjects.  *)
(***************************************************************************)
EXTENDS Index, FiniteSetTheorems, WellFoundedInduction, TLAPS

-----------------------------------------------------------------------------
(* Tables. *)

\* Writing a row of the right type leaves a table a table.
LEMMA PutType ==
    ASSUME NEW table, NEW Keys, NEW Row, IsTable(table, Keys, Row),
           NEW u \in Keys, NEW row \in Row
    PROVE  IsTable(Put(table, u, row), Keys, Row)
  BY DEF IsTable, Put

\* Deleting rows leaves a table a table.
LEMMA DropType ==
    ASSUME NEW table, NEW Keys, NEW Row, NEW U, IsTable(table, Keys, Row)
    PROVE  IsTable(Drop(table, U), Keys, Row)
  BY DEF IsTable, Drop

\* A write that neither takes a row from s nor gives it one leaves the rows
\* pointing at s alone.
LEMMA PutElsewhere ==
    ASSUME NEW table, NEW u, NEW row, NEW s,
           row.subject # s, s \notin OldSubject(table, u)
    PROVE  /\ PointingAt(Put(table, u, row), s) = PointingAt(table, s)
           /\ \A v \in PointingAt(table, s) : Put(table, u, row)[v] = table[v]
  BY DEF PointingAt, Put, OldSubject

\* So does deleting rows that do not point at s.
LEMMA DropElsewhere ==
    ASSUME NEW table, NEW U, NEW s,
           \A u \in U \cap DOMAIN table : table[u].subject # s
    PROVE  /\ PointingAt(Drop(table, U), s) = PointingAt(table, s)
           /\ \A v \in PointingAt(table, s) : Drop(table, U)[v] = table[v]
  BY DEF PointingAt, Drop

-----------------------------------------------------------------------------
(* What the tally of a URI depends on. *)

\* Only the ratings of s count for s.
LEMMA RatingsLocal ==
    ASSUME NEW r, NEW q, NEW s,
           PointingAt(q, s) = PointingAt(r, s),
           \A v \in PointingAt(r, s) : q[v] = r[v]
    PROVE  /\ Counting(q, s) = Counting(r, s)
           /\ \A k : Votes(q, s, k) = Votes(r, s, k)
  <1>1. Counting(q, s) = Counting(r, s)
    BY DEF Counting, Newer
  <1>2. ASSUME NEW k
        PROVE  {u \in Counting(q, s) : q[u].value = k}
               = {u \in Counting(r, s) : r[u].value = k}
    BY <1>1 DEF Counting
  <1>3. QED
    BY <1>1, <1>2 DEF Votes

\* Only the sheets forking s count as its forks.
LEMMA ForksLocal ==
    ASSUME NEW t, NEW t2, NEW h, NEW h2, NEW s,
           \A u : (u \in DOMAIN t /\ t[u].forkOf = s)
                  <=> (u \in DOMAIN t2 /\ t2[u].forkOf = s),
           \A u \in DOMAIN t : t[u].forkOf = s =>
                  /\ t2[u].draft = t[u].draft
                  /\ Owner(u) \in h2 <=> Owner(u) \in h
    PROVE  CountedForks(t2, h2, s) = CountedForks(t, h, s)
  BY DEF CountedForks

\* A tally is a row of sheet_stats.
LEMMA TallyType ==
    ASSUME NEW t, NEW r, NEW f, NEW h, NEW s,
           DOMAIN t \subseteq Sheet, DOMAIN r \subseteq Rating,
           DOMAIN f \subseteq Favorite
    PROVE  TallyOf(t, r, f, h, s) \in StatsRow
  <1>1. IsFiniteSet(Sheet) /\ IsFiniteSet(Rating) /\ IsFiniteSet(Did)
    BY SetsAssumption
  <1>2. Cardinality(Counting(r, s)) \in Nat
    <2>1. Counting(r, s) \subseteq Rating
      BY DEF Counting, PointingAt
    <2>2. QED
      BY <1>1, <2>1, FS_Subset, FS_CardinalityType
  <1>3. \A k : Votes(r, s, k) \in Nat
    <2> TAKE k
    <2>1. {u \in Counting(r, s) : r[u].value = k} \subseteq Rating
      BY DEF Counting, PointingAt
    <2>2. QED
      BY <1>1, <2>1, FS_Subset, FS_CardinalityType DEF Votes
  <1>4. Cardinality(Fans(f, s)) \in Nat
    <2>1. Fans(f, s) \subseteq Did
      BY UriAssumption DEF Fans, PointingAt, Owner
    <2>2. QED
      BY <1>1, <2>1, FS_Subset, FS_CardinalityType
  <1>5. Cardinality(CountedForks(t, h, s)) \in Nat
    <2>1. CountedForks(t, h, s) \subseteq Sheet
      BY DEF CountedForks
    <2>2. QED
      BY <1>1, <2>1, FS_Subset, FS_CardinalityType
  <1>6. QED
    BY <1>2, <1>3, <1>4, <1>5 DEF TallyOf, StatsRow

\* A rating table that differs only off s, with the other tables unchanged,
\* leaves the tally of s unchanged; likewise the other tables.
LEMMA TallyLocal ==
    ASSUME NEW t, NEW r, NEW f, NEW h, NEW t2, NEW r2, NEW f2, NEW h2, NEW s,
           Counting(r2, s) = Counting(r, s),
           \A k : Votes(r2, s, k) = Votes(r, s, k),
           Fans(f2, s) = Fans(f, s),
           CountedForks(t2, h2, s) = CountedForks(t, h, s)
    PROVE  TallyOf(t2, r2, f2, h2, s) = TallyOf(t, r, f, h, s)
  BY DEF TallyOf

\* A tally of no ratings sums to 0, so dropping the row of a URI with no
\* ratings, favorites and forks loses nothing.
LEMMA NoRatingsNoTotal ==
    ASSUME NEW t, NEW r, NEW f, NEW h, NEW s, DOMAIN r \subseteq Rating,
           TallyOf(t, r, f, h, s).ratings = 0
    PROVE  TallyOf(t, r, f, h, s).total = 0
  <1>1. IsFiniteSet(Counting(r, s))
    <2>1. Counting(r, s) \subseteq Rating
      BY DEF Counting, PointingAt
    <2>2. QED
      BY <2>1, SetsAssumption, FS_Subset
  <1>2. Counting(r, s) = {}
    BY <1>1, FS_EmptySet DEF TallyOf
  <1>3. \A k : Votes(r, s, k) = 0
    <2> TAKE k
    <2>1. {u \in Counting(r, s) : r[u].value = k} = {}
      BY <1>2
    <2>2. QED
      BY <2>1, FS_EmptySet DEF Votes
  <1>4. QED
    BY <1>3 DEF TallyOf

-----------------------------------------------------------------------------
(* Type correctness. *)

\* The URIs a transaction recounts are subjects, or the empty fork_of_uri.
LEMMA SubjectsType ==
    ASSUME TypeOK
    PROVE  /\ \A u : OldFork(u) \subseteq Subject \cup {NoFork}
           /\ \A u : OldSubject(ratings, u) \subseteq Subject
           /\ \A u : OldSubject(favorites, u) \subseteq Subject
           /\ \A d : AccountSubjects(d) \subseteq Subject
  <1>1. \A u : OldFork(u) \subseteq Subject \cup {NoFork}
    BY DEF TypeOK, IsTable, OldFork, SheetRow
  <1>2. /\ \A u : OldSubject(ratings, u) \subseteq Subject
        /\ \A u : OldSubject(favorites, u) \subseteq Subject
    BY DEF TypeOK, IsTable, OldSubject, RatingRow, FavoriteRow
  <1>3. \A d : AccountSubjects(d) \subseteq Subject
    BY DEF TypeOK, IsTable, AccountSubjects, RowsOf, RatingRow, FavoriteRow, SheetRow
  <1>4. QED
    BY <1>1, <1>2, <1>3

\* recomputeAll keeps sheet_stats a table of counts.
LEMMA RecomputeType ==
    ASSUME IsTable(stats, Subject, StatsRow),
           NEW S \in SUBSET (Subject \cup {NoFork}),
           DOMAIN sheets' \subseteq Sheet, DOMAIN ratings' \subseteq Rating,
           DOMAIN favorites' \subseteq Favorite,
           RecomputeAll(S)
    PROVE  IsTable(stats', Subject, StatsRow)
  <1>1. \A s : TallyOf(sheets', ratings', favorites', HiddenIn(profiles'), s)
               \in StatsRow
    BY TallyType
  <1>2. QED
    BY <1>1 DEF RecomputeAll, IsTable

\* EnsureProfile and UpsertProfile keep the profiles a table.
LEMMA WithProfileType ==
    ASSUME IsTable(profiles, Did, BOOLEAN), NEW d \in Did
    PROVE  /\ IsTable(WithProfile(d), Did, BOOLEAN)
           /\ DOMAIN WithProfile(d) = DOMAIN profiles \cup {d}
           /\ HiddenIn(WithProfile(d)) = HiddenIn(profiles)
  <1>1. IsTable(WithProfile(d), Did, BOOLEAN)
    BY PutType DEF WithProfile
  <1>2. DOMAIN WithProfile(d) = DOMAIN profiles \cup {d}
    BY DEF WithProfile, Put
  <1>3. HiddenIn(WithProfile(d)) = HiddenIn(profiles)
    BY DEF WithProfile, Put, HiddenIn
  <1>4. QED
    BY <1>1, <1>2, <1>3

\* The owner of a URI is an account (at://did/...).
LEMMA OwnerType ==
    /\ \A u \in Sheet : Owner(u) \in Did
    /\ \A u \in Rating : Owner(u) \in Did
    /\ \A u \in Favorite : Owner(u) \in Did
  BY UriAssumption DEF Owner

\* Every transaction leaves every table a table of rows of its type.
LEMMA TypeStep ==
    ASSUME TypeOK, [Next]_vars
    PROVE  TypeOK'
  <1> USE DEF TypeOK, previews, records
  <1>1. ASSUME NEW u \in Sheet, NEW row \in SheetRow, UpsertSheet(u, row)
        PROVE  TypeOK'
    <2>1. IsTable(sheets', Sheet, SheetRow)
      BY <1>1, PutType DEF UpsertSheet
    <2>2. IsTable(profiles', Did, BOOLEAN)
      BY <1>1, OwnerType, WithProfileType DEF UpsertSheet
    <2>3. OldFork(u) \cup {row.forkOf} \in SUBSET (Subject \cup {NoFork})
      BY SubjectsType DEF SheetRow
    <2>4. IsTable(stats', Subject, StatsRow)
      BY <1>1, <2>1, <2>3, RecomputeType DEF UpsertSheet, IsTable
    <2>5. QED
      BY <1>1, <2>1, <2>2, <2>4 DEF UpsertSheet
  <1>2. ASSUME NEW u \in Sheet, DeleteSheet(u)
        PROVE  TypeOK'
    <2>1. IsTable(sheets', Sheet, SheetRow)
      BY <1>2, DropType DEF DeleteSheet
    <2>2. OldFork(u) \in SUBSET (Subject \cup {NoFork})
      BY SubjectsType
    <2>3. IsTable(stats', Subject, StatsRow)
      BY <1>2, <2>1, <2>2, RecomputeType DEF DeleteSheet, IsTable
    <2>4. QED
      BY <1>2, <2>1, <2>3 DEF DeleteSheet
  <1>3. ASSUME NEW u \in Rating, NEW row \in RatingRow, UpsertRating(u, row)
        PROVE  TypeOK'
    <2>1. IsTable(ratings', Rating, RatingRow)
      BY <1>3, PutType DEF UpsertRating
    <2>2. OldSubject(ratings, u) \cup {row.subject} \in SUBSET (Subject \cup {NoFork})
      BY SubjectsType DEF RatingRow
    <2>3. IsTable(stats', Subject, StatsRow)
      BY <1>3, <2>1, <2>2, RecomputeType DEF UpsertRating, IsTable
    <2>4. QED
      BY <1>3, <2>1, <2>3 DEF UpsertRating
  <1>4. ASSUME NEW u \in Rating, DeleteRating(u)
        PROVE  TypeOK'
    <2>1. IsTable(ratings', Rating, RatingRow)
      BY <1>4, DropType DEF DeleteRating
    <2>2. OldSubject(ratings, u) \in SUBSET (Subject \cup {NoFork})
      BY SubjectsType
    <2>3. IsTable(stats', Subject, StatsRow)
      BY <1>4, <2>1, <2>2, RecomputeType DEF DeleteRating, IsTable
    <2>4. QED
      BY <1>4, <2>1, <2>3 DEF DeleteRating
  <1>5. ASSUME NEW u \in Favorite, NEW row \in FavoriteRow, UpsertFavorite(u, row)
        PROVE  TypeOK'
    <2>1. IsTable(favorites', Favorite, FavoriteRow)
      BY <1>5, PutType DEF UpsertFavorite
    <2>2. OldSubject(favorites, u) \cup {row.subject} \in SUBSET (Subject \cup {NoFork})
      BY SubjectsType DEF FavoriteRow
    <2>3. IsTable(stats', Subject, StatsRow)
      BY <1>5, <2>1, <2>2, RecomputeType DEF UpsertFavorite, IsTable
    <2>4. QED
      BY <1>5, <2>1, <2>3 DEF UpsertFavorite
  <1>6. ASSUME NEW u \in Favorite, DeleteFavorite(u)
        PROVE  TypeOK'
    <2>1. IsTable(favorites', Favorite, FavoriteRow)
      BY <1>6, DropType DEF DeleteFavorite
    <2>2. OldSubject(favorites, u) \in SUBSET (Subject \cup {NoFork})
      BY SubjectsType
    <2>3. IsTable(stats', Subject, StatsRow)
      BY <1>6, <2>1, <2>2, RecomputeType DEF DeleteFavorite, IsTable
    <2>4. QED
      BY <1>6, <2>1, <2>3 DEF DeleteFavorite
  <1>7. ASSUME NEW d \in Did, UpsertProfile(d)
        PROVE  TypeOK'
    BY <1>7, WithProfileType DEF UpsertProfile
  <1>8. ASSUME NEW d \in Did, NEW hidden \in BOOLEAN, SetHidden(d, hidden)
        PROVE  TypeOK'
    <2>1. IsTable(profiles', Did, BOOLEAN)
      BY <1>8 DEF SetHidden, IsTable
    <2>2. AccountSubjects(d) \in SUBSET (Subject \cup {NoFork})
      BY SubjectsType
    <2>3. IsTable(stats', Subject, StatsRow)
      BY <1>8, <2>2, RecomputeType DEF SetHidden, IsTable
    <2>4. QED
      BY <1>8, <2>1, <2>3 DEF SetHidden
  <1>9. ASSUME NEW d \in Did, PurgeAccount(d)
        PROVE  TypeOK'
    <2>1. /\ IsTable(sheets', Sheet, SheetRow)
          /\ IsTable(ratings', Rating, RatingRow)
          /\ IsTable(favorites', Favorite, FavoriteRow)
          /\ IsTable(profiles', Did, BOOLEAN)
      BY <1>9, DropType DEF PurgeAccount
    <2>2. AccountSubjects(d) \in SUBSET (Subject \cup {NoFork})
      BY SubjectsType
    <2>3. IsTable(stats', Subject, StatsRow)
      BY <1>9, <2>1, <2>2, RecomputeType DEF PurgeAccount, IsTable
    <2>4. QED
      BY <1>9, <2>1, <2>3 DEF PurgeAccount
  <1>10. ASSUME NEW u \in Sheet, DrawCard(u) \/ PutOGCard(u)
         PROVE  TypeOK'
    BY <1>10 DEF DrawCard, PutOGCard
  <1>11. CASE CleanOGCards
    BY <1>11 DEF CleanOGCards
  <1>12. CASE CleanSheetStats
    BY <1>12, DropType DEF CleanSheetStats
  <1>13. CASE UNCHANGED vars
    BY <1>13 DEF vars
  <1>14. QED
    BY <1>1, <1>2, <1>3, <1>4, <1>5, <1>6, <1>7, <1>8, <1>9, <1>10, <1>11, <1>12, <1>13
       DEF Next

\* The tables only ever hold rows of their types, under the URIs of their
\* collections (every operation of pkg/store).
THEOREM TypeCorrect == Spec => []TypeOK
  <1>1. Init => TypeOK
    BY DEF Init, TypeOK, IsTable, Empty
  <1>2. TypeOK /\ [Next]_vars => TypeOK'
    BY TypeStep
  <1>3. QED
    BY <1>1, <1>2, PTL DEF Spec

-----------------------------------------------------------------------------
(* Freshness: the stored counts are a recount.                             *)

Fresh(s) == Stat(s) = TallyOf(sheets, ratings, favorites, HiddenIn(profiles), s)
SameTally(s) ==
    TallyOf(sheets', ratings', favorites', HiddenIn(profiles'), s)
        = TallyOf(sheets, ratings, favorites, HiddenIn(profiles), s)

\* A transaction that recounts S keeps every count fresh if the URIs outside
\* S tally as before.
LEMMA RecomputeFresh ==
    ASSUME TypeOK, StatsFresh, NEW S, RecomputeAll(S),
           \A s \in Subject \ S : SameTally(s)
    PROVE  StatsFresh'
  <1> SUFFICES ASSUME NEW s \in Subject PROVE Fresh(s)'
    BY DEF StatsFresh, Fresh
  <1>1. s # NoFork
    BY SubjectAssumption
  <1>2. CASE s \in S
    BY <1>1, <1>2 DEF RecomputeAll, Fresh, Stat
  <1>3. CASE s \notin S
    <2>1. Stat(s)' = Stat(s)
      BY <1>3 DEF RecomputeAll, Stat
    <2>2. QED
      BY <1>3, <2>1 DEF StatsFresh, Fresh, SameTally
  <1>4. QED
    BY <1>2, <1>3

\* Rewriting or deleting a sheet changes the fork count of no URI but the
\* ones it forked and forks.
LEMMA PutSheetLocal ==
    ASSUME NEW u, NEW row, NEW h, NEW s, s \notin OldFork(u), row.forkOf # s
    PROVE  CountedForks(Put(sheets, u, row), h, s) = CountedForks(sheets, h, s)
  BY DEF CountedForks, Put, OldFork

\* Nor does deleting sheets that do not fork it.
LEMMA DropSheetsLocal ==
    ASSUME NEW U, NEW h, NEW h2, NEW s,
           \A u \in U \cap DOMAIN sheets : sheets[u].forkOf # s,
           \A u \in DOMAIN sheets : sheets[u].forkOf = s =>
                (Owner(u) \in h2 <=> Owner(u) \in h)
    PROVE  CountedForks(Drop(sheets, U), h2, s) = CountedForks(sheets, h, s)
  BY DEF CountedForks, Drop

\* A tally is unchanged when what points at the URI is.
LEMMA TallyUnchanged ==
    ASSUME NEW s,
           PointingAt(ratings', s) = PointingAt(ratings, s),
           \A v \in PointingAt(ratings, s) : ratings'[v] = ratings[v],
           PointingAt(favorites', s) = PointingAt(favorites, s),
           CountedForks(sheets', HiddenIn(profiles'), s)
               = CountedForks(sheets, HiddenIn(profiles), s)
    PROVE  SameTally(s)
  <1>1. /\ Counting(ratings', s) = Counting(ratings, s)
        /\ \A k : Votes(ratings', s, k) = Votes(ratings, s, k)
    BY RatingsLocal
  <1>2. Fans(favorites', s) = Fans(favorites, s)
    BY DEF Fans
  <1>3. QED
    BY <1>1, <1>2 DEF SameTally, TallyOf

\* AccountSubjects covers whatever an account's rows feed into.
LEMMA AccountSubjectsCover ==
    ASSUME NEW d, NEW s \in Subject, s \notin AccountSubjects(d)
    PROVE  /\ \A u \in RowsOf(ratings, d) : ratings[u].subject # s
           /\ \A u \in RowsOf(favorites, d) : favorites[u].subject # s
           /\ \A u \in RowsOf(sheets, d) : sheets[u].forkOf # s
  BY SubjectAssumption DEF AccountSubjects

\* Every transaction recounts at least the URIs whose tally it changes, so
\* fresh counts stay fresh.
LEMMA FreshStep ==
    ASSUME TypeOK, StatsFresh, [Next]_vars
    PROVE  StatsFresh'
  <1> USE DEF previews, records
  <1>1. ASSUME NEW u \in Sheet, NEW row \in SheetRow, UpsertSheet(u, row)
        PROVE  StatsFresh'
    <2>1. HiddenIn(profiles') = HiddenIn(profiles)
      BY <1>1, OwnerType, WithProfileType DEF UpsertSheet, TypeOK
    <2>2. \A s \in Subject \ (OldFork(u) \cup {row.forkOf}) : SameTally(s)
      BY <1>1, <2>1, PutSheetLocal DEF UpsertSheet, SameTally, TallyOf
    <2>3. QED
      BY <1>1, <2>2, RecomputeFresh DEF UpsertSheet
  <1>2. ASSUME NEW u \in Sheet, DeleteSheet(u)
        PROVE  StatsFresh'
    <2>1. \A s \in Subject \ OldFork(u) : SameTally(s)
      <3> TAKE s \in Subject \ OldFork(u)
      <3>1. CountedForks(sheets', HiddenIn(profiles), s)
            = CountedForks(sheets, HiddenIn(profiles), s)
        BY <1>2, DropSheetsLocal DEF DeleteSheet, OldFork
      <3>2. QED
        BY <1>2, <3>1 DEF DeleteSheet, SameTally, TallyOf
    <2>2. QED
      BY <1>2, <2>1, RecomputeFresh DEF DeleteSheet
  <1>3. ASSUME NEW u \in Rating, NEW row \in RatingRow, UpsertRating(u, row)
        PROVE  StatsFresh'
    <2>1. ASSUME NEW s \in Subject \ (OldSubject(ratings, u) \cup {row.subject})
          PROVE  SameTally(s)
      <3>1. /\ PointingAt(ratings', s) = PointingAt(ratings, s)
            /\ \A v \in PointingAt(ratings, s) : ratings'[v] = ratings[v]
        BY <1>3, PutElsewhere DEF UpsertRating
      <3>2. QED
        BY <1>3, <3>1, TallyUnchanged DEF UpsertRating
    <2>2. QED
      BY <1>3, <2>1, RecomputeFresh DEF UpsertRating
  <1>4. ASSUME NEW u \in Rating, DeleteRating(u)
        PROVE  StatsFresh'
    <2>1. ASSUME NEW s \in Subject \ OldSubject(ratings, u)
          PROVE  SameTally(s)
      <3>1. /\ PointingAt(ratings', s) = PointingAt(ratings, s)
            /\ \A v \in PointingAt(ratings, s) : ratings'[v] = ratings[v]
        <4>1. \A v \in {u} \cap DOMAIN ratings : ratings[v].subject # s
          BY DEF OldSubject
        <4>2. QED
          BY <1>4, <4>1, DropElsewhere DEF DeleteRating
      <3>2. QED
        BY <1>4, <3>1, TallyUnchanged DEF DeleteRating
    <2>2. QED
      BY <1>4, <2>1, RecomputeFresh DEF DeleteRating
  <1>5. ASSUME NEW u \in Favorite, NEW row \in FavoriteRow, UpsertFavorite(u, row)
        PROVE  StatsFresh'
    <2>1. ASSUME NEW s \in Subject \ (OldSubject(favorites, u) \cup {row.subject})
          PROVE  SameTally(s)
      <3>1. PointingAt(favorites', s) = PointingAt(favorites, s)
        BY <1>5, PutElsewhere DEF UpsertFavorite
      <3>2. QED
        BY <1>5, <3>1, TallyUnchanged DEF UpsertFavorite
    <2>2. QED
      BY <1>5, <2>1, RecomputeFresh DEF UpsertFavorite
  <1>6. ASSUME NEW u \in Favorite, DeleteFavorite(u)
        PROVE  StatsFresh'
    <2>1. ASSUME NEW s \in Subject \ OldSubject(favorites, u)
          PROVE  SameTally(s)
      <3>1. PointingAt(favorites', s) = PointingAt(favorites, s)
        <4>1. \A v \in {u} \cap DOMAIN favorites : favorites[v].subject # s
          BY DEF OldSubject
        <4>2. QED
          BY <1>6, <4>1, DropElsewhere DEF DeleteFavorite
      <3>2. QED
        BY <1>6, <3>1, TallyUnchanged DEF DeleteFavorite
    <2>2. QED
      BY <1>6, <2>1, RecomputeFresh DEF DeleteFavorite
  <1>7. ASSUME NEW d \in Did, UpsertProfile(d)
        PROVE  StatsFresh'
    <2>1. HiddenIn(profiles') = HiddenIn(profiles)
      BY <1>7, WithProfileType DEF UpsertProfile, TypeOK
    <2>2. QED
      BY <1>7, <2>1 DEF UpsertProfile, StatsFresh, Stat
  <1>8. ASSUME NEW d \in Did, NEW hidden \in BOOLEAN, SetHidden(d, hidden)
        PROVE  StatsFresh'
    <2>1. \A e : e # d => (e \in HiddenIn(profiles') <=> e \in HiddenIn(profiles))
      BY <1>8 DEF SetHidden, HiddenIn
    <2>2. ASSUME NEW s \in Subject \ AccountSubjects(d)
          PROVE  SameTally(s)
      <3>1. \A u \in DOMAIN sheets : sheets[u].forkOf = s => Owner(u) # d
        BY AccountSubjectsCover DEF RowsOf
      <3>2. CountedForks(sheets, HiddenIn(profiles'), s)
            = CountedForks(sheets, HiddenIn(profiles), s)
        BY <2>1, <3>1 DEF CountedForks
      <3>3. QED
        BY <1>8, <3>2 DEF SetHidden, SameTally, TallyOf
    <2>3. QED
      BY <1>8, <2>2, RecomputeFresh DEF SetHidden
  <1>9. ASSUME NEW d \in Did, PurgeAccount(d)
        PROVE  StatsFresh'
    <2>1. \A e : e # d => (e \in HiddenIn(profiles') <=> e \in HiddenIn(profiles))
      BY <1>9 DEF PurgeAccount, HiddenIn, Drop
    <2>2. ASSUME NEW s \in Subject \ AccountSubjects(d)
          PROVE  SameTally(s)
      <3>1. \A u \in DOMAIN sheets : sheets[u].forkOf = s => Owner(u) # d
        BY AccountSubjectsCover DEF RowsOf
      <3>2. CountedForks(sheets', HiddenIn(profiles'), s)
            = CountedForks(sheets, HiddenIn(profiles), s)
        <4>1. \A u \in RowsOf(sheets, d) \cap DOMAIN sheets : sheets[u].forkOf # s
          BY AccountSubjectsCover
        <4>2. \A u \in DOMAIN sheets : sheets[u].forkOf = s =>
                 (Owner(u) \in HiddenIn(profiles') <=> Owner(u) \in HiddenIn(profiles))
          BY <2>1, <3>1
        <4>3. sheets' = Drop(sheets, RowsOf(sheets, d))
          BY <1>9 DEF PurgeAccount
        <4>4. QED
          BY <4>1, <4>2, <4>3, DropSheetsLocal
      <3>3. /\ PointingAt(ratings', s) = PointingAt(ratings, s)
            /\ \A v \in PointingAt(ratings, s) : ratings'[v] = ratings[v]
        BY <1>9, AccountSubjectsCover, DropElsewhere DEF PurgeAccount
      <3>4. PointingAt(favorites', s) = PointingAt(favorites, s)
        BY <1>9, AccountSubjectsCover, DropElsewhere DEF PurgeAccount
      <3>5. QED
        BY <3>2, <3>3, <3>4, TallyUnchanged
    <2>3. QED
      BY <1>9, <2>2, RecomputeFresh DEF PurgeAccount
  <1>10. ASSUME NEW u \in Sheet, DrawCard(u) \/ PutOGCard(u)
         PROVE  StatsFresh'
    BY <1>10 DEF DrawCard, PutOGCard, StatsFresh, Stat
  <1>11. CASE CleanOGCards
    BY <1>11 DEF CleanOGCards, StatsFresh, Stat
  <1>12. CASE CleanSheetStats
    <2>1. ASSUME NEW s \in Subject
          PROVE  Stat(s)' = Stat(s)
      <3>1. CASE s \in DOMAIN stats \ DOMAIN stats'
        <4>1. /\ stats[s].ratings = 0 /\ stats[s].favorites = 0
              /\ stats[s].forks = 0
          BY <1>12, <3>1 DEF CleanSheetStats, Drop
        <4>2. Stat(s).ratings = 0 => Stat(s).total = 0
          <5>1. DOMAIN ratings \subseteq Rating
            BY DEF TypeOK, IsTable
          <5>2. Stat(s) = TallyOf(sheets, ratings, favorites, HiddenIn(profiles), s)
            BY DEF StatsFresh
          <5>3. QED
            BY <5>1, <5>2, NoRatingsNoTotal
        <4>3. QED
          BY <3>1, <4>1, <4>2 DEF Stat, NoStats, TypeOK, IsTable, StatsRow
      <3>2. CASE s \notin DOMAIN stats \ DOMAIN stats'
        BY <1>12, <3>2 DEF CleanSheetStats, Drop, Stat
      <3>3. QED
        BY <3>1, <3>2
    <2>2. QED
      BY <1>12, <2>1 DEF CleanSheetStats, StatsFresh
  <1>13. CASE UNCHANGED vars
    BY <1>13 DEF vars, StatsFresh, Stat
  <1>14. QED
    BY <1>1, <1>2, <1>3, <1>4, <1>5, <1>6, <1>7, <1>8, <1>9, <1>10, <1>11, <1>12, <1>13
       DEF Next

\* An empty index has no counts to be wrong about.
LEMMA FreshInit == Init => StatsFresh
  <1> SUFFICES ASSUME Init, NEW s \in Subject
               PROVE  Fresh(s)
    BY DEF StatsFresh, Fresh
  <1>1. /\ PointingAt(ratings, s) = {} /\ Fans(favorites, s) = {}
        /\ CountedForks(sheets, HiddenIn(profiles), s) = {}
    BY DEF Init, Empty, PointingAt, Fans, CountedForks
  <1>2. Counting(ratings, s) = {}
    BY <1>1 DEF Counting
  <1>3. \A k : {u \in Counting(ratings, s) : ratings[u].value = k} = {}
    BY <1>2
  <1>4. TallyOf(sheets, ratings, favorites, HiddenIn(profiles), s) = NoStats
    BY <1>1, <1>2, <1>3, FS_EmptySet DEF TallyOf, Votes, NoStats
  <1>5. Stat(s) = NoStats
    BY DEF Init, Empty, Stat
  <1>6. QED
    BY <1>4, <1>5 DEF Fresh

\* However records come, move and go, accounts hide and vanish and cleanups
\* run, the counts stored for a URI are a recount of the tables
\* (recomputeAll in every transaction that can change one).
THEOREM StatsAreFresh == Spec => []StatsFresh
  <1>1. Init => TypeOK /\ StatsFresh
    BY FreshInit DEF Init, TypeOK, IsTable, Empty
  <1>2. TypeOK /\ StatsFresh /\ [Next]_vars => TypeOK' /\ StatsFresh'
    BY TypeStep, FreshStep
  <1>3. QED
    BY <1>1, <1>2, PTL DEF Spec

-----------------------------------------------------------------------------
(* Authors. *)

\* No transaction leaves a sheet without its author's profile row.
LEMMA AuthorsStep ==
    ASSUME TypeOK, AuthorsKnown, [Next]_vars
    PROVE  AuthorsKnown'
  <1> USE DEF AuthorsKnown, previews, records
  <1>1. ASSUME NEW u \in Sheet, NEW row \in SheetRow, UpsertSheet(u, row)
        PROVE  AuthorsKnown'
    <2>1. DOMAIN profiles' = DOMAIN profiles \cup {Owner(u)}
      BY <1>1, OwnerType, WithProfileType DEF UpsertSheet, TypeOK
    <2>2. DOMAIN sheets' = DOMAIN sheets \cup {u}
      BY <1>1 DEF UpsertSheet, Put
    <2>3. QED
      BY <2>1, <2>2
  <1>2. ASSUME NEW u \in Sheet, DeleteSheet(u)
        PROVE  AuthorsKnown'
    BY <1>2 DEF DeleteSheet, Drop
  <1>3. ASSUME NEW d \in Did, UpsertProfile(d)
        PROVE  AuthorsKnown'
    BY <1>3, WithProfileType DEF UpsertProfile, TypeOK
  <1>4. ASSUME NEW d \in Did, NEW hidden \in BOOLEAN, SetHidden(d, hidden)
        PROVE  AuthorsKnown'
    BY <1>4 DEF SetHidden
  <1>5. ASSUME NEW d \in Did, PurgeAccount(d)
        PROVE  AuthorsKnown'
    BY <1>5 DEF PurgeAccount, Drop, RowsOf
  <1>6. CASE UNCHANGED <<sheets, profiles>>
    BY <1>6
  <1>7. QED
    <2>1. CASE \E u \in Rating : \/ DeleteRating(u)
                                 \/ \E row \in RatingRow : UpsertRating(u, row)
      BY <1>6, <2>1 DEF DeleteRating, UpsertRating
    <2>2. CASE \E u \in Favorite : \/ DeleteFavorite(u)
                                   \/ \E row \in FavoriteRow : UpsertFavorite(u, row)
      BY <1>6, <2>2 DEF DeleteFavorite, UpsertFavorite
    <2>3. CASE \/ \E u \in Sheet : DrawCard(u) \/ PutOGCard(u)
               \/ CleanOGCards \/ CleanSheetStats \/ UNCHANGED vars
      BY <1>6, <2>3 DEF DrawCard, PutOGCard, CleanOGCards, CleanSheetStats, vars
    <2>4. QED
      BY <1>1, <1>2, <1>3, <1>4, <1>5, <2>1, <2>2, <2>3 DEF Next

\* A sheet is never indexed without its author's profile row (EnsureProfile
\* in UpsertSheet; PurgeAccount drops both).
THEOREM AuthorsAreKnown == Spec => []AuthorsKnown
  <1>1. Init => TypeOK /\ AuthorsKnown
    BY DEF Init, TypeOK, IsTable, Empty, AuthorsKnown
  <1>2. TypeOK /\ AuthorsKnown /\ [Next]_vars => TypeOK' /\ AuthorsKnown'
    BY TypeStep, AuthorsStep
  <1>3. QED
    BY <1>1, <1>2, PTL DEF Spec

\* What one SetHidden(d, TRUE) does to the lists and the fork counts.
LEMMA HideStep ==
    ASSUME TypeOK, StatsFresh, AuthorsKnown, [Next]_vars,
           NEW d \in Did, SetHidden(d, TRUE)
    PROVE  /\ \A u \in Listed(sheets', HiddenIn(profiles')) : Owner(u) # d
           /\ \A s \in Subject :
                Stat(s)'.forks = Cardinality(
                    {u \in Listed(sheets, HiddenIn(profiles)) :
                        sheets[u].forkOf = s /\ Owner(u) # d})
  <1>1. /\ sheets' = sheets
        /\ DOMAIN profiles' = DOMAIN profiles
        /\ \A e \in DOMAIN profiles : e # d => profiles'[e] = profiles[e]
        /\ d \in DOMAIN profiles => profiles'[d] = TRUE
    BY DEF SetHidden
  <1>2. \A u \in DOMAIN sheets : Owner(u) \in HiddenIn(profiles')
            <=> Owner(u) = d \/ Owner(u) \in HiddenIn(profiles)
    BY <1>1 DEF AuthorsKnown, HiddenIn
  <1>3. \A u \in Listed(sheets', HiddenIn(profiles')) : Owner(u) # d
    BY <1>1, <1>2 DEF Listed
  <1>4. ASSUME NEW s \in Subject
        PROVE  Stat(s)'.forks = Cardinality(
                    {u \in Listed(sheets, HiddenIn(profiles)) :
                        sheets[u].forkOf = s /\ Owner(u) # d})
    <2>1. CountedForks(sheets', HiddenIn(profiles'), s)
          = {u \in Listed(sheets, HiddenIn(profiles)) :
                sheets[u].forkOf = s /\ Owner(u) # d}
      BY <1>1, <1>2 DEF CountedForks, Listed
    <2>2. Stat(s)' = TallyOf(sheets', ratings', favorites', HiddenIn(profiles'), s)
      BY FreshStep DEF StatsFresh
    <2>3. QED
      BY <2>1, <2>2 DEF TallyOf
  <1>5. QED
    BY <1>3, <1>4

\* Hiding an account unlists its sheets and uncounts its forks in the same
\* step, whenever it comes (SetHidden).
THEOREM HidingTakesEffect == Spec => HideTakesEffect
  <1>1. TypeOK /\ StatsFresh /\ AuthorsKnown /\ [Next]_vars
        => [\A d \in Did : SetHidden(d, TRUE) =>
              /\ \A u \in Listed(sheets', HiddenIn(profiles')) : Owner(u) # d
              /\ \A s \in Subject :
                    Stat(s)'.forks = Cardinality(
                        {u \in Listed(sheets, HiddenIn(profiles)) :
                            sheets[u].forkOf = s /\ Owner(u) # d})]_vars
    BY HideStep
  <1>2. QED
    BY <1>1, TypeCorrect, StatsAreFresh, AuthorsAreKnown, PTL
       DEF Spec, HideTakesEffect

\* Writing a row over itself.
LEMMA PutSame ==
    ASSUME NEW table, NEW Keys, NEW Row, IsTable(table, Keys, Row),
           NEW u \in DOMAIN table
    PROVE  Put(table, u, table[u]) = table
  BY DEF Put, IsTable

\* While the counts are fresh, a transaction that leaves the tables as they
\* were shows the same counts.
LEMMA SameRecordsSameCounts ==
    ASSUME StatsFresh, StatsFresh', UNCHANGED records
    PROVE  [s \in Subject |-> Stat(s)]' = [s \in Subject |-> Stat(s)]
  <1>1. \A s \in Subject : Stat(s)' = Stat(s)
    BY DEF StatsFresh, records
  <1>2. QED
    BY <1>1

\* One upsert of a row that is already there, of each collection.
LEMMA ReplayStep ==
    ASSUME TypeOK, StatsFresh, AuthorsKnown, [Next]_vars
    PROVE  /\ \A u \in DOMAIN sheets :
                UpsertSheet(u, sheets[u]) => Shown' = Shown
           /\ \A u \in DOMAIN ratings :
                UpsertRating(u, ratings[u]) => Shown' = Shown
           /\ \A u \in DOMAIN favorites :
                UpsertFavorite(u, favorites[u]) => Shown' = Shown
  <1>0. StatsFresh'
    BY FreshStep
  <1>1. ASSUME NEW u \in DOMAIN sheets, UpsertSheet(u, sheets[u])
        PROVE  Shown' = Shown
    <2>1. sheets' = sheets
      BY <1>1, PutSame DEF UpsertSheet, TypeOK
    <2>2. profiles' = profiles
      BY <1>1 DEF UpsertSheet, AuthorsKnown, WithProfile
    <2>3. UNCHANGED records /\ UNCHANGED previews
      BY <1>1, <2>1, <2>2 DEF UpsertSheet, records, previews
    <2>4. QED
      BY <1>0, <2>3, SameRecordsSameCounts DEF Shown
  <1>2. ASSUME NEW u \in DOMAIN ratings, UpsertRating(u, ratings[u])
        PROVE  Shown' = Shown
    <2>1. ratings' = ratings
      BY <1>2, PutSame DEF UpsertRating, TypeOK
    <2>2. UNCHANGED records /\ UNCHANGED previews
      BY <1>2, <2>1 DEF UpsertRating, records, previews
    <2>3. QED
      BY <1>0, <2>2, SameRecordsSameCounts DEF Shown
  <1>3. ASSUME NEW u \in DOMAIN favorites, UpsertFavorite(u, favorites[u])
        PROVE  Shown' = Shown
    <2>1. favorites' = favorites
      BY <1>3, PutSame DEF UpsertFavorite, TypeOK
    <2>2. UNCHANGED records /\ UNCHANGED previews
      BY <1>3, <2>1 DEF UpsertFavorite, records, previews
    <2>3. QED
      BY <1>0, <2>2, SameRecordsSameCounts DEF Shown
  <1>4. QED
    BY <1>1, <1>2, <1>3

\* Upserting what is already indexed is invisible, at any point of any
\* history (the ON CONFLICT upserts and the recount after them).
THEOREM ReplaysAreNoOps == Spec => ReplayIsNoOp
  <1>1. TypeOK /\ StatsFresh /\ AuthorsKnown /\ [Next]_vars
        => [/\ \A u \in DOMAIN sheets :
                 UpsertSheet(u, sheets[u]) => Shown' = Shown
            /\ \A u \in DOMAIN ratings :
                 UpsertRating(u, ratings[u]) => Shown' = Shown
            /\ \A u \in DOMAIN favorites :
                 UpsertFavorite(u, favorites[u]) => Shown' = Shown]_vars
    BY ReplayStep
  <1>2. QED
    BY <1>1, TypeCorrect, StatsAreFresh, AuthorsAreKnown, PTL
       DEF Spec, ReplayIsNoOp

-----------------------------------------------------------------------------
(* Refinement: Index implements Library. *)

\* The instance of Library counts with its own copies of Tally's operators:
\* they are the same.
LEMMA LibTables ==
    /\ Lib!Empty = Empty /\ Lib!NoStats = NoStats
    /\ Lib!SheetRow = SheetRow /\ Lib!RatingRow = RatingRow
    /\ Lib!FavoriteRow = FavoriteRow
    /\ \A table, u, row : Lib!Put(table, u, row) = Put(table, u, row)
    /\ \A table, U : Lib!Drop(table, U) = Drop(table, U)
    /\ \A table, d : Lib!RowsOf(table, d) = RowsOf(table, d)
  BY DEF Lib!Empty, Empty, Lib!NoStats, NoStats, Lib!SheetRow, SheetRow,
         Lib!RatingRow, RatingRow, Lib!FavoriteRow, FavoriteRow, Lib!Put, Put,
         Lib!Drop, Drop, Lib!RowsOf, RowsOf, Lib!Owner, Owner

\* So is its Cardinality.
LEMMA LibCardinality == \A S : Lib!Cardinality(S) = Cardinality(S)
  BY DEF Lib!Cardinality, Cardinality, Lib!IsFiniteSet, IsFiniteSet

\* And so its tally.
LEMMA LibTally ==
    ASSUME NEW t, NEW r, NEW f, NEW h, NEW s
    PROVE  Lib!TallyOf(t, r, f, h, s) = TallyOf(t, r, f, h, s)
  <1>1. \A table : Lib!PointingAt(table, s) = PointingAt(table, s)
    BY DEF Lib!PointingAt, PointingAt
  <1>2. \A u : Lib!Owner(u) = Owner(u)
    BY DEF Lib!Owner, Owner
  <1>3. \A u, v : Lib!Newer(r, u, v) <=> Newer(r, u, v)
    BY DEF Lib!Newer, Newer, Lib!Rkey, Rkey
  <1>4. Lib!Counting(r, s) = Counting(r, s)
    BY <1>1, <1>2, <1>3 DEF Lib!Counting, Counting
  <1>5. \A k : Lib!Votes(r, s, k) = Votes(r, s, k)
    BY <1>4, LibCardinality DEF Lib!Votes, Votes
  <1>6. Lib!Fans(f, s) = Fans(f, s)
    BY <1>1, <1>2 DEF Lib!Fans, Fans
  <1>7. Lib!CountedForks(t, h, s) = CountedForks(t, h, s)
    BY <1>2 DEF Lib!CountedForks, CountedForks
  <1>8. QED
    BY <1>4, <1>5, <1>6, <1>7, LibCardinality DEF Lib!TallyOf, TallyOf

\* A transaction that ends in recomputeAll leaves the shown counts a recount,
\* which is Library's Recount.
LEMMA CountsRefine ==
    ASSUME StatsFresh'
    PROVE  Lib!Recount
  BY LibTally DEF StatsFresh, Lib!Recount

\* An empty index is an empty library.
LEMMA RefinementInit == Init => Lib!Init
  <1> SUFFICES ASSUME Init PROVE Lib!Init
    OBVIOUS
  <1>1. HiddenIn(profiles) = {}
    BY DEF Init, Empty, HiddenIn
  <1>2. \A s \in Subject : Stat(s) = NoStats
    BY DEF Init, Empty, Stat
  <1>3. QED
    BY <1>1, <1>2, LibTables DEF Init, Lib!Init

\* A step that changes neither a record nor who is hidden changes no count
\* that is shown: to Library it is a stutter.
LEMMA QuietStep ==
    ASSUME StatsFresh, StatsFresh', UNCHANGED <<sheets, ratings, favorites>>,
           HiddenIn(profiles') = HiddenIn(profiles)
    PROVE  UNCHANGED Lib!vars
  <1>1. \A s \in Subject : Stat(s)' = Stat(s)
    BY DEF StatsFresh
  <1>2. QED
    BY <1>1 DEF Lib!vars

\* Every transaction is a step of Library, or a stutter (previews, cleanup).
LEMMA RefinementStep ==
    ASSUME TypeOK, StatsFresh, [Next]_vars
    PROVE  [Lib!Next]_(Lib!vars)
  <1> USE DEF previews, records
  <1>0. StatsFresh' /\ Lib!Recount
    BY FreshStep, CountsRefine
  <1>1. ASSUME NEW u \in Sheet, NEW row \in SheetRow, UpsertSheet(u, row)
        PROVE  Lib!ChangeSheet
    <2>1. HiddenIn(profiles') = HiddenIn(profiles)
      BY <1>1, OwnerType, WithProfileType DEF UpsertSheet, TypeOK
    <2>2. QED
      BY <1>0, <1>1, <2>1, LibTables DEF UpsertSheet, Lib!ChangeSheet
  <1>2. ASSUME NEW u \in Sheet, DeleteSheet(u)
        PROVE  Lib!ChangeSheet
    BY <1>0, <1>2, LibTables DEF DeleteSheet, Lib!ChangeSheet
  <1>3. ASSUME NEW u \in Rating, NEW row \in RatingRow, UpsertRating(u, row)
        PROVE  Lib!ChangeRating
    BY <1>0, <1>3, LibTables DEF UpsertRating, Lib!ChangeRating
  <1>4. ASSUME NEW u \in Rating, DeleteRating(u)
        PROVE  Lib!ChangeRating
    BY <1>0, <1>4, LibTables DEF DeleteRating, Lib!ChangeRating
  <1>5. ASSUME NEW u \in Favorite, NEW row \in FavoriteRow, UpsertFavorite(u, row)
        PROVE  Lib!ChangeFavorite
    BY <1>0, <1>5, LibTables DEF UpsertFavorite, Lib!ChangeFavorite
  <1>6. ASSUME NEW u \in Favorite, DeleteFavorite(u)
        PROVE  Lib!ChangeFavorite
    BY <1>0, <1>6, LibTables DEF DeleteFavorite, Lib!ChangeFavorite
  <1>7. ASSUME NEW d \in Did, UpsertProfile(d)
        PROVE  UNCHANGED Lib!vars
    <2>1. HiddenIn(profiles') = HiddenIn(profiles)
      BY <1>7, WithProfileType DEF UpsertProfile, TypeOK
    <2>2. QED
      BY <1>0, <1>7, <2>1, QuietStep DEF UpsertProfile
  <1>8. ASSUME NEW d \in Did, NEW hidden \in BOOLEAN, SetHidden(d, hidden)
        PROVE  [Lib!Next]_(Lib!vars)
    <2>1. CASE d \in DOMAIN profiles
      <3>1. HiddenIn(profiles') = IF hidden THEN HiddenIn(profiles) \cup {d}
                                  ELSE HiddenIn(profiles) \ {d}
        BY <1>8, <2>1 DEF SetHidden, HiddenIn
      <3>2. Lib!HideOrShow(d)
        BY <1>0, <1>8, <3>1 DEF SetHidden, Lib!HideOrShow
      <3>3. QED
        BY <3>2 DEF Lib!Next
    <2>2. CASE d \notin DOMAIN profiles
      <3>1. HiddenIn(profiles') = HiddenIn(profiles)
        BY <1>8, <2>2 DEF SetHidden, HiddenIn
      <3>2. QED
        BY <1>0, <1>8, <3>1, QuietStep DEF SetHidden
    <2>3. QED
      BY <2>1, <2>2
  <1>9. ASSUME NEW d \in Did, PurgeAccount(d)
        PROVE  Lib!Forget(d)
    <2>1. HiddenIn(profiles') = HiddenIn(profiles) \ {d}
      BY <1>9 DEF PurgeAccount, HiddenIn, Drop
    <2>2. QED
      BY <1>0, <1>9, <2>1, LibTables DEF PurgeAccount, Lib!Forget
  <1>10. CASE \/ \E u \in Sheet : DrawCard(u) \/ PutOGCard(u)
              \/ CleanOGCards \/ CleanSheetStats \/ UNCHANGED vars
    <2>1. UNCHANGED <<sheets, ratings, favorites, profiles>>
      BY <1>10 DEF DrawCard, PutOGCard, CleanOGCards, CleanSheetStats, vars
    <2>2. QED
      BY <1>0, <2>1, QuietStep
  <1>11. QED
    BY <1>1, <1>2, <1>3, <1>4, <1>5, <1>6, <1>7, <1>8, <1>9, <1>10
       DEF Next, Lib!Next

\* Index implements Library: the stored, incrementally refreshed counts are
\* indistinguishable from counting afresh at every moment.
THEOREM IndexRefinesLibrary == Spec => RefinesLibrary
  <1>1. Init => Lib!Init
    BY RefinementInit
  <1>2. TypeOK /\ StatsFresh /\ [Next]_vars => [Lib!Next]_(Lib!vars)
    BY RefinementStep
  <1>3. QED
    BY <1>1, <1>2, TypeCorrect, StatsAreFresh, PTL
       DEF Spec, RefinesLibrary, Lib!Spec

-----------------------------------------------------------------------------
(* Each account counts once. *)

\* An account's ratings of s, and those of them that none is newer than.
Mine(d, s) == {u \in RowsOf(ratings, d) : ratings[u].subject = s}
Newest(d, s) == {u \in Mine(d, s) : \A v \in Mine(d, s) : ~Newer(ratings, v, u)}

LEMMA RatingsType ==
    ASSUME TypeOK, NEW d, NEW s, NEW u \in Mine(d, s)
    PROVE  /\ u \in DOMAIN ratings /\ u \in Rating /\ u = <<d, Rkey(u)>>
           /\ d \in Did /\ Rkey(u) \in Nat
           /\ ratings[u].at \in Nat /\ ratings[u].value \in 1..5
  <1>1. u \in DOMAIN ratings /\ Owner(u) = d
    BY DEF Mine, RowsOf
  <1>2. u \in Rating /\ ratings[u] \in RatingRow
    BY <1>1 DEF TypeOK, IsTable
  <1>3. u \in Did \X Nat
    BY <1>2, UriAssumption
  <1>4. ratings[u].at \in Nat /\ ratings[u].value \in 1..5
    BY <1>2, ValueAssumption DEF RatingRow
  <1>5. QED
    BY <1>1, <1>2, <1>3, <1>4 DEF Owner, Rkey

\* Newer orders the ratings of one account strictly, and any two of them.
LEMMA NewerOrders ==
    ASSUME TypeOK, NEW d, NEW s, NEW u \in Mine(d, s), NEW v \in Mine(d, s)
    PROVE  /\ ~Newer(ratings, u, u)
           /\ u = v \/ Newer(ratings, u, v) \/ Newer(ratings, v, u)
           /\ \A w \in Mine(d, s) :
                 Newer(ratings, u, v) /\ Newer(ratings, v, w) => Newer(ratings, u, w)
  <1>1. \A x \in Mine(d, s) :
           x = <<d, Rkey(x)>> /\ Rkey(x) \in Nat /\ ratings[x].at \in Nat
    BY RatingsType
  <1>2. QED
    BY <1>1 DEF Newer

\* Who has rated s has a newest rating of it: one that the fewest are newer
\* than.
LEMMA NewestExists ==
    ASSUME TypeOK, NEW d, NEW s, Mine(d, s) # {}
    PROVE  Newest(d, s) # {}
  <1> DEFINE above(u) == {v \in Mine(d, s) : Newer(ratings, v, u)}
             ranks == {Cardinality(above(u)) : u \in Mine(d, s)}
  <1>1. IsFiniteSet(Mine(d, s))
    <2>1. Mine(d, s) \subseteq Rating
      BY RatingsType
    <2>2. QED
      BY <2>1, SetsAssumption, FS_Subset
  <1>2. \A u \in Mine(d, s) : IsFiniteSet(above(u)) /\ Cardinality(above(u)) \in Nat
    BY <1>1, FS_Subset, FS_CardinalityType
  <1>3. ranks \subseteq Nat /\ ranks # {}
    BY <1>2
  <1>4. PICK m \in ranks : \A n \in ranks : ~ (<<n, m>> \in OpToRel(<, Nat))
    BY <1>3, NatLessThanWellFounded, WFMin
  <1>5. PICK u \in Mine(d, s) : m = Cardinality(above(u))
    BY <1>4
  <1>6. ASSUME NEW v \in Mine(d, s), Newer(ratings, v, u) PROVE FALSE
    <2>1. above(v) \subseteq above(u)
      BY <1>6, NewerOrders
    <2>2. v \in above(u) /\ v \notin above(v)
      BY <1>6, NewerOrders
    <2>3. Cardinality(above(v)) < Cardinality(above(u))
      <3>1. above(v) # above(u)
        BY <2>2
      <3> HIDE DEF above
      <3>2. /\ Cardinality(above(v)) <= Cardinality(above(u))
            /\ Cardinality(above(v)) # Cardinality(above(u))
        BY <1>2, <2>1, <3>1, FS_Subset
      <3>3. QED
        BY <1>2, <3>2
    <2>4. Cardinality(above(v)) \in ranks
      OBVIOUS
    <2>5. QED
      BY <1>2, <1>4, <1>5, <2>3, <2>4 DEF OpToRel
  <1>7. QED
    BY <1>5, <1>6 DEF Newest

\* The newest is one, and it is what counts for s and what its account is
\* shown.
LEMMA NewestShown ==
    ASSUME TypeOK, NEW d, NEW s, NEW u \in Newest(d, s)
    PROVE  /\ \A v \in Newest(d, s) : v = u
           /\ u \in Counting(ratings, s)
           /\ ViewerRating(d, s) = ratings[u].value
  <1>1. u \in Mine(d, s) /\ \A v \in Mine(d, s) : ~Newer(ratings, v, u)
    BY DEF Newest
  <1>2. \A v \in Newest(d, s) : v = u
    BY <1>1, NewerOrders DEF Newest
  <1>3. u \in Counting(ratings, s)
    BY <1>1 DEF Counting, Mine, PointingAt, RowsOf
  <1>4. (CHOOSE v \in Mine(d, s) : \A w \in Mine(d, s) : ~Newer(ratings, w, v)) = u
    BY <1>1, <1>2 DEF Newest
  <1>5. QED
    BY <1>1, <1>2, <1>3, <1>4 DEF ViewerRating, Mine

\* What counts for s are the newest ratings of its accounts.
LEMMA CountingNewest ==
    ASSUME NEW s, NEW u \in Counting(ratings, s)
    PROVE  u \in Newest(Owner(u), s)
  BY DEF Counting, Newest, Mine, PointingAt, RowsOf

\* As many votes of a value as accounts that are shown it as theirs.
LEMMA OneVoteEach ==
    ASSUME TypeOK, NEW s, NEW k \in 1..5
    PROVE  Votes(ratings, s, k) = Cardinality({d \in Did : ViewerRating(d, s) = k})
  <1> DEFINE votes == {u \in Counting(ratings, s) : ratings[u].value = k}
             voters == {d \in Did : ViewerRating(d, s) = k}
             by == [u \in votes |-> Owner(u)]
  <1>1. IsFiniteSet(votes)
    <2>1. votes \subseteq Rating
      BY DEF TypeOK, IsTable, Counting, PointingAt
    <2>2. QED
      BY <2>1, SetsAssumption, FS_Subset
  <1>2. by \in [votes -> voters]
    <2>1. ASSUME NEW u \in votes PROVE Owner(u) \in voters
      <3>1. u \in Newest(Owner(u), s)
        BY CountingNewest
      <3>2. ViewerRating(Owner(u), s) = k
        BY <3>1, NewestShown
      <3>3. Owner(u) \in Did
        BY <3>1, RatingsType DEF Newest
      <3>4. QED
        BY <3>2, <3>3
    <2>2. QED
      BY <2>1
  <1>3. \A u, v \in votes : by[u] = by[v] => u = v
    <2> TAKE u, v \in votes
    <2>1. u \in Newest(Owner(u), s) /\ v \in Newest(Owner(v), s)
      BY CountingNewest
    <2>2. QED
      BY <2>1, NewestShown
  <1>4. \A d \in voters : \E u \in votes : by[u] = d
    <2> TAKE d \in voters
    <2>1. Mine(d, s) # {}
      BY DEF ViewerRating, Mine
    <2>2. PICK u \in Newest(d, s) : TRUE
      BY <2>1, NewestExists
    <2>3. u \in votes
      BY <2>2, NewestShown
    <2>4. Owner(u) = d
      BY <2>2 DEF Newest, Mine, RowsOf
    <2>5. QED
      BY <2>3, <2>4
  <1>5. by \in Bijection(votes, voters)
    BY <1>2, <1>3, <1>4 DEF Bijection, Injection, Surjection, IsInjective
  <1>6. QED
    BY <1>1, <1>5, FS_Bijection DEF ExistsBijection, Votes

\* Every rating that counts has one of the five values.
LEMMA VotesByValue ==
    ASSUME TypeOK, NEW s
    PROVE  /\ \A k : Votes(ratings, s, k) \in Nat
           /\ Cardinality(Counting(ratings, s)) =
                 Votes(ratings, s, 1) + Votes(ratings, s, 2) + Votes(ratings, s, 3)
                 + Votes(ratings, s, 4) + Votes(ratings, s, 5)
  <1> DEFINE of(k) == {u \in Counting(ratings, s) : ratings[u].value = k}
  <1>1. IsFiniteSet(Counting(ratings, s))
    <2>1. Counting(ratings, s) \subseteq Rating
      BY DEF TypeOK, IsTable, Counting, PointingAt
    <2>2. QED
      BY <2>1, SetsAssumption, FS_Subset
  <1>2. \A k : IsFiniteSet(of(k)) /\ Cardinality(of(k)) \in Nat
    BY <1>1, FS_Subset, FS_CardinalityType
  <1>3. \A u \in Counting(ratings, s) : ratings[u].value \in 1..5
    BY CountingNewest, RatingsType DEF Newest
  <1>4. Counting(ratings, s) = ((of(1) \cup of(2)) \cup (of(3) \cup of(4))) \cup of(5)
    BY <1>3
  <1>5. \A S, T : IsFiniteSet(S) /\ IsFiniteSet(T) /\ S \cap T = {} =>
           /\ IsFiniteSet(S \cup T)
           /\ Cardinality(S \cup T) = Cardinality(S) + Cardinality(T)
    <2> SUFFICES ASSUME NEW S, NEW T, IsFiniteSet(S), IsFiniteSet(T), S \cap T = {}
                 PROVE  /\ IsFiniteSet(S \cup T)
                        /\ Cardinality(S \cup T) = Cardinality(S) + Cardinality(T)
      OBVIOUS
    <2>1. Cardinality(S) \in Nat /\ Cardinality(T) \in Nat
      BY FS_CardinalityType
    <2>2. Cardinality(S \cap T) = 0
      BY FS_EmptySet
    <2>3. /\ IsFiniteSet(S \cup T)
          /\ Cardinality(S \cup T) =
                Cardinality(S) + Cardinality(T) - Cardinality(S \cap T)
      BY FS_Union
    <2>4. QED
      BY <2>1, <2>2, <2>3
  <1>6. \A j, k \in 1..5 : j # k => of(j) \cap of(k) = {}
    OBVIOUS
  <1> HIDE DEF of
  <1>7. /\ IsFiniteSet(of(1) \cup of(2))
        /\ Cardinality(of(1) \cup of(2)) = Cardinality(of(1)) + Cardinality(of(2))
    BY <1>2, <1>5, <1>6
  <1>8. /\ IsFiniteSet(of(3) \cup of(4))
        /\ Cardinality(of(3) \cup of(4)) = Cardinality(of(3)) + Cardinality(of(4))
    BY <1>2, <1>5, <1>6
  <1>9. /\ IsFiniteSet((of(1) \cup of(2)) \cup (of(3) \cup of(4)))
        /\ Cardinality((of(1) \cup of(2)) \cup (of(3) \cup of(4)))
              = Cardinality(of(1) \cup of(2)) + Cardinality(of(3) \cup of(4))
    <2>1. (of(1) \cup of(2)) \cap (of(3) \cup of(4)) = {}
      BY <1>6
    <2>2. QED
      BY <1>5, <1>7, <1>8, <2>1
  <1>10. Cardinality(Counting(ratings, s))
            = Cardinality((of(1) \cup of(2)) \cup (of(3) \cup of(4))) + Cardinality(of(5))
    <2>1. ((of(1) \cup of(2)) \cup (of(3) \cup of(4))) \cap of(5) = {}
      BY <1>6
    <2>2. QED
      BY <1>2, <1>4, <1>5, <1>9, <2>1
  <1>11. \A k : Votes(ratings, s, k) = Cardinality(of(k))
    BY DEF Votes, of
  <1>12. QED
    BY <1>2, <1>7, <1>8, <1>9, <1>10, <1>11

\* Counts that are a recount are counts of accounts.
LEMMA FreshAsSeen ==
    ASSUME TypeOK, StatsFresh
    PROVE  CountsAsSeen
  <1> SUFFICES ASSUME NEW s \in Subject
               PROVE  LET N(k) == Cardinality({d \in Did : ViewerRating(d, s) = k})
                      IN  /\ Stat(s).ratings = N(1) + N(2) + N(3) + N(4) + N(5)
                          /\ Stat(s).total = N(1) + 2 * N(2) + 3 * N(3) + 4 * N(4) + 5 * N(5)
                          /\ Stat(s).favorites =
                                Cardinality({d \in Did : ViewerFavorites(d, s) # {}})
                          /\ Stat(s).forks = Cardinality(Forks(s))
    BY DEF CountsAsSeen
  <1> DEFINE N(k) == Cardinality({d \in Did : ViewerRating(d, s) = k})
  <1>1. Stat(s) = TallyOf(sheets, ratings, favorites, HiddenIn(profiles), s)
    BY DEF StatsFresh
  <1>2. \A k \in 1..5 : Votes(ratings, s, k) = N(k)
    BY OneVoteEach
  <1>3. Cardinality(Counting(ratings, s)) =
           Votes(ratings, s, 1) + Votes(ratings, s, 2) + Votes(ratings, s, 3)
           + Votes(ratings, s, 4) + Votes(ratings, s, 5)
    BY VotesByValue
  <1>4. Fans(favorites, s) = {d \in Did : ViewerFavorites(d, s) # {}}
    <2>1. \A u \in DOMAIN favorites : Owner(u) \in Did
      BY OwnerType DEF TypeOK, IsTable
    <2>2. QED
      BY <2>1 DEF Fans, ViewerFavorites, PointingAt, RowsOf
  <1>5. CountedForks(sheets, HiddenIn(profiles), s) = Forks(s)
    BY DEF CountedForks, Forks, Listed
  <1>6. Stat(s).ratings = N(1) + N(2) + N(3) + N(4) + N(5)
    BY <1>1, <1>2, <1>3 DEF TallyOf
  <1>7. Stat(s).total = N(1) + 2 * N(2) + 3 * N(3) + 4 * N(4) + 5 * N(5)
    BY <1>1, <1>2 DEF TallyOf
  <1>8. Stat(s).favorites = Cardinality({d \in Did : ViewerFavorites(d, s) # {}})
    BY <1>1, <1>4 DEF TallyOf
  <1>9. Stat(s).forks = Cardinality(Forks(s))
    BY <1>1, <1>5 DEF TallyOf
  <1>10. QED
    BY <1>6, <1>7, <1>8, <1>9

(* The counts on a sheet's page agree with what every account sees of its  *)
(* own: each account counts once, with the rating GetViewerState shows it, *)
(* however many rating and favorite records it holds.                      *)
THEOREM CountsAreAsSeen == Spec => []CountsAsSeen
  <1>1. TypeOK /\ StatsFresh => CountsAsSeen
    BY FreshAsSeen
  <1>2. QED
    BY <1>1, TypeCorrect, StatsAreFresh, PTL

=============================================================================
