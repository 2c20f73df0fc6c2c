------------------------------- MODULE Index -------------------------------
(***************************************************************************)
(* The Postgres index (pkg/store): the tables every page is read from, and *)
(* each operation that writes them, one action per transaction.            *)
(* Whoever calls (the firehose, the backfiller, a handler) may call with   *)
(* any record at any time.  StoreTx takes the transactions apart.          *)
(***************************************************************************)
EXTENDS Tally

VARIABLES
    sheets,     \* sheets: URI -> SheetRow
    ratings,    \* ratings: URI -> RatingRow
    favorites,  \* favorites: URI -> FavoriteRow
    profiles,   \* profiles: DID -> its hidden column
    stats,      \* sheet_stats: subject URI -> StatsRow
    cards,      \* og_cards: the URIs with a stored preview image
    drawing     \* sheets read by a preview request that is still drawing

records == <<sheets, ratings, favorites, profiles>>
previews == <<cards, drawing>>
vars == <<sheets, ratings, favorites, profiles, stats, cards, drawing>>

TypeOK ==
    /\ IsTable(sheets, Sheet, SheetRow)
    /\ IsTable(ratings, Rating, RatingRow)
    /\ IsTable(favorites, Favorite, FavoriteRow)
    /\ IsTable(profiles, Did, BOOLEAN)
    /\ IsTable(stats, Subject, StatsRow)
    /\ cards \subseteq Sheet
    /\ drawing \subseteq Sheet

Init ==
    /\ sheets = Empty /\ ratings = Empty /\ favorites = Empty
    /\ profiles = Empty /\ stats = Empty
    /\ cards = {} /\ drawing = {}

-----------------------------------------------------------------------------
(* The statements the transactions share. *)

\* (Slip: '' is recounted like a URI.)
RecomputeEmptyToo(S) ==
    stats' = [s \in DOMAIN stats \cup S |->
                IF s \in S
                THEN TallyOf(sheets', ratings', favorites', HiddenIn(profiles'), s)
                ELSE stats[s]]

\* recomputeAll: the last statements of a transaction, so they count the
\* tables as the transaction leaves them.
RecomputeAll(S) ==
    stats' = [s \in DOMAIN stats \cup (S \ {NoFork}) |->
                IF s \in S
                THEN TallyOf(sheets', ratings', favorites', HiddenIn(profiles'), s)
                ELSE stats[s]]

\* (Slip: only what a row points at now is recounted.)
ForgetOldFork(u) == {}

\* SheetForkOf, RatingSubject, FavoriteSubject: what a row points at before
\* it is overwritten or deleted, as a set (empty when there is no row).
OldFork(u) == IF u \in DOMAIN sheets THEN {sheets[u].forkOf} ELSE {}
OldSubject(table, u) == IF u \in DOMAIN table THEN {table[u].subject} ELSE {}

\* AccountSubjects.
AccountSubjects(d) ==
    {ratings[u].subject : u \in RowsOf(ratings, d)}
    \cup {favorites[u].subject : u \in RowsOf(favorites, d)}
    \cup ({sheets[u].forkOf : u \in RowsOf(sheets, d)} \ {NoFork})

\* (Slip: no profile row until the account is resolved.)
ProfilesAsTheyAre(d) == profiles

\* EnsureProfile: INSERT ... ON CONFLICT DO NOTHING.
WithProfile(d) ==
    IF d \in DOMAIN profiles THEN profiles ELSE Put(profiles, d, FALSE)

-----------------------------------------------------------------------------
(* Sheets. *)

\* (Slip: counting up the parent's forks instead of recounting them.)
UpsertSheetCountingUp(u, row) ==
    /\ sheets' = Put(sheets, u, row)
    /\ profiles' = WithProfile(Owner(u))
    /\ stats' = IF row.forkOf = NoFork THEN stats
                ELSE Put(stats, row.forkOf,
                         [(IF row.forkOf \in DOMAIN stats THEN stats[row.forkOf]
                           ELSE NoStats) EXCEPT !.forks = @ + 1])
    /\ UNCHANGED <<ratings, favorites, previews>>

UpsertSheet(u, row) ==
    /\ sheets' = Put(sheets, u, row)
    /\ profiles' = WithProfile(Owner(u))
    /\ UNCHANGED <<ratings, favorites, previews>>
    /\ RecomputeAll(OldFork(u) \cup {row.forkOf})

DeleteSheet(u) ==
    /\ cards' = cards \ {u}
    /\ sheets' = Drop(sheets, {u})
    /\ UNCHANGED <<ratings, favorites, profiles, drawing>>
    /\ RecomputeAll(OldFork(u))

(* Ratings and favorites. *)

UpsertRating(u, row) ==
    /\ ratings' = Put(ratings, u, row)
    /\ UNCHANGED <<sheets, favorites, profiles, previews>>
    /\ RecomputeAll(OldSubject(ratings, u) \cup {row.subject})

DeleteRating(u) ==
    /\ ratings' = Drop(ratings, {u})
    /\ UNCHANGED <<sheets, favorites, profiles, previews>>
    /\ RecomputeAll(OldSubject(ratings, u))

UpsertFavorite(u, row) ==
    /\ favorites' = Put(favorites, u, row)
    /\ UNCHANGED <<sheets, ratings, profiles, previews>>
    /\ RecomputeAll(OldSubject(favorites, u) \cup {row.subject})

DeleteFavorite(u) ==
    /\ favorites' = Drop(favorites, {u})
    /\ UNCHANGED <<sheets, ratings, profiles, previews>>
    /\ RecomputeAll(OldSubject(favorites, u))

(* Accounts. *)

\* UpsertProfile: a resolved profile; inserts the row if it is missing and
\* never touches the hidden column of one that is there.
UpsertProfile(d) ==
    /\ profiles' = WithProfile(d)
    /\ UNCHANGED <<sheets, ratings, favorites, stats, previews>>

\* (Slip: the counts the account's forks are in stay.)
SetHiddenOnly(d, hidden) ==
    /\ profiles' = [p \in DOMAIN profiles |->
                      IF p = d THEN hidden ELSE profiles[p]]
    /\ UNCHANGED <<sheets, ratings, favorites, stats, previews>>

\* UPDATE ... WHERE did = $1: nothing to update for an unknown account.
SetHidden(d, hidden) ==
    /\ profiles' = [p \in DOMAIN profiles |->
                      IF p = d THEN hidden ELSE profiles[p]]
    /\ UNCHANGED <<sheets, ratings, favorites, previews>>
    /\ RecomputeAll(AccountSubjects(d))

\* (Slip: its favorites stay.)
PurgeButFavorites(d) ==
    /\ cards' = {u \in cards : Owner(u) # d}
    /\ sheets' = Drop(sheets, RowsOf(sheets, d))
    /\ ratings' = Drop(ratings, RowsOf(ratings, d))
    /\ profiles' = Drop(profiles, {d})
    /\ UNCHANGED <<favorites, drawing>>
    /\ RecomputeAll(AccountSubjects(d))

PurgeAccount(d) ==
    /\ cards' = {u \in cards : Owner(u) # d}
    /\ sheets' = Drop(sheets, RowsOf(sheets, d))
    /\ ratings' = Drop(ratings, RowsOf(ratings, d))
    /\ favorites' = Drop(favorites, RowsOf(favorites, d))
    /\ profiles' = Drop(profiles, {d})
    /\ UNCHANGED drawing
    /\ RecomputeAll(AccountSubjects(d))

(* Link previews: a request reads the sheet, draws, then stores the card;  *)
(* storing may fail, and another request may be drawing the same sheet.    *)

DrawCard(u) ==
    /\ u \in Listed(sheets, HiddenIn(profiles))
    /\ drawing' = drawing \cup {u}
    /\ UNCHANGED <<records, stats, cards>>

PutOGCard(u) ==
    /\ u \in drawing
    /\ cards' \in {cards, cards \cup {u}}
    /\ drawing' \in {drawing, drawing \ {u}}
    /\ UNCHANGED <<records, stats>>

(* Hourly cleanup. *)

\* (Slip: by age alone.)
CleanOldCards ==
    /\ \E old \in SUBSET cards : cards' = cards \ old
    /\ UNCHANGED <<records, stats, drawing>>

\* Cards not asked for in a while (any of them, here), or without a sheet.
CleanOGCards ==
    /\ \E old \in SUBSET cards : cards' = (cards \ old) \cap DOMAIN sheets
    /\ UNCHANGED <<records, stats, drawing>>

CleanSheetStats ==
    /\ stats' = Drop(stats, {s \in DOMAIN stats \ DOMAIN sheets :
                                /\ stats[s].ratings = 0
                                /\ stats[s].favorites = 0
                                /\ stats[s].forks = 0})
    /\ UNCHANGED <<records, previews>>

-----------------------------------------------------------------------------

Next ==
    \/ \E u \in Sheet, row \in SheetRow : UpsertSheet(u, row)
    \/ \E u \in Sheet : DeleteSheet(u) \/ DrawCard(u) \/ PutOGCard(u)
    \/ \E u \in Rating, row \in RatingRow : UpsertRating(u, row)
    \/ \E u \in Rating : DeleteRating(u)
    \/ \E u \in Favorite, row \in FavoriteRow : UpsertFavorite(u, row)
    \/ \E u \in Favorite : DeleteFavorite(u)
    \/ \E d \in Did : UpsertProfile(d) \/ PurgeAccount(d)
    \/ \E d \in Did, hidden \in BOOLEAN : SetHidden(d, hidden)
    \/ CleanOGCards
    \/ CleanSheetStats

Spec == Init /\ [][Next]_vars

\* main.go runs the cleanup every hour for as long as the server is up.
FairSpec == Spec /\ WF_vars(CleanOGCards)

-----------------------------------------------------------------------------
(* What the index promises. *)

\* A sheet's counts as every view reads them.
Stat(s) == IF s \in DOMAIN stats THEN stats[s] ELSE NoStats

(* The stored counts of every URI, indexed or not, are what a recount of   *)
(* the tables gives, whatever the order of updates, moved subjects,        *)
(* hidden and deleted accounts, and cleanups (recomputeAll, SetHidden,     *)
(* PurgeAccount, CleanSheetStats).                                         *)
StatsFresh ==
    \A s \in Subject :
        Stat(s) = TallyOf(sheets, ratings, favorites, HiddenIn(profiles), s)

(* GetViewerState: the rating a signed-in account is shown as its own (its *)
(* newest, 0 for none), and its favorites of the sheet.                    *)
ViewerRating(d, s) ==
    LET mine == {u \in RowsOf(ratings, d) : ratings[u].subject = s}
    IN  IF mine = {} THEN 0
        ELSE ratings[CHOOSE u \in mine :
                        \A v \in mine : ~Newer(ratings, v, u)].value
ViewerFavorites(d, s) == {u \in RowsOf(favorites, d) : favorites[u].subject = s}
Forks(s) ==
    {u \in Listed(sheets, HiddenIn(profiles)) : sheets[u].forkOf = s}

(* The counts on a sheet's page agree with what every account sees of its  *)
(* own: each account counts once, with the rating GetViewerState shows it, *)
(* however many rating and favorite records it holds; and the fork count   *)
(* is the length of the list Forks returns.                                *)
CountsAsSeen ==
    \A s \in Subject :
        LET N(k) == Cardinality({d \in Did : ViewerRating(d, s) = k})
        IN  /\ Stat(s).ratings = N(1) + N(2) + N(3) + N(4) + N(5)
            /\ Stat(s).total = N(1) + 2 * N(2) + 3 * N(3) + 4 * N(4) + 5 * N(5)
            /\ Stat(s).favorites =
                  Cardinality({d \in Did : ViewerFavorites(d, s) # {}})
            /\ Stat(s).forks = Cardinality(Forks(s))

(* Every indexed sheet's author has a profile row (EnsureProfile), which   *)
(* is what lets SetHidden be a plain UPDATE.                               *)
AuthorsKnown == \A u \in DOMAIN sheets : Owner(u) \in DOMAIN profiles

(* Hiding an account takes every sheet of it off the lists at once, and    *)
(* its forks out of the counts (SetHidden).                                *)
HideTakesEffect ==
    [][\A d \in Did : SetHidden(d, TRUE) =>
          /\ \A u \in Listed(sheets', HiddenIn(profiles')) : Owner(u) # d
          /\ \A s \in Subject :
                Stat(s)'.forks = Cardinality(
                    {u \in Listed(sheets, HiddenIn(profiles)) :
                        sheets[u].forkOf = s /\ Owner(u) # d})]_vars

(* "The same commit arriving later from Jetstream is a no-op upsert"       *)
(* (pkg/server/write.go): upserting a row that is already there changes    *)
(* no row and no count a page shows.                                       *)
Shown == <<records, previews, [s \in Subject |-> Stat(s)]>>
ReplayIsNoOp ==
    [][/\ \A u \in DOMAIN sheets :
            UpsertSheet(u, sheets[u]) => Shown' = Shown
       /\ \A u \in DOMAIN ratings :
            UpsertRating(u, ratings[u]) => Shown' = Shown
       /\ \A u \in DOMAIN favorites :
            UpsertFavorite(u, favorites[u]) => Shown' = Shown]_vars

(* A card drawn for a sheet that was deleted meanwhile (PutOGCard after    *)
(* DeleteSheet) does not stay: CleanOGCards drops it.                      *)
Orphan(u) == u \in cards /\ u \notin DOMAIN sheets
OrphanCardsGo == \A u \in Sheet : Orphan(u) ~> ~Orphan(u)

\* The abstract index: the same tables, with counts that are a tally.
Lib == INSTANCE Library WITH
    hidden <- HiddenIn(profiles),
    counts <- [s \in Subject |-> Stat(s)]
RefinesLibrary == Lib!Spec
=============================================================================
