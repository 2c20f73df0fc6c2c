------------------------------- MODULE Tally -------------------------------
(***************************************************************************)
(* The vocabulary of the index: what a row of each table is, and how       *)
(* pkg/store/queries.sql counts rows.  No state: the modules that keep     *)
(* the tables (Index), promise something of them (Library) or let          *)
(* transactions overlap on them (StoreTx) all count with these operators.  *)
(*                                                                         *)
(* A record's URI is <<did, rkey>>: at://did/collection/rkey, with one     *)
(* set of URIs per collection.  A table is a function from the URIs it     *)
(* has rows for to the rows.                                               *)
(***************************************************************************)
EXTENDS Naturals, FiniteSets

CONSTANTS
    Did,        \* accounts
    Sheet,      \* URIs of fm.leadsheet.sheet records
    Rating,     \* URIs of fm.leadsheet.rating records
    Favorite,   \* URIs of fm.leadsheet.favorite records
    Subject,    \* URIs a rating, favorite or fork points at, indexed or not
    NoFork,     \* fork_of_uri of a sheet that forks nothing: ''
    Stars,      \* the rating values in use
    Time        \* the created_at values in use

ASSUME SetsAssumption ==
    /\ Did # {}
    /\ IsFiniteSet(Did) /\ IsFiniteSet(Sheet)
    /\ IsFiniteSet(Rating) /\ IsFiniteSet(Favorite)
ASSUME UriAssumption ==
    /\ Sheet \subseteq Did \X Nat
    /\ Rating \subseteq Did \X Nat
    /\ Favorite \subseteq Did \X Nat
ASSUME SubjectAssumption == Sheet \subseteq Subject /\ NoFork \notin Subject
ASSUME ValueAssumption == Stars \subseteq 1..5 /\ Time \subseteq Nat

Owner(uri) == uri[1]
Rkey(uri) == uri[2]

SheetRow    == [forkOf : Subject \cup {NoFork}, draft : BOOLEAN]
RatingRow   == [subject : Subject, value : Stars, at : Time]
FavoriteRow == [subject : Subject]
StatsRow    == [ratings : Nat, total : Nat, favorites : Nat, forks : Nat]

(***************************************************************************)
(* Tables as partial functions.                                            *)
(***************************************************************************)
IsTable(table, Keys, Row) ==
    DOMAIN table \subseteq Keys /\ table \in [DOMAIN table -> Row]

Empty == [u \in {} |-> {}]
Put(table, u, row) ==
    [v \in DOMAIN table \cup {u} |-> IF v = u THEN row ELSE table[v]]
Drop(table, U) == [v \in DOMAIN table \ U |-> table[v]]

RowsOf(table, d) == {u \in DOMAIN table : Owner(u) = d}
PointingAt(table, s) == {u \in DOMAIN table : table[u].subject = s}

(***************************************************************************)
(* The accounts whose profile row says hidden.  A missing profile reads    *)
(* as visible (LEFT JOIN profiles, COALESCE(hidden, false)).               *)
(***************************************************************************)
HiddenIn(profiles) == {d \in DOMAIN profiles : profiles[d]}

\* What sheet_summaries shows: neither drafts nor hidden accounts' sheets.
Listed(sheets, hidden) ==
    {u \in DOMAIN sheets : ~sheets[u].draft /\ Owner(u) \notin hidden}

(***************************************************************************)
(* RecomputeStats.                                                         *)
(***************************************************************************)
\* ORDER BY created_at DESC, uri DESC, among one account's ratings.
Newer(ratings, u, v) ==
    \/ ratings[u].at > ratings[v].at
    \/ ratings[u].at = ratings[v].at /\ Rkey(u) > Rkey(v)

\* (Slip: every record counts.)
EveryRating(ratings, s) == PointingAt(ratings, s)

\* DISTINCT ON (did): each account's newest rating of s.
Counting(ratings, s) ==
    {u \in PointingAt(ratings, s) :
        \A v \in PointingAt(ratings, s) :
            Owner(v) = Owner(u) => ~Newer(ratings, v, u)}

Votes(ratings, s, stars) ==
    Cardinality({u \in Counting(ratings, s) : ratings[u].value = stars})

Fans(favorites, s) == {Owner(u) : u \in PointingAt(favorites, s)}

CountedForks(sheets, hidden, s) ==
    {u \in DOMAIN sheets : /\ sheets[u].forkOf = s
                           /\ ~sheets[u].draft
                           /\ Owner(u) \notin hidden}

\* AVG(value) is total / ratings; SUM(value) adds up the votes by value.
TallyOf(sheets, ratings, favorites, hidden, s) ==
    [ratings   |-> Cardinality(Counting(ratings, s)),
     total     |-> Votes(ratings, s, 1) + 2 * Votes(ratings, s, 2)
                   + 3 * Votes(ratings, s, 3) + 4 * Votes(ratings, s, 4)
                   + 5 * Votes(ratings, s, 5),
     favorites |-> Cardinality(Fans(favorites, s)),
     forks     |-> Cardinality(CountedForks(sheets, hidden, s))]

\* What the views COALESCE a missing sheet_stats row to.
NoStats == [ratings |-> 0, total |-> 0, favorites |-> 0, forks |-> 0]
=============================================================================
