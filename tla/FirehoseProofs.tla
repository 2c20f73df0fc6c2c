--------------------------- MODULE FirehoseProofs ---------------------------
(***************************************************************************)
(* What the firehose reader keeps of the index, for every network, and     *)
(* however often it stops and replays.                                     *)
(***************************************************************************)
EXTENDS Firehose, IndexProofs, WellFoundedInduction

Event == Commits \cup {Account(d, status) :
                         d \in Did, status \in {"active", "inactive", "deleted"}}

\* A record's row, or Deleted when there is none.
RowOr(table, u) == IF u \in DOMAIN table THEN table[u] ELSE Deleted

-----------------------------------------------------------------------------
(* Events. *)

\* A commit writes a record of a repo, or deletes it; an event that is no
\* commit is a change of an account.
LEMMA EventType ==
    ASSUME NEW e \in Event
    PROVE  \/ /\ e.coll \in Collection /\ e.uri \in Uri(e.coll)
              /\ e.rec \in Row(e.coll) \cup {Deleted, Invalid}
              /\ e.coll # "account"
              /\ e \in Commits /\ e = Commit(e.coll, e.uri, e.rec)
           \/ /\ e.coll = "account" /\ e.coll \notin Collection /\ e.did \in Did
              /\ e.status \in {"active", "inactive", "deleted"}
              /\ e = Account(e.did, e.status)
  <1>1. CASE e \in Commits
    <2>0. PICK coll \in Collection :
              \E u \in Uri(coll), rec \in Row(coll) \cup {Deleted, Invalid} :
                  e = Commit(coll, u, rec)
      BY <1>1, CommitsAssumption
    <2>1. PICK u \in Uri(coll), rec \in Row(coll) \cup {Deleted, Invalid} :
              e = Commit(coll, u, rec)
      BY <2>0
    <2>2. e.coll = coll /\ e.uri = u /\ e.rec = rec
      BY <2>1 DEF Commit
    <2>3. QED
      BY <1>1, <2>1, <2>2 DEF Collection
  <1>2. CASE e \notin Commits
    <2>1. PICK d \in Did, status \in {"active", "inactive", "deleted"} : e = Account(d, status)
      BY <1>2 DEF Event
    <2>2. e.coll = "account" /\ e.did = d /\ e.status = status
      BY <2>1 DEF Account
    <2>3. QED
      BY <2>1, <2>2 DEF Collection
  <1>3. QED
    BY <1>1, <1>2

\* The owner of a record is an account.
LEMMA UriOwner ==
    ASSUME NEW coll \in Collection, NEW u \in Uri(coll)
    PROVE  Owner(u) \in Did
  BY OwnerType DEF Collection, Uri

-----------------------------------------------------------------------------
(* The log: what an event changes, and that the past stays. *)

\* The events that changed an account's status; the last of them decides.
Changes(d, n) == {i \in 1..n : log[i].coll = "account" /\ log[i].did = d}
LastOf(S) == CHOOSE i \in S : \A j \in S : j <= i

\* A set of events has a last one.
LEMMA HasLast ==
    ASSUME NEW n \in Nat, NEW S \in SUBSET (1..n), S # {}
    PROVE  LastOf(S) \in S /\ \A j \in S : j <= LastOf(S)
  <1> DEFINE back == {m \in Nat : n - m \in S}
  <1>1. \A i \in S : n - i \in back
    <2> TAKE i \in S
    <2>1. n - i \in Nat /\ n - (n - i) = i
      OBVIOUS
    <2>2. QED
      BY <2>1
  <1>2. back \subseteq Nat /\ back # {}
    BY <1>1
  <1>3. PICK m \in back : \A k \in back : ~ (<<k, m>> \in OpToRel(<, Nat))
    BY <1>2, NatLessThanWellFounded, WFMin
  <1>4. \A k \in back : ~(k < m)
    BY <1>3 DEF OpToRel
  <1>5. ASSUME NEW j \in S
        PROVE  j <= n - m
    <2>1. n - j \in Nat /\ m \in Nat /\ ~(n - j < m)
      BY <1>1, <1>4
    <2>2. QED
      BY <2>1
  <1>6. n - m \in S
    OBVIOUS
  <1>7. QED
    BY <1>5, <1>6 DEF LastOf

LEMMA StatusIs ==
    /\ \A d, n : StatusAt(d, n) = IF Changes(d, n) = {} THEN "active"
                                  ELSE log[LastOf(Changes(d, n))].status
    /\ \A d, n : StatusAt(d, n)' = IF Changes(d, n)' = {} THEN "active"
                                   ELSE log'[LastOf(Changes(d, n)')].status
  BY DEF StatusAt, Changes, LastOf

\* The status after an event is the one it says, if it says one.
LEMMA StatusNext ==
    ASSUME log \in Seq(Event), NEW n \in 0..Len(log), n < Len(log), NEW d
    PROVE  StatusAt(d, n + 1) =
              IF log[n + 1].coll = "account" /\ log[n + 1].did = d
              THEN log[n + 1].status ELSE StatusAt(d, n)
  <1>0. n \in Nat /\ Len(log) \in Nat
    OBVIOUS
  <1>1. CASE log[n + 1].coll = "account" /\ log[n + 1].did = d
    <2>1. n + 1 \in Changes(d, n + 1) /\ \A j \in Changes(d, n + 1) : j <= n + 1
      BY <1>0, <1>1 DEF Changes
    <2>2. \A i \in Changes(d, n + 1) :
              (\A j \in Changes(d, n + 1) : j <= i) => i = n + 1
      BY <1>0, <2>1 DEF Changes
    <2>3. LastOf(Changes(d, n + 1)) = n + 1
      BY <2>1, <2>2 DEF LastOf
    <2>4. QED
      BY <1>1, <2>1, <2>3, StatusIs
  <1>2. CASE ~(log[n + 1].coll = "account" /\ log[n + 1].did = d)
    <2>1. Changes(d, n + 1) = Changes(d, n)
      BY <1>0, <1>2 DEF Changes
    <2>2. QED
      BY <1>2, <2>1, StatusIs
  <1>3. QED
    BY <1>1, <1>2

\* A new event changes no earlier one.
LEMMA LogKept ==
    ASSUME log \in Seq(Event), NEW e \in Event, log' = Append(log, e)
    PROVE  /\ log' \in Seq(Event) /\ Len(log') = Len(log) + 1
           /\ log'[Len(log) + 1] = e
           /\ \A i \in 1..Len(log) : log'[i] = log[i]
  OBVIOUS

\* The event that decides a row.
WordOf(n, coll, u) == CHOOSE i \in LastWord(n, coll, u) : TRUE
HasRow(n, coll, u) ==
    \E i \in LastWord(n, coll, u) : log[i].coll = coll /\ log[i].rec # Deleted

LEMMA OneWord ==
    ASSUME NEW n \in Nat, NEW coll, NEW u,
           NEW i \in LastWord(n, coll, u), NEW j \in LastWord(n, coll, u)
    PROVE  i = j
  <1>1. i \in 1..n /\ j \in 1..n /\ Says(log[i], coll, u) /\ Says(log[j], coll, u)
    BY DEF LastWord
  <1>2. ~(i < j) /\ ~(j < i)
    BY <1>1 DEF LastWord
  <1>3. QED
    BY <1>1, <1>2

LEMMA TableIs ==
    /\ \A n, coll : TableAt(n, coll) =
            [u \in {v \in Uri(coll) : HasRow(n, coll, v)} |-> log[WordOf(n, coll, u)].rec]
    /\ \A n, coll : TableAt(n, coll)' =
            [u \in {v \in Uri(coll) : HasRow(n, coll, v)'} |-> log'[WordOf(n, coll, u)'].rec]
  BY DEF TableAt, HasRow, WordOf

\* Nor what was said before it.
LEMMA PastKept ==
    ASSUME log \in Seq(Event), NEW e \in Event, log' = Append(log, e),
           NEW n \in 0..Len(log)
    PROVE  /\ \A d : StatusAt(d, n)' = StatusAt(d, n)
           /\ \A coll, u : LastWord(n, coll, u)' = LastWord(n, coll, u)
           /\ \A coll : TableAt(n, coll)' = TableAt(n, coll)
  <1>1. n \in Nat /\ \A i \in 1..n : log'[i] = log[i]
    BY LogKept
  <1>2. ASSUME NEW d PROVE StatusAt(d, n)' = StatusAt(d, n)
    <2>1. Changes(d, n)' = Changes(d, n)
      BY <1>1 DEF Changes
    <2>2. CASE Changes(d, n) = {}
      BY <2>1, <2>2, StatusIs
    <2>3. CASE Changes(d, n) # {}
      <3>1. LastOf(Changes(d, n)) \in 1..n
        BY <1>1, <2>3, HasLast DEF Changes
      <3>2. QED
        BY <1>1, <2>1, <2>3, <3>1, StatusIs
    <2>4. QED
      BY <2>2, <2>3
  <1>3. ASSUME NEW coll, NEW u
        PROVE  LastWord(n, coll, u)' = LastWord(n, coll, u)
    BY <1>1 DEF LastWord, Says, Purges, Writes
  <1>4. ASSUME NEW coll PROVE TableAt(n, coll)' = TableAt(n, coll)
    <2>1. \A u : LastWord(n, coll, u) \subseteq 1..n
      BY DEF LastWord
    <2>2. \A u : \A i \in LastWord(n, coll, u) : log'[i] = log[i]
      BY <1>1, <2>1
    <2>3. \A u : HasRow(n, coll, u)' <=> HasRow(n, coll, u)
      BY <1>3, <2>2 DEF HasRow
    <2>4. \A u : HasRow(n, coll, u) =>
             log'[WordOf(n, coll, u)].rec = log[WordOf(n, coll, u)].rec
      BY <2>2 DEF WordOf, HasRow
    <2>5. \A u : WordOf(n, coll, u)' = WordOf(n, coll, u)
      BY <1>3 DEF WordOf
    <2>6. {v \in Uri(coll) : HasRow(n, coll, v)'} = {v \in Uri(coll) : HasRow(n, coll, v)}
      BY <2>3
    <2>7. \A u \in {v \in Uri(coll) : HasRow(n, coll, v)} :
             log'[WordOf(n, coll, u)'].rec = log[WordOf(n, coll, u)].rec
      BY <2>4, <2>5
    <2>8. QED
      BY <2>6, <2>7, TableIs
  <1>5. QED
    BY <1>2, <1>3, <1>4

\* The row after an event is the one it says, if it says one.
LEMMA RowNext ==
    ASSUME log \in Seq(Event), NEW n \in 0..Len(log), n < Len(log),
           NEW coll \in Collection, NEW u \in Uri(coll)
    PROVE  RowOr(TableAt(n + 1, coll), u) =
              IF ~Says(log[n + 1], coll, u) THEN RowOr(TableAt(n, coll), u)
              ELSE IF log[n + 1].coll = coll THEN log[n + 1].rec ELSE Deleted
  <1>0. n \in Nat /\ Len(log) \in Nat
    OBVIOUS
  <1>1. CASE Says(log[n + 1], coll, u)
    <2>1. LastWord(n + 1, coll, u) = {n + 1}
      BY <1>0, <1>1 DEF LastWord
    <2>2. WordOf(n + 1, coll, u) = n + 1
      BY <2>1 DEF WordOf
    <2>3. HasRow(n + 1, coll, u) <=> log[n + 1].coll = coll /\ log[n + 1].rec # Deleted
      BY <2>1 DEF HasRow
    <2>4. QED
      BY <1>1, <2>2, <2>3, TableIs DEF RowOr
  <1>2. CASE ~Says(log[n + 1], coll, u)
    <2>1. LastWord(n + 1, coll, u) = LastWord(n, coll, u)
      BY <1>0, <1>2 DEF LastWord
    <2>2. WordOf(n + 1, coll, u) = WordOf(n, coll, u)
      BY <2>1 DEF WordOf
    <2>3. HasRow(n + 1, coll, u) <=> HasRow(n, coll, u)
      BY <2>1 DEF HasRow
    <2>4. QED
      BY <1>2, <2>2, <2>3, TableIs DEF RowOr
  <1>3. QED
    BY <1>1, <1>2

\* A step that leaves the log alone changes nothing of what it says.
LEMMA LogStays ==
    ASSUME UNCHANGED log
    PROVE  /\ \A d, n : StatusAt(d, n)' = StatusAt(d, n)
           /\ \A n, coll : TableAt(n, coll)' = TableAt(n, coll)
  <1>1. \A d, n : Changes(d, n)' = Changes(d, n)
    BY DEF Changes
  <1>2. \A n, coll, u : LastWord(n, coll, u)' = LastWord(n, coll, u)
    BY DEF LastWord, Says, Purges, Writes
  <1>3. \A n, coll, u : /\ HasRow(n, coll, u)' <=> HasRow(n, coll, u)
                       /\ WordOf(n, coll, u)' = WordOf(n, coll, u)
    BY <1>2 DEF HasRow, WordOf
  <1>4. ASSUME NEW n, NEW coll PROVE TableAt(n, coll)' = TableAt(n, coll)
    <2>1. {v \in Uri(coll) : HasRow(n, coll, v)'} = {v \in Uri(coll) : HasRow(n, coll, v)}
      BY <1>3
    <2>2. QED
      BY <1>3, <2>1, TableIs
  <1>5. QED
    BY <1>1, <1>4, StatusIs

-----------------------------------------------------------------------------
(* What handling an event does to the index. *)

\* Putting or deleting a record changes its row, and no other.
LEMMA PutEffect ==
    ASSUME TypeOK, NEW coll \in Collection, NEW u \in Uri(coll),
           NEW rec \in Row(coll) \cup {Invalid}, PutRecord(coll, u, rec),
           NEW coll2 \in Collection, NEW v \in Uri(coll2)
    PROVE  RowOr(Indexed(coll2)', v) =
              IF coll2 = coll /\ v = u /\ rec # Invalid THEN rec
              ELSE RowOr(Indexed(coll2), v)
  <1> USE DEF Indexed, RowOr, Put, index, records, previews
  <1>1. CASE rec = Invalid
    <2>1. UNCHANGED <<sheets, ratings, favorites>>
      BY <1>1, NoRecordAssumption
         DEF PutRecord, Collection, Row
    <2>2. QED
      BY <1>1, <2>1
  <1>2. CASE rec # Invalid
    BY <1>2 DEF PutRecord, UpsertSheet, UpsertRating, UpsertFavorite, Collection
  <1>3. QED
    BY <1>1, <1>2

LEMMA DeleteEffect ==
    ASSUME TypeOK, NEW coll \in Collection, NEW u \in Uri(coll),
           DeleteRecord(coll, u),
           NEW coll2 \in Collection, NEW v \in Uri(coll2)
    PROVE  RowOr(Indexed(coll2)', v) =
              IF coll2 = coll /\ v = u THEN Deleted ELSE RowOr(Indexed(coll2), v)
  BY DEF Indexed, RowOr, Drop, index, records, previews, DeleteRecord, DeleteSheet,
         DeleteRating, DeleteFavorite, Collection

LEMMA PurgeEffect ==
    ASSUME TypeOK, NEW d \in Did, PurgeAccount(d),
           NEW coll \in Collection, NEW u \in Uri(coll)
    PROVE  RowOr(Indexed(coll)', u) =
              IF Owner(u) = d THEN Deleted ELSE RowOr(Indexed(coll), u)
  BY DEF Indexed, RowOr, Drop, RowsOf, PurgeAccount, Collection

\* Handling an event leaves a row as the event says, if it says anything.
LEMMA HandleRow ==
    ASSUME TypeOK, NEW e \in Event, Handle(e),
           NEW coll \in Collection, NEW u \in Uri(coll)
    PROVE  RowOr(Indexed(coll)', u) =
              IF ~Says(e, coll, u) THEN RowOr(Indexed(coll), u)
              ELSE IF e.coll = coll THEN e.rec ELSE Deleted
  <1>1. CASE e.coll \in Collection /\ e.rec = Deleted
    <2>1. e.uri \in Uri(e.coll) /\ e.coll # "account" /\ DeleteRecord(e.coll, e.uri)
      BY <1>1, EventType DEF Handle
    <2>2. QED
      BY <1>1, <2>1, DeleteEffect, NoRecordAssumption DEF Says, Writes, Purges
  <1>2. CASE e.coll \in Collection /\ e.rec # Deleted
    <2>1. /\ e.uri \in Uri(e.coll) /\ e.coll # "account"
          /\ e.rec \in Row(e.coll) \cup {Invalid} /\ PutRecord(e.coll, e.uri, e.rec)
      BY <1>2, EventType DEF Handle
    <2>2. QED
      BY <1>2, <2>1, PutEffect DEF Says, Writes, Purges
  <1>3. CASE e.coll = "account" /\ e.status = "deleted"
    <2>1. e.did \in Did /\ PurgeAccount(e.did)
      BY <1>3, EventType DEF Handle
    <2>2. QED
      BY <1>3, <2>1, PurgeEffect DEF Says, Writes, Purges, Collection
  <1>4. CASE e.coll = "account" /\ e.status # "deleted"
    <2>1. UNCHANGED <<sheets, ratings, favorites>>
      BY <1>4, EventType DEF Handle, SetHidden
    <2>2. QED
      BY <1>4, <2>1 DEF Says, Writes, Purges, Collection, Indexed
  <1>5. QED
    BY <1>1, <1>2, <1>3, <1>4, EventType


\* Handling an event sets an account's hidden column as the event says; a
\* profile is new only with a sheet of its account.
LEMMA HandleProfile ==
    ASSUME TypeOK, NEW e \in Event, Handle(e), NEW d \in DOMAIN profiles'
    PROVE  \/ e.coll = "account" /\ e.did = d /\ (profiles'[d] <=> e.status = "inactive")
           \/ /\ ~(e.coll = "account" /\ e.did = d)
              /\ \/ d \in DOMAIN profiles /\ profiles'[d] = profiles[d]
                 \/ /\ d \notin DOMAIN profiles /\ ~profiles'[d]
                    /\ e.coll \in Collection /\ Owner(e.uri) = d
  <1> USE DEF index, records, previews
  <1>1. CASE e.coll \in Collection /\ e.rec = Deleted
    <2>1. DeleteRecord(e.coll, e.uri) /\ e.coll # "account"
      BY <1>1, EventType DEF Handle
    <2>2. profiles' = profiles
      BY <2>1 DEF DeleteRecord, DeleteSheet, DeleteRating, DeleteFavorite
    <2>3. QED
      BY <2>1, <2>2
  <1>2. CASE e.coll \in Collection /\ e.rec # Deleted
    <2>1. PutRecord(e.coll, e.uri, e.rec) /\ e.coll # "account"
      BY <1>2, EventType DEF Handle
    <2>2. profiles' \in {profiles, WithProfile(Owner(e.uri))}
      BY <2>1 DEF PutRecord, UpsertSheet, UpsertRating, UpsertFavorite
    <2>3. CASE d \in DOMAIN profiles
      <3>1. profiles'[d] = profiles[d]
        BY <2>2, <2>3 DEF WithProfile, Put
      <3>2. QED
        BY <2>1, <2>3, <3>1
    <2>4. CASE d \notin DOMAIN profiles
      <3>1. profiles' = Put(profiles, Owner(e.uri), FALSE)
        BY <2>2, <2>4 DEF WithProfile
      <3>2. Owner(e.uri) = d
        BY <2>4, <3>1 DEF Put
      <3>3. ~profiles'[d]
        BY <3>1, <3>2, Zenon DEF Put
      <3>4. QED
        BY <1>2, <2>1, <2>4, <3>2, <3>3
    <2>5. QED
      BY <2>3, <2>4
  <1>3. CASE e.coll = "account" /\ e.status = "deleted"
    <2>1. PurgeAccount(e.did)
      BY <1>3, EventType DEF Handle
    <2>2. QED
      BY <1>3, <2>1 DEF PurgeAccount, Drop
  <1>4. CASE e.coll = "account" /\ e.status # "deleted"
    <2>1. CASE e.status = "inactive"
      BY <1>4, <2>1, EventType DEF Handle, SetHidden
    <2>2. CASE e.status = "active"
      BY <1>4, <2>2, EventType DEF Handle, SetHidden
    <2>3. QED
      BY <1>4, <2>1, <2>2, EventType
  <1>5. QED
    BY <1>1, <1>2, <1>3, <1>4, EventType

\* Every event is handled by operations of the index.
LEMMA PutIsNext ==
    ASSUME NEW coll \in Collection, NEW u \in Uri(coll),
           NEW rec \in Row(coll) \cup {Invalid}, PutRecord(coll, u, rec)
    PROVE  [Next]_vars
  <1>1. CASE UNCHANGED index
    BY <1>1 DEF index, records, previews, vars
  <1>2. CASE coll = "sheet" /\ rec \in SheetRow /\ UpsertSheet(u, rec)
    BY <1>2 DEF Next, Uri
  <1>3. CASE coll = "rating" /\ rec \in RatingRow /\ UpsertRating(u, rec)
    BY <1>3 DEF Next, Uri
  <1>4. CASE coll = "favorite" /\ rec \in FavoriteRow /\ UpsertFavorite(u, rec)
    BY <1>4 DEF Next, Uri
  <1>5. QED
    BY <1>1, <1>2, <1>3, <1>4 DEF PutRecord

LEMMA DeleteIsNext ==
    ASSUME NEW coll \in Collection, NEW u \in Uri(coll), DeleteRecord(coll, u)
    PROVE  [Next]_vars
  BY DEF DeleteRecord, Next, Uri

LEMMA HandleIsNext ==
    ASSUME NEW e \in Event, Handle(e)
    PROVE  [Next]_vars
  <1>1. CASE e.coll \in Collection /\ e.rec = Deleted
    BY <1>1, EventType, DeleteIsNext DEF Handle
  <1>2. CASE e.coll \in Collection /\ e.rec # Deleted
    <2>1. /\ e.uri \in Uri(e.coll) /\ e.rec \in Row(e.coll) \cup {Invalid}
          /\ PutRecord(e.coll, e.uri, e.rec)
      BY <1>2, EventType DEF Handle
    <2>2. QED
      BY <1>2, <2>1, PutIsNext
  <1>3. CASE e.coll = "account"
    <2>1. e.did \in Did
      BY <1>3, EventType
    <2>2. \/ PurgeAccount(e.did)
          \/ \E hidden \in BOOLEAN : SetHidden(e.did, hidden)
      BY <1>3, EventType DEF Handle
    <2>3. QED
      BY <2>1, <2>2 DEF Next
  <1>4. QED
    BY <1>1, <1>2, <1>3, EventType

-----------------------------------------------------------------------------
(* The reader and its log. *)

\* Only an account that is active commits.
LogOK ==
    /\ log \in Seq(Event)
    /\ \A i \in 1..Len(log) :
          \A d \in Did : log[i].coll \in Collection /\ Owner(log[i].uri) = d
                           => StatusAt(d, i) = "active"

StreamInv == LogOK /\ StreamTypeOK /\ AuthorsKnown

LEMMA StreamStart == FirehoseInit => StreamInv /\ Init
  <1> SUFFICES ASSUME FirehoseInit PROVE StreamInv
    BY DEF FirehoseInit
  <1>1. TypeOK /\ AuthorsKnown
    BY DEF FirehoseInit, Init, TypeOK, AuthorsKnown, IsTable, Empty
  <1>2. LogOK
    BY DEF FirehoseInit, LogOK
  <1>3. Len(log) = 0 /\ 0 \in 0..Len(log) /\ 0 <= MaxLog /\ 0 \in 0..MaxStops
    BY BoundsAssumption DEF FirehoseInit
  <1>4. QED
    BY <1>1, <1>2, <1>3 DEF FirehoseInit, StreamInv, StreamTypeOK

LEMMA NetworkLog ==
    ASSUME LogOK, Network
    PROVE  /\ LogOK' /\ Len(log) < MaxLog /\ UNCHANGED <<index, stream>>
           /\ \E e \in Event : log' = Append(log, e)
  <1>1. PICK e \in Event : /\ log' = Append(log, e) /\ Len(log) < MaxLog
                           /\ UNCHANGED <<index, stream>>
                           /\ \A d \in Did : e.coll \in Collection /\ Owner(e.uri) = d
                                  => StatusAt(d, Len(log)) = "active"
    <2>1. CASE \E e \in Commits : Publish(e)
      BY <2>1 DEF Publish, MayCommit, Event
    <2>2. ASSUME NEW d \in Did, NEW status \in {"active", "inactive", "deleted"},
                 ChangeAccount(d, status)
          PROVE  \E e \in Event : /\ log' = Append(log, e) /\ Len(log) < MaxLog
                                  /\ UNCHANGED <<index, stream>>
                                  /\ e.coll \notin Collection
      BY <2>2 DEF ChangeAccount, Event, Account, Collection
    <2>3. QED
      BY <2>1, <2>2 DEF Network
  <1>2. /\ log' \in Seq(Event) /\ Len(log') = Len(log) + 1 /\ log'[Len(log) + 1] = e
        /\ \A i \in 1..Len(log) : log'[i] = log[i]
    BY <1>1, LogKept DEF LogOK
  <1>3. ASSUME NEW i \in 1..Len(log'), NEW d \in Did,
               log'[i].coll \in Collection, Owner(log'[i].uri) = d
        PROVE  StatusAt(d, i)' = "active"
    <2>0. Len(log) \in Nat /\ i \in 1..(Len(log) + 1)
      BY <1>2 DEF LogOK
    <2>1. CASE i \in 1..Len(log)
      BY <1>1, <1>2, <1>3, <2>1, PastKept DEF LogOK
    <2>2. CASE i = Len(log) + 1
      <3>1. PICK n \in 0..Len(log) : n = Len(log)
        BY <2>0
      <3>2. StatusAt(d, n)' = "active"
        BY <1>1, <1>2, <1>3, <2>2, <3>1, PastKept DEF LogOK
      <3>3. e.coll # "account"
        BY <1>2, <1>3, <2>2 DEF Collection
      <3>4. Changes(d, i)' = Changes(d, n)'
        BY <1>2, <2>0, <2>2, <3>1, <3>3 DEF Changes
      <3>5. QED
        BY <3>2, <3>4, StatusIs
    <2>3. QED
      BY <2>0, <2>1, <2>2
  <1>4. QED
    BY <1>1, <1>2, <1>3 DEF LogOK


\* A stop leaves the index and what is counted of it alone.
LEMMA StopKeeps ==
    ASSUME StreamInv, FailEvent \/ Crash \/ Close
    PROVE  /\ Stop /\ UNCHANGED <<index, log, handled>>
           /\ saved' \in 0..Len(log) /\ failed' \subseteq 1..Len(log)
           /\ stops' \in 0..MaxStops
  <1> USE DEF StreamInv, StreamTypeOK, LogOK
  <1>1. Stop /\ UNCHANGED <<index, log, handled>> /\ stops' \in 0..MaxStops
    BY BoundsAssumption DEF FailEvent, Crash, Close, Stop
  <1>2. saved' \in 0..Len(log)
    BY DEF FailEvent, Crash, Close
  <1>3. failed' \subseteq 1..Len(log)
    <2>1. CASE FailEvent
      <3>1. pos + 1 \in 1..Len(log)
        BY <2>1 DEF FailEvent
      <3>2. QED
        BY <2>1, <3>1 DEF FailEvent
    <2>2. QED
      BY <2>1 DEF Crash, Close
  <1>4. QED
    BY <1>1, <1>2, <1>3

\* The reader changes the index by operations of the index only.
LEMMA ConsumeIsNext ==
    ASSUME LogOK, StreamTypeOK, Consume
    PROVE  [Next]_vars
  <1>1. CASE HandleEvent
    <2>1. log[pos + 1] \in Event
      BY <1>1 DEF HandleEvent, LogOK, StreamTypeOK
    <2>2. QED
      BY <1>1, <2>1, HandleIsNext DEF HandleEvent
  <1>2. CASE ~HandleEvent
    <2>1. UNCHANGED index
      BY <1>2 DEF Consume, Connect, EndBatch, FailEvent, Crash, Close, Stop
    <2>2. QED
      BY <2>1 DEF index, records, previews, vars
  <1>3. QED
    BY <1>1, <1>2

\* The types hold, whoever else writes the index.
LEMMA StreamStep ==
    ASSUME StreamInv,
           Network \/ Consume \/ ([Next]_vars /\ UNCHANGED <<log, stream>>)
    PROVE  StreamInv'
  <1> USE DEF StreamInv
  <1>1. TypeOK' /\ AuthorsKnown'
    <2>1. [Next]_vars
      BY ConsumeIsNext, NetworkLog DEF index, records, previews, vars
    <2>2. QED
      BY <2>1, TypeStep, AuthorsStep DEF StreamTypeOK
  <1>2. CASE Network
    <2>1. PICK e \in Event : log' = Append(log, e)
      BY <1>2, NetworkLog
    <2>2. Len(log) \in Nat /\ Len(log') = Len(log) + 1
      BY <2>1, LogKept DEF LogOK
    <2>3. LogOK' /\ Len(log) < MaxLog /\ UNCHANGED stream
      BY <1>2, NetworkLog
    <2>4. QED
      BY <1>1, <2>2, <2>3, BoundsAssumption DEF StreamTypeOK, stream
  <1>3. CASE UNCHANGED log
    <2>1. LogOK'
      BY <1>3, LogStays DEF LogOK
    <2>2. CASE UNCHANGED stream
      BY <1>1, <1>3, <2>1, <2>2 DEF StreamTypeOK, stream
    <2>3. CASE FailEvent \/ Crash \/ Close
      <3>1. /\ handled' = handled /\ following' = FALSE /\ pos' = 0 /\ cursor' = 0
            /\ saved' \in 0..Len(log) /\ failed' \subseteq 1..Len(log)
            /\ stops' \in 0..MaxStops
        BY <2>3, StopKeeps DEF Stop
      <3>2. Len(log) \in Nat /\ 0 \in 0..Len(log)
        BY DEF LogOK
      <3>3. QED
        BY <1>1, <1>3, <2>1, <3>1, <3>2 DEF StreamTypeOK
    <2>4. CASE Connect
      BY <1>1, <1>3, <2>1, <2>4 DEF StreamTypeOK, Connect, LogOK
    <2>5. CASE HandleEvent
      BY <1>1, <1>3, <2>1, <2>5 DEF StreamTypeOK, HandleEvent, LogOK
    <2>6. CASE EndBatch
      BY <1>1, <1>3, <2>1, <2>6 DEF StreamTypeOK, EndBatch, LogOK
    <2>7. CASE Network
      BY <1>2, <2>7
    <2>8. QED
      BY <2>2, <2>3, <2>4, <2>5, <2>6, <2>7 DEF Consume
  <1>4. QED
    BY <1>2, <1>3 DEF Consume, Connect, HandleEvent, EndBatch, FailEvent, Crash, Close, Stop

(* Whatever the reader does, and however often it does it again, it does   *)
(* to the index what Index allows: every theorem about Index holds of the  *)
(* index the firehose keeps (jetstream.go, indexer.go).                    *)
THEOREM FirehoseImplementsIndex == FirehoseSpec => Spec
  <1>1. FirehoseInit => StreamInv /\ Init
    BY StreamStart
  <1>2. StreamInv /\ [FirehoseNext]_firehoseVars => StreamInv' /\ [Next]_vars
    <2> SUFFICES ASSUME StreamInv, [FirehoseNext]_firehoseVars
                 PROVE  StreamInv' /\ [Next]_vars
      OBVIOUS
    <2>1. Network \/ Consume \/ UNCHANGED firehoseVars
      BY DEF FirehoseNext
    <2>2. [Next]_vars
      BY <2>1, ConsumeIsNext, NetworkLog
         DEF StreamInv, firehoseVars, index, records, previews, vars
    <2>3. QED
      BY <2>1, <2>2, StreamStep DEF firehoseVars
  <1>3. QED
    BY <1>1, <1>2, PTL DEF FirehoseSpec, Spec


-----------------------------------------------------------------------------
(* What the reader has handled, with an archive to go back to. *)

\* What is handled is a beginning of the log, up to the saved cursor and
\* what this connection has handled at least.
ReaderInv ==
    /\ CanReplay
    /\ following => saved <= cursor /\ cursor <= pos
    /\ ~following => pos = 0 /\ cursor = 0
    /\ 1..pos \subseteq handled /\ 1..saved \subseteq handled
    /\ \A j \in handled : 1..j \subseteq handled
    /\ handled \cap failed = {}

LEMMA ReaderStart == FirehoseInit /\ CanReplay => ReaderInv
  BY DEF FirehoseInit, ReaderInv

LEMMA ReaderStep ==
    ASSUME StreamInv, ReaderInv, Consume \/ UNCHANGED stream
    PROVE  ReaderInv'
  <1>0. /\ pos \in Nat /\ cursor \in Nat /\ saved \in Nat /\ following \in BOOLEAN
        /\ handled \subseteq Nat
    BY DEF StreamInv, StreamTypeOK, LogOK
  <1> USE DEF ReaderInv
  <1>1. CASE UNCHANGED stream
    BY <1>1 DEF stream
  <1>2. CASE Connect
    BY <1>0, <1>2 DEF Connect
  <1>3. CASE HandleEvent
    <2>1. /\ pos' = pos + 1 /\ handled' = handled \cup {pos + 1}
          /\ failed' = failed \ {pos + 1}
          /\ following' = following /\ following /\ cursor' = cursor /\ saved' = saved
      BY <1>3 DEF HandleEvent
    <2>2. 1..(pos + 1) \subseteq handled'
      BY <1>0, <2>1
    <2>3. \A j \in handled' : 1..j \subseteq handled'
      BY <2>1, <2>2
    <2>4. QED
      BY <1>0, <2>1, <2>2, <2>3
  <1>4. CASE EndBatch
    BY <1>0, <1>4 DEF EndBatch
  <1>5. CASE FailEvent
    BY <1>0, <1>5 DEF FailEvent, Stop
  <1>6. CASE Crash
    BY <1>0, <1>6 DEF Crash, Stop
  <1>7. CASE Close
    <2>1. saved' \in {saved, cursor} /\ 1..cursor \subseteq 1..pos
      BY <1>0, <1>7 DEF Close, Stop
    <2>2. QED
      BY <1>0, <1>7, <2>1 DEF Close, Stop
  <1>8. QED
    BY <1>1, <1>2, <1>3, <1>4, <1>5, <1>6, <1>7 DEF Consume

LEMMA FirehoseStep ==
    ASSUME StreamInv, ReaderInv, [FirehoseNext]_firehoseVars
    PROVE  StreamInv' /\ ReaderInv'
  <1>1. CASE Network
    BY <1>1, StreamStep, NetworkLog, ReaderStep DEF StreamInv
  <1>2. CASE Consume
    BY <1>2, StreamStep, ReaderStep
  <1>3. CASE UNCHANGED firehoseVars
    BY <1>3, StreamStep, ReaderStep
       DEF firehoseVars, index, records, previews, vars
  <1>4. QED
    BY <1>1, <1>2, <1>3 DEF FirehoseNext

(* "Stop and resume from the saved cursor rather than skip" (jetstream.go):*)
(* with an archive, no event up to the saved cursor is ever lost, and none *)
(* is handled before one that has only ever failed.                        *)
THEOREM NothingIsSkipped == CanReplay /\ FirehoseSpec => []NoneSkipped
  <1>1. FirehoseInit /\ CanReplay => StreamInv /\ ReaderInv
    BY StreamStart, ReaderStart
  <1>2. StreamInv /\ ReaderInv /\ [FirehoseNext]_firehoseVars => StreamInv' /\ ReaderInv'
    BY FirehoseStep
  <1>3. StreamInv /\ ReaderInv => NoneSkipped
    <2> SUFFICES ASSUME StreamInv, ReaderInv, NEW i \in failed, NEW j \in handled
                 PROVE  j < i
      BY DEF NoneSkipped, ReaderInv
    <2>1. i \in Nat \ {0} /\ j \in Nat
      BY DEF StreamInv, StreamTypeOK, LogOK
    <2>2. i \notin 1..j
      BY DEF ReaderInv
    <2>3. QED
      BY <2>1, <2>2
  <1>4. QED
    BY <1>1, <1>2, <1>3, PTL DEF FirehoseSpec


-----------------------------------------------------------------------------
(* Replays.  Between a crash and the event it had reached, the index is of *)
(* no one moment: some rows are as far as the reader ever came, others     *)
(* have been taken back to what an earlier event said.  But each row by    *)
(* itself is what it was after some event that is neither behind the       *)
(* reader nor ahead of all it has handled.                                 *)

Ahead(n) == pos <= n /\ saved <= n /\ 1..n \subseteq handled

RowFollows(coll, u) ==
    \E n \in 0..Len(log) :
        Ahead(n) /\ RowOr(Indexed(coll), u) = RowOr(TableAt(n, coll), u)
ProfileFollows(d) ==
    \E n \in 0..Len(log) :
        Ahead(n) /\ (profiles[d] <=> StatusAt(d, n) = "inactive")

FollowInv ==
    /\ \A coll \in Collection : \A u \in Uri(coll) : RowFollows(coll, u)
    /\ \A d \in DOMAIN profiles : ProfileFollows(d)

LEMMA FollowStart == FirehoseInit => FollowInv
  <1> SUFFICES ASSUME FirehoseInit PROVE FollowInv
    OBVIOUS
  <1>0. 0 \in 0..Len(log) /\ Ahead(0)
    BY DEF FirehoseInit, Ahead
  <1>1. ASSUME NEW coll \in Collection, NEW u \in Uri(coll)
        PROVE  RowFollows(coll, u)
    <2>1. LastWord(0, coll, u) = {}
      BY DEF LastWord
    <2>2. RowOr(TableAt(0, coll), u) = Deleted
      BY <2>1, TableIs DEF HasRow, RowOr
    <2>3. RowOr(Indexed(coll), u) = Deleted
      BY DEF FirehoseInit, Init, Empty, Indexed, RowOr, Collection
    <2>4. QED
      BY <1>0, <2>2, <2>3 DEF RowFollows
  <1>2. DOMAIN profiles = {}
    BY DEF FirehoseInit, Init, Empty
  <1>3. QED
    BY <1>1, <1>2 DEF FollowInv

\* What was ahead stays ahead, unless the reader comes to it.
LEMMA AheadStep ==
    ASSUME StreamInv, ReaderInv, Consume, NEW n \in 0..Len(log), Ahead(n)
    PROVE  IF HandleEvent /\ n = pos THEN n + 1 \in 0..Len(log) /\ Ahead(n + 1)'
                                    ELSE Ahead(n)'
  <1>0. /\ pos \in Nat /\ cursor \in Nat /\ saved \in Nat /\ n \in Nat /\ Len(log) \in Nat
        /\ pos <= n /\ saved <= n /\ 1..n \subseteq handled /\ following \in BOOLEAN
    BY DEF StreamInv, StreamTypeOK, LogOK, Ahead
  <1>1. CASE HandleEvent
    <2>1. /\ pos' = pos + 1 /\ pos < Len(log) /\ saved' = saved
          /\ handled' = handled \cup {pos + 1}
      BY <1>1 DEF HandleEvent
    <2>2. CASE n = pos
      BY <1>0, <1>1, <2>1, <2>2 DEF Ahead
    <2>3. CASE n # pos
      BY <1>0, <1>1, <2>1, <2>3 DEF Ahead
    <2>4. QED
      BY <2>2, <2>3
  <1>2. CASE Connect
    BY <1>0, <1>2 DEF Connect, Ahead, ReaderInv, HandleEvent
  <1>3. CASE EndBatch
    BY <1>0, <1>3 DEF EndBatch, Ahead, HandleEvent
  <1>4. CASE FailEvent \/ Crash
    BY <1>0, <1>4 DEF FailEvent, Crash, Stop, Ahead, HandleEvent
  <1>5. CASE Close
    <2>1. following /\ ~following' /\ pos' = 0 /\ handled' = handled
      BY <1>5 DEF Close, Stop
    <2>2. saved' \in {saved, cursor} /\ cursor <= pos
      BY <1>5, <2>1 DEF Close, ReaderInv
    <2>3. Ahead(n)'
      BY <1>0, <2>1, <2>2 DEF Ahead
    <2>4. ~HandleEvent
      BY <2>1 DEF HandleEvent
    <2>5. QED
      BY <2>3, <2>4
  <1>6. QED
    BY <1>1, <1>2, <1>3, <1>4, <1>5 DEF Consume

\* The event the reader comes to is ahead of it.
LEMMA NextIsAhead ==
    ASSUME StreamInv, ReaderInv, HandleEvent
    PROVE  /\ \E n \in 0..Len(log) : n = pos + 1 /\ Ahead(n)'
           /\ log[pos + 1] \in Event /\ Handle(log[pos + 1])
           /\ pos \in 0..Len(log) /\ pos < Len(log)
  <1>1. /\ pos \in Nat /\ saved \in Nat /\ cursor \in Nat /\ Len(log) \in Nat /\ pos < Len(log)
        /\ following
    BY DEF HandleEvent, StreamInv, StreamTypeOK, LogOK
  <1>2. pos' = pos + 1 /\ saved' = saved /\ handled' = handled \cup {pos + 1}
    BY DEF HandleEvent
  <1>3. log[pos + 1] \in Event /\ Handle(log[pos + 1])
    BY <1>1 DEF HandleEvent, StreamInv, LogOK
  <1>4. PICK n \in 0..Len(log) : n = pos + 1
    BY <1>1
  <1>5. Ahead(n)'
    BY <1>1, <1>2, <1>4 DEF ReaderInv, Ahead
  <1>6. QED
    BY <1>1, <1>3, <1>4, <1>5


LEMMA FollowStep ==
    ASSUME StreamInv, ReaderInv, FollowInv, [FirehoseNext]_firehoseVars
    PROVE  FollowInv'
  <1> USE DEF StreamInv, RowOr
  <1>1. CASE Network
    <2>1. PICK e \in Event : log' = Append(log, e)
      BY <1>1, NetworkLog
    <2>2. UNCHANGED <<index, stream>>
      BY <1>1, NetworkLog
    <2>3. \A n \in 0..Len(log) : n \in 0..Len(log') /\ (Ahead(n) => Ahead(n)')
      BY <2>1, <2>2, LogKept DEF LogOK, Ahead, stream
    <2>4. ASSUME NEW coll \in Collection, NEW u \in Uri(coll)
          PROVE  RowFollows(coll, u)'
      <3>1. PICK n \in 0..Len(log) :
                Ahead(n) /\ RowOr(Indexed(coll), u) = RowOr(TableAt(n, coll), u)
        BY DEF FollowInv, RowFollows
      <3>2. TableAt(n, coll)' = TableAt(n, coll)
        BY <2>1, PastKept DEF LogOK
      <3>3. Indexed(coll)' = Indexed(coll)
        BY <2>2 DEF Indexed, index, records
      <3>4. QED
        BY <2>3, <3>1, <3>2, <3>3 DEF RowFollows
    <2>5. ASSUME NEW d \in DOMAIN profiles'
          PROVE  ProfileFollows(d)'
      <3>1. profiles' = profiles
        BY <2>2 DEF index, records
      <3>2. PICK n \in 0..Len(log) : Ahead(n) /\ (profiles[d] <=> StatusAt(d, n) = "inactive")
        BY <3>1 DEF FollowInv, ProfileFollows
      <3>3. StatusAt(d, n)' = StatusAt(d, n)
        BY <2>1, PastKept DEF LogOK
      <3>4. QED
        BY <2>3, <3>1, <3>2, <3>3 DEF ProfileFollows
    <2>6. QED
      BY <2>4, <2>5 DEF FollowInv
  <1>2. CASE HandleEvent
    <2> DEFINE e == log[pos + 1]
    <2>1. /\ UNCHANGED log /\ e \in Event /\ Handle(e) /\ TypeOK
          /\ pos \in 0..Len(log) /\ pos < Len(log) /\ log \in Seq(Event)
      BY <1>2, NextIsAhead DEF HandleEvent, StreamTypeOK, LogOK
    <2>2. PICK next \in 0..Len(log) : next = pos + 1 /\ Ahead(next)'
      BY <1>2, NextIsAhead
    <2>3. ASSUME NEW coll \in Collection, NEW u \in Uri(coll)
          PROVE  RowFollows(coll, u)'
      <3>1. PICK n \in 0..Len(log) :
                Ahead(n) /\ RowOr(Indexed(coll), u) = RowOr(TableAt(n, coll), u)
        BY DEF FollowInv, RowFollows
      <3>2. CASE Says(e, coll, u)
        <4>1. RowOr(TableAt(next, coll), u) = RowOr(Indexed(coll)', u)
          BY <2>1, <2>2, <3>2, RowNext, HandleRow
        <4>2. QED
          BY <2>1, <2>2, <4>1, LogStays DEF RowFollows
      <3>3. CASE ~Says(e, coll, u) /\ n = pos
        <4>1. RowOr(TableAt(next, coll), u) = RowOr(Indexed(coll)', u)
          BY <2>1, <2>2, <3>1, <3>3, RowNext, HandleRow
        <4>2. QED
          BY <2>1, <2>2, <4>1, LogStays DEF RowFollows
      <3>4. CASE ~Says(e, coll, u) /\ n # pos
        <4>1. RowOr(Indexed(coll)', u) = RowOr(Indexed(coll), u)
          BY <2>1, <3>4, HandleRow
        <4>2. Ahead(n)'
          BY <1>2, <3>1, <3>4, AheadStep DEF Consume
        <4>3. QED
          BY <2>1, <3>1, <4>1, <4>2, LogStays DEF RowFollows
      <3>5. QED
        BY <3>2, <3>3, <3>4
    <2>4. ASSUME NEW d \in DOMAIN profiles'
          PROVE  ProfileFollows(d)'
      <3>0. d \in Did
        BY <1>2, StreamStep DEF Consume, StreamTypeOK, TypeOK, IsTable
      <3>1. CASE e.coll = "account" /\ e.did = d
        <4>1. profiles'[d] <=> StatusAt(d, next) = "inactive"
          BY <2>1, <2>2, <3>1, StatusNext, HandleProfile
        <4>2. QED
          BY <2>1, <2>2, <4>1, LogStays DEF ProfileFollows
      <3>2. CASE ~(e.coll = "account" /\ e.did = d) /\ d \in DOMAIN profiles
        <4>0. profiles'[d] = profiles[d]
          BY <2>1, <3>2, HandleProfile
        <4>1. PICK n \in 0..Len(log) : Ahead(n) /\ (profiles[d] <=> StatusAt(d, n) = "inactive")
          BY <3>2 DEF FollowInv, ProfileFollows
        <4>2. CASE n = pos
          <5>1. StatusAt(d, next) = StatusAt(d, n)
            BY <2>1, <2>2, <3>2, <4>2, StatusNext
          <5>2. QED
            BY <2>1, <2>2, <4>0, <4>1, <5>1, LogStays DEF ProfileFollows
        <4>3. CASE n # pos
          <5>1. Ahead(n)'
            BY <1>2, <4>1, <4>3, AheadStep DEF Consume
          <5>2. QED
            BY <2>1, <4>0, <4>1, <5>1, LogStays DEF ProfileFollows
        <4>4. QED
          BY <4>2, <4>3
      <3>3. CASE ~(e.coll = "account" /\ e.did = d) /\ d \notin DOMAIN profiles
        <4>1. e.coll \in Collection /\ Owner(e.uri) = d /\ ~profiles'[d]
          BY <2>1, <3>3, HandleProfile
        <4>2. StatusAt(d, next) = "active"
          BY <2>1, <2>2, <3>0, <4>1 DEF LogOK
        <4>3. QED
          BY <2>1, <2>2, <4>1, <4>2, LogStays DEF ProfileFollows
      <3>4. QED
        BY <3>1, <3>2, <3>3
    <2>5. QED
      BY <2>3, <2>4 DEF FollowInv
  <1>3. CASE (Consume /\ ~HandleEvent) \/ UNCHANGED firehoseVars
    <2>1. UNCHANGED <<index, log>>
      BY <1>3 DEF Consume, Connect, EndBatch, FailEvent, Crash, Close, Stop, firehoseVars
    <2>2. \A n \in 0..Len(log) : Ahead(n) => Ahead(n)'
      <3>1. CASE UNCHANGED firehoseVars
        BY <3>1 DEF firehoseVars, stream, Ahead
      <3>2. CASE Consume /\ ~HandleEvent
        BY <3>2, AheadStep
      <3>3. QED
        BY <1>3, <3>1, <3>2
    <2>3. profiles' = profiles /\ \A coll : Indexed(coll)' = Indexed(coll)
      BY <2>1 DEF index, records, Indexed
    <2>4. QED
      BY <2>1, <2>2, <2>3, LogStays DEF FollowInv, RowFollows, ProfileFollows
  <1>4. QED
    BY <1>1, <1>2, <1>3 DEF FirehoseNext


\* With nothing ahead of the reader every row is as it should be.
LEMMA FollowInStep ==
    ASSUME StreamInv, FollowInv, CaughtUp
    PROVE  InStep(pos)
  <1> USE DEF StreamInv
  <1>0. /\ pos \in Nat /\ Len(log) \in Nat /\ TypeOK
        /\ handled \subseteq 1..Len(log)
    BY DEF StreamTypeOK, LogOK
  <1>1. ASSUME NEW n \in 0..Len(log), Ahead(n)
        PROVE  n = pos
    <2>1. n = 0 \/ n \in handled
      BY <1>1 DEF Ahead
    <2>2. QED
      BY <1>0, <1>1, <2>1 DEF Ahead, CaughtUp
  <1>2. ASSUME NEW coll \in Collection, NEW u \in Uri(coll)
        PROVE  RowOr(Indexed(coll), u) = RowOr(TableAt(pos, coll), u)
    BY <1>1 DEF FollowInv, RowFollows
  <1>3. ASSUME NEW coll \in Collection
        PROVE  Indexed(coll) = TableAt(pos, coll)
    <2>1. /\ Indexed(coll) \in [DOMAIN Indexed(coll) -> Row(coll)]
          /\ DOMAIN Indexed(coll) \subseteq Uri(coll)
      BY <1>0 DEF TypeOK, IsTable, Indexed, Collection, Row, Uri
    <2>2. /\ DOMAIN TableAt(pos, coll) = {u \in Uri(coll) : HasRow(pos, coll, u)}
          /\ TableAt(pos, coll) =
                [u \in DOMAIN TableAt(pos, coll) |-> TableAt(pos, coll)[u]]
      BY TableIs
    <2>3. ASSUME NEW u \in Uri(coll), HasRow(pos, coll, u)
          PROVE  TableAt(pos, coll)[u] # Deleted
      <3>1. PICK i \in LastWord(pos, coll, u) : log[i].rec # Deleted
        BY <2>3 DEF HasRow
      <3>2. WordOf(pos, coll, u) = i
        BY <1>0, OneWord DEF WordOf
      <3>3. QED
        BY <2>2, <2>3, <3>1, <3>2, TableIs
    <2>4. DOMAIN Indexed(coll) = DOMAIN TableAt(pos, coll)
      BY <1>2, <2>1, <2>2, <2>3, NoRecordAssumption DEF RowOr
    <2>5. \A u \in DOMAIN Indexed(coll) : Indexed(coll)[u] = TableAt(pos, coll)[u]
      BY <1>2, <2>1, <2>4 DEF RowOr
    <2>6. QED
      BY <2>1, <2>2, <2>4, <2>5
  <1>4. sheets = TableAt(pos, "sheet") /\ ratings = TableAt(pos, "rating")
        /\ favorites = TableAt(pos, "favorite")
    BY <1>3 DEF Indexed, Collection
  <1>5. ASSUME NEW u \in DOMAIN sheets
        PROVE  Owner(u) \in HiddenIn(profiles) <=> StatusAt(Owner(u), pos) = "inactive"
    <2>1. Owner(u) \in DOMAIN profiles
      BY DEF AuthorsKnown
    <2>2. profiles[Owner(u)] <=> StatusAt(Owner(u), pos) = "inactive"
      BY <1>1, <2>1 DEF FollowInv, ProfileFollows
    <2>3. QED
      BY <2>1, <2>2 DEF HiddenIn
  <1>6. QED
    BY <1>4, <1>5 DEF InStep


(* "Replaying a few seconds after a crash is harmless since every write is *)
(* idempotent" (jetstream.go): for every network and any number of crashes *)
(* and store errors, once the reader is back where it was, the index is as *)
(* if each event had been handled once, in order.                          *)
THEOREM ReplaysAreHarmless == CanReplay /\ FirehoseSpec => []ReplayIsHarmless
  <1> DEFINE Inv == StreamInv /\ ReaderInv /\ FollowInv
  <1>1. FirehoseInit /\ CanReplay => Inv
    BY StreamStart, ReaderStart, FollowStart
  <1>2. Inv /\ [FirehoseNext]_firehoseVars => Inv'
    BY FirehoseStep, FollowStep
  <1>3. Inv => ReplayIsHarmless
    BY FollowInStep DEF ReplayIsHarmless
  <1> HIDE DEF Inv
  <1>4. QED
    BY <1>1, <1>2, <1>3, PTL DEF FirehoseSpec

=============================================================================
