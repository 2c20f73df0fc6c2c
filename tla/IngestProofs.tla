---------------------------- MODULE IngestProofs ----------------------------
(***************************************************************************)
(* What the writers of the index keep of it together, for every network,   *)
(* and however they interleave, stop and replay.                           *)
(***************************************************************************)
EXTENDS Ingest, FirehoseProofs

\* The row of a record that the whole log leaves.
Now(coll, u) == RowOr(TableAt(Len(log), coll), u)

-----------------------------------------------------------------------------
(* The log once more. *)

StatusesFollow ==
    log \in Seq(Event) =>
        \A d : \A n \in 0..Len(log) : n < Len(log) =>
            StatusAt(d, n + 1) =
                IF log[n + 1].coll = "account" /\ log[n + 1].did = d
                THEN log[n + 1].status ELSE StatusAt(d, n)
RowsFollow ==
    log \in Seq(Event) =>
        \A n \in 0..Len(log) : n < Len(log) =>
            \A coll \in Collection : \A u \in Uri(coll) :
                RowOr(TableAt(n + 1, coll), u) =
                    IF ~Says(log[n + 1], coll, u) THEN RowOr(TableAt(n, coll), u)
                    ELSE IF log[n + 1].coll = coll THEN log[n + 1].rec ELSE Deleted

\* They follow the log now, and so after the next step.
LEMMA LogFollows == StatusesFollow /\ RowsFollow
  BY StatusNext, RowNext DEF StatusesFollow, RowsFollow
LEMMA LogFollowsOn == StatusesFollow' /\ RowsFollow'
  BY LogFollows, PTL

\* A new event changes the statuses and rows it says something of.
LEMMA LogGrows ==
    ASSUME log \in Seq(Event), NEW e \in Event, log' = Append(log, e)
    PROVE  /\ \A d : \A n \in 0..Len(log') : n = Len(log') => StatusAt(d, n)' =
                 IF e.coll = "account" /\ e.did = d THEN e.status
                 ELSE StatusAt(d, Len(log))
           /\ \A coll \in Collection : \A u \in Uri(coll) :
                 Now(coll, u)' = IF ~Says(e, coll, u) THEN Now(coll, u)
                                 ELSE IF e.coll = coll THEN e.rec ELSE Deleted
  <1>1. /\ log' \in Seq(Event) /\ Len(log') = Len(log) + 1 /\ Len(log) \in Nat
        /\ log'[Len(log) + 1] = e
    BY LogKept
  <1>2. PICK n \in 0..Len(log) : n = Len(log)
    BY <1>1
  <1>3. ASSUME NEW d
        PROVE  StatusAt(d, n + 1)' = IF e.coll = "account" /\ e.did = d THEN e.status
                                     ELSE StatusAt(d, Len(log))
    <2>1. StatusAt(d, n)' = StatusAt(d, Len(log))
      BY <1>2, PastKept
    <2>2. n \in 0..Len(log') /\ n < Len(log')
      BY <1>1, <1>2
    <2>3. QED
      BY <1>1, <1>2, <2>1, <2>2, LogFollowsOn DEF StatusesFollow
  <1>4. ASSUME NEW coll \in Collection, NEW u \in Uri(coll)
        PROVE  RowOr(TableAt(n + 1, coll)', u) =
                   IF ~Says(e, coll, u) THEN RowOr(TableAt(n, coll), u)
                   ELSE IF e.coll = coll THEN e.rec ELSE Deleted
    <2>1. TableAt(n, coll)' = TableAt(n, coll)
      BY PastKept
    <2>2. n \in 0..Len(log') /\ n < Len(log') /\ log'[n + 1] = e
      BY <1>1, <1>2
    <2>3. RowOr(TableAt(n + 1, coll)', u) =
              IF ~Says(log'[n + 1], coll, u) THEN RowOr(TableAt(n, coll)', u)
              ELSE IF log'[n + 1].coll = coll THEN log'[n + 1].rec ELSE Deleted
      BY <1>1, <2>2, LogFollowsOn DEF RowsFollow, RowOr
    <2>4. QED
      BY <2>1, <2>2, <2>3
  <1>5. QED
    BY <1>1, <1>2, <1>3, <1>4 DEF Now, RowOr

\* A repo holds what the log leaves, but for records that do not validate;
\* and what it holds, it was sent.
LEMMA RepoIs ==
    ASSUME log \in Seq(Event), NEW coll \in Collection, NEW u \in Uri(coll)
    PROVE  /\ InRepo(coll, u) \in {Invalid, Now(coll, u)}
           /\ InRepo(coll, u) # Deleted =>
                 \E j \in 1..Len(log) : log[j] = Commit(coll, u, InRepo(coll, u))
  <1> DEFINE touching == {i \in 1..Len(log) :
                            Writes(log[i], coll, u) \/ Purges(log[i], Owner(u))}
             last == LastOf(touching)
  <1>0. Len(log) \in Nat
    OBVIOUS
  <1>1. InRepo(coll, u) = IF touching = {} \/ log[last].coll = "account"
                          THEN Deleted ELSE log[last].rec
    BY DEF InRepo, LastOf
  <1>2. CASE touching = {}
    <2>1. LastWord(Len(log), coll, u) = {}
      BY <1>2 DEF LastWord, Says
    <2>2. Now(coll, u) = Deleted
      BY <2>1, TableIs DEF Now, RowOr, HasRow
    <2>3. QED
      BY <1>1, <1>2, <2>2
  <1>3. CASE touching # {}
    <2>1. last \in touching /\ \A j \in touching : j <= last
      BY <1>0, <1>3, HasLast
    <2>2. log[last] \in Event /\ last \in 1..Len(log)
      BY <2>1
    <2>3. \A j \in (last + 1)..Len(log) : ~Says(log[j], coll, u)
      BY <1>0, <2>1 DEF Says
    <2> HIDE DEF last
    <2>4. ASSUME Says(log[last], coll, u)
          PROVE  LastWord(Len(log), coll, u) = {last}
      <3>1. last \in LastWord(Len(log), coll, u)
        BY <2>2, <2>3, <2>4 DEF LastWord
      <3>2. QED
        BY <1>0, <3>1, OneWord
    <2>5. ASSUME Says(log[last], coll, u)
          PROVE  Now(coll, u) = IF log[last].coll = coll THEN log[last].rec ELSE Deleted
      <3>1. WordOf(Len(log), coll, u) = last
        BY <2>4, <2>5 DEF WordOf
      <3>2. HasRow(Len(log), coll, u) <=> log[last].coll = coll /\ log[last].rec # Deleted
        BY <2>4, <2>5 DEF HasRow
      <3>3. QED
        BY <3>1, <3>2, TableIs DEF Now, RowOr
    <2>6. CASE Writes(log[last], coll, u)
      <3>1. log[last].coll # "account" /\ log[last] = Commit(coll, u, log[last].rec)
        BY <2>2, <2>6, EventType DEF Writes
      <3>2. log[last].rec = Invalid \/ Says(log[last], coll, u)
        BY <2>6 DEF Says
      <3>3. QED
        BY <1>1, <1>3, <2>2, <2>5, <2>6, <3>1, <3>2 DEF Writes
    <2>7. CASE Purges(log[last], Owner(u))
      BY <1>1, <2>5, <2>7 DEF Purges, Says, Collection
    <2>8. QED
      BY <2>1, <2>6, <2>7
  <1>4. QED
    BY <1>2, <1>3

\* A deleted account stays deleted.
GoneStays ==
    \A i \in 1..Len(log), d \in Did :
        Purges(log[i], d) =>
            \A m \in 0..Len(log) : i <= m => StatusAt(d, m) = "deleted"

LEMMA GoneStep ==
    ASSUME LogOK, GoneStays, Network
    PROVE  GoneStays'
  <1>1. PICK e \in Event : /\ log' = Append(log, e)
                           /\ \A d : e.coll = "account" /\ e.did = d
                                     => StatusAt(d, Len(log)) # "deleted"
    <2>1. CASE \E e \in Commits : Publish(e)
      <3>1. PICK e \in Commits : Publish(e)
        BY <2>1
      <3>2. e \in Event /\ e.coll # "account"
        BY CommitsAssumption DEF Event, Commit, Collection
      <3>3. QED
        BY <3>1, <3>2 DEF Publish
    <2>2. ASSUME NEW d \in Did, NEW status \in {"active", "inactive", "deleted"},
                 ChangeAccount(d, status)
          PROVE  \E e \in Event : /\ log' = Append(log, e)
                                  /\ e.did = d /\ StatusAt(d, Len(log)) # "deleted"
      BY <2>2 DEF ChangeAccount, Event, Account
    <2>3. QED
      BY <2>1, <2>2 DEF Network
  <1>2. /\ log' \in Seq(Event) /\ Len(log') = Len(log) + 1 /\ Len(log) \in Nat
        /\ log'[Len(log) + 1] = e /\ \A i \in 1..Len(log) : log'[i] = log[i]
    BY <1>1, LogKept DEF LogOK
  <1>3. ASSUME NEW i \in 1..Len(log'), NEW d \in Did, Purges(log'[i], d),
               NEW m \in 0..Len(log'), i <= m
        PROVE  StatusAt(d, m)' = "deleted"
    <2>1. CASE m = Len(log')
      <3>1. StatusAt(d, m)' = IF e.coll = "account" /\ e.did = d THEN e.status
                              ELSE StatusAt(d, Len(log))
        BY <1>1, <2>1, LogGrows DEF LogOK
      <3>2. CASE i = Len(log')
        BY <1>2, <1>3, <3>1, <3>2 DEF Purges
      <3>3. CASE i # Len(log')
        <4>1. i \in 1..Len(log) /\ Purges(log[i], d) /\ Len(log) \in 0..Len(log)
          BY <1>2, <1>3, <3>3
        <4>2. StatusAt(d, Len(log)) = "deleted"
          BY <4>1 DEF GoneStays
        <4>3. QED
          BY <1>1, <3>1, <4>2
      <3>4. QED
        BY <3>2, <3>3
    <2>2. CASE m # Len(log')
      <3>1. m \in 0..Len(log) /\ i \in 1..Len(log) /\ Purges(log[i], d)
        BY <1>2, <1>3, <2>2
      <3>2. QED
        BY <1>1, <1>3, <3>1, PastKept DEF GoneStays, LogOK
    <2>3. QED
      BY <2>1, <2>2
  <1>4. QED
    BY <1>3 DEF GoneStays


-----------------------------------------------------------------------------
(* What is on its way to the index, and the five kinds of steps. *)

Recorded(e) ==
    /\ e.coll \in Collection /\ e.uri \in Uri(e.coll)
    /\ e.rec \in Row(e.coll) \cup {Deleted, Invalid}
    /\ e = Commit(e.coll, e.uri, e.rec)

\* What is on its way was committed, and is what the log leaves of its
\* record, unless that changed meanwhile.
OnWayOK ==
    \A e \in OnTheWay :
        /\ Recorded(e)
        /\ e.rec # Deleted => \E j \in 1..Len(log) : log[j] = e
        /\ Key(e) \notin raced => e.rec \in {Invalid, Now(e.coll, e.uri)}

PagesOK ==
    /\ DOMAIN page = Did /\ DOMAIN left = Did
    /\ \A d \in Did : left[d] \in Seq(Collection)

Publishes ==
    \E e \in Event :
        /\ Network /\ log' = Append(log, e) /\ Race(e)
        /\ UNCHANGED <<index, stream>>
        /\ \A f \in OnTheWay' : f \in OnTheWay \/ (f = e /\ e.coll \in Collection)
Applies ==
    \E e \in OnTheWay :
        /\ IF e.rec = Deleted THEN DeleteRecord(e.coll, e.uri)
                              ELSE PutRecord(e.coll, e.uri, e.rec)
        /\ UNCHANGED <<log, stream, raced>> /\ OnTheWay' \subseteq OnTheWay
Resolves ==
    \E d \in Did :
        /\ UpsertProfile(d) /\ StatusAt(d, Len(log)) = "active"
        /\ UNCHANGED <<log, stream, raced>> /\ OnTheWay' \subseteq OnTheWay
Reads == Consume /\ UNCHANGED raced /\ OnTheWay' \subseteq OnTheWay
Loading ==
    /\ UNCHANGED <<firehoseVars, raced>>
    /\ \A f \in OnTheWay' :
          \/ f \in OnTheWay
          \/ \E coll \in Collection : \E u \in Uri(coll) :
                f = Commit(coll, u, InRepo(coll, u))

LEMMA CommitType == \A e \in Commits : Recorded(e) /\ e \in Event /\ e.coll # "account"
  <1> SUFFICES ASSUME NEW e \in Commits PROVE Recorded(e) /\ e.coll # "account"
    BY DEF Event
  <1>1. PICK coll \in Collection :
            \E u \in Uri(coll), rec \in Row(coll) \cup {Deleted, Invalid} :
                e = Commit(coll, u, rec)
    BY CommitsAssumption
  <1>2. PICK u \in Uri(coll), rec \in Row(coll) \cup {Deleted, Invalid} :
            e = Commit(coll, u, rec)
    BY <1>1
  <1>3. e.coll = coll /\ e.uri = u /\ e.rec = rec
    BY <1>2 DEF Commit
  <1>4. QED
    BY <1>2, <1>3 DEF Recorded, Collection

\* Pages that only get smaller.
LEMMA FewerOnTheWay ==
    ASSUME pending' \subseteq pending,
           \A d \in Did : page'[d] \subseteq page[d]
    PROVE  OnTheWay' \subseteq OnTheWay
  BY DEF OnTheWay

LEMMA CollectionsType ==
    /\ Collections \in Seq(Collection) /\ <<>> \in Seq(Collection)
    /\ \A coll \in Collection : \E i \in 1..Len(Collections) : Collections[i] = coll
  <1>1. Collections \in Seq(Collection)
    BY DEF Collections, Collection
  <1>2. Len(Collections) = 3 /\ {Collections[1], Collections[2], Collections[3]} = Collection
    BY DEF Collections, Collection
  <1>3. QED
    BY <1>1, <1>2

LEMMA Kinds ==
    ASSUME LogOK, PagesOK, [IngestNext]_ingestVars
    PROVE  /\ Publishes \/ Applies \/ Resolves \/ Reads \/ Loading
           /\ PagesOK'
  <1> USE DEF PagesOK, backfill
  <1>1. CASE Elsewhere
    <2>1. PICK e \in Event : log' = Append(log, e)
      BY <1>1, NetworkLog DEF Elsewhere
    <2>2. log'[Len(log')] = e /\ UNCHANGED <<index, stream>>
      BY <1>1, <2>1, LogKept, NetworkLog DEF Elsewhere, LogOK
    <2>3. QED
      BY <1>1, <2>1, <2>2 DEF Elsewhere, Publishes, OnTheWay
  <1>2. ASSUME NEW e \in Commits, WriteHere(e)
        PROVE  (Publishes \/ Loading) /\ PagesOK'
    <2>1. Recorded(e) /\ e \in Event /\ OnTheWay' = OnTheWay \cup {e} /\ PagesOK'
      BY <1>2, CommitType DEF WriteHere, OnTheWay
    <2>2. CASE Publish(e) /\ Race(e)
      BY <2>1, <2>2 DEF Publishes, Publish, Network, Recorded
    <2>3. CASE DeletesNothing(e)
      BY <2>1, <2>3 DEF Loading, DeletesNothing, Recorded
    <2>4. QED
      BY <1>2, <2>1, <2>2, <2>3 DEF WriteHere
  <1>3. ASSUME NEW e \in Commits, IndexWrite(e) \/ LoseWrite(e)
        PROVE  (Applies \/ Loading) /\ PagesOK'
    <2>1. e \in OnTheWay /\ OnTheWay' \subseteq OnTheWay /\ PagesOK'
      BY <1>3 DEF IndexWrite, LoseWrite, OnTheWay
    <2>2. QED
      BY <1>3, <2>1 DEF IndexWrite, LoseWrite, Applies, Loading
  <1>4. CASE BeginRunOnce \/ EndRunOnce
    <2>1. UNCHANGED <<firehoseVars, raced>> /\ OnTheWay' = OnTheWay
      BY <1>4 DEF BeginRunOnce, EndRunOnce, OnTheWay
    <2>2. PagesOK'
      BY <1>4, CollectionsType DEF BeginRunOnce, EndRunOnce, Idle, NoPages
    <2>3. QED
      BY <2>1, <2>2 DEF Loading
  <1>5. ASSUME NEW d \in Did, SignIn(d)
        PROVE  Resolves /\ PagesOK'
    <2>1. OnTheWay' = OnTheWay
      BY <1>5 DEF SignIn, OnTheWay
    <2>2. PagesOK'
      BY <1>5, CollectionsType DEF SignIn
    <2>3. QED
      BY <1>5, <2>1, <2>2 DEF SignIn, Resolves
  <1>6. ASSUME NEW d \in Did, ListRecords(d)
        PROVE  Loading /\ PagesOK'
    <2>1. PagesOK'
      <3>1. Tail(left[d]) \in Seq(Collection) /\ <<>> \in Seq(Collection)
        BY <1>6 DEF ListRecords
      <3>2. /\ DOMAIN left' = DOMAIN left /\ DOMAIN page' = DOMAIN page
            /\ \A c \in Did : left'[c] \in {left[c], Tail(left[d]), <<>>}
        BY <1>6 DEF ListRecords
      <3>3. QED
        BY <3>1, <3>2
    <2>2. \A f \in OnTheWay' : f \in OnTheWay \/ f \in Held(d, Head(left[d]))
      BY <1>6 DEF ListRecords, OnTheWay
    <2>3. Head(left[d]) \in Collection
      BY <1>6 DEF ListRecords
    <2>4. QED
      BY <1>6, <2>1, <2>2, <2>3 DEF ListRecords, Loading, Held
  <1>7. ASSUME NEW d \in Did, PutListed(d)
        PROVE  Applies /\ PagesOK'
    <2>1. PICK e \in page[d] : /\ PutRecord(e.coll, e.uri, e.rec)
                               /\ page' = [page EXCEPT ![d] = @ \ {e}]
      BY <1>7 DEF PutListed
    <2>2. e \in OnTheWay /\ OnTheWay' \subseteq OnTheWay
      BY <1>7, <2>1, FewerOnTheWay DEF PutListed, OnTheWay
    <2>3. e.rec # Deleted
      BY <2>1, NoRecordAssumption DEF PutRecord, Collection, Row
    <2>4. QED
      BY <1>7, <2>1, <2>2, <2>3 DEF PutListed, Applies
  <1>8. ASSUME NEW d \in Did, FailRepo(d)
        PROVE  Loading /\ PagesOK'
    <2>1. OnTheWay' \subseteq OnTheWay
      BY <1>8, FewerOnTheWay DEF FailRepo
    <2>2. QED
      BY <1>8, <2>1 DEF FailRepo, Loading
  <1>9. CASE Streaming
    BY <1>9 DEF Streaming, Reads, OnTheWay
  <1>10. CASE ServerDown
    <2>1. OnTheWay' \subseteq OnTheWay /\ PagesOK'
      BY <1>10, FewerOnTheWay DEF ServerDown, Idle, NoPages
    <2>2. QED
      BY <1>10, <2>1 DEF ServerDown, Reads, Consume
  <1>11. CASE UNCHANGED ingestVars
    BY <1>11 DEF ingestVars, Loading, OnTheWay
  <1>12. QED
    BY <1>1, <1>2, <1>3, <1>4, <1>5, <1>6, <1>7, <1>8, <1>9, <1>10, <1>11 DEF IngestNext


Basics == StreamInv /\ GoneStays /\ PagesOK /\ OnWayOK

\* Applying what is on its way is an operation of the index.
LEMMA AppliesIsNext ==
    ASSUME OnWayOK, Applies
    PROVE  [Next]_vars
  <1>1. PICK e \in OnTheWay :
            IF e.rec = Deleted THEN DeleteRecord(e.coll, e.uri)
                               ELSE PutRecord(e.coll, e.uri, e.rec)
    BY DEF Applies
  <1>2. Recorded(e)
    BY DEF OnWayOK
  <1>3. CASE e.rec = Deleted
    BY <1>1, <1>2, <1>3, DeleteIsNext DEF Recorded
  <1>4. CASE e.rec # Deleted
    <2>1. e.coll \in Collection /\ e.uri \in Uri(e.coll) /\ e.rec \in Row(e.coll) \cup {Invalid}
      BY <1>2, <1>4 DEF Recorded
    <2>2. QED
      BY <1>1, <1>4, <2>1, PutIsNext
  <1>5. QED
    BY <1>3, <1>4

\* A change of a record on its way makes it raced: what stays unraced, the
\* event says nothing of.
LEMMA RaceKeeps ==
    ASSUME NEW e \in Event, Race(e), NEW f \in OnTheWay, Recorded(f), Key(f) \notin raced'
    PROVE  ~Says(e, f.coll, f.uri) /\ Key(f) \notin raced
  <1>1. Key(f) \in KeysOnTheWay
    BY DEF KeysOnTheWay
  <1>2. CASE e.coll = "account"
    <2>1. Owner(f.uri) # e.did /\ Key(f) \notin raced
      BY <1>1, <1>2 DEF Race, Key
    <2>2. QED
      BY <1>2, <2>1 DEF Says, Purges, Writes, Recorded, Collection
  <1>3. CASE e.coll # "account"
    <2>1. Key(e) # Key(f) /\ Key(f) \notin raced
      BY <1>1, <1>3 DEF Race
    <2>2. QED
      BY <1>3, <2>1 DEF Says, Purges, Writes, Key
  <1>4. QED
    BY <1>2, <1>3

LEMMA BasicsStep ==
    ASSUME Basics, [IngestNext]_ingestVars
    PROVE  Basics'
  <1> USE DEF Basics
  <1>0. /\ Publishes \/ Applies \/ Resolves \/ Reads \/ Loading
        /\ PagesOK' /\ LogOK /\ log \in Seq(Event)
    BY Kinds DEF StreamInv, LogOK
  <1>1. CASE Publishes
    <2>1. PICK e \in Event :
            /\ Network /\ log' = Append(log, e) /\ Race(e)
            /\ \A f \in OnTheWay' : f \in OnTheWay \/ (f = e /\ e.coll \in Collection)
      BY <1>1 DEF Publishes
    <2>2. StreamInv' /\ GoneStays'
      BY <1>0, <2>1, StreamStep, GoneStep
    <2>3. /\ Len(log') = Len(log) + 1 /\ Len(log) \in Nat /\ log'[Len(log) + 1] = e
          /\ \A i \in 1..Len(log) : log'[i] = log[i] /\ i \in 1..Len(log')
      BY <1>0, <2>1, LogKept
    <2>4. ASSUME NEW f \in OnTheWay'
          PROVE  /\ Recorded(f)
                 /\ f.rec # Deleted => \E j \in 1..Len(log') : log'[j] = f
                 /\ Key(f) \notin raced' => f.rec \in {Invalid, Now(f.coll, f.uri)'}
      <3>1. CASE f \in OnTheWay
        <4>1. /\ Recorded(f) /\ (f.rec # Deleted => \E j \in 1..Len(log) : log[j] = f)
              /\ (Key(f) \notin raced => f.rec \in {Invalid, Now(f.coll, f.uri)})
          BY <3>1 DEF OnWayOK
        <4>2. PICK coll \in Collection : coll = f.coll
          BY <4>1 DEF Recorded
        <4>3. PICK u \in Uri(coll) : u = f.uri
          BY <4>1, <4>2 DEF Recorded
        <4>4. Key(f) \notin raced' => Now(coll, u)' = Now(coll, u) /\ Key(f) \notin raced
          BY <1>0, <2>1, <3>1, <4>1, <4>2, <4>3, RaceKeeps, LogGrows
        <4>5. QED
          BY <2>3, <4>1, <4>2, <4>3, <4>4
      <3>2. CASE f = e /\ e.coll \in Collection
        <4>1. Recorded(e)
          BY <3>2, EventType DEF Recorded
        <4>2. PICK coll \in Collection : coll = e.coll
          BY <3>2
        <4>3. PICK u \in Uri(coll) : u = e.uri
          BY <4>1, <4>2 DEF Recorded
        <4>4. e.rec # Invalid => Now(coll, u)' = e.rec
          BY <1>0, <2>1, <4>2, <4>3, LogGrows DEF Says, Writes
        <4>5. QED
          BY <2>3, <3>2, <4>1, <4>2, <4>3, <4>4
      <3>3. QED
        BY <2>1, <3>1, <3>2
    <2>5. OnWayOK'
      BY <2>4 DEF OnWayOK
    <2>6. QED
      BY <1>0, <2>2, <2>5
  <1>2. CASE Applies \/ Resolves \/ Reads \/ Loading
    <2>1. UNCHANGED log /\ UNCHANGED raced
      BY <1>2 DEF Applies, Resolves, Reads, Loading, firehoseVars, Consume, Connect,
                  HandleEvent, EndBatch, FailEvent, Crash, Close, Stop
    <2>2. StreamInv'
      <3>1. CASE Applies
        BY <3>1, AppliesIsNext, StreamStep DEF Applies
      <3>2. CASE Resolves
        BY <3>2, StreamStep DEF Resolves, Next
      <3>3. CASE Reads
        BY <3>3, StreamStep DEF Reads
      <3>4. CASE Loading
        BY <3>4, StreamStep DEF Loading, firehoseVars, index, records, previews, vars
      <3>5. QED
        BY <1>2, <3>1, <3>2, <3>3, <3>4
    <2>3. GoneStays'
      BY <2>1, LogStays DEF GoneStays
    <2>4. ASSUME NEW f \in OnTheWay'
          PROVE  /\ Recorded(f)
                 /\ f.rec # Deleted => \E j \in 1..Len(log) : log[j] = f
                 /\ Key(f) \notin raced => f.rec \in {Invalid, Now(f.coll, f.uri)}
      <3>1. CASE f \in OnTheWay
        BY <3>1 DEF OnWayOK
      <3>2. CASE \E coll \in Collection : \E u \in Uri(coll) :
                    f = Commit(coll, u, InRepo(coll, u))
        <4>1. PICK coll \in Collection : \E u \in Uri(coll) :
                  f = Commit(coll, u, InRepo(coll, u))
          BY <3>2
        <4>2. PICK u \in Uri(coll) : f = Commit(coll, u, InRepo(coll, u))
          BY <4>1
        <4>3. f.coll = coll /\ f.uri = u /\ f.rec = InRepo(coll, u)
          BY <4>2 DEF Commit
        <4>4. /\ f.rec \in {Invalid, Now(f.coll, f.uri)}
              /\ f.rec # Deleted => \E j \in 1..Len(log) : log[j] = f
          BY <1>0, <4>2, <4>3, RepoIs
        <4>5. f.rec \in Row(coll) \cup {Deleted, Invalid}
          <5>1. CASE f.rec = Deleted
            BY <5>1
          <5>2. CASE f.rec # Deleted
            <6>1. f \in Event
              BY <1>0, <4>4, <5>2
            <6>2. QED
              BY <4>1, <4>3, <6>1, EventType
          <5>3. QED
            BY <5>1, <5>2
        <4>6. QED
          BY <4>2, <4>3, <4>4, <4>5 DEF Recorded
      <3>3. QED
        BY <1>2, <3>1, <3>2 DEF Applies, Resolves, Reads, Loading
    <2>5. \A coll, u : Now(coll, u)' = Now(coll, u)
      BY <2>1, LogStays DEF Now, RowOr
    <2>6. OnWayOK'
      BY <2>1, <2>4, <2>5 DEF OnWayOK
    <2>7. QED
      BY <1>0, <2>2, <2>3, <2>6
  <1>3. QED
    BY <1>0, <1>1, <1>2

LEMMA BasicsStart == IngestInit => Basics
  <1> SUFFICES ASSUME IngestInit PROVE Basics
    OBVIOUS
  <1>1. StreamInv /\ Len(log) = 0
    BY StreamStart DEF IngestInit, FirehoseInit
  <1>2. GoneStays
    BY <1>1 DEF GoneStays
  <1>3. PagesOK
    BY CollectionsType DEF IngestInit, PagesOK, Idle, NoPages
  <1>4. OnTheWay = {}
    BY DEF IngestInit, OnTheWay, NoPages
  <1>5. QED
    BY <1>1, <1>2, <1>3, <1>4 DEF Basics, OnWayOK

(* Handlers, backfills and the firehose together do to the index only what *)
(* Index allows: every theorem about Index holds of the index all the      *)
(* writers keep (pkg/ingest, write.go, auth.go).                           *)
THEOREM IngestImplementsIndex == IngestSpec => Spec
  <1>1. IngestInit => Basics /\ Init
    BY BasicsStart DEF IngestInit, FirehoseInit
  <1>2. Basics /\ [IngestNext]_ingestVars => Basics' /\ [Next]_vars
    <2> SUFFICES ASSUME Basics, [IngestNext]_ingestVars
                 PROVE  [Next]_vars
      BY BasicsStep
    <2> USE DEF Basics, StreamInv, index, records, previews, vars
    <2>1. CASE Publishes
      BY <2>1 DEF Publishes
    <2>2. CASE Applies
      BY <2>2, AppliesIsNext
    <2>3. CASE Resolves
      BY <2>3 DEF Resolves, Next
    <2>4. CASE Reads
      BY <2>4, ConsumeIsNext DEF Reads
    <2>5. CASE Loading
      BY <2>5 DEF Loading, firehoseVars
    <2>6. QED
      BY <2>1, <2>2, <2>3, <2>4, <2>5, Kinds
  <1>3. QED
    BY <1>1, <1>2, PTL DEF IngestSpec, Spec

-----------------------------------------------------------------------------
(* Races.  A row nobody raced for may be of an older moment than what the  *)
(* reader has handled, or of a later one, as a handler or a backfill left  *)
(* it; but whenever it is wrong, the reader has yet to come to an event    *)
(* that sets it right.                                                     *)

Gone(d) == \E i \in 1..Len(log) : Purges(log[i], d)
NotBehind(n) == pos <= n /\ saved <= n

RowSettles(coll, u) ==
    \E n \in 0..Len(log) :
        /\ NotBehind(n)
        /\ \/ RowOr(Indexed(coll), u) = RowOr(TableAt(n, coll), u)
           \/ pos < n /\ saved < n /\ Says(log[n], coll, u)
ProfileSettles(d) ==
    \E n \in 0..Len(log) :
        NotBehind(n) /\ (profiles[d] <=> StatusAt(d, n) = "inactive")

\* The author of a sheet that was handled has a profile, until it is gone.
HandledKnown ==
    \A j \in handled :
        log[j].coll = "sheet" /\ log[j].rec \in SheetRow =>
            Gone(Owner(log[j].uri)) \/ Owner(log[j].uri) \in DOMAIN profiles

SettleInv ==
    /\ \A coll \in Collection : \A u \in Uri(coll) :
          <<coll, u>> \in raced \/ RowSettles(coll, u)
    /\ HandledKnown
    /\ \A d \in DOMAIN profiles : Gone(d) \/ ProfileSettles(d)

LEMMA SettleStart == IngestInit => SettleInv
  <1> SUFFICES ASSUME IngestInit PROVE SettleInv
    OBVIOUS
  <1>0. FirehoseInit /\ handled = {} /\ DOMAIN profiles = {} /\ pos = 0 /\ saved = 0
        /\ 0 \in 0..Len(log)
    BY DEF IngestInit, FirehoseInit, Init, Empty
  <1>1. FollowInv
    BY <1>0, FollowStart
  <1>2. ASSUME NEW coll \in Collection, NEW u \in Uri(coll)
        PROVE  RowSettles(coll, u)
    BY <1>0, <1>1 DEF FollowInv, RowFollows, RowSettles, Ahead, NotBehind
  <1>3. QED
    BY <1>0, <1>2 DEF SettleInv, HandledKnown

\* A step of the reader that handles nothing leaves it where it was, or
\* takes it back.
LEMMA ReaderBack ==
    ASSUME StreamInv, ReaderInv, Consume, ~HandleEvent
    PROVE  /\ UNCHANGED <<index, log, handled>>
           /\ \A n \in Nat : /\ NotBehind(n) => NotBehind(n)'
                             /\ pos < n /\ saved < n => pos' < n /\ saved' < n
  <1>1. UNCHANGED <<index, log, handled>>
    BY DEF Consume, Connect, EndBatch, FailEvent, Crash, Close, Stop
  <1>2. pos \in Nat /\ saved \in Nat /\ cursor \in Nat /\ cursor <= pos /\ following \in BOOLEAN
    BY DEF StreamInv, StreamTypeOK, LogOK, ReaderInv
  <1>3. pos' \in {0, pos, saved} /\ saved' \in {saved, pos, cursor}
    BY <1>2 DEF Consume, Connect, EndBatch, FailEvent, Crash, Close, Stop, ReaderInv
  <1>4. QED
    BY <1>1, <1>2, <1>3 DEF NotBehind

\* What is put or deleted beside the firehose adds a profile at most.
LEMMA ApplyProfile ==
    ASSUME NEW e, Recorded(e),
           IF e.rec = Deleted THEN DeleteRecord(e.coll, e.uri)
                              ELSE PutRecord(e.coll, e.uri, e.rec)
    PROVE  \/ profiles' = profiles
           \/ /\ e.coll = "sheet" /\ e.rec \in SheetRow
              /\ profiles' = WithProfile(Owner(e.uri))
  <1>1. CASE e.rec = Deleted
    BY <1>1 DEF DeleteRecord, DeleteSheet, DeleteRating, DeleteFavorite
  <1>2. CASE e.rec # Deleted
    BY <1>2 DEF PutRecord, UpsertSheet, UpsertRating, UpsertFavorite, index, records
  <1>3. QED
    BY <1>1, <1>2

\* Handling a sheet makes its author known; only a purge forgets one.
LEMMA HandleKnown ==
    ASSUME NEW e \in Event, Handle(e)
    PROVE  /\ e.coll = "sheet" /\ e.rec \in SheetRow => Owner(e.uri) \in DOMAIN profiles'
           /\ \A d \in DOMAIN profiles : Purges(e, d) \/ d \in DOMAIN profiles'
  <1>1. CASE e.coll \in Collection
    <2>1. Recorded(e) /\ e.coll # "account"
      BY <1>1, EventType DEF Recorded
    <2>2. IF e.rec = Deleted THEN DeleteRecord(e.coll, e.uri)
                             ELSE PutRecord(e.coll, e.uri, e.rec)
      BY <2>1 DEF Handle
    <2>3. DOMAIN profiles \subseteq DOMAIN profiles'
      BY <2>1, <2>2, ApplyProfile DEF WithProfile, Put
    <2>4. ASSUME e.coll = "sheet", e.rec \in SheetRow
          PROVE  Owner(e.uri) \in DOMAIN profiles'
      <3>1. UpsertSheet(e.uri, e.rec)
        BY <2>2, <2>4, NoRecordAssumption DEF PutRecord, Collection, Row
      <3>2. QED
        BY <3>1 DEF UpsertSheet, WithProfile, Put
    <2>5. QED
      BY <2>3, <2>4
  <1>2. CASE e.coll = "account"
    <2>1. CASE e.status = "deleted"
      BY <1>2, <2>1, EventType DEF Handle, PurgeAccount, Drop, Purges
    <2>2. CASE e.status # "deleted"
      <3>1. DOMAIN profiles' = DOMAIN profiles
        BY <1>2, <2>2, EventType DEF Handle, SetHidden
      <3>2. QED
        BY <1>2, <3>1
    <2>3. QED
      BY <2>1, <2>2
  <1>3. QED
    BY <1>1, <1>2, EventType

\* What the event of a new write says nothing of was as unraced before.
LEMMA RaceOnly ==
    ASSUME NEW e \in Event, Race(e), NEW coll \in Collection, NEW u \in Uri(coll),
           <<coll, u>> \notin raced', ~Says(e, coll, u)
    PROVE  <<coll, u>> \notin raced
  <1>1. CASE e.coll = "account"
    BY <1>1 DEF Race
  <1>2. CASE e.coll # "account" /\ Key(e) \in KeysOnTheWay
    BY <1>2 DEF Race
  <1>3. CASE e.coll # "account" /\ Key(e) \notin KeysOnTheWay
    <2>1. raced' = IF e.rec = Invalid THEN raced ELSE raced \ {Key(e)}
      BY <1>3 DEF Race
    <2>2. e.rec = Invalid \/ Key(e) # <<coll, u>>
      BY DEF Says, Writes, Key
    <2>3. QED
      BY <2>1, <2>2
  <1>4. QED
    BY <1>1, <1>2, <1>3

LEMMA PublishSettles ==
    ASSUME Basics, SettleInv, Publishes
    PROVE  SettleInv'
  <1> USE DEF Basics
  <1>1. PICK e \in Event : /\ Network /\ log' = Append(log, e) /\ Race(e)
                           /\ UNCHANGED <<index, stream>>
    BY DEF Publishes
  <1>2. /\ log \in Seq(Event) /\ Len(log) \in Nat /\ Len(log') = Len(log) + 1
        /\ log'[Len(log) + 1] = e
        /\ \A i \in 1..Len(log) : log'[i] = log[i] /\ i \in 1..Len(log')
    BY <1>1, LogKept DEF StreamInv, LogOK
  <1>3. /\ profiles' = profiles /\ handled' = handled /\ handled \subseteq 1..Len(log)
        /\ \A coll : Indexed(coll)' = Indexed(coll)
        /\ pos' = pos /\ saved' = saved
        /\ pos \in 0..Len(log) /\ saved \in 0..Len(log)
    BY <1>1 DEF stream, index, records, Indexed, StreamInv, StreamTypeOK
  <1>4. \A d : Gone(d) => Gone(d)'
    BY <1>2 DEF Gone
  <1>5. ASSUME NEW coll \in Collection, NEW u \in Uri(coll), <<coll, u>> \notin raced'
        PROVE  RowSettles(coll, u)'
    <2>1. CASE Says(e, coll, u)
      <3>1. PICK n \in 0..Len(log') : n = Len(log) + 1
        BY <1>2
      <3>2. pos < n /\ saved < n /\ log'[n] = e
        BY <1>2, <1>3, <3>1
      <3>3. QED
        BY <1>2, <1>3, <2>1, <3>1, <3>2 DEF RowSettles, NotBehind, Says, Writes, Purges
    <2>2. CASE ~Says(e, coll, u)
      <3>1. RowSettles(coll, u)
        BY <1>1, <1>5, <2>2, RaceOnly DEF SettleInv
      <3>2. PICK n \in 0..Len(log) :
                /\ NotBehind(n)
                /\ \/ RowOr(Indexed(coll), u) = RowOr(TableAt(n, coll), u)
                   \/ pos < n /\ saved < n /\ Says(log[n], coll, u)
        BY <3>1 DEF RowSettles
      <3>3. TableAt(n, coll)' = TableAt(n, coll) /\ n \in 0..Len(log')
        BY <1>1, <1>2, PastKept
      <3>4. NotBehind(n)' /\ (pos < n => log'[n] = log[n])
        BY <1>2, <1>3, <3>2 DEF NotBehind
      <3>5. CASE RowOr(Indexed(coll), u) = RowOr(TableAt(n, coll), u)
        BY <1>3, <3>3, <3>4, <3>5 DEF RowSettles, RowOr
      <3>6. CASE pos < n /\ saved < n /\ Says(log[n], coll, u)
        BY <1>3, <3>3, <3>4, <3>6 DEF RowSettles
      <3>7. QED
        BY <3>2, <3>5, <3>6
    <2>3. QED
      BY <2>1, <2>2
  <1>6. HandledKnown'
    BY <1>2, <1>3, <1>4 DEF HandledKnown, SettleInv
  <1>7. ASSUME NEW d \in DOMAIN profiles', ~Gone(d)'
        PROVE  ProfileSettles(d)'
    <2>1. ProfileSettles(d)
      BY <1>3, <1>4, <1>7 DEF SettleInv
    <2>2. PICK n \in 0..Len(log) : NotBehind(n) /\ (profiles[d] <=> StatusAt(d, n) = "inactive")
      BY <2>1 DEF ProfileSettles
    <2>3. StatusAt(d, n)' = StatusAt(d, n) /\ n \in 0..Len(log') /\ NotBehind(n)'
      BY <1>1, <1>2, <1>3, <2>2, PastKept DEF NotBehind
    <2>4. QED
      BY <1>3, <2>2, <2>3 DEF ProfileSettles
  <1>8. QED
    BY <1>5, <1>6, <1>7 DEF SettleInv

\* Applying what is on its way sets its record, unless it is invalid, and no
\* other; an unraced row is left alone or set right.
LEMMA ApplyRow ==
    ASSUME Basics, NEW e \in OnTheWay,
           IF e.rec = Deleted THEN DeleteRecord(e.coll, e.uri)
                              ELSE PutRecord(e.coll, e.uri, e.rec),
           NEW coll \in Collection, NEW u \in Uri(coll)
    PROVE  /\ RowOr(Indexed(coll)', u) =
                 IF coll = e.coll /\ u = e.uri /\ e.rec # Invalid THEN e.rec
                 ELSE RowOr(Indexed(coll), u)
           /\ <<coll, u>> \in raced
              \/ RowOr(Indexed(coll)', u) \in {RowOr(Indexed(coll), u), Now(coll, u)}
  <1>1. TypeOK /\ Recorded(e) /\ (Key(e) \notin raced => e.rec \in {Invalid, Now(e.coll, e.uri)})
    BY DEF Basics, StreamInv, StreamTypeOK, OnWayOK
  <1>2. RowOr(Indexed(coll)', u) =
            IF coll = e.coll /\ u = e.uri /\ e.rec # Invalid THEN e.rec
            ELSE RowOr(Indexed(coll), u)
    <2>1. CASE e.rec = Deleted
      BY <1>1, <2>1, DeleteEffect, NoRecordAssumption DEF Recorded
    <2>2. CASE e.rec # Deleted
      BY <1>1, <2>2, PutEffect DEF Recorded
    <2>3. QED
      BY <2>1, <2>2
  <1>3. QED
    BY <1>1, <1>2 DEF Key

LEMMA ApplySettles ==
    ASSUME Basics, ReaderInv, SettleInv, Applies
    PROVE  SettleInv'
  <1> USE DEF Basics, StreamInv
  <1>1. PICK e \in OnTheWay :
            IF e.rec = Deleted THEN DeleteRecord(e.coll, e.uri)
                               ELSE PutRecord(e.coll, e.uri, e.rec)
    BY DEF Applies
  <1>2. /\ UNCHANGED <<log, stream, raced>> /\ UNCHANGED <<pos, saved, handled>>
        /\ handled \subseteq 1..Len(log) /\ Len(log) \in Nat /\ TypeOK
        /\ pos \in 0..Len(log) /\ saved \in 0..Len(log)
    BY DEF Applies, stream, StreamTypeOK, LogOK
  <1>3. /\ Recorded(e) /\ (e.rec # Deleted => \E j \in 1..Len(log) : log[j] = e)
        /\ (Key(e) \notin raced => e.rec \in {Invalid, Now(e.coll, e.uri)})
    BY DEF OnWayOK
  <1>4. /\ \A d : Gone(d)' <=> Gone(d)
        /\ \A n : NotBehind(n)' <=> NotBehind(n)
    BY <1>2 DEF Gone, NotBehind, Purges
  <1>5. \/ profiles' = profiles
        \/ /\ e.coll = "sheet" /\ e.rec \in SheetRow
           /\ profiles' = WithProfile(Owner(e.uri))
    BY <1>1, <1>3, ApplyProfile
  <1>6. ASSUME NEW coll \in Collection, NEW u \in Uri(coll), <<coll, u>> \notin raced'
        PROVE  RowSettles(coll, u)'
    <2>1. CASE coll = e.coll /\ u = e.uri /\ e.rec # Invalid
      <3>1. e.rec = Now(coll, u)
        BY <1>2, <1>3, <1>6, <2>1 DEF Key
      <3>2. RowOr(Indexed(coll)', u) = e.rec
        BY <1>1, <2>1, ApplyRow
      <3>3. PICK n \in 0..Len(log) : n = Len(log)
        BY <1>2
      <3>4. RowOr(TableAt(n, coll), u) = RowOr(Indexed(coll)', u) /\ NotBehind(n)
        BY <1>2, <3>1, <3>2, <3>3 DEF Now, NotBehind
      <3>5. QED
        BY <1>2, <1>4, <3>4, LogStays DEF RowSettles, RowOr
    <2>2. CASE ~(coll = e.coll /\ u = e.uri /\ e.rec # Invalid)
      <3>1. RowOr(Indexed(coll)', u) = RowOr(Indexed(coll), u)
        BY <1>1, <2>2, ApplyRow
      <3>2. RowSettles(coll, u)
        BY <1>2, <1>6 DEF SettleInv
      <3>3. PICK n \in 0..Len(log) :
                /\ NotBehind(n)
                /\ \/ RowOr(Indexed(coll), u) = RowOr(TableAt(n, coll), u)
                   \/ pos < n /\ saved < n /\ Says(log[n], coll, u)
        BY <3>2 DEF RowSettles
      <3>4. QED
        BY <1>2, <1>4, <3>1, <3>3, LogStays DEF RowSettles, RowOr
    <2>3. QED
      BY <2>1, <2>2
  <1>7. HandledKnown'
    <2>1. DOMAIN profiles \subseteq DOMAIN profiles'
      BY <1>5 DEF WithProfile, Put
    <2>2. QED
      BY <1>2, <1>4, <2>1 DEF HandledKnown, SettleInv
  <1>8. ASSUME NEW d \in DOMAIN profiles', ~Gone(d)'
        PROVE  ProfileSettles(d)'
    <2>1. CASE d \in DOMAIN profiles
      <3>1. profiles'[d] = profiles[d]
        BY <1>5, <2>1 DEF WithProfile, Put
      <3>2. PICK n \in 0..Len(log) : NotBehind(n) /\ (profiles[d] <=> StatusAt(d, n) = "inactive")
        BY <1>4, <1>8, <2>1 DEF SettleInv, ProfileSettles
      <3>3. QED
        BY <1>2, <1>4, <3>1, <3>2, LogStays DEF ProfileSettles
    <2>2. CASE d \notin DOMAIN profiles
      <3>1. /\ e.coll = "sheet" /\ e.rec \in SheetRow
            /\ profiles' = Put(profiles, Owner(e.uri), FALSE)
        BY <1>5, <1>8, <2>2 DEF WithProfile
      <3>2. Owner(e.uri) = d
        BY <1>8, <2>2, <3>1 DEF Put
      <3>3. ~profiles'[d]
        BY <3>1, <3>2, Zenon DEF Put
      <3>4. PICK j \in 1..Len(log) : log[j] = e
        BY <1>3, <3>1, NoRecordAssumption DEF Collection, Row
      <3>5. j \notin handled
        BY <1>4, <1>8, <2>2, <3>1, <3>2, <3>4 DEF SettleInv, HandledKnown
      <3>6. j \in 0..Len(log) /\ NotBehind(j)
        BY <1>2, <3>4, <3>5 DEF ReaderInv, NotBehind
      <3>7. d \in Did
        BY <1>3, <3>2, UriOwner DEF Recorded
      <3>8. StatusAt(d, j) = "active"
        BY <3>1, <3>2, <3>4, <3>7 DEF LogOK, Collection
      <3>9. QED
        BY <1>2, <1>4, <3>3, <3>6, <3>8, LogStays DEF ProfileSettles
    <2>3. QED
      BY <2>1, <2>2
  <1>9. QED
    BY <1>6, <1>7, <1>8 DEF SettleInv

LEMMA ResolveSettles ==
    ASSUME Basics, SettleInv, Resolves
    PROVE  SettleInv'
  <1> USE DEF Basics, StreamInv
  <1>1. PICK c \in Did : UpsertProfile(c) /\ StatusAt(c, Len(log)) = "active"
    BY DEF Resolves
  <1>2. /\ UNCHANGED <<log, stream, raced>> /\ UNCHANGED <<pos, saved, handled>>
        /\ Len(log) \in Nat /\ pos \in 0..Len(log) /\ saved \in 0..Len(log)
    BY DEF Resolves, stream, StreamTypeOK, LogOK
  <1>3. profiles' = WithProfile(c) /\ \A coll : Indexed(coll)' = Indexed(coll)
    BY <1>1 DEF UpsertProfile, Indexed
  <1>4. /\ \A d : Gone(d)' <=> Gone(d)
        /\ \A n : NotBehind(n)' <=> NotBehind(n)
    BY <1>2 DEF Gone, NotBehind, Purges
  <1>5. ASSUME NEW coll \in Collection, NEW u \in Uri(coll), <<coll, u>> \notin raced'
        PROVE  RowSettles(coll, u)'
    <2>1. PICK n \in 0..Len(log) :
              /\ NotBehind(n)
              /\ \/ RowOr(Indexed(coll), u) = RowOr(TableAt(n, coll), u)
                 \/ pos < n /\ saved < n /\ Says(log[n], coll, u)
      BY <1>2, <1>5 DEF SettleInv, RowSettles
    <2>2. QED
      BY <1>2, <1>3, <1>4, <2>1, LogStays DEF RowSettles, RowOr
  <1>6. HandledKnown'
    <2>1. DOMAIN profiles \subseteq DOMAIN profiles'
      BY <1>3 DEF WithProfile, Put
    <2>2. QED
      BY <1>2, <1>4, <2>1 DEF HandledKnown, SettleInv
  <1>7. ASSUME NEW d \in DOMAIN profiles', ~Gone(d)'
        PROVE  ProfileSettles(d)'
    <2>1. CASE d \in DOMAIN profiles
      <3>1. profiles'[d] = profiles[d]
        BY <1>3, <2>1 DEF WithProfile, Put
      <3>2. PICK n \in 0..Len(log) : NotBehind(n) /\ (profiles[d] <=> StatusAt(d, n) = "inactive")
        BY <1>4, <1>7, <2>1 DEF SettleInv, ProfileSettles
      <3>3. QED
        BY <1>2, <1>4, <3>1, <3>2, LogStays DEF ProfileSettles
    <2>2. CASE d \notin DOMAIN profiles
      <3>1. profiles' = Put(profiles, c, FALSE)
        BY <1>3, <1>7, <2>2 DEF WithProfile
      <3>2. c = d
        BY <1>7, <2>2, <3>1 DEF Put
      <3>3. ~profiles'[d]
        BY <3>1, <3>2, Zenon DEF Put
      <3>4. PICK n \in 0..Len(log) : n = Len(log)
        BY <1>2
      <3>5. NotBehind(n) /\ StatusAt(d, n) = "active"
        BY <1>1, <1>2, <3>2, <3>4 DEF NotBehind
      <3>6. QED
        BY <1>2, <1>4, <3>3, <3>5, LogStays DEF ProfileSettles
    <2>3. QED
      BY <2>1, <2>2
  <1>8. QED
    BY <1>5, <1>6, <1>7 DEF SettleInv

LEMMA HandleSettles ==
    ASSUME Basics, ReaderInv, SettleInv, HandleEvent, UNCHANGED raced
    PROVE  SettleInv'
  <1> USE DEF Basics, StreamInv
  <1> DEFINE e == log[pos + 1]
  <1>1. /\ UNCHANGED log /\ e \in Event /\ Handle(e) /\ TypeOK
        /\ pos \in 0..Len(log) /\ pos < Len(log) /\ log \in Seq(Event)
        /\ saved \in Nat /\ Len(log) \in Nat
    BY NextIsAhead DEF HandleEvent, StreamTypeOK, LogOK
  <1>2. /\ pos' = pos + 1 /\ saved' = saved /\ saved <= pos
        /\ handled' = handled \cup {pos + 1}
    <2>1. cursor \in Nat /\ saved <= cursor /\ cursor <= pos
      BY DEF HandleEvent, ReaderInv, StreamTypeOK
    <2>2. QED
      BY <1>1, <2>1 DEF HandleEvent
  <1>3. PICK next \in 0..Len(log) : next = pos + 1 /\ NotBehind(next)'
    BY <1>1, <1>2 DEF NotBehind
  <1>4. /\ \A d : Gone(d)' <=> Gone(d)
        /\ \A n \in Nat : NotBehind(n) /\ n # pos => NotBehind(n)'
    BY <1>1, <1>2 DEF Gone, NotBehind, Purges
  <1>5. ASSUME NEW coll \in Collection, NEW u \in Uri(coll), <<coll, u>> \notin raced'
        PROVE  RowSettles(coll, u)'
    <2>1. PICK n \in 0..Len(log) :
              /\ NotBehind(n)
              /\ \/ RowOr(Indexed(coll), u) = RowOr(TableAt(n, coll), u)
                 \/ pos < n /\ saved < n /\ Says(log[n], coll, u)
      BY <1>5 DEF SettleInv, RowSettles
    <2>2. CASE Says(e, coll, u)
      <3>1. RowOr(TableAt(next, coll), u) = RowOr(Indexed(coll)', u)
        BY <1>1, <1>3, <2>2, RowNext, HandleRow
      <3>2. QED
        BY <1>1, <1>3, <3>1, LogStays DEF RowSettles, RowOr
    <2>3. CASE ~Says(e, coll, u) /\ n = pos
      <3>1. RowOr(TableAt(next, coll), u) = RowOr(Indexed(coll)', u)
        BY <1>1, <1>3, <2>1, <2>3, RowNext, HandleRow
      <3>2. QED
        BY <1>1, <1>3, <3>1, LogStays DEF RowSettles, RowOr
    <2>4. CASE ~Says(e, coll, u) /\ n # pos
      <3>1. RowOr(Indexed(coll)', u) = RowOr(Indexed(coll), u)
        BY <1>1, <2>4, HandleRow
      <3>2. NotBehind(n)'
        BY <1>4, <2>1, <2>4
      <3>3. CASE RowOr(Indexed(coll), u) = RowOr(TableAt(n, coll), u)
        BY <1>1, <3>1, <3>2, <3>3, LogStays DEF RowSettles, RowOr
      <3>4. CASE pos < n /\ saved < n /\ Says(log[n], coll, u)
        <4>1. pos' < n /\ saved' < n
          BY <1>1, <1>2, <2>4, <3>4
        <4>2. Says(log[n], coll, u)'
          BY <1>1, <3>4 DEF Says, Writes, Purges
        <4>3. QED
          BY <1>1, <3>2, <4>1, <4>2 DEF RowSettles
      <3>5. QED
        BY <2>1, <3>3, <3>4
    <2>5. QED
      BY <2>2, <2>3, <2>4
  <1>6. HandledKnown'
    <2>1. ASSUME NEW j \in handled', log[j].coll = "sheet", log[j].rec \in SheetRow,
                 ~Gone(Owner(log[j].uri))
          PROVE  Owner(log[j].uri) \in DOMAIN profiles'
      <3>1. CASE j = pos + 1
        BY <1>1, <2>1, <3>1, HandleKnown
      <3>2. CASE j # pos + 1
        <4>1. Owner(log[j].uri) \in DOMAIN profiles
          BY <1>2, <2>1, <3>2 DEF SettleInv, HandledKnown
        <4>2. ~Purges(e, Owner(log[j].uri))
          BY <1>1, <2>1 DEF Gone
        <4>3. QED
          BY <1>1, <4>1, <4>2, HandleKnown
      <3>3. QED
        BY <3>1, <3>2
    <2>2. QED
      BY <1>1, <1>4, <2>1 DEF HandledKnown
  <1>7. ASSUME NEW d \in DOMAIN profiles', ~Gone(d)'
        PROVE  ProfileSettles(d)'
    <2>0. d \in Did
      BY StreamStep DEF Consume, StreamTypeOK, TypeOK, IsTable
    <2>1. CASE e.coll = "account" /\ e.did = d
      <3>1. profiles'[d] <=> StatusAt(d, next) = "inactive"
        BY <1>1, <1>3, <2>1, StatusNext, HandleProfile
      <3>2. QED
        BY <1>1, <1>3, <3>1, LogStays DEF ProfileSettles
    <2>2. CASE ~(e.coll = "account" /\ e.did = d) /\ d \in DOMAIN profiles
      <3>0. profiles'[d] = profiles[d]
        BY <1>1, <2>2, HandleProfile
      <3>1. PICK n \in 0..Len(log) : NotBehind(n) /\ (profiles[d] <=> StatusAt(d, n) = "inactive")
        BY <1>4, <1>7, <2>2 DEF SettleInv, ProfileSettles
      <3>2. CASE n = pos
        <4>1. StatusAt(d, next) = StatusAt(d, n)
          BY <1>1, <1>3, <2>2, <3>2, StatusNext
        <4>2. QED
          BY <1>1, <1>3, <3>0, <3>1, <4>1, LogStays DEF ProfileSettles
      <3>3. CASE n # pos
        BY <1>1, <1>4, <3>0, <3>1, <3>3, LogStays DEF ProfileSettles
      <3>4. QED
        BY <3>2, <3>3
    <2>3. CASE ~(e.coll = "account" /\ e.did = d) /\ d \notin DOMAIN profiles
      <3>1. e.coll \in Collection /\ Owner(e.uri) = d /\ ~profiles'[d]
        BY <1>1, <2>3, HandleProfile
      <3>2. StatusAt(d, next) = "active"
        BY <1>1, <1>3, <2>0, <3>1 DEF LogOK
      <3>3. QED
        BY <1>1, <1>3, <3>1, <3>2, LogStays DEF ProfileSettles
    <2>4. QED
      BY <2>1, <2>2, <2>3
  <1>8. QED
    BY <1>5, <1>6, <1>7 DEF SettleInv

\* Steps that leave the index alone, and the reader no further.
LEMMA BackSettles ==
    ASSUME SettleInv, UNCHANGED <<index, log, handled, raced>>,
           \A n \in Nat : /\ NotBehind(n) => NotBehind(n)'
                          /\ pos < n /\ saved < n => pos' < n /\ saved' < n
    PROVE  SettleInv'
  <1>1. /\ profiles' = profiles /\ \A coll : Indexed(coll)' = Indexed(coll)
        /\ \A d : Gone(d)' <=> Gone(d)
        /\ \A i, coll, u : Says(log[i], coll, u)' <=> Says(log[i], coll, u)
    BY DEF index, records, Indexed, Gone, Purges, Says, Writes
  <1>2. ASSUME NEW coll \in Collection, NEW u \in Uri(coll), <<coll, u>> \notin raced'
        PROVE  RowSettles(coll, u)'
    <2>1. PICK n \in 0..Len(log) :
              /\ NotBehind(n)
              /\ \/ RowOr(Indexed(coll), u) = RowOr(TableAt(n, coll), u)
                 \/ pos < n /\ saved < n /\ Says(log[n], coll, u)
      BY <1>2 DEF SettleInv, RowSettles
    <2>2. QED
      BY <1>1, <2>1, LogStays DEF RowSettles, RowOr
  <1>3. HandledKnown'
    BY <1>1 DEF HandledKnown, SettleInv
  <1>4. ASSUME NEW d \in DOMAIN profiles', ~Gone(d)'
        PROVE  ProfileSettles(d)'
    BY <1>1, <1>4, LogStays DEF ProfileSettles, SettleInv
  <1>5. QED
    BY <1>2, <1>3, <1>4 DEF SettleInv

LEMMA SettleStep ==
    ASSUME Basics, ReaderInv, SettleInv, [IngestNext]_ingestVars
    PROVE  ReaderInv' /\ SettleInv'
  <1>1. CASE Publishes
    BY <1>1, PublishSettles, ReaderStep DEF Basics, Publishes
  <1>2. CASE Applies
    BY <1>2, ApplySettles, ReaderStep DEF Basics, Applies
  <1>3. CASE Resolves
    BY <1>3, ResolveSettles, ReaderStep DEF Basics, Resolves
  <1>4. CASE Reads
    BY <1>4, HandleSettles, ReaderBack, BackSettles, ReaderStep DEF Basics, Reads
  <1>5. CASE Loading
    <2>1. UNCHANGED <<index, log, handled, raced, pos, saved>> /\ UNCHANGED stream
      BY <1>5 DEF Loading, firehoseVars, stream
    <2>2. QED
      BY <2>1, BackSettles, ReaderStep DEF NotBehind, Basics
  <1>6. QED
    BY <1>1, <1>2, <1>3, <1>4, <1>5, Kinds DEF Basics, StreamInv

\* An account with a row in the table is not gone.
LEMMA RowNotGone ==
    ASSUME Basics, NEW coll \in Collection, NEW u \in DOMAIN TableAt(Len(log), coll)
    PROVE  ~Gone(Owner(u))
  <1> USE DEF Basics, StreamInv, LogOK
  <1>0. Len(log) \in Nat /\ u \in Uri(coll) /\ HasRow(Len(log), coll, u)
    <2>1. DOMAIN TableAt(Len(log), coll) = {v \in Uri(coll) : HasRow(Len(log), coll, v)}
      BY TableIs
    <2>2. QED
      BY <2>1
  <1>1. PICK w \in LastWord(Len(log), coll, u) : log[w].coll = coll
    BY <1>0 DEF HasRow
  <1>2. /\ w \in 1..Len(log) /\ Says(log[w], coll, u)
        /\ \A j \in (w + 1)..Len(log) : ~Says(log[j], coll, u)
    BY DEF LastWord
  <1>3. log[w].coll \in Collection /\ log[w].coll # "account" /\ Owner(log[w].uri) = Owner(u)
    BY <1>1, <1>2 DEF Says, Writes, Purges, Collection
  <1>4. PICK d \in Did : d = Owner(u)
    BY <1>0, UriOwner
  <1>5. StatusAt(d, w) = "active"
    BY <1>2, <1>3, <1>4
  <1>6. ASSUME NEW i \in 1..Len(log), Purges(log[i], d)
        PROVE  FALSE
    <2>1. ~(i \in (w + 1)..Len(log))
      BY <1>2, <1>4, <1>6 DEF Says
    <2>2. i <= w /\ w \in 0..Len(log)
      BY <1>0, <1>2, <2>1
    <2>3. StatusAt(d, w) = "deleted"
      BY <1>6, <2>2 DEF GoneStays
    <2>4. QED
      BY <1>5, <2>3
  <1>7. QED
    BY <1>4, <1>6 DEF Gone

\* A table has no rows of deleted records.
LEMMA NoDeletedRow ==
    ASSUME NEW n \in Nat, NEW coll, NEW u \in DOMAIN TableAt(n, coll)
    PROVE  TableAt(n, coll)[u] # Deleted
  <1>1. HasRow(n, coll, u) /\ u \in Uri(coll)
    BY TableIs
  <1>2. PICK i \in LastWord(n, coll, u) : log[i].rec # Deleted
    BY <1>1 DEF HasRow
  <1>3. WordOf(n, coll, u) = i
    BY OneWord DEF WordOf
  <1>4. QED
    BY <1>1, <1>2, <1>3, TableIs

\* A row that is as the log says, with an author hidden as the log says.
LEMMA RightWhen ==
    ASSUME Basics, NEW coll \in Collection, NEW u \in Uri(coll),
           RowOr(Indexed(coll), u) = Now(coll, u),
           /\ coll = "sheet" /\ u \in DOMAIN TableAt(Len(log), coll)
           /\ Owner(u) \in DOMAIN profiles
           => (profiles[Owner(u)] <=> StatusAt(Owner(u), Len(log)) = "inactive")
    PROVE  RightRow(coll, u)
  <1> USE DEF Basics, StreamInv
  <1>0. Len(log) \in Nat /\ TypeOK
    BY DEF LogOK, StreamTypeOK
  <1>1. \A v \in DOMAIN Indexed(coll) : Indexed(coll)[v] # Deleted
    BY <1>0, NoRecordAssumption DEF TypeOK, IsTable, Indexed, Collection, Row
  <1>2. /\ u \in DOMAIN Indexed(coll) <=> u \in DOMAIN TableAt(Len(log), coll)
        /\ u \in DOMAIN TableAt(Len(log), coll) =>
             Indexed(coll)[u] = TableAt(Len(log), coll)[u]
    BY <1>0, <1>1, NoDeletedRow DEF RowOr, Now
  <1>3. ASSUME coll = "sheet", u \in DOMAIN TableAt(Len(log), coll)
        PROVE  Owner(u) \in HiddenIn(profiles) <=> StatusAt(Owner(u), Len(log)) = "inactive"
    <2>1. Owner(u) \in DOMAIN profiles
      BY <1>2, <1>3 DEF AuthorsKnown, Indexed
    <2>2. QED
      BY <1>3, <2>1 DEF HiddenIn
  <1>4. QED
    BY <1>2, <1>3 DEF RightRow

LEMMA SettledIsRight ==
    ASSUME Basics, SettleInv, Quiet, NEW k \in Keys \ raced
    PROVE  RightRow(k[1], k[2])
  <1> USE DEF Basics, StreamInv
  <1>1. PICK coll \in Collection : \E u \in Uri(coll) : k = <<coll, u>>
    BY DEF Keys
  <1>2. PICK u \in Uri(coll) : k = <<coll, u>>
    BY <1>1
  <1>3. Len(log) \in Nat /\ pos = Len(log) /\ \A n \in 0..Len(log) : pos <= n => n = Len(log)
    BY DEF Quiet, LogOK
  <1>4. RowOr(Indexed(coll), u) = Now(coll, u)
    <2>1. RowSettles(coll, u)
      BY <1>2 DEF SettleInv
    <2>2. QED
      BY <1>3, <2>1 DEF RowSettles, NotBehind, Now
  <1>5. ASSUME coll = "sheet", u \in DOMAIN TableAt(Len(log), coll), Owner(u) \in DOMAIN profiles
        PROVE  profiles[Owner(u)] <=> StatusAt(Owner(u), Len(log)) = "inactive"
    <2>1. ProfileSettles(Owner(u))
      BY <1>5, RowNotGone DEF SettleInv
    <2>2. QED
      BY <1>3, <2>1 DEF ProfileSettles, NotBehind
  <1>6. RightRow(coll, u)
    BY <1>4, <1>5, RightWhen
  <1>7. QED
    BY <1>2, <1>6

(* Backfills and handlers beside the firehose, "both write idempotently"   *)
(* (backfill.go): for every network, and whatever stopped, replayed or     *)
(* failed, only a record that changed while an older write of it was on    *)
(* its way can be wrong once all is quiet.                                 *)
THEOREM OnlyRaces == IngestSpec => []OnlyRacesDiverge
  <1> DEFINE Inv == Basics /\ (CanReplay => ReaderInv /\ SettleInv)
  <1>1. IngestInit => Inv
    BY BasicsStart, ReaderStart, SettleStart DEF IngestInit
  <1>2. Inv /\ [IngestNext]_ingestVars => Inv'
    BY BasicsStep, SettleStep DEF ReaderInv
  <1>3. Inv => OnlyRacesDiverge
    BY SettledIsRight DEF OnlyRacesDiverge
  <1> HIDE DEF Inv
  <1>4. QED
    BY <1>1, <1>2, <1>3, PTL DEF IngestSpec

-----------------------------------------------------------------------------
(* A first start without an archive: RunOnce lists what the repos hold,    *)
(* and the firehose follows from where it started.  What RunOnce put can   *)
(* be taken back by an event the reader handles again; but then the last   *)
(* word on the record is overdue.                                          *)

\* An event the reader has passed by, or has handled and will come to again.
Overdue(i) ==
    \/ i \notin handled /\ \E j \in handled : j < i
    \/ i \in handled /\ 0 < saved /\ saved < i /\ (following => pos < i)

\* Without an archive the reader goes back to a saved cursor only.
NoArchiveInv ==
    /\ ~CanReplay
    /\ following => saved <= cursor /\ cursor <= pos
    /\ ~following => cursor = 0
    /\ following /\ saved = 0 => \A j \in handled : j <= pos

LEMMA NoArchiveStart == IngestInit /\ ~CanReplay => NoArchiveInv
  BY DEF IngestInit, FirehoseInit, NoArchiveInv

LEMMA NoArchiveStep ==
    ASSUME StreamInv, NoArchiveInv, Consume \/ UNCHANGED stream
    PROVE  NoArchiveInv'
  <1>0. /\ pos \in Nat /\ cursor \in Nat /\ saved \in Nat /\ following \in BOOLEAN
        /\ Len(log) \in Nat /\ handled \subseteq 1..Len(log)
    BY DEF StreamInv, StreamTypeOK, LogOK
  <1> USE DEF NoArchiveInv
  <1>1. CASE UNCHANGED stream
    BY <1>1 DEF stream
  <1>2. CASE Connect
    BY <1>0, <1>2 DEF Connect
  <1>3. CASE HandleEvent
    <2>1. /\ pos' = pos + 1 /\ handled' = handled \cup {pos + 1}
          /\ following' = following /\ following /\ cursor' = cursor /\ saved' = saved
      BY <1>3 DEF HandleEvent
    <2>2. saved = 0 => \A j \in handled' : j <= pos + 1
      BY <1>0, <2>1
    <2>3. QED
      BY <1>0, <2>1, <2>2
  <1>4. CASE EndBatch
    BY <1>0, <1>4 DEF EndBatch
  <1>5. CASE FailEvent \/ Crash \/ Close
    BY <1>0, <1>5 DEF FailEvent, Crash, Close, Stop
  <1>6. QED
    BY <1>1, <1>2, <1>3, <1>4, <1>5 DEF Consume

\* What is overdue stays overdue until the reader comes to it, ...
LEMMA OverdueStays ==
    ASSUME StreamInv, NoArchiveInv, Consume \/ UNCHANGED stream,
           NEW i \in 1..Len(log), Overdue(i), ~(HandleEvent /\ i = pos + 1)
    PROVE  Overdue(i)'
  <1>0. /\ pos \in Nat /\ cursor \in Nat /\ saved \in Nat /\ following \in BOOLEAN
        /\ i \in Nat /\ Len(log) \in Nat /\ handled \subseteq 1..Len(log)
    BY DEF StreamInv, StreamTypeOK, LogOK
  <1> USE DEF NoArchiveInv, Overdue
  <1>1. CASE UNCHANGED stream
    BY <1>1 DEF stream
  <1>2. CASE Connect
    BY <1>0, <1>2 DEF Connect
  <1>3. CASE HandleEvent
    <2>1. /\ pos' = pos + 1 /\ handled' = handled \cup {pos + 1} /\ i # pos + 1
          /\ following' = following /\ following /\ saved' = saved
      BY <1>3 DEF HandleEvent
    <2>2. CASE i \notin handled
      BY <2>1, <2>2
    <2>3. CASE i \in handled
      BY <1>0, <2>1, <2>3
    <2>4. QED
      BY <2>2, <2>3
  <1>4. CASE EndBatch
    BY <1>0, <1>4 DEF EndBatch
  <1>5. CASE FailEvent \/ Crash
    BY <1>0, <1>5 DEF FailEvent, Crash, Stop
  <1>6. CASE Close
    <2>1. /\ following /\ ~following' /\ handled' = handled
          /\ saved' = IF cursor > 0 THEN cursor ELSE saved
      BY <1>6 DEF Close, Stop
    <2>2. QED
      BY <1>0, <2>1
  <1>7. QED
    BY <1>1, <1>2, <1>3, <1>4, <1>5, <1>6 DEF Consume

\* ... and coming to an event makes every later one overdue.
LEMMA LaterIsOverdue ==
    ASSUME StreamInv, NoArchiveInv, HandleEvent, NEW i \in 1..Len(log), pos + 1 < i
    PROVE  Overdue(i)'
  <1>0. /\ pos \in Nat /\ cursor \in Nat /\ saved \in Nat /\ i \in Nat
        /\ saved <= cursor /\ cursor <= pos /\ following
    BY DEF StreamInv, StreamTypeOK, LogOK, HandleEvent, NoArchiveInv
  <1>1. /\ pos' = pos + 1 /\ handled' = handled \cup {pos + 1} /\ saved' = saved
    BY DEF HandleEvent
  <1>2. CASE i \notin handled
    BY <1>0, <1>1, <1>2 DEF Overdue
  <1>3. CASE i \in handled
    <2>1. saved # 0
      BY <1>0, <1>3 DEF NoArchiveInv
    <2>2. QED
      BY <1>0, <1>1, <1>3, <2>1 DEF Overdue
  <1>4. QED
    BY <1>2, <1>3

\* With all quiet and nothing skipped, nothing is overdue.
LEMMA NothingOverdue ==
    ASSUME StreamInv, Quiet, Unbroken, NEW i \in 1..Len(log)
    PROVE  ~Overdue(i)
  <1>1. Len(log) \in Nat /\ handled \subseteq 1..Len(log)
    BY DEF StreamInv, StreamTypeOK, LogOK
  <1>2. QED
    BY <1>1 DEF Quiet, Unbroken, Overdue

\* The last words on a record, and what they say of it.
WordsNow(coll, u) == LastWord(Len(log), coll, u)

LEMMA WordIsRow ==
    ASSUME log \in Seq(Event), NEW coll \in Collection, NEW u \in Uri(coll),
           NEW i \in WordsNow(coll, u)
    PROVE  Now(coll, u) = IF log[i].coll = coll THEN log[i].rec ELSE Deleted
  <1>1. Len(log) \in Nat
    OBVIOUS
  <1>2. WordsNow(coll, u) = {i}
    BY <1>1, OneWord DEF WordsNow
  <1>3. WordOf(Len(log), coll, u) = i
    BY <1>2 DEF WordOf, WordsNow
  <1>4. HasRow(Len(log), coll, u) <=> log[i].coll = coll /\ log[i].rec # Deleted
    BY <1>2 DEF HasRow, WordsNow
  <1>5. QED
    BY <1>3, <1>4, TableIs DEF Now, RowOr

LEMMA WordsStay ==
    ASSUME UNCHANGED log
    PROVE  \A coll, u : /\ WordsNow(coll, u)' = WordsNow(coll, u)
                        /\ InRepo(coll, u)' = InRepo(coll, u)
                        /\ Now(coll, u)' = Now(coll, u)
  <1>1. \A coll, u : WordsNow(coll, u)' = WordsNow(coll, u)
    BY DEF WordsNow, LastWord, Says, Purges, Writes
  <1>2. \A coll, u : InRepo(coll, u)' = InRepo(coll, u)
    BY DEF InRepo, Purges, Writes
  <1>3. \A coll, u : Now(coll, u)' = Now(coll, u)
    BY LogStays DEF Now, RowOr
  <1>4. QED
    BY <1>1, <1>2, <1>3

\* A new event is the last word on what it says something of.
LEMMA WordsKept ==
    ASSUME log \in Seq(Event), NEW e \in Event, log' = Append(log, e),
           NEW coll \in Collection, NEW u \in Uri(coll)
    PROVE  WordsNow(coll, u)' = IF Says(e, coll, u) THEN {Len(log')}
                                ELSE WordsNow(coll, u)
  <1>1. /\ log' \in Seq(Event) /\ Len(log') = Len(log) + 1 /\ Len(log) \in Nat
        /\ log'[Len(log) + 1] = e /\ \A i \in 1..Len(log) : log'[i] = log[i]
    BY LogKept
  <1>2. WordsNow(coll, u)' =
            {i \in 1..Len(log') : /\ Says(log'[i], coll, u)
                                  /\ \A j \in (i + 1)..Len(log') : ~Says(log'[j], coll, u)}
    BY DEF WordsNow, LastWord, Says, Purges, Writes
  <1>3. CASE Says(e, coll, u)
    BY <1>1, <1>2, <1>3
  <1>4. CASE ~Says(e, coll, u)
    BY <1>1, <1>2, <1>4 DEF WordsNow, LastWord
  <1>5. QED
    BY <1>3, <1>4

\* The events that decide what a repo holds; the last of them does.
Touching(coll, u) ==
    {i \in 1..Len(log) : Writes(log[i], coll, u) \/ Purges(log[i], Owner(u))}

LEMMA RepoOf ==
    /\ \A coll, u : InRepo(coll, u) =
          IF Touching(coll, u) = {} \/ log[LastOf(Touching(coll, u))].coll = "account"
          THEN Deleted ELSE log[LastOf(Touching(coll, u))].rec
    /\ \A coll, u : InRepo(coll, u)' =
          IF Touching(coll, u)' = {} \/ log'[LastOf(Touching(coll, u)')].coll = "account"
          THEN Deleted ELSE log'[LastOf(Touching(coll, u)')].rec
  BY DEF InRepo, LastOf, Touching

\* An event of neither the record nor its account leaves the repo's record;
\* a commit of an invalid one leaves that.
LEMMA RepoKept ==
    ASSUME log \in Seq(Event), NEW e \in Event, log' = Append(log, e),
           NEW coll \in Collection, NEW u \in Uri(coll)
    PROVE  /\ ~Writes(e, coll, u) /\ ~Purges(e, Owner(u)) =>
                 InRepo(coll, u)' = InRepo(coll, u)
           /\ Writes(e, coll, u) => InRepo(coll, u)' = e.rec
  <1>1. /\ Len(log') = Len(log) + 1 /\ Len(log) \in Nat
        /\ log'[Len(log) + 1] = e /\ \A i \in 1..Len(log) : log'[i] = log[i]
    BY LogKept
  <1>2. Touching(coll, u)' =
            {i \in 1..Len(log') : Writes(log'[i], coll, u) \/ Purges(log'[i], Owner(u))}
    BY DEF Touching, Purges, Writes
  <1>3. ASSUME ~Writes(e, coll, u), ~Purges(e, Owner(u))
        PROVE  InRepo(coll, u)' = InRepo(coll, u)
    <2>1. Touching(coll, u)' = Touching(coll, u) /\ Touching(coll, u) \subseteq 1..Len(log)
      BY <1>1, <1>2, <1>3 DEF Touching
    <2>2. CASE Touching(coll, u) = {}
      BY <2>1, <2>2, RepoOf
    <2>3. CASE Touching(coll, u) # {}
      <3>1. LastOf(Touching(coll, u)) \in 1..Len(log)
        BY <1>1, <2>1, <2>3, HasLast
      <3>2. log'[LastOf(Touching(coll, u))] = log[LastOf(Touching(coll, u))]
        BY <1>1, <3>1
      <3>3. QED
        BY <2>1, <3>2, RepoOf
    <2>4. QED
      BY <2>2, <2>3
  <1>4. ASSUME Writes(e, coll, u)
        PROVE  InRepo(coll, u)' = e.rec
    <2>1. PICK S \in SUBSET (1..Len(log')) : S = Touching(coll, u)'
      BY <1>2
    <2>2. Len(log') \in S /\ Len(log') \in Nat
      BY <1>1, <1>2, <1>4, <2>1
    <2>3. LastOf(S) \in S /\ \A j \in S : j <= LastOf(S)
      BY <2>1, <2>2, HasLast
    <2>4. LastOf(S) \in 1..Len(log') /\ Len(log') <= LastOf(S)
      BY <2>2, <2>3
    <2>5. LastOf(S) = Len(log')
      BY <2>2, <2>4
    <2>6. e.coll # "account" /\ log'[Len(log')] = e
      BY <1>1, <1>4 DEF Writes, Collection
    <2>7. QED
      BY <2>1, <2>2, <2>5, <2>6, RepoOf
  <1>5. QED
    BY <1>3, <1>4

\* What is held since an event is held before the next one too, which leaves
\* its record alone.
LEMMA HeldBack ==
    ASSUME log \in Seq(Event), NEW e \in Event, log' = Append(log, e),
           NEW coll \in Collection, NEW u \in Uri(coll),
           NEW n \in 0..Len(log), HeldSince(n, coll, u)'
    PROVE  /\ HeldSince(n, coll, u) /\ ~Says(e, coll, u)
           /\ InRepo(coll, u)' = InRepo(coll, u)
           /\ WordsNow(coll, u)' = WordsNow(coll, u)
           /\ Now(coll, u)' = Now(coll, u)
  <1>1. /\ Len(log') = Len(log) + 1 /\ Len(log) \in Nat
    BY LogKept
  <1>2. /\ InRepo(coll, u)' \notin {Deleted, Invalid}
        /\ \E i \in WordsNow(coll, u)' : i <= n
        /\ \A i \in n..Len(log') : StatusAt(Owner(u), i)' = "active"
    BY DEF HeldSince, WordsNow
  <1>3. ~Says(e, coll, u)
    BY <1>1, <1>2, WordsKept
  <1>4. ~Writes(e, coll, u) /\ ~Purges(e, Owner(u))
    BY <1>2, <1>3, RepoKept DEF Says
  <1>5. InRepo(coll, u)' = InRepo(coll, u) /\ WordsNow(coll, u)' = WordsNow(coll, u)
    BY <1>3, <1>4, WordsKept, RepoKept
  <1>6. \A i \in n..Len(log) : StatusAt(Owner(u), i)' = StatusAt(Owner(u), i)
    BY <1>1, PastKept
  <1>7. HeldSince(n, coll, u)
    BY <1>1, <1>2, <1>5, <1>6 DEF HeldSince, WordsNow
  <1>8. Now(coll, u)' = Now(coll, u)
    BY <1>3, LogGrows
  <1>9. QED
    BY <1>3, <1>5, <1>7, <1>8

LEMMA HeldStays ==
    ASSUME UNCHANGED log, NEW n, NEW coll, NEW u
    PROVE  HeldSince(n, coll, u)' <=> HeldSince(n, coll, u)
  <1>1. InRepo(coll, u)' = InRepo(coll, u) /\ WordsNow(coll, u)' = WordsNow(coll, u)
    BY WordsStay
  <1>2. \A i : StatusAt(Owner(u), i)' = StatusAt(Owner(u), i)
    BY LogStays
  <1>3. QED
    BY <1>1, <1>2 DEF HeldSince, WordsNow

\* A hidden profile was hidden by an event that was handled; if its account
\* is active by now, the event that said so is overdue.
ChangesNow(d) == Changes(d, Len(log))
HiddenInv ==
    \A d \in HiddenIn(profiles) :
        /\ \E j \in handled : log[j].coll = "account" /\ log[j].did = d
        /\ StatusAt(d, Len(log)) = "active" =>
              \E a \in ChangesNow(d) : Overdue(a) /\ \A j \in ChangesNow(d) : j <= a

\* What RunOnce has yet to list or put.
Todo(coll, u) ==
    \/ \E x \in 1..Len(left[Owner(u)]) : left[Owner(u)][x] = coll
    \/ Commit(coll, u, InRepo(coll, u)) \in page[Owner(u)]
RowComes(coll, u) ==
    \/ Todo(coll, u)
    \/ RowOr(Indexed(coll), u) = Now(coll, u)
    \/ \E i \in WordsNow(coll, u) : Overdue(i)
RunInv ==
    once = "running" =>
        \A n \in 0..Len(log) : n = listedAt =>
            \A coll \in Collection : \A u \in Uri(coll) :
                \/ <<coll, u>> \in raced \/ ~HeldSince(n, coll, u)
                \/ RowComes(coll, u)

FirstInv == NoArchiveInv /\ HiddenInv /\ listedAt \in 0..Len(log) /\ RunInv

LEMMA FirstStart == IngestInit /\ ~CanReplay => FirstInv
  <1> SUFFICES ASSUME IngestInit, ~CanReplay PROVE FirstInv
    OBVIOUS
  <1>1. NoArchiveInv
    BY NoArchiveStart
  <1>2. HiddenIn(profiles) = {} /\ listedAt \in 0..Len(log) /\ once = "idle"
    BY DEF IngestInit, FirehoseInit, Init, Empty, HiddenIn
  <1>3. QED
    BY <1>1, <1>2 DEF FirstInv, HiddenInv, RunInv

LEMMA ChangesKept ==
    ASSUME log \in Seq(Event), NEW e \in Event, log' = Append(log, e), NEW d
    PROVE  ChangesNow(d)' = IF e.coll = "account" /\ e.did = d
                            THEN ChangesNow(d) \cup {Len(log')} ELSE ChangesNow(d)
  <1>1. /\ Len(log') = Len(log) + 1 /\ Len(log) \in Nat
        /\ log'[Len(log) + 1] = e /\ \A i \in 1..Len(log) : log'[i] = log[i]
    BY LogKept
  <1>2. ChangesNow(d)' = {i \in 1..Len(log') : log'[i].coll = "account" /\ log'[i].did = d}
    BY DEF ChangesNow, Changes
  <1>3. QED
    BY <1>1, <1>2 DEF ChangesNow, Changes

\* Handling an event hides its own account at most.
LEMMA HiddenStep ==
    ASSUME Basics, NoArchiveInv, HiddenInv, [IngestNext]_ingestVars
    PROVE  HiddenInv'
  <1> USE DEF Basics, StreamInv
  <1>0. /\ log \in Seq(Event) /\ Len(log) \in Nat /\ TypeOK /\ handled \subseteq 1..Len(log)
        /\ Publishes \/ Applies \/ Resolves \/ Reads \/ Loading
    BY Kinds DEF LogOK, StreamTypeOK
  <1>1. CASE Publishes
    <2>1. PICK e \in Event : log' = Append(log, e) /\ UNCHANGED <<index, stream>>
      BY <1>1 DEF Publishes
    <2>2. /\ Len(log') = Len(log) + 1 /\ log'[Len(log) + 1] = e
          /\ \A i \in 1..Len(log) : log'[i] = log[i]
      BY <1>0, <2>1, LogKept
    <2>3. profiles' = profiles /\ handled' = handled /\ \A i : Overdue(i)' <=> Overdue(i)
      BY <2>1 DEF index, records, stream, Overdue
    <2>4. ASSUME NEW d \in HiddenIn(profiles')
          PROVE  /\ \E j \in handled' : log'[j].coll = "account" /\ log'[j].did = d
                 /\ StatusAt(d, Len(log))' = "active" =>
                       \E a \in ChangesNow(d)' :
                           Overdue(a)' /\ \A j \in ChangesNow(d)' : j <= a
      <3>1. /\ \E j \in handled : log[j].coll = "account" /\ log[j].did = d
            /\ StatusAt(d, Len(log)) = "active" =>
                  \E a \in ChangesNow(d) : Overdue(a) /\ \A j \in ChangesNow(d) : j <= a
        BY <2>3, <2>4 DEF HiddenInv
      <3>2. CASE e.coll = "account" /\ e.did = d
        <4>0. PICK i \in Nat : i = Len(log')
          BY <1>0, <2>2
        <4>1. Overdue(i)
          BY <1>0, <2>2, <3>1, <4>0 DEF Overdue
        <4>2. ChangesNow(d)' = ChangesNow(d) \cup {i} /\ ChangesNow(d) \subseteq 1..Len(log)
          BY <1>0, <2>1, <3>2, <4>0, ChangesKept DEF ChangesNow, Changes
        <4>3. \A j \in ChangesNow(d)' : j <= i
          BY <1>0, <2>2, <4>0, <4>2
        <4>4. \E j \in handled' : log'[j].coll = "account" /\ log'[j].did = d
          BY <1>0, <2>2, <2>3, <3>1
        <4>5. i \in ChangesNow(d)' /\ Overdue(i)'
          BY <2>3, <4>1, <4>2
        <4>6. QED
          BY <4>3, <4>4, <4>5
      <3>3. CASE ~(e.coll = "account" /\ e.did = d)
        <4>1. ChangesNow(d)' = ChangesNow(d)
          BY <1>0, <2>1, <3>3, ChangesKept
        <4>2. StatusAt(d, Len(log))' = StatusAt(d, Len(log))
          BY <4>1, StatusIs, <1>0, <2>1, <2>2, <3>3, LogGrows
        <4>3. QED
          BY <1>0, <2>2, <2>3, <3>1, <4>1, <4>2
      <3>4. QED
        BY <3>2, <3>3
    <2>5. QED
      BY <2>4 DEF HiddenInv
  <1>2. CASE UNCHANGED log
    <2>1. \A d : ChangesNow(d)' = ChangesNow(d) /\ StatusAt(d, Len(log))' = StatusAt(d, Len(log))
      BY <1>2, LogStays DEF ChangesNow, Changes
    <2>2. CASE HandleEvent
      <3> DEFINE e == log[pos + 1]
      <3>1. /\ e \in Event /\ Handle(e) /\ pos \in Nat /\ pos < Len(log)
            /\ handled' = handled \cup {pos + 1}
        BY <1>0, <2>2 DEF HandleEvent, StreamTypeOK
      <3>2. ASSUME NEW d \in HiddenIn(profiles')
            PROVE  /\ \E j \in handled' : log[j].coll = "account" /\ log[j].did = d
                   /\ StatusAt(d, Len(log)) = "active" =>
                         \E a \in ChangesNow(d) :
                             Overdue(a)' /\ \A j \in ChangesNow(d) : j <= a
        <4>0. d \in DOMAIN profiles' /\ profiles'[d]
          BY <3>2 DEF HiddenIn
        <4>1. CASE e.coll = "account" /\ e.did = d
          <5>1. e.status = "inactive"
            BY <1>0, <3>1, <4>0, <4>1, HandleProfile
          <5>2. pos + 1 \in ChangesNow(d) /\ ChangesNow(d) \in SUBSET (1..Len(log))
            BY <1>0, <3>1, <4>1 DEF ChangesNow, Changes
          <5>3. PICK a \in ChangesNow(d) : a = LastOf(ChangesNow(d))
                                           /\ \A j \in ChangesNow(d) : j <= a
            BY <1>0, <5>2, HasLast
          <5>4. ASSUME StatusAt(d, Len(log)) = "active"
                PROVE  Overdue(a)'
            <6>1. log[a].status = "active"
              BY <5>2, <5>3, <5>4, StatusIs DEF ChangesNow
            <6>2. pos + 1 < a /\ a \in 1..Len(log)
              BY <1>0, <3>1, <5>1, <5>2, <5>3, <6>1
            <6>3. QED
              BY <2>2, <6>2, LaterIsOverdue
          <5>5. QED
            BY <3>1, <4>1, <5>3, <5>4
        <4>2. CASE ~(e.coll = "account" /\ e.did = d)
          <5>1. d \in HiddenIn(profiles)
            BY <1>0, <3>1, <4>0, <4>2, HandleProfile DEF HiddenIn
          <5>2. \A a \in ChangesNow(d) : a # pos + 1 /\ a \in 1..Len(log)
            BY <4>2 DEF ChangesNow, Changes
          <5>3. \A a \in ChangesNow(d) : Overdue(a) => Overdue(a)'
            BY <2>2, <5>2, OverdueStays DEF Consume
          <5>4. QED
            BY <3>1, <5>1, <5>3 DEF HiddenInv
        <4>3. QED
          BY <4>1, <4>2
      <3>3. QED
        BY <1>2, <2>1, <3>2 DEF HiddenInv
    <2>3. CASE ~HandleEvent
      <3>1. HiddenIn(profiles') \subseteq HiddenIn(profiles) /\ handled' = handled
        <4>1. CASE Applies
          <5>1. PICK e \in OnTheWay :
                    IF e.rec = Deleted THEN DeleteRecord(e.coll, e.uri)
                                       ELSE PutRecord(e.coll, e.uri, e.rec)
            BY <4>1 DEF Applies
          <5>2. profiles' = profiles \/ profiles' = WithProfile(Owner(e.uri))
            BY <5>1, ApplyProfile DEF OnWayOK
          <5>3. QED
            BY <4>1, <5>2 DEF WithProfile, Put, HiddenIn, Applies, stream
        <4>2. CASE Resolves
          BY <4>2 DEF Resolves, UpsertProfile, WithProfile, Put, HiddenIn, stream
        <4>3. CASE Reads
          BY <2>3, <4>3 DEF Reads, Consume, Connect, EndBatch, FailEvent, Crash, Close, Stop,
                            index, records
        <4>4. CASE Loading
          BY <4>4 DEF Loading, firehoseVars, index, records, stream
        <4>5. CASE Publishes
          BY <1>2, <4>5, <1>0, LogKept DEF Publishes
        <4>6. QED
          BY <1>0, <4>1, <4>2, <4>3, <4>4, <4>5
      <3>2. Consume \/ UNCHANGED stream
        BY <1>0 DEF Publishes, Applies, Resolves, Reads, Loading, firehoseVars
      <3>3. \A d : \A a \in ChangesNow(d) : a \in 1..Len(log) /\ (Overdue(a) => Overdue(a)')
        BY <2>3, <3>2, OverdueStays DEF ChangesNow, Changes
      <3>4. QED
        BY <1>2, <2>1, <3>1, <3>3 DEF HiddenInv
    <2>4. QED
      BY <2>2, <2>3
  <1>3. QED
    BY <1>0, <1>1, <1>2 DEF Applies, Resolves, Reads, Loading, firehoseVars, Consume, Connect,
                            HandleEvent, EndBatch, FailEvent, Crash, Close, Stop

\* What becomes of RunOnce while it runs.
LEMMA Running ==
    ASSUME [IngestNext]_ingestVars
    PROVE  /\ once' = "running" =>
                 \/ BeginRunOnce
                 \/ /\ once = "running" /\ listedAt' = listedAt
                    /\ \/ \E d \in Did : ListRecords(d) \/ PutListed(d)
                       \/ UNCHANGED <<left, page>>
           /\ BeginRunOnce \/ listedAt' = listedAt
           /\ CanReplay /\ once = "idle" => once' = "idle"
  <1> USE DEF backfill
  <1>1. CASE Elsewhere \/ Streaming
    BY <1>1 DEF Elsewhere, Streaming
  <1>2. ASSUME NEW e \in Commits, WriteHere(e) \/ IndexWrite(e) \/ LoseWrite(e)
        PROVE  UNCHANGED backfill
    BY <1>2 DEF WriteHere, IndexWrite, LoseWrite
  <1>3. CASE BeginRunOnce
    BY <1>3 DEF BeginRunOnce
  <1>4. CASE EndRunOnce \/ ServerDown
    BY <1>4 DEF EndRunOnce, ServerDown
  <1>5. ASSUME NEW d \in Did, SignIn(d) \/ FailRepo(d)
        PROVE  once' # "running" /\ listedAt' = listedAt /\ (once = "idle" => once' = "idle")
    BY <1>5 DEF SignIn, FailRepo
  <1>6. ASSUME NEW d \in Did, ListRecords(d) \/ PutListed(d)
        PROVE  once' = once /\ listedAt' = listedAt
    BY <1>6 DEF ListRecords, PutListed
  <1>7. CASE UNCHANGED ingestVars
    BY <1>7 DEF ingestVars
  <1>8. QED
    BY <1>1, <1>2, <1>3, <1>4, <1>5, <1>6, <1>7 DEF IngestNext

\* RunOnce begins by taking on every repo that holds anything.
LEMMA BeginComes ==
    ASSUME Basics, BeginRunOnce, NEW coll \in Collection, NEW u \in Uri(coll),
           InRepo(coll, u) # Deleted
    PROVE  Todo(coll, u)'
  <1>1. PICK d \in Did : d = Owner(u)
    BY UriOwner
  <1>2. Held(d, coll) # {}
    BY <1>1 DEF Held
  <1>3. left'[d] = Collections
    BY <1>2 DEF BeginRunOnce
  <1>4. QED
    BY <1>1, <1>3, CollectionsType DEF Todo

\* It lists what it takes on, ...
LEMMA ListComes ==
    ASSUME Basics, NEW d \in Did, ListRecords(d),
           NEW coll \in Collection, NEW u \in Uri(coll), Todo(coll, u),
           InRepo(coll, u) # Deleted, StatusAt(Owner(u), Len(log)) = "active"
    PROVE  Todo(coll, u)'
  <1>0. DOMAIN page = Did /\ DOMAIN left = Did /\ left[d] \in Seq(Collection)
        /\ left[d] # <<>> /\ page[d] = {} /\ UNCHANGED log
    BY DEF Basics, PagesOK, ListRecords, firehoseVars
  <1>1. InRepo(coll, u)' = InRepo(coll, u)
    BY <1>0, WordsStay
  <1>2. PICK c \in Did : c = Owner(u)
    BY UriOwner
  <1>3. CASE c # d
    <2>1. left'[c] = left[c] /\ page'[c] = page[c]
      BY <1>0, <1>3 DEF ListRecords
    <2>2. QED
      BY <1>1, <1>2, <2>1 DEF Todo
  <1>4. CASE c = d
    <2>1. page'[d] = Held(d, Head(left[d])) /\ left'[d] = Tail(left[d])
      BY <1>0, <1>2, <1>4 DEF ListRecords
    <2>2. PICK x \in 1..Len(left[d]) : left[d][x] = coll
      BY <1>0, <1>2, <1>4 DEF Todo
    <2>3. CASE x = 1
      <3>1. Head(left[d]) = coll
        BY <1>0, <2>2, <2>3
      <3>2. Commit(coll, u, InRepo(coll, u)) \in page'[d]
        BY <1>2, <1>4, <2>1, <3>1 DEF Held
      <3>3. QED
        BY <1>1, <1>2, <1>4, <3>2 DEF Todo
    <2>4. CASE x # 1
      <3>1. x - 1 \in 1..Len(Tail(left[d])) /\ Tail(left[d])[x - 1] = coll
        BY <1>0, <2>2, <2>4
      <3>2. QED
        BY <1>2, <1>4, <2>1, <3>1 DEF Todo
    <2>5. QED
      BY <2>3, <2>4
  <1>5. QED
    BY <1>3, <1>4

\* ... and puts what it lists.
LEMMA PutComes ==
    ASSUME Basics, NEW d \in Did, PutListed(d),
           NEW coll \in Collection, NEW u \in Uri(coll), <<coll, u>> \notin raced,
           RowComes(coll, u), InRepo(coll, u) \notin {Deleted, Invalid}
    PROVE  RowComes(coll, u)'
  <1>0. DOMAIN page = Did /\ UNCHANGED <<log, stream>> /\ left' = left
        /\ log \in Seq(Event)
    BY DEF Basics, PagesOK, PutListed, StreamInv, LogOK
  <1>1. /\ InRepo(coll, u)' = InRepo(coll, u) /\ Now(coll, u)' = Now(coll, u)
        /\ WordsNow(coll, u)' = WordsNow(coll, u)
    BY <1>0, WordsStay
  <1>2. InRepo(coll, u) = Now(coll, u)
    BY <1>0, RepoIs
  <1>3. PICK e \in page[d] : /\ PutRecord(e.coll, e.uri, e.rec)
                             /\ page' = [page EXCEPT ![d] = @ \ {e}]
    BY DEF PutListed
  <1>4. e \in OnTheWay /\ e.rec # Deleted
    BY <1>3, NoRecordAssumption DEF OnTheWay, PutRecord, Collection, Row
  <1>5. /\ RowOr(Indexed(coll)', u) =
              IF coll = e.coll /\ u = e.uri /\ e.rec # Invalid THEN e.rec
              ELSE RowOr(Indexed(coll), u)
        /\ RowOr(Indexed(coll)', u) \in {RowOr(Indexed(coll), u), Now(coll, u)}
    BY <1>3, <1>4, ApplyRow
  <1>6. CASE RowOr(Indexed(coll), u) = Now(coll, u)
    BY <1>1, <1>5, <1>6 DEF RowComes, RowOr
  <1>7. CASE \E i \in WordsNow(coll, u) : Overdue(i)
    BY <1>0, <1>1, <1>7 DEF RowComes, Overdue, stream
  <1>8. CASE Todo(coll, u)
    <2>1. CASE e = Commit(coll, u, InRepo(coll, u))
      <3>1. e.coll = coll /\ e.uri = u /\ e.rec = Now(coll, u) /\ e.rec # Invalid
        BY <1>2, <2>1 DEF Commit
      <3>2. QED
        BY <1>1, <1>5, <3>1 DEF RowComes, RowOr
    <2>2. CASE e # Commit(coll, u, InRepo(coll, u))
      <3>1. PICK c \in Did : c = Owner(u)
        BY UriOwner
      <3>2. Commit(coll, u, InRepo(coll, u)) \in page[c]
               => Commit(coll, u, InRepo(coll, u)) \in page'[c]
        BY <1>0, <1>3, <2>2
      <3>3. QED
        BY <1>0, <1>1, <1>8, <3>1, <3>2 DEF RowComes, Todo
    <2>3. QED
      BY <2>1, <2>2
  <1>9. QED
    BY <1>6, <1>7, <1>8 DEF RowComes

\* What the firehose takes back by an older event, it has yet to set right.
LEMMA HandleComes ==
    ASSUME Basics, NoArchiveInv, HandleEvent,
           NEW coll \in Collection, NEW u \in Uri(coll), RowComes(coll, u), ~Todo(coll, u)
    PROVE  RowComes(coll, u)'
  <1> USE DEF Basics, StreamInv
  <1> DEFINE e == log[pos + 1]
  <1>1. /\ UNCHANGED log /\ e \in Event /\ Handle(e) /\ TypeOK /\ log \in Seq(Event)
        /\ pos \in Nat /\ pos < Len(log) /\ Len(log) \in Nat
    BY DEF HandleEvent, StreamTypeOK, LogOK
  <1>2. /\ Now(coll, u)' = Now(coll, u) /\ WordsNow(coll, u)' = WordsNow(coll, u)
        /\ \A i \in WordsNow(coll, u) : i \in 1..Len(log) /\ Says(log[i], coll, u)
    BY <1>1, WordsStay DEF WordsNow, LastWord
  <1>3. CASE ~Says(e, coll, u)
    <2>1. RowOr(Indexed(coll)', u) = RowOr(Indexed(coll), u)
      BY <1>1, <1>3, HandleRow
    <2>2. \A i \in WordsNow(coll, u) : Overdue(i) => Overdue(i)'
      BY <1>2, <1>3, OverdueStays DEF Consume
    <2>3. QED
      BY <1>2, <2>1, <2>2 DEF RowComes, RowOr
  <1>4. CASE Says(e, coll, u) /\ pos + 1 \in WordsNow(coll, u)
    <2>1. Now(coll, u) = IF e.coll = coll THEN e.rec ELSE Deleted
      BY <1>1, <1>4, WordIsRow
    <2>2. RowOr(Indexed(coll)', u) = Now(coll, u)
      BY <1>1, <1>4, <2>1, HandleRow
    <2>3. QED
      BY <1>2, <2>2 DEF RowComes, RowOr
  <1>5. CASE Says(e, coll, u) /\ pos + 1 \notin WordsNow(coll, u)
    <2>1. PICK i \in WordsNow(coll, u) : pos + 1 < i
      <3> DEFINE later == {j \in 1..Len(log) : Says(log[j], coll, u)}
      <3>1. pos + 1 \in later
        BY <1>1, <1>5
      <3>2. PICK i \in later : \A j \in later : j <= i
        BY <1>1, <3>1, HasLast
      <3>3. i \in WordsNow(coll, u)
        BY <1>1, <3>2 DEF WordsNow, LastWord
      <3>4. QED
        BY <1>1, <1>5, <3>1, <3>2, <3>3
    <2>2. Overdue(i)'
      BY <1>2, <2>1, LaterIsOverdue
    <2>3. QED
      BY <1>2, <2>1, <2>2 DEF RowComes
  <1>6. QED
    BY <1>3, <1>4, <1>5

\* While nothing is listed or put.
LEMMA OtherComes ==
    ASSUME Basics, NoArchiveInv, [IngestNext]_ingestVars, UNCHANGED <<left, page>>,
           NEW coll \in Collection, NEW u \in Uri(coll), NEW n \in 0..Len(log),
           <<coll, u>> \notin raced', HeldSince(n, coll, u)',
           <<coll, u>> \in raced \/ ~HeldSince(n, coll, u) \/ RowComes(coll, u)
    PROVE  RowComes(coll, u)'
  <1> USE DEF Basics, StreamInv
  <1>0. /\ log \in Seq(Event)
        /\ Publishes \/ Applies \/ Resolves \/ Reads \/ Loading
    BY Kinds DEF LogOK
  <1>1. CASE Publishes
    <2>1. PICK e \in Event : /\ log' = Append(log, e) /\ Race(e)
                             /\ UNCHANGED <<index, stream>>
      BY <1>1 DEF Publishes
    <2>2. /\ HeldSince(n, coll, u) /\ ~Says(e, coll, u)
          /\ InRepo(coll, u)' = InRepo(coll, u)
          /\ WordsNow(coll, u)' = WordsNow(coll, u) /\ Now(coll, u)' = Now(coll, u)
      BY <2>1, HeldBack DEF LogOK
    <2>3. RowComes(coll, u)
      BY <2>1, <2>2, RaceOnly
    <2>4. Indexed(coll)' = Indexed(coll) /\ \A i : Overdue(i)' <=> Overdue(i)
      BY <2>1 DEF index, records, Indexed, stream, Overdue
    <2>5. QED
      BY <2>2, <2>3, <2>4 DEF RowComes, RowOr, Todo
  <1>2. CASE UNCHANGED log /\ UNCHANGED raced
    <2>1. /\ InRepo(coll, u)' = InRepo(coll, u) /\ Now(coll, u)' = Now(coll, u)
          /\ WordsNow(coll, u)' = WordsNow(coll, u) /\ (Todo(coll, u) => Todo(coll, u)')
      BY <1>2, WordsStay DEF Todo
    <2>2. RowComes(coll, u)
      BY <1>2, HeldStays
    <2>3. CASE HandleEvent
      BY <2>1, <2>2, <2>3, HandleComes DEF RowComes
    <2>4. CASE ~HandleEvent
      <3>1. RowOr(Indexed(coll)', u) \in {RowOr(Indexed(coll), u), Now(coll, u)}
        <4>1. CASE Applies
          BY <1>2, <4>1, ApplyRow DEF Applies
        <4>2. CASE Resolves
          BY <4>2 DEF Resolves, UpsertProfile, Indexed
        <4>3. CASE Reads
          BY <2>4, <4>3 DEF Reads, Consume, Connect, EndBatch, FailEvent, Crash, Close, Stop,
                            index, records, Indexed
        <4>4. CASE Loading
          BY <4>4 DEF Loading, firehoseVars, index, records, Indexed
        <4>5. CASE Publishes
          BY <1>2, <4>5, LogKept DEF Publishes, LogOK
        <4>6. QED
          BY <1>0, <4>1, <4>2, <4>3, <4>4, <4>5
      <3>2. Consume \/ UNCHANGED stream
        BY <1>0 DEF Publishes, Applies, Resolves, Reads, Loading, firehoseVars
      <3>3. \A i \in WordsNow(coll, u) : Overdue(i) => Overdue(i)'
        BY <2>4, <3>2, OverdueStays DEF WordsNow, LastWord
      <3>4. QED
        BY <2>1, <2>2, <3>1, <3>3 DEF RowComes, RowOr
    <2>5. QED
      BY <2>3, <2>4
  <1>3. QED
    BY <1>0, <1>1, <1>2 DEF Applies, Resolves, Reads, Loading, firehoseVars, Consume, Connect,
                            HandleEvent, EndBatch, FailEvent, Crash, Close, Stop

LEMMA FirstStep ==
    ASSUME Basics, FirstInv, [IngestNext]_ingestVars
    PROVE  FirstInv'
  <1> USE DEF FirstInv
  <1>0. /\ log \in Seq(Event) /\ Len(log) \in Nat
        /\ Publishes \/ Applies \/ Resolves \/ Reads \/ Loading
    BY Kinds DEF Basics, StreamInv, LogOK
  <1>1. Consume \/ UNCHANGED stream
    BY <1>0 DEF Publishes, Applies, Resolves, Reads, Loading, firehoseVars
  <1>2. NoArchiveInv' /\ HiddenInv'
    BY <1>1, NoArchiveStep, HiddenStep DEF Basics
  <1>3. 0..Len(log) \subseteq 0..Len(log')
    <2>1. CASE Publishes
      BY <1>0, <2>1, LogKept DEF Publishes
    <2>2. CASE UNCHANGED log
      BY <2>2
    <2>3. QED
      BY <1>0, <2>1, <2>2 DEF Applies, Resolves, Reads, Loading, firehoseVars, Consume, Connect,
                              HandleEvent, EndBatch, FailEvent, Crash, Close, Stop
  <1>4. listedAt' \in 0..Len(log')
    <2>1. CASE BeginRunOnce
      BY <1>0, <2>1 DEF BeginRunOnce, firehoseVars
    <2>2. CASE listedAt' = listedAt
      BY <1>3, <2>2
    <2>3. QED
      BY <2>1, <2>2, Running
  <1>5. ASSUME once' = "running", NEW n \in 0..Len(log'), n = listedAt',
               NEW coll \in Collection, NEW u \in Uri(coll),
               <<coll, u>> \notin raced', HeldSince(n, coll, u)'
        PROVE  RowComes(coll, u)'
    <2>1. CASE BeginRunOnce
      <3>1. UNCHANGED log
        BY <2>1 DEF BeginRunOnce, firehoseVars
      <3>2. HeldSince(n, coll, u)
        BY <1>5, <3>1, HeldStays
      <3>3. QED
        BY <2>1, <3>2, BeginComes DEF HeldSince, RowComes
    <2>2. CASE once = "running" /\ listedAt' = listedAt
      <3>0. n \in 0..Len(log) /\ n = listedAt
        BY <1>5, <2>2
      <3>1. <<coll, u>> \in raced \/ ~HeldSince(n, coll, u) \/ RowComes(coll, u)
        BY <2>2, <3>0 DEF RunInv
      <3>2. CASE UNCHANGED <<left, page>>
        BY <1>2, <1>5, <3>0, <3>1, <3>2, OtherComes
      <3>3. ASSUME NEW d \in Did, ListRecords(d) \/ PutListed(d)
            PROVE  RowComes(coll, u)'
        <4>1. UNCHANGED <<log, stream, raced>>
          BY <3>3 DEF ListRecords, PutListed, firehoseVars
        <4>2. HeldSince(n, coll, u)
          BY <1>5, <4>1, HeldStays
        <4>3. RowComes(coll, u) /\ <<coll, u>> \notin raced
          BY <1>5, <3>1, <4>1, <4>2
        <4>4. /\ InRepo(coll, u) \notin {Deleted, Invalid}
              /\ StatusAt(Owner(u), Len(log)) = "active"
          BY <1>0, <3>0, <4>2 DEF HeldSince
        <4>5. CASE PutListed(d)
          BY <4>3, <4>4, <4>5, PutComes
        <4>6. CASE ListRecords(d)
          <5>1. CASE Todo(coll, u)
            BY <4>4, <4>6, <5>1, ListComes DEF RowComes
          <5>2. CASE RowOr(Indexed(coll), u) = Now(coll, u)
            BY <4>1, <4>6, <5>2, WordsStay
               DEF ListRecords, firehoseVars, index, records, Indexed, RowComes, RowOr
          <5>3. CASE \E i \in WordsNow(coll, u) : Overdue(i)
            BY <4>1, <5>3, WordsStay DEF RowComes, Overdue, stream
          <5>4. QED
            BY <4>3, <5>1, <5>2, <5>3 DEF RowComes
        <4>7. QED
          BY <3>3, <4>5, <4>6
      <3>4. QED
        BY <1>5, <2>1, <3>2, <3>3, Running
    <2>3. QED
      BY <1>5, <2>1, <2>2, Running
  <1>6. RunInv'
    BY <1>5 DEF RunInv
  <1>7. QED
    BY <1>2, <1>4, <1>6

\* When RunOnce ends, whatever was to come has come.
LEMMA FirstCovers ==
    ASSUME Basics, FirstInv, EndRunOnce, once = "running", Quiet, Unbroken,
           NEW k \in Keys \ raced, HeldSince(listedAt, k[1], k[2])
    PROVE  RightRow(k[1], k[2])
  <1>1. PICK coll \in Collection : \E u \in Uri(coll) : k = <<coll, u>>
    BY DEF Keys
  <1>2. PICK u \in Uri(coll) : k = <<coll, u>>
    BY <1>1
  <1>3. PICK d \in Did : d = Owner(u)
    BY UriOwner
  <1>4. /\ left[d] = <<>> /\ page[d] = {} /\ listedAt \in 0..Len(log) /\ Len(log) \in Nat
        /\ StreamInv
    BY DEF Quiet, Idle, NoPages, FirstInv, Basics, StreamInv, LogOK
  <1>5. HeldSince(listedAt, coll, u) /\ <<coll, u>> \notin raced
    BY <1>2
  <1>6. StatusAt(d, Len(log)) = "active"
    BY <1>3, <1>4, <1>5 DEF HeldSince
  <1>7. RowOr(Indexed(coll), u) = Now(coll, u)
    <2>1. RowComes(coll, u)
      BY <1>4, <1>5 DEF FirstInv, RunInv
    <2>2. ~Todo(coll, u)
      BY <1>3, <1>4 DEF Todo
    <2>3. \A i \in WordsNow(coll, u) : ~Overdue(i)
      BY <1>4, NothingOverdue DEF WordsNow, LastWord
    <2>4. QED
      BY <2>1, <2>2, <2>3 DEF RowComes
  <1>8. ASSUME d \in DOMAIN profiles
        PROVE  ~profiles[d]
    <2>1. \A a \in ChangesNow(d) : ~Overdue(a)
      BY <1>4, NothingOverdue DEF ChangesNow, Changes
    <2>2. d \notin HiddenIn(profiles)
      BY <1>6, <2>1 DEF FirstInv, HiddenInv
    <2>3. QED
      BY <1>8, <2>2 DEF HiddenIn
  <1>9. RightRow(coll, u)
    BY <1>3, <1>6, <1>7, <1>8, RightWhen
  <1>10. QED
    BY <1>2, <1>9

(* A first start without an API key (RunOnce, backfill.go): for every      *)
(* network, when RunOnce ends with no repo failed, every valid record that *)
(* an active account's repo has held since it was listed is indexed as it  *)
(* is, though the firehose ran, stopped and went back meanwhile.           *)
THEOREM FirstStartCovers == IngestSpec => BackfillCovers
  <1> DEFINE Inv == /\ Basics
                    /\ CanReplay => once = "idle"
                    /\ ~CanReplay => FirstInv
             Covers == EndRunOnce /\ once = "running" /\ Quiet /\ Unbroken =>
                          \A k \in Keys \ raced :
                              HeldSince(listedAt, k[1], k[2]) => RightRow(k[1], k[2])
  <1>1. IngestInit => Inv
    BY BasicsStart, FirstStart DEF IngestInit
  <1>2. Inv /\ [IngestNext]_ingestVars => Inv'
    BY BasicsStep, FirstStep, Running DEF FirstInv, NoArchiveInv
  <1>3. Inv => [Covers]_ingestVars
    BY FirstCovers
  <1> HIDE DEF Inv
  <1>4. QED
    BY <1>1, <1>2, <1>3, PTL DEF IngestSpec, BackfillCovers

=============================================================================
