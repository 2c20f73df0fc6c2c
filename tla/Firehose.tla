------------------------------ MODULE Firehose ------------------------------
(***************************************************************************)
(* pkg/ingest: the firehose reader keeping the index in step with the      *)
(* network.  The network is the log of what accounts did, as Jetstream     *)
(* numbers it; the reader (Firehose.consume) follows it from a cursor it   *)
(* saves only now and then, so that a crash, a store error or a dropped    *)
(* connection makes it handle events again.  The index is all of Index.    *)
(***************************************************************************)
EXTENDS Index, Sequences

CONSTANTS
    Commits,    \* the commits accounts make in a run
    Deleted,    \* the record of a delete commit
    Invalid,    \* a record the lexicon refuses (records.Decode)
    CanReplay,  \* an API key is set: the archive can be replayed
    MaxLog,     \* bound on the events of the network
    MaxStops    \* bound on how often the reader stops

Collection == {"sheet", "rating", "favorite"}
Uri(coll) == CASE coll = "sheet" -> Sheet
               [] coll = "rating" -> Rating
               [] coll = "favorite" -> Favorite
Row(coll) == CASE coll = "sheet" -> SheetRow
               [] coll = "rating" -> RatingRow
               [] coll = "favorite" -> FavoriteRow

Commit(coll, u, rec) == [coll |-> coll, uri |-> u, rec |-> rec]
Account(d, status) == [coll |-> "account", did |-> d, status |-> status]

ASSUME CommitsAssumption ==
    \A e \in Commits : \E coll \in Collection :
        \E u \in Uri(coll), rec \in Row(coll) \cup {Deleted, Invalid} :
            e = Commit(coll, u, rec)
ASSUME NoRecordAssumption ==
    /\ Deleted # Invalid
    /\ \A coll \in Collection : Deleted \notin Row(coll) /\ Invalid \notin Row(coll)
ASSUME BoundsAssumption == CanReplay \in BOOLEAN /\ MaxLog \in Nat /\ MaxStops \in Nat

VARIABLES
    log,        \* the events of the network, in Jetstream's order
    following,  \* consume is running
    pos,        \* events this consume has handled: 1..pos
    cursor,     \* its cursor: the last event of the last whole batch
    saved,      \* the jetstream_cursor state in the database
    stops,      \* how often the reader has stopped
    handled,    \* (history) the events ever handled
    failed      \* (history) the events that only ever failed

index == <<records, stats, previews>>
stream == <<following, pos, cursor, saved, stops, handled, failed>>
firehoseVars == <<index, log, stream>>

FirehoseInit ==
    /\ Init
    /\ log = <<>>
    /\ following = FALSE /\ pos = 0 /\ cursor = 0 /\ saved = 0
    /\ stops = 0 /\ handled = {} /\ failed = {}

Indexed(coll) == CASE coll = "sheet" -> sheets
                   [] coll = "rating" -> ratings
                   [] coll = "favorite" -> favorites

-----------------------------------------------------------------------------
(* The network: repos on their PDSes, as their last events left them. *)

StatusAt(d, n) ==
    LET changes == {i \in 1..n : log[i].coll = "account" /\ log[i].did = d}
    IN  IF changes = {} THEN "active"
        ELSE log[CHOOSE i \in changes : \A j \in changes : j <= i].status

Purges(e, d) == e.coll = "account" /\ e.did = d /\ e.status = "deleted"
Writes(e, coll, u) == e.coll = coll /\ e.uri = u

\* The record a repo holds: what its last commit left.
InRepo(coll, u) ==
    LET touching == {i \in 1..Len(log) :
                        \/ Writes(log[i], coll, u)
                        \/ Purges(log[i], Owner(u))}
        last == CHOOSE i \in touching : \A j \in touching : j <= i
    IN  IF touching = {} \/ log[last].coll = "account"
        THEN Deleted ELSE log[last].rec

\* An account that isn't active commits nothing, and deletes only what is.
MayCommit(e) ==
    /\ Len(log) < MaxLog
    /\ StatusAt(Owner(e.uri), Len(log)) = "active"
    /\ InRepo(e.coll, e.uri) # e.rec

Publish(e) ==
    /\ MayCommit(e)
    /\ log' = Append(log, e)
    /\ UNCHANGED <<index, stream>>

\* Deactivated, suspended and taken down are all "inactive"; a deleted
\* account stays deleted.
ChangeAccount(d, status) ==
    /\ Len(log) < MaxLog
    /\ StatusAt(d, Len(log)) \notin {status, "deleted"}
    /\ log' = Append(log, Account(d, status))
    /\ UNCHANGED <<index, stream>>

-----------------------------------------------------------------------------
(* Indexer: a record put or deleted. *)

PutRecord(coll, u, rec) ==
    \/ rec = Invalid /\ UNCHANGED index
    \/ coll = "sheet" /\ rec \in SheetRow /\ UpsertSheet(u, rec)
    \/ coll = "rating" /\ rec \in RatingRow /\ UpsertRating(u, rec)
    \/ coll = "favorite" /\ rec \in FavoriteRow /\ UpsertFavorite(u, rec)

DeleteRecord(coll, u) ==
    \/ coll = "sheet" /\ DeleteSheet(u)
    \/ coll = "rating" /\ DeleteRating(u)
    \/ coll = "favorite" /\ DeleteFavorite(u)

\* (Slip: a deleted account is hidden like a deactivated one.)
HandleHidingDeleted(e) ==
    \/ e.coll \in Collection /\ e.rec = Deleted /\ DeleteRecord(e.coll, e.uri)
    \/ e.coll \in Collection /\ e.rec # Deleted /\ PutRecord(e.coll, e.uri, e.rec)
    \/ e.coll = "account" /\ SetHidden(e.did, e.status # "active")

\* Firehose.handle.
Handle(e) ==
    \/ e.coll \in Collection /\ e.rec = Deleted /\ DeleteRecord(e.coll, e.uri)
    \/ e.coll \in Collection /\ e.rec # Deleted /\ PutRecord(e.coll, e.uri, e.rec)
    \/ e.coll = "account" /\ e.status = "active" /\ SetHidden(e.did, FALSE)
    \/ e.coll = "account" /\ e.status = "deleted" /\ PurgeAccount(e.did)
    \/ e.coll = "account" /\ e.status = "inactive" /\ SetHidden(e.did, TRUE)

-----------------------------------------------------------------------------
(* Firehose.consume, from Run's loop. *)

\* (Slip: the saved cursor is ignored.)
ConnectAtTail ==
    /\ ~following
    /\ following' = TRUE
    /\ cursor' = saved
    /\ pos' = Len(log)
    /\ UNCHANGED <<index, log, saved, stops, handled, failed>>

\* Without an API key and a saved cursor, only what happens from now on.
Connect ==
    /\ ~following
    /\ following' = TRUE
    /\ cursor' = saved
    /\ pos' = IF CanReplay \/ saved > 0 THEN saved ELSE Len(log)
    /\ UNCHANGED <<index, log, saved, stops, handled, failed>>

HandleEvent ==
    /\ following /\ pos < Len(log)
    /\ Handle(log[pos + 1])
    /\ pos' = pos + 1
    /\ handled' = handled \cup {pos'}
    /\ failed' = failed \ {pos'}
    /\ UNCHANGED <<log, following, cursor, saved, stops>>

\* The end of a batch; the cursor is saved if the last save was long ago.
EndBatch ==
    /\ following /\ pos > cursor
    /\ cursor' = pos
    /\ saved' \in {saved, cursor'}
    /\ UNCHANGED <<index, log, following, pos, stops, handled, failed>>

Stop ==
    /\ following /\ stops < MaxStops
    /\ following' = FALSE
    /\ stops' = stops + 1
    /\ pos' = 0 /\ cursor' = 0
    /\ UNCHANGED <<index, log, handled>>

\* (Slip: log the error and go on with the next event.)
SkipEvent ==
    /\ following /\ pos < Len(log)
    /\ failed' = failed \cup ({pos + 1} \ handled)
    /\ pos' = pos + 1
    /\ UNCHANGED <<index, log, following, cursor, saved, stops, handled>>

\* The store fails on an event, its transaction rolled back.
FailEvent ==
    /\ pos < Len(log)
    /\ failed' = failed \cup ({pos + 1} \ handled)
    /\ Stop /\ UNCHANGED saved

\* The server is killed, the stream breaks for good or SetState fails.
Crash == Stop /\ UNCHANGED <<saved, failed>>

\* The stream ends, or the server shuts down: progress is saved on the way.
Close ==
    /\ Stop
    /\ saved' = IF cursor > 0 THEN cursor ELSE saved
    /\ UNCHANGED failed

-----------------------------------------------------------------------------

Network ==
    \/ \E e \in Commits : Publish(e)
    \/ \E d \in Did, status \in {"active", "inactive", "deleted"} :
          ChangeAccount(d, status)

Consume == Connect \/ HandleEvent \/ EndBatch \/ FailEvent \/ Crash \/ Close

FirehoseNext == Network \/ Consume

FirehoseSpec == FirehoseInit /\ [][FirehoseNext]_firehoseVars

\* Run reconnects for as long as the server is up (and it is started again
\* when it goes down), and consume's loop handles what is delivered.
FollowsFairly == WF_firehoseVars(Connect) /\ WF_firehoseVars(HandleEvent)
FairFirehose == FirehoseSpec /\ FollowsFairly

-----------------------------------------------------------------------------
(* What following the log to event n should leave in the index. *)

\* The last event that says anything of a record decides; an invalid
\* record says nothing (it is skipped), so the row before it stays.
Says(e, coll, u) ==
    Purges(e, Owner(u)) \/ (Writes(e, coll, u) /\ e.rec # Invalid)
LastWord(n, coll, u) ==
    {i \in 1..n : /\ Says(log[i], coll, u)
                  /\ \A j \in (i + 1)..n : ~Says(log[j], coll, u)}
TableAt(n, coll) ==
    [u \in {v \in Uri(coll) : \E i \in LastWord(n, coll, v) :
                log[i].coll = coll /\ log[i].rec # Deleted}
       |-> log[CHOOSE i \in LastWord(n, coll, u) : TRUE].rec]

InStep(n) ==
    /\ sheets = TableAt(n, "sheet")
    /\ ratings = TableAt(n, "rating")
    /\ favorites = TableAt(n, "favorite")
    /\ \A u \in DOMAIN sheets :
          Owner(u) \in HiddenIn(profiles) <=> StatusAt(Owner(u), n) = "inactive"

StreamTypeOK ==
    /\ TypeOK
    /\ Len(log) <= MaxLog
    /\ following \in BOOLEAN
    /\ pos \in 0..Len(log) /\ cursor \in 0..Len(log) /\ saved \in 0..Len(log)
    /\ stops \in 0..MaxStops /\ handled \subseteq 1..Len(log)
    /\ failed \subseteq 1..Len(log)

CaughtUp == \A i \in handled : i <= pos

(* "Replaying a few seconds after a crash is harmless since every write is *)
(* idempotent" (jetstream.go): however often the reader stopped and went   *)
(* back, once it has caught up with the last event it ever handled, the    *)
(* index is as if every event had been handled once, in order.             *)
ReplayIsHarmless == CaughtUp => InStep(pos)

(* "Stop and resume from the saved cursor rather than skip" (jetstream.go):*)
(* whatever the cursor is saved as, everything up to it has been handled,  *)
(* and no later event is handled before one that has only ever failed.     *)
NoneSkipped ==
    /\ 1..saved \subseteq handled
    /\ \A i \in failed, j \in handled : j < i

(* "The PDS is the source of truth; every row here can be rebuilt from the *)
(* firehose or a backfill" (000001_init.up.sql): with every event handled, *)
(* a sheet's row is the record in its author's repo.                       *)
Rebuildable ==
    CanReplay /\ following /\ pos = Len(log) =>
        \A u \in DOMAIN sheets : sheets[u] = InRepo("sheet", u)

(* Once the network falls quiet and the stops end, the index is in step    *)
(* with it for good.                                                       *)
Converges == <>[]InStep(Len(log))
=============================================================================
