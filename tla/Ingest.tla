------------------------------- MODULE Ingest -------------------------------
(***************************************************************************)
(* The three writers of the index together (pkg/ingest, main.go, write.go, *)
(* auth.go): the firehose, backfills that page through repos, and handlers *)
(* that write a record to its PDS and then index it themselves.            *)
(***************************************************************************)
EXTENDS Firehose

CONSTANTS
    MaxPending, \* bound on the handlers between their PDS and the index
    Backfills   \* the accounts that sign in, each time backfilling its repo

ASSUME WritersAssumption == MaxPending \in Nat /\ Backfills \subseteq Did

VARIABLES
    pending,    \* commits handlers made that they haven't indexed yet
    left,       \* per repo, the collections its backfill has yet to list
    page,       \* per repo, the records listed that it has yet to put
    once,       \* RunOnce: "idle", "running" or (some repo) "failing"
    backfilled, \* the backfill_done state in the database
    listedAt,   \* (history) the events there were when RunOnce began
    raced       \* (history) records that changed while an older write of
                \* them was on its way

backfill == <<left, page, once, backfilled, listedAt>>
ingestVars == <<firehoseVars, pending, backfill, raced>>

Idle == [d \in Did |-> <<>>]
NoPages == [d \in Did |-> {}]
Collections == <<"sheet", "rating", "favorite">>

IngestInit ==
    /\ FirehoseInit
    /\ pending = {} /\ left = Idle /\ page = NoPages
    /\ once = "idle" /\ backfilled = FALSE
    /\ listedAt = 0 /\ raced = {}

-----------------------------------------------------------------------------
(* Every record's URI, and what is on its way to the index. *)

Keys == UNION {{<<coll, u>> : u \in Uri(coll)} : coll \in Collection}
Key(e) == <<e.coll, e.uri>>
OnTheWay == pending \cup UNION {page[d] : d \in Did}
KeysOnTheWay == {Key(e) : e \in OnTheWay}

\* A commit behind no older write of its record sets the record right.
Race(e) ==
    raced' = CASE e.coll = "account" ->
                    raced \cup {k \in KeysOnTheWay : Owner(k[2]) = e.did}
               [] e.coll # "account" /\ Key(e) \in KeysOnTheWay ->
                    raced \cup {Key(e)}
               [] e.coll # "account" /\ Key(e) \notin KeysOnTheWay ->
                    IF e.rec = Invalid THEN raced ELSE raced \ {Key(e)}

Elsewhere ==
    /\ Network
    /\ Race(log'[Len(log')])
    /\ UNCHANGED <<pending, backfill>>

-----------------------------------------------------------------------------
(* Handlers: createRecord, putRecord or deleteRecord on the PDS, then the  *)
(* same change to the index.                                               *)

\* (Slip: indexed first, whether the PDS takes the write or not.)
WriteHereFirst(e) ==
    /\ e.rec # Invalid
    /\ Cardinality(pending) < MaxPending
    /\ MayCommit(e)
    /\ pending' = pending \cup {e}
    /\ UNCHANGED <<firehoseVars, backfill, raced>>

\* What a handler loads before it writes, and refuses without: its author's
\* own sheet, or the sheet that is rated, favorited or forked.  A record it
\* creates is new: the PDS picks the rkey.
Loads(e) ==
    LET new == /\ e.rec # Deleted
               /\ \A i \in 1..Len(log) : ~Writes(log[i], e.coll, e.uri)
        known == e.uri \in DOMAIN Indexed(e.coll)
        shown == Listed(sheets, HiddenIn(profiles))
    IN  \/ e.coll = "sheet" /\ new /\ e.rec.forkOf \in shown \cup {NoFork}
        \/ e.coll = "sheet" /\ known /\ Owner(e.uri) \notin HiddenIn(profiles)
        \/ e.coll # "sheet" /\ new /\ e.rec.subject \in shown
        \/ e.coll # "sheet" /\ known /\ Indexed(e.coll)[e.uri].subject \in shown

\* Deleting what the repo no longer holds succeeds, and commits nothing.
DeletesNothing(e) ==
    /\ e.rec = Deleted /\ InRepo(e.coll, e.uri) = Deleted
    /\ StatusAt(Owner(e.uri), Len(log)) = "active"
    /\ UNCHANGED <<firehoseVars, raced>>

WriteHere(e) ==
    /\ e.rec # Invalid \* validateSheet
    /\ Cardinality(pending) < MaxPending
    /\ \/ Publish(e) /\ Race(e)
       \/ DeletesNothing(e)
    /\ Loads(e)
    /\ pending' = pending \cup {e}
    /\ UNCHANGED backfill

IndexWrite(e) ==
    /\ e \in pending
    /\ IF e.rec = Deleted THEN DeleteRecord(e.coll, e.uri)
                          ELSE PutRecord(e.coll, e.uri, e.rec)
    /\ pending' = pending \ {e}
    /\ UNCHANGED <<log, stream, backfill, raced>>

\* The request is cancelled or the store fails, after the PDS took the write.
LoseWrite(e) ==
    /\ e \in pending
    /\ pending' = pending \ {e}
    /\ UNCHANGED <<firehoseVars, backfill, raced>>

-----------------------------------------------------------------------------
(* Backfiller. *)

Held(d, coll) ==
    {Commit(coll, u, InRepo(coll, u)) :
        u \in {v \in Uri(coll) : Owner(v) = d /\ InRepo(coll, v) # Deleted}}

\* listReposByCollection, for every collection.
BeginRunOnce ==
    /\ ~CanReplay /\ ~backfilled
    /\ once = "idle" /\ left = Idle /\ page = NoPages
    /\ once' = "running"
    /\ left' = [d \in Did |->
                  IF \E coll \in Collection : Held(d, coll) # {}
                  THEN Collections ELSE <<>>]
    /\ listedAt' = Len(log)
    /\ UNCHANGED <<firehoseVars, pending, page, backfilled, raced>>

\* handleOAuthCallback resolves the profile and starts a backfill.  (One
\* backfill of a repo at a time, and sign-ins outside RunOnce, to bound them.)
SignIn(d) ==
    /\ d \in Backfills
    /\ StatusAt(d, Len(log)) = "active"
    /\ once = "idle" /\ left[d] = <<>> /\ page[d] = {}
    /\ UpsertProfile(d)
    /\ left' = [left EXCEPT ![d] = Collections]
    /\ UNCHANGED <<log, stream, pending, page, once, backfilled, listedAt, raced>>

\* (Slip: the first collection is the whole repo.)
ListOneCollection(d) ==
    /\ left[d] # <<>> /\ page[d] = {}
    /\ page' = [page EXCEPT ![d] = Held(d, Head(left[d]))]
    /\ left' = [left EXCEPT ![d] = <<>>]
    /\ UNCHANGED <<firehoseVars, pending, once, backfilled, listedAt, raced>>

\* A repo that isn't there (deleted, deactivated) is done, not failed.
ListRecords(d) ==
    /\ left[d] # <<>> /\ page[d] = {}
    /\ IF StatusAt(d, Len(log)) = "active"
       THEN /\ page' = [page EXCEPT ![d] = Held(d, Head(left[d]))]
            /\ left' = [left EXCEPT ![d] = Tail(@)]
       ELSE /\ left' = [left EXCEPT ![d] = <<>>]
            /\ UNCHANGED page
    /\ UNCHANGED <<firehoseVars, pending, once, backfilled, listedAt, raced>>

PutListed(d) ==
    /\ \E e \in page[d] :
          /\ PutRecord(e.coll, e.uri, e.rec)
          /\ page' = [page EXCEPT ![d] = @ \ {e}]
    /\ UNCHANGED <<log, stream, pending, left, once, backfilled, listedAt, raced>>

\* The PDS doesn't answer, or the store fails on a record.
FailRepo(d) ==
    /\ left[d] # <<>> \/ page[d] # {}
    /\ left' = [left EXCEPT ![d] = <<>>]
    /\ page' = [page EXCEPT ![d] = {}]
    /\ once' = IF once = "idle" THEN once ELSE "failing"
    /\ UNCHANGED <<firehoseVars, pending, backfilled, listedAt, raced>>

\* "Individual repos failing shouldn't make every restart retry."
EndRunOnce ==
    /\ once # "idle" /\ left = Idle /\ page = NoPages
    /\ once' = "idle"
    /\ backfilled' = TRUE
    /\ UNCHANGED <<firehoseVars, pending, left, page, listedAt, raced>>

-----------------------------------------------------------------------------

\* The reader alone stops and goes on, or the whole server goes down.
Streaming == Consume /\ UNCHANGED <<pending, backfill, raced>>
ServerDown ==
    /\ Crash \/ Close
    /\ pending' = {} /\ left' = Idle /\ page' = NoPages /\ once' = "idle"
    /\ UNCHANGED <<backfilled, listedAt, raced>>

IngestNext ==
    \/ Elsewhere
    \/ \E e \in Commits : WriteHere(e) \/ IndexWrite(e) \/ LoseWrite(e)
    \/ BeginRunOnce
    \/ EndRunOnce
    \/ \E d \in Did : SignIn(d) \/ ListRecords(d) \/ PutListed(d) \/ FailRepo(d)
    \/ Streaming
    \/ ServerDown

IngestSpec == IngestInit /\ [][IngestNext]_ingestVars

-----------------------------------------------------------------------------

IngestTypeOK ==
    /\ StreamTypeOK
    /\ pending \subseteq Commits /\ Cardinality(pending) <= MaxPending
    /\ left \in [Did -> Seq(Collection)]
    /\ \A d \in Did : \A e \in page[d] :
          \E coll \in Collection :
              \E u \in Uri(coll), rec \in Row(coll) \cup {Invalid} :
                  e = Commit(coll, u, rec)
    /\ once \in {"idle", "running", "failing"}
    /\ backfilled \in BOOLEAN /\ listedAt \in 0..Len(log)
    /\ raced \subseteq Keys

\* The firehose has handled every event, and nothing else is on its way.
Quiet ==
    /\ following /\ pos = Len(log)
    /\ pending = {} /\ left = Idle /\ page = NoPages

\* A record's row, or its absence, is what the log says.
RightRow(coll, u) ==
    LET table == TableAt(Len(log), coll)
    IN  /\ u \in DOMAIN Indexed(coll) <=> u \in DOMAIN table
        /\ u \in DOMAIN table => Indexed(coll)[u] = table[u]
        /\ coll = "sheet" /\ u \in DOMAIN table =>
             (Owner(u) \in HiddenIn(profiles)
                <=> StatusAt(Owner(u), Len(log)) = "inactive")

(* "Runs alongside the firehose; both write idempotently" (backfill.go):   *)
(* when everything is quiet the index is in step with the network.         *)
QuietInStep == Quiet => InStep(Len(log))

(* Only a record that changed while an older write of it was on its way,   *)
(* from a backfill's page or a handler, can be wrong once all is quiet,    *)
(* and its next change sets it right; whatever stopped, replayed or failed *)
(* (consume, BackfillRepo, handleCreateSheet and its kin).                 *)
OnlyRacesDiverge ==
    CanReplay /\ Quiet => \A k \in Keys \ raced : RightRow(k[1], k[2])

\* A valid record in the repo of an account active since event n, and
\* unchanged since.
HeldSince(n, coll, u) ==
    /\ InRepo(coll, u) \notin {Deleted, Invalid}
    /\ \E i \in LastWord(Len(log), coll, u) : i <= n
    /\ \A i \in n..Len(log) : StatusAt(Owner(u), i) = "active"

\* The firehose has skipped nothing since the first event it handled.
Unbroken == \A i \in handled : i..Len(log) \subseteq handled

(* When RunOnce ends with no repo failed, every valid record an active     *)
(* account's repo has held since the relay listed it is indexed as it is,  *)
(* firehose having handled what came before and since, however often it    *)
(* stopped and went back (RunOnce, on a first start without an API key).   *)
BackfillCovers ==
    [][EndRunOnce /\ once = "running" /\ Quiet /\ Unbroken =>
          \A k \in Keys \ raced :
              HeldSince(listedAt, k[1], k[2]) => RightRow(k[1], k[2])]_ingestVars
=============================================================================
