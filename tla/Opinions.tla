------------------------------ MODULE Opinions ------------------------------
(***************************************************************************)
(* One account's ratings, or favorites, of one sheet (handleRate and       *)
(* handleFavorite in pkg/server/write.go): the records in its repo, their  *)
(* rows in the index, requests from several tabs that read the rows and    *)
(* then write both, another client that writes the repo, and the firehose  *)
(* that brings every commit to the index in the end.                       *)
(***************************************************************************)
EXTENDS Naturals, SequencesExt

CONSTANTS
    Tab,        \* where the account is signed in
    Given,      \* the ratings it gives
    MaxCommits  \* bound on the commits of its repo

ASSUME OpinionsAssumption == Given \subseteq 1..5 /\ MaxCommits \in Nat

VARIABLES
    kind,       \* "rating" or "favorite"
    repo,       \* the records: rkey -> value and created_at
    rows,       \* the rows of ratings or favorites
    late,       \* commits the firehose has yet to handle
    commits,    \* how many there have been; the clock, and new rkeys, too
    request,    \* per tab, what its request asks for and is at
    undisturbed \* (history) per tab, whether nothing else went on meanwhile

stored == <<repo, rows, late, commits>>
opinionVars == <<kind, stored, request, undisturbed>>

NoRequest == [at |-> "none", value |-> 0, uris |-> <<>>, made |-> 0]

OpinionsInit ==
    /\ kind \in {"rating", "favorite"}
    /\ repo = <<>> /\ rows = <<>> /\ late = <<>> /\ commits = 0
    /\ request = [t \in Tab |-> NoRequest]
    /\ undisturbed = [t \in Tab |-> FALSE]

\* A favorite is a record of no value.
Values == IF kind = "rating" THEN Given ELSE {1}

With(table, k, rec) == [l \in DOMAIN table \cup {k} |-> IF l = k THEN rec ELSE table[l]]
But(table, k) == [l \in DOMAIN table \ {k} |-> table[l]]

-----------------------------------------------------------------------------
(* The repo: createRecord, putRecord and deleteRecord. *)

NewKey == commits + 1

PutOpinion(k, value) ==
    LET rec == [value |-> value, at |-> commits]
    IN  /\ commits < MaxCommits /\ commits' = commits + 1
        /\ repo' = With(repo, k, rec)
        /\ late' = Append(late, [key |-> k, put |-> {rec}])

\* Deleting a record that is gone succeeds, and commits nothing.
DeleteOpinion(k) ==
    IF k \in DOMAIN repo
    THEN /\ commits < MaxCommits /\ commits' = commits + 1
         /\ repo' = But(repo, k)
         /\ late' = Append(late, [key |-> k, put |-> {}])
    ELSE UNCHANGED <<repo, late, commits>>

Disturbs == undisturbed' = [t \in Tab |-> FALSE]

OtherClient ==
    /\ \/ \E k \in DOMAIN repo \cup {NewKey}, v \in Values : PutOpinion(k, v)
       \/ \E k \in DOMAIN repo : DeleteOpinion(k)
    /\ Disturbs
    /\ UNCHANGED <<kind, rows, request>>

\* Firehose.handle.
Echo ==
    /\ late # <<>>
    /\ LET e == Head(late)
       IN  rows' = IF e.put = {} THEN But(rows, e.key)
                   ELSE With(rows, e.key, CHOOSE rec \in e.put : TRUE)
    /\ late' = Tail(late)
    /\ UNCHANGED <<kind, repo, commits, request, undisturbed>>

-----------------------------------------------------------------------------
(* A request. *)

IsAt(t, at) == request[t].at = at
GoesTo(t, at) == request' = [request EXCEPT ![t].at = at]
Replies(t) == request' = [request EXCEPT ![t] = NoRequest]

\* ViewerRatings, the newest first, or ViewerFavorites, in no order.
ViewerState ==
    LET newer(k, l) == \/ rows[k].at > rows[l].at
                       \/ rows[k].at = rows[l].at /\ k > l
    IN  {uris \in SetToSeqs(DOMAIN rows) :
            kind = "rating" =>
                \A i, j \in DOMAIN uris : i < j => newer(uris[i], uris[j])}

\* It loads the viewer's state (subjectSheet); zero takes the opinion back.
Ask(t, value) ==
    /\ IsAt(t, "none")
    /\ \E uris \in ViewerState :
          request' = [request EXCEPT ![t] =
                        [NoRequest EXCEPT !.at = IF value = 0 THEN "drop" ELSE "write",
                                          !.value = value, !.uris = uris]]
    /\ undisturbed' = [u \in Tab |->
                         /\ u = t /\ late = <<>> /\ rows = repo
                         /\ \A v \in Tab : IsAt(v, "none")]
    /\ UNCHANGED <<kind, stored>>

\* (Slip: the record that was rewritten goes with the strays.)
AllOf(uris) == uris

\* "Rewrite the newest in place and drop any strays."
Strays(uris) == Tail(uris)

\* The record is written first in the repo, then in the index.
WriteBoth(t, k, strays) ==
    /\ PutOpinion(k, request[t].value)
    /\ request' = [request EXCEPT ![t].at = "index", ![t].made = commits,
                                  ![t].uris = <<k>> \o strays]

Rate(t) ==
    LET uris == request[t].uris
    IN  /\ IsAt(t, "write") /\ kind = "rating"
        /\ \/ uris = <<>> /\ WriteBoth(t, NewKey, <<>>)
           \/ uris # <<>> /\ WriteBoth(t, uris[1], Strays(uris))
        /\ UNCHANGED <<kind, rows, undisturbed>>

\* A favorite that is there already stays as it is.
Favor(t) ==
    LET uris == request[t].uris
    IN  /\ IsAt(t, "write") /\ kind = "favorite"
        /\ \/ uris = <<>> /\ WriteBoth(t, NewKey, <<>>)
           \/ /\ uris # <<>>
              /\ request' = [request EXCEPT ![t].at = "drop", ![t].uris = <<>>]
              /\ UNCHANGED <<repo, late, commits>>
        /\ UNCHANGED <<kind, rows, undisturbed>>

\* UpsertRating, UpsertFavorite.
IndexIt(t) ==
    LET uris == request[t].uris
    IN  /\ IsAt(t, "index")
        /\ rows' = With(rows, uris[1],
                         [value |-> request[t].value, at |-> request[t].made])
        /\ request' = [request EXCEPT ![t].at = "drop", ![t].uris = Tail(uris)]
        /\ UNCHANGED <<kind, repo, late, commits, undisturbed>>

\* deleteAll: one record after another, each from the repo and the index.
DeleteNext(t) ==
    /\ IsAt(t, "drop") /\ request[t].uris # <<>>
    /\ DeleteOpinion(request[t].uris[1])
    /\ GoesTo(t, "unindex")
    /\ UNCHANGED <<kind, rows, undisturbed>>

Unindex(t) ==
    LET uris == request[t].uris
    IN  /\ IsAt(t, "unindex")
        /\ rows' = But(rows, uris[1])
        /\ request' = [request EXCEPT ![t].at = "drop", ![t].uris = Tail(uris)]
        /\ UNCHANGED <<kind, repo, late, commits, undisturbed>>

Respond(t) ==
    /\ IsAt(t, "drop") /\ request[t].uris = <<>>
    /\ Replies(t)
    /\ UNCHANGED <<kind, stored, undisturbed>>

\* The PDS or the store fails, or the request is cancelled: what was done
\* is not undone, and the rest is not done.
Fails(t) ==
    /\ ~IsAt(t, "none")
    /\ Replies(t)
    /\ Disturbs
    /\ UNCHANGED <<kind, stored>>

OpinionsNext ==
    \/ OtherClient
    \/ Echo
    \/ \E t \in Tab :
          \/ \E value \in Values \cup {0} : Ask(t, value)
          \/ Rate(t) \/ Favor(t) \/ IndexIt(t)
          \/ DeleteNext(t) \/ Unindex(t)
          \/ Respond(t) \/ Fails(t)

OpinionsSpec == OpinionsInit /\ [][OpinionsNext]_opinionVars

-----------------------------------------------------------------------------

\* One record of the value asked for, or none.
Obeyed(value) ==
    /\ rows' = repo'
    /\ IF value = 0 THEN repo' = <<>>
       ELSE /\ \E k \in DOMAIN repo' : repo'[k].value = value
            /\ kind = "rating" => \E k \in DOMAIN repo' : DOMAIN repo' = {k}

(* "Keep one rating record per sheet: rewrite the newest in place and drop *)
(* any strays" (write.go): whatever other tabs, other clients and failed   *)
(* requests left behind, a request that finds the rows in step and is not  *)
(* disturbed leaves the one record it asked for, or none, in the repo and  *)
(* in the index alike.                                                     *)
OneOpinion ==
    [][\A t \in Tab : Respond(t) /\ undisturbed[t] => Obeyed(request[t].value)]_opinionVars
=============================================================================
