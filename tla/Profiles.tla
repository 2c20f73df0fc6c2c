------------------------------ MODULE Profiles ------------------------------
(***************************************************************************)
(* The names of accounts (pkg/ingest/profiles.go): the resolver that looks *)
(* them up every two seconds and at each sign-in, the identity events that *)
(* queue an account for it, and the rows it writes.  Of a row only the     *)
(* handle and resolved_at are kept: the display name and the avatar come   *)
(* with the same pass and are kept or replaced by the same rule.           *)
(***************************************************************************)
EXTENDS Naturals, SequencesExt, FiniteSetsExt

CONSTANTS
    Account,        \* accounts
    Handle,         \* the handles they go by
    Broken,         \* the accounts whose identity can't be looked up
    NoHandle,       \* no handle, or none that is valid
    ProfileBatch,   \* profileBatch
    MaxChanges      \* bound on changes of handles and rows, and on sign-ins

ASSUME ProfilesAssumption ==
    /\ Broken \subseteq Account /\ NoHandle \notin Handle
    /\ ProfileBatch \in Nat \ {0} /\ MaxChanges \in Nat

Resolver == {"run", "sign-in"}

VARIABLES
    named,      \* each account's handle, as its identity says
    shown,      \* profiles.handle, of the accounts that have a row
    resolved,   \* the rows with a resolved_at, in its order
    expired,    \* how many of them are older than profileTTL
    events,     \* accounts with an identity event on its way
    pass,       \* per resolver, the accounts it has yet to look up
    answer,     \* per resolver, a lookup that it has yet to save
    changes,
    marked      \* (history) accounts marked stale and not looked up since

rows == <<shown, resolved, expired>>
passes == <<pass, answer>>
profileVars == <<named, rows, events, passes, changes, marked>>

NoAnswer == <<>>

ProfilesInit ==
    /\ named \in [Account -> Handle \cup {NoHandle}]
    /\ \A d, e \in Account : d # e /\ named[d] = named[e] => named[d] = NoHandle
    /\ \E known \in SUBSET Account : shown = [d \in known |-> NoHandle]
    /\ resolved = <<>> /\ expired = 0
    /\ events = {}
    /\ pass = [r \in Resolver |-> <<>>] /\ answer = [r \in Resolver |-> NoAnswer]
    /\ changes = 0 /\ marked = {}

HasRow(d) == d \in DOMAIN shown

\* A row gets the resolved_at it is given: now (<<d>>), or none (<<>>).
Resolves(d, now) ==
    LET old == SubSeq(resolved, 1, expired)
    IN  /\ resolved' = SelectSeq(resolved, LAMBDA e : e # d) \o now
        /\ expired' = Len(SelectSeq(old, LAMBDA e : e # d))

-----------------------------------------------------------------------------
(* The network, and the writers of rows other than the resolver. *)

Changes == changes < MaxChanges /\ changes' = changes + 1

\* An account takes a handle no other has; an event says so.
Rename(d) ==
    /\ Changes
    /\ \E h \in Handle \cup {NoHandle} :
          /\ h # named[d] /\ (h = NoHandle \/ \A e \in Account : named[e] # h)
          /\ named' = [named EXCEPT ![d] = h]
    /\ events' = events \cup {d}
    /\ UNCHANGED <<rows, passes, marked>>

\* EnsureProfile, for the author of a sheet.
Known(d) ==
    /\ Changes /\ ~HasRow(d)
    /\ shown' = [e \in DOMAIN shown \cup {d} |-> IF e = d THEN NoHandle ELSE shown[e]]
    /\ UNCHANGED <<named, resolved, expired, events, passes, marked>>

\* DeleteProfile, of an account that is deleted.
Purged(d) ==
    /\ Changes /\ HasRow(d)
    /\ shown' = [e \in DOMAIN shown \ {d} |-> shown[e]]
    /\ Resolves(d, <<>>)
    /\ marked' = marked \ {d}
    /\ UNCHANGED <<named, events, passes>>

\* An account the index doesn't know is ignored.
MarkProfileStale(d) ==
    /\ d \in events
    /\ events' = events \ {d}
    /\ IF HasRow(d) THEN Resolves(d, <<>>) /\ marked' = marked \cup {d}
                 ELSE UNCHANGED <<resolved, expired, marked>>
    /\ UNCHANGED <<named, shown, passes, changes>>

\* Without an API key, events pass by a reader that is down.
MissEvent(d) ==
    /\ d \in events
    /\ events' = events \ {d}
    /\ UNCHANGED <<named, rows, passes, changes, marked>>

\* The row that was resolved longest ago reaches profileTTL.
Expire ==
    /\ expired < Len(resolved)
    /\ expired' = expired + 1
    /\ UNCHANGED <<named, shown, resolved, events, passes, changes, marked>>

-----------------------------------------------------------------------------
(* ProfileResolver. *)

\* Never resolved first, in any order, then by resolved_at.
StaleProfiles ==
    LET limited(dids) == SubSeq(dids, 1, Min({Len(dids), ProfileBatch}))
    IN  {limited(nulls \o SubSeq(resolved, 1, expired)) :
            nulls \in SetToSeqs(DOMAIN shown \ ToSet(resolved))}

Rests(r) == pass[r] = <<>>

\* A tick of Run.
Run ==
    /\ Rests("run")
    /\ \E dids \in StaleProfiles : dids # <<>> /\ pass' = [pass EXCEPT !["run"] = dids]
    /\ UNCHANGED <<named, rows, events, answer, changes, marked>>

\* A sign-in resolves its account, known or not.
SignedIn(d) ==
    /\ Changes /\ Rests("sign-in")
    /\ pass' = [pass EXCEPT !["sign-in"] = <<d>>]
    /\ UNCHANGED <<named, rows, events, answer, marked>>

Asks(r) == ~Rests(r) /\ answer[r] = NoAnswer

\* LookupDID, the cached answer purged before; or its failure.
Answers(r, known) ==
    LET d == Head(pass[r])
    IN  /\ Asks(r)
        /\ known => d \notin Broken
        /\ answer' = [answer EXCEPT ![r] =
                        <<[known |-> known, handle |-> IF known THEN named[d] ELSE NoHandle]>>]
        /\ marked' = marked \ {d}
        /\ UNCHANGED <<named, rows, events, pass, changes>>
LookUp(r) == Answers(r, TRUE)
LookUpFails(r) == Answers(r, FALSE)

GoesOn(r) ==
    /\ pass' = [pass EXCEPT ![r] = Tail(@)]
    /\ answer' = [answer EXCEPT ![r] = NoAnswer]
    /\ UNCHANGED <<named, events, changes, marked>>

\* What the lookup failed to find stays as the row shows it.
Written(r) ==
    LET d == Head(pass[r])
        keep == IF HasRow(d) THEN shown[d] ELSE NoHandle
        found == answer[r][1]
        handle == IF found.known THEN found.handle ELSE keep
    IN  /\ shown' = [e \in DOMAIN shown \cup {d} |-> IF e = d THEN handle ELSE shown[e]]
        /\ Resolves(d, <<d>>)

\* (Slip: what can't be looked up isn't written.)
UpsertKnown(r) ==
    /\ answer[r] # NoAnswer
    /\ IF answer[r][1].known THEN Written(r) ELSE UNCHANGED rows
    /\ GoesOn(r)

\* The row is written whether the lookup failed or not, "so a broken
\* identity isn't retried every tick".
SaveProfile(r) ==
    /\ answer[r] # NoAnswer
    /\ Written(r)
    /\ GoesOn(r)

\* The store's error is logged, and the pass goes on.
SaveFails(r) ==
    /\ answer[r] # NoAnswer
    /\ GoesOn(r)
    /\ UNCHANGED rows

ProfilesNext ==
    \/ \E d \in Account :
          \/ Rename(d) \/ Known(d) \/ Purged(d) \/ SignedIn(d)
          \/ MarkProfileStale(d) \/ MissEvent(d)
    \/ Expire
    \/ Run
    \/ \E r \in Resolver : LookUp(r) \/ LookUpFails(r) \/ SaveProfile(r) \/ SaveFails(r)

ProfilesSpec == ProfilesInit /\ [][ProfilesNext]_profileVars

Turn(d) == ~Rests("run") /\ Head(pass["run"]) = d
Saves(d) == Turn(d) /\ SaveProfile("run")
SavesKnown(d) == Saves(d) /\ answer["run"][1].known

\* Days pass, the resolver ticks, and neither the network nor the database
\* fails an account each time.  A sign-in may stop half way.
ProfilesFairness ==
    /\ WF_profileVars(Expire) /\ WF_profileVars(Run)
    /\ WF_profileVars(LookUpFails("run")) /\ WF_profileVars(SaveFails("run"))
    /\ \A d \in Account \ Broken :
          SF_profileVars(Turn(d) /\ LookUp("run")) /\ SF_profileVars(SavesKnown(d))
    /\ \A d \in Broken : SF_profileVars(Saves(d))

-----------------------------------------------------------------------------

ProfilesTypeOK ==
    /\ named \in [Account -> Handle \cup {NoHandle}]
    /\ DOMAIN shown \subseteq Account
    /\ \A d \in DOMAIN shown : shown[d] \in Handle \cup {NoHandle}
    /\ ToSet(resolved) \subseteq DOMAIN shown /\ IsInjective(resolved)
    /\ expired \in 0..Len(resolved)
    /\ events \cup marked \subseteq Account
    /\ \A r \in Resolver :
          /\ pass[r] \in Seq(Account)
          /\ Len(answer[r]) <= 1 /\ Len(answer[r]) <= Len(pass[r])
    /\ changes \in 0..MaxChanges

(* Once handles are left alone, every row shows the handle of its account  *)
(* for good: whatever events were missed, lookups failed, answers came     *)
(* late or were saved after newer ones, and however many accounts can't be *)
(* looked up at all (profileTTL, StaleProfiles, Resolve).                  *)
NamesSettle ==
    <>[](\A d \in DOMAIN shown \ Broken : shown[d] = named[d])

(* "MarkProfileStale queues a known account for re-resolution (after an    *)
(* identity event)" (profiles.go): it stays queued until it is looked up.  *)
MarkedStayQueued == marked \cap ToSet(resolved) = {}
=============================================================================
