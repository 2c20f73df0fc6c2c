--------------------------- MODULE HandlersProofs ---------------------------
(***************************************************************************)
(* Theorems about what the server does for the requests of one account,    *)
(* rating and favoriting (Opinions), and signing in and out (Sessions),    *)
(* and about the store's transactions while they overlap (StoreTx).        *)
(***************************************************************************)
EXTENDS StoreTx, Opinions, Sessions, FiniteSetTheorems, SequenceTheorems, TLAPS

-----------------------------------------------------------------------------
(***************************************************************************)
(* Opinions: a request leaves one record or none, for any tabs, ratings    *)
(* and number of commits.                                                  *)
(***************************************************************************)

-----------------------------------------------------------------------------
(* Tables, and lists of their keys. *)

Rec == [value : Nat, at : Nat]
IsRepo(f) ==
    IsFiniteSet(DOMAIN f) /\ DOMAIN f \subseteq Nat /\ f \in [DOMAIN f -> Rec]

LEMMA WithTable ==
    ASSUME NEW f, IsRepo(f), NEW k \in Nat, NEW rec \in Rec
    PROVE  /\ IsRepo(With(f, k, rec)) /\ DOMAIN With(f, k, rec) = DOMAIN f \cup {k}
           /\ With(f, k, rec)[k] = rec
           /\ \A l \in DOMAIN f \ {k} : With(f, k, rec)[l] = f[l]
  <1>1. IsFiniteSet(DOMAIN f \cup {k})
    BY FS_AddElement DEF IsRepo
  <1>2. QED
    BY <1>1 DEF IsRepo, With

LEMMA ButTable ==
    ASSUME NEW f, IsRepo(f), NEW k
    PROVE  /\ IsRepo(But(f, k)) /\ DOMAIN But(f, k) = DOMAIN f \ {k}
           /\ \A l \in DOMAIN f \ {k} : But(f, k)[l] = f[l]
  <1>1. IsFiniteSet(DOMAIN f \ {k})
    BY FS_Subset DEF IsRepo
  <1>2. QED
    BY <1>1 DEF IsRepo, But

LEMMA SameTables ==
    ASSUME NEW f, NEW g, IsRepo(f), IsRepo(g), DOMAIN f = DOMAIN g,
           \A k \in DOMAIN f : f[k] = g[k]
    PROVE  f = g
  BY DEF IsRepo

\* A table without keys is the empty one.
LEMMA EmptyTable ==
    /\ IsRepo(<<>>) /\ DOMAIN <<>> = {}
    /\ \A f : IsRepo(f) /\ DOMAIN f = {} => f = <<>>
  <1>1. <<>> \in Seq(Rec) /\ Len(<<>>) = 0
    OBVIOUS
  <1>2. DOMAIN <<>> = {} /\ <<>> \in [{} -> Rec]
    OBVIOUS
  <1>3. IsRepo(<<>>)
    BY <1>2, FS_EmptySet DEF IsRepo
  <1>4. QED
    BY <1>2, <1>3, SameTables

Els(s) == {s[i] : i \in 1..Len(s)}
Distinct(s) == \A i, j \in 1..Len(s) : s[i] = s[j] => i = j

LEMMA NoEls == Els(<<>>) = {} /\ Distinct(<<>>) /\ <<>> \in Seq(Nat)
  BY DEF Els, Distinct

LEMMA OneEl ==
    ASSUME NEW k \in Nat
    PROVE  /\ <<k>> \o <<>> = <<k>> /\ <<k>> \in Seq(Nat) /\ <<k>> # <<>>
           /\ <<k>>[1] = k /\ Distinct(<<k>>) /\ Els(Tail(<<k>>)) = {}
  BY DEF Els, Distinct

LEMMA HeadOff ==
    ASSUME NEW s \in Seq(Nat), s # <<>>, Distinct(s)
    PROVE  /\ s[1] \in Nat /\ s[1] \in Els(s)
           /\ Tail(s) \in Seq(Nat) /\ Distinct(Tail(s)) /\ Els(Tail(s)) = Els(s) \ {s[1]}
           /\ <<s[1]>> \o Tail(s) = s
  <1>1. Len(s) \in Nat \ {0} /\ s[1] \in Nat /\ s[1] \in Els(s)
    BY DEF Els
  <1>2. /\ Tail(s) \in Seq(Nat) /\ Len(Tail(s)) = Len(s) - 1
        /\ \A i \in 1..(Len(s) - 1) : Tail(s)[i] = s[i + 1]
    BY <1>1
  <1>3. Distinct(Tail(s))
    BY <1>1, <1>2 DEF Distinct
  <1>4. Els(Tail(s)) \subseteq Els(s) \ {s[1]}
    BY <1>1, <1>2 DEF Els, Distinct
  <1>5. ASSUME NEW k \in Els(s) \ {s[1]} PROVE k \in Els(Tail(s))
    <2>1. PICK i \in 1..Len(s) : k = s[i] /\ i # 1
      BY DEF Els
    <2>2. i - 1 \in 1..(Len(s) - 1) /\ (i - 1) + 1 = i
      BY <1>1, <2>1
    <2>3. QED
      BY <1>2, <2>1, <2>2 DEF Els
  <1>6. <<s[1]>> \o Tail(s) = s
    <2>1. s = <<Head(s)>> \o Tail(s) /\ Head(s) = s[1]
      OBVIOUS
    <2>2. QED
      BY <2>1
  <1>7. QED
    BY <1>1, <1>2, <1>3, <1>4, <1>5, <1>6

\* The order that the viewer's rows come in lists each of them once.
LEMMA ViewerStateLists ==
    ASSUME IsRepo(rows), NEW uris \in ViewerState
    PROVE  uris \in Seq(Nat) /\ Distinct(uris) /\ Els(uris) = DOMAIN rows
  <1> DEFINE keys == DOMAIN rows
             n == Cardinality(keys)
  <1>1. IsFiniteSet(keys) /\ keys \subseteq Nat /\ n \in Nat
    BY FS_CardinalityType DEF IsRepo
  <1>2. uris \in [1..n -> keys] /\ \A i, j \in 1..n : i # j => uris[i] # uris[j]
    BY DEF ViewerState, SetToSeqs
  <1> HIDE DEF keys
  <1>3. uris \in Seq(Nat) /\ Len(uris) = n
    <2>1. uris \in [1..n -> Nat]
      BY <1>1, <1>2
    <2>2. QED
      BY <1>1, <2>1
  <1>4. Distinct(uris)
    BY <1>2, <1>3 DEF Distinct
  <1>5. uris \in Surjection(1..n, keys)
    <2>1. uris \in Injection(1..n, keys)
      BY <1>2 DEF Injection, IsInjective
    <2>2. Cardinality(1..n) = n
      BY <1>1, FS_Interval
    <2>3. QED
      BY <1>1, <2>1, <2>2, FS_Injection
  <1>6. Els(uris) = keys
    BY <1>2, <1>3, <1>5 DEF Els, Surjection
  <1>7. QED
    BY <1>3, <1>4, <1>6 DEF keys
-----------------------------------------------------------------------------
(* Types. *)

Event == [key : Nat, put : SUBSET Rec]
Steps == {"none", "write", "index", "drop", "unindex"}
OpenRequest == [at : Steps, value : Nat, uris : Seq(Nat), made : Nat]

OpinionsType ==
    /\ kind \in {"rating", "favorite"} /\ commits \in Nat
    /\ IsRepo(repo) /\ IsRepo(rows) /\ late \in Seq(Event)
    /\ request \in [Tab -> OpenRequest] /\ undisturbed \in [Tab -> BOOLEAN]
    /\ \A t \in Tab : /\ request[t].at = "write" => request[t].value # 0
                      /\ request[t].at \in {"index", "unindex"} => request[t].uris # <<>>
    /\ kind = "favorite" =>
          /\ \A k \in DOMAIN repo : repo[k].value = 1
          /\ \A t \in Tab : request[t].value \in {0, 1}

\* What is asked for, and what a record may hold.
Asked == IF kind = "favorite" THEN {1} ELSE Nat

LEMMA OpinionsTypeInit == OpinionsInit => OpinionsType
  <1>1. NoRequest \in OpenRequest /\ NoRequest.at = "none" /\ NoRequest.value = 0
    BY DEF NoRequest, OpenRequest, Steps
  <1>2. QED
    BY <1>1, EmptyTable DEF OpinionsInit, OpinionsType

\* A record that is written or deleted in the repo leaves its types as they are.
RepoType ==
    /\ commits \in Nat /\ IsRepo(repo) /\ late \in Seq(Event)
    /\ kind = "favorite" => \A k \in DOMAIN repo : repo[k].value = 1

LEMMA PutOpinionType ==
    ASSUME OpinionsType, NEW k \in Nat, NEW value \in Nat, kind = "favorite" => value = 1,
           PutOpinion(k, value), kind' = kind
    PROVE  RepoType' /\ [value |-> value, at |-> commits] \in Rec
  <1> DEFINE rec == [value |-> value, at |-> commits]
             e == [key |-> k, put |-> {rec}]
  <1>1. rec \in Rec /\ e \in Event /\ rec.value = value
    BY DEF OpinionsType, Rec, Event
  <1>2. repo' = With(repo, k, rec) /\ late' = Append(late, e) /\ commits' = commits + 1
    BY DEF PutOpinion
  <1> HIDE DEF rec, e
  <1>3. /\ IsRepo(repo') /\ DOMAIN repo' = DOMAIN repo \cup {k} /\ repo'[k] = rec
        /\ \A l \in DOMAIN repo \ {k} : repo'[l] = repo[l]
    <2>1. IsRepo(repo)
      BY DEF OpinionsType
    <2>2. /\ IsRepo(With(repo, k, rec)) /\ DOMAIN With(repo, k, rec) = DOMAIN repo \cup {k}
          /\ With(repo, k, rec)[k] = rec
          /\ \A l \in DOMAIN repo \ {k} : With(repo, k, rec)[l] = repo[l]
      BY <1>1, <2>1, WithTable
    <2>3. QED
      BY <1>2, <2>2
  <1>4. late' \in Seq(Event) /\ commits' \in Nat
    BY <1>1, <1>2 DEF OpinionsType
  <1>5. QED
    BY <1>1, <1>3, <1>4 DEF RepoType, OpinionsType, rec

LEMMA DeleteOpinionType ==
    ASSUME OpinionsType, NEW k \in Nat, DeleteOpinion(k), kind' = kind
    PROVE  RepoType'
  <1>1. CASE k \in DOMAIN repo
    <2> DEFINE e == [key |-> k, put |-> {}]
    <2>1. e \in Event
      BY DEF Event
    <2>2. repo' = But(repo, k) /\ late' = Append(late, e) /\ commits' = commits + 1
      BY <1>1 DEF DeleteOpinion
    <2> HIDE DEF e
    <2>3. /\ IsRepo(repo') /\ DOMAIN repo' = DOMAIN repo \ {k}
          /\ \A l \in DOMAIN repo \ {k} : repo'[l] = repo[l]
      BY <2>2, ButTable DEF OpinionsType
    <2>4. late' \in Seq(Event) /\ commits' \in Nat
      BY <2>1, <2>2 DEF OpinionsType
    <2>5. QED
      BY <2>3, <2>4 DEF RepoType, OpinionsType
  <1>2. CASE k \notin DOMAIN repo
    BY <1>2 DEF DeleteOpinion, RepoType, OpinionsType
  <1>3. QED
    BY <1>1, <1>2

LEMMA FieldsAre ==
    ASSUME NEW at, NEW value, NEW uris, NEW made,
           NEW q \in [at : {at}, value : {value}, uris : {uris}, made : {made}]
    PROVE  q = [at |-> at, value |-> value, uris |-> uris, made |-> made]
  OBVIOUS

\* A request's record is all of it that changes.
Becomes(t, r) == request' = [u \in Tab |-> IF u = t THEN r ELSE request[u]]
Where(t, at, uris, made) == [at |-> at, value |-> request[t].value, uris |-> uris, made |-> made]

LEMMA RequestFields ==
    ASSUME OpinionsType, NEW t \in Tab
    PROVE  /\ request[t].at \in Steps /\ request[t].value \in Nat
           /\ request[t].uris \in Seq(Nat) /\ request[t].made \in Nat
           /\ request[t] = Where(t, request[t].at, request[t].uris, request[t].made)
  <1>1. request[t] \in OpenRequest
    BY DEF OpinionsType
  <1>2. QED
    BY <1>1 DEF OpenRequest, Where

LEMMA BecomesAt ==
    ASSUME OpinionsType, NEW t \in Tab
    PROVE  /\ \A at : GoesTo(t, at) => Becomes(t, Where(t, at, request[t].uris, request[t].made))
           /\ \A at, uris : request' = [request EXCEPT ![t].at = at, ![t].uris = uris]
                => Becomes(t, Where(t, at, uris, request[t].made))
           /\ \A at, uris, made :
                request' = [request EXCEPT ![t].at = at, ![t].made = made, ![t].uris = uris]
                => Becomes(t, Where(t, at, uris, made))
           /\ Replies(t) => Becomes(t, NoRequest)
  <1>1. request \in [Tab -> OpenRequest] /\ request[t] \in OpenRequest
    BY DEF OpinionsType
  <1>2. request[t] = Where(t, request[t].at, request[t].uris, request[t].made)
    BY RequestFields
  <1>3. ASSUME NEW at, GoesTo(t, at)
        PROVE  Becomes(t, Where(t, at, request[t].uris, request[t].made))
    <2>1. request' = [request EXCEPT ![t] = [request[t] EXCEPT !.at = at]]
      BY <1>3 DEF GoesTo
    <2>2. [request[t] EXCEPT !.at = at] = Where(t, at, request[t].uris, request[t].made)
      BY <1>1 DEF OpenRequest, Where
    <2>3. QED
      BY <1>1, <2>1, <2>2 DEF Becomes
  <1>4. ASSUME NEW at, NEW uris, request' = [request EXCEPT ![t].at = at, ![t].uris = uris]
        PROVE  Becomes(t, Where(t, at, uris, request[t].made))
    <2>1. request' = [request EXCEPT ![t] = [request[t] EXCEPT !.at = at, !.uris = uris]]
      BY <1>1, <1>4
    <2>2. [request[t] EXCEPT !.at = at, !.uris = uris] = Where(t, at, uris, request[t].made)
      <3>1. [request[t] EXCEPT !.at = at, !.uris = uris] \in
              [at : {at}, value : {request[t].value}, uris : {uris}, made : {request[t].made}]
        BY <1>1 DEF OpenRequest
      <3>2. QED
        BY <3>1, FieldsAre DEF Where
    <2>3. QED
      BY <1>1, <2>1, <2>2 DEF Becomes
  <1>5. ASSUME NEW at, NEW uris, NEW made,
               request' = [request EXCEPT ![t].at = at, ![t].made = made, ![t].uris = uris]
        PROVE  Becomes(t, Where(t, at, uris, made))
    <2>1. request' = [request EXCEPT ![t] = [request[t] EXCEPT !.at = at, !.made = made, !.uris = uris]]
      BY <1>1, <1>5
    <2>2. [request[t] EXCEPT !.at = at, !.made = made, !.uris = uris] = Where(t, at, uris, made)
      <3>1. [request[t] EXCEPT !.at = at, !.made = made, !.uris = uris] \in
              [at : {at}, value : {request[t].value}, uris : {uris}, made : {made}]
        BY <1>1 DEF OpenRequest
      <3>2. QED
        BY <3>1, FieldsAre DEF Where
    <2>3. QED
      BY <1>1, <2>1, <2>2 DEF Becomes
  <1>6. Replies(t) => Becomes(t, NoRequest)
    BY <1>1 DEF Replies, Becomes
  <1>7. QED
    BY <1>3, <1>4, <1>5, <1>6

\* What a request may be.
Fine(r) ==
    /\ r \in OpenRequest
    /\ r.at = "write" => r.value # 0
    /\ r.at \in {"index", "unindex"} => r.uris # <<>>
    /\ kind = "favorite" => r.value \in {0, 1}

LEMMA BecomesFine ==
    ASSUME OpinionsType, NEW t \in Tab, NEW r, Fine(r), Becomes(t, r), kind' = kind,
           RepoType', IsRepo(rows)', undisturbed' \in [Tab -> BOOLEAN]
    PROVE  OpinionsType'
  <1>1. /\ request' \in [Tab -> OpenRequest] /\ request'[t] = r
        /\ \A u \in Tab \ {t} : request'[u] = request[u]
    BY DEF OpinionsType, Becomes, Fine
  <1>2. \A u \in Tab : /\ request'[u].at = "write" => request'[u].value # 0
                       /\ request'[u].at \in {"index", "unindex"} => request'[u].uris # <<>>
                       /\ kind = "favorite" => request'[u].value \in {0, 1}
    BY <1>1 DEF OpinionsType, Fine
  <1>3. QED
    BY <1>1, <1>2 DEF OpinionsType, RepoType

-----------------------------------------------------------------------------
(* What each step makes of its request. *)

LEMMA AskBecomes ==
    ASSUME OpinionsType, NEW t \in Tab, NEW value \in Values \cup {0}, Ask(t, value)
    PROVE  /\ \E uris \in ViewerState :
                Becomes(t, [at |-> IF value = 0 THEN "drop" ELSE "write", value |-> value,
                            uris |-> uris, made |-> 0])
           /\ OpinionsType'
  <1> DEFINE at == IF value = 0 THEN "drop" ELSE "write"
  <1>1. PICK uris \in ViewerState :
            request' = [request EXCEPT ![t] =
                          [NoRequest EXCEPT !.at = at, !.value = value, !.uris = uris]]
    BY DEF Ask
  <1> HIDE DEF at
  <1> DEFINE r == [at |-> at, value |-> value, uris |-> uris, made |-> 0]
  <1>2. [NoRequest EXCEPT !.at = at, !.value = value, !.uris = uris] = r
    <2>1. [NoRequest EXCEPT !.at = at, !.value = value, !.uris = uris] \in
            [at : {at}, value : {value}, uris : {uris}, made : {0}]
      BY DEF NoRequest
    <2>2. QED
      BY <2>1, FieldsAre
  <1>3. Becomes(t, r)
    BY <1>1, <1>2 DEF Becomes, OpinionsType
  <1>4. value \in Nat /\ (kind = "favorite" => value \in {0, 1}) /\ uris \in Seq(Nat)
    BY OpinionsAssumption, ViewerStateLists DEF Values, OpinionsType
  <1>5. Fine(r)
    BY <1>4 DEF Fine, OpenRequest, Steps, at
  <1>6. RepoType' /\ IsRepo(rows)' /\ undisturbed' \in [Tab -> BOOLEAN] /\ kind' = kind
    BY DEF Ask, stored, OpinionsType, RepoType, IsRepo
  <1> HIDE DEF r
  <1>7. OpinionsType'
    BY <1>3, <1>5, <1>6, BecomesFine
  <1>8. QED
    BY <1>3, <1>7 DEF r, at

LEMMA WriteBecomes ==
    ASSUME OpinionsType, NEW t \in Tab, NEW k \in Nat, NEW strays, <<k>> \o strays \in Seq(Nat),
           <<k>> \o strays # <<>>, IsAt(t, "write"), WriteBoth(t, k, strays),
           UNCHANGED <<kind, rows, undisturbed>>
    PROVE  Becomes(t, Where(t, "index", <<k>> \o strays, commits)) /\ OpinionsType'
  <1> DEFINE list == <<k>> \o strays
             r == Where(t, "index", list, commits)
  <1>1. PutOpinion(k, request[t].value)
        /\ request' = [request EXCEPT ![t].at = "index", ![t].made = commits, ![t].uris = list]
    BY DEF WriteBoth
  <1> HIDE DEF list
  <1>2. Becomes(t, r)
    BY <1>1, BecomesAt
  <1>3. request[t].value \in Nat /\ (kind = "favorite" => request[t].value = 1)
    BY RequestFields DEF OpinionsType, IsAt
  <1>4. RepoType'
    BY <1>1, <1>3, PutOpinionType
  <1>5. Fine(r)
    BY <1>3 DEF Fine, Where, OpenRequest, Steps, OpinionsType, list
  <1>6. IsRepo(rows)' /\ undisturbed' \in [Tab -> BOOLEAN]
    BY DEF OpinionsType, IsRepo
  <1> HIDE DEF r
  <1>7. OpinionsType'
    BY <1>2, <1>4, <1>5, <1>6, BecomesFine
  <1>8. QED
    BY <1>2, <1>7 DEF r, list

LEMMA StepBecomes ==
    ASSUME OpinionsType, NEW t \in Tab
    PROVE  /\ Favor(t) /\ request[t].uris # <<>> =>
                Becomes(t, Where(t, "drop", <<>>, request[t].made)) /\ OpinionsType'
           /\ IndexIt(t) \/ Unindex(t) =>
                Becomes(t, Where(t, "drop", Tail(request[t].uris), request[t].made)) /\ OpinionsType'
           /\ DeleteNext(t) =>
                Becomes(t, Where(t, "unindex", request[t].uris, request[t].made)) /\ OpinionsType'
           /\ Respond(t) \/ Fails(t) => Becomes(t, NoRequest) /\ OpinionsType'
  <1>0. /\ RepoType /\ IsRepo(rows) /\ undisturbed \in [Tab -> BOOLEAN]
        /\ request[t].value \in Nat /\ request[t].uris \in Seq(Nat) /\ request[t].made \in Nat
        /\ request[t].at = "write" => request[t].value # 0
        /\ kind = "favorite" => request[t].value \in {0, 1}
    BY RequestFields DEF OpinionsType, RepoType
  <1>1. ASSUME Favor(t), request[t].uris # <<>>
        PROVE  Becomes(t, Where(t, "drop", <<>>, request[t].made)) /\ OpinionsType'
    <2> DEFINE r == Where(t, "drop", <<>>, request[t].made)
    <2>1. Becomes(t, r)
      BY <1>1, BecomesAt DEF Favor
    <2>2. Fine(r)
      BY <1>0, NoEls DEF Fine, Where, OpenRequest, Steps
    <2>3. RepoType' /\ IsRepo(rows)' /\ undisturbed' \in [Tab -> BOOLEAN] /\ kind' = kind
      BY <1>0, <1>1 DEF Favor, RepoType, IsRepo
    <2> HIDE DEF r
    <2>4. QED
      BY <2>1, <2>2, <2>3, BecomesFine DEF r
  <1>2. ASSUME IndexIt(t) \/ Unindex(t)
        PROVE  Becomes(t, Where(t, "drop", Tail(request[t].uris), request[t].made)) /\ OpinionsType'
    <2> DEFINE r == Where(t, "drop", Tail(request[t].uris), request[t].made)
    <2>1. Becomes(t, r)
      BY <1>2, BecomesAt DEF IndexIt, Unindex
    <2>2. request[t].uris # <<>> /\ Tail(request[t].uris) \in Seq(Nat) /\ request[t].uris[1] \in Nat
      BY <1>0, <1>2 DEF IndexIt, Unindex, IsAt, OpinionsType
    <2>3. Fine(r)
      BY <1>0, <2>2 DEF Fine, Where, OpenRequest, Steps
    <2>4. IsRepo(rows')
      <3>1. CASE IndexIt(t)
        <4>1. [value |-> request[t].value, at |-> request[t].made] \in Rec
          BY <1>0 DEF Rec
        <4>2. QED
          BY <1>0, <2>2, <3>1, <4>1, WithTable DEF IndexIt
      <3>2. CASE Unindex(t)
        BY <1>0, <3>2, ButTable DEF Unindex
      <3>3. QED
        BY <1>2, <3>1, <3>2
    <2>5. RepoType' /\ IsRepo(rows)' /\ undisturbed' \in [Tab -> BOOLEAN] /\ kind' = kind
      BY <1>0, <1>2, <2>4 DEF IndexIt, Unindex, RepoType, IsRepo
    <2> HIDE DEF r
    <2>6. QED
      BY <2>1, <2>3, <2>5, BecomesFine DEF r
  <1>3. ASSUME DeleteNext(t)
        PROVE  Becomes(t, Where(t, "unindex", request[t].uris, request[t].made)) /\ OpinionsType'
    <2> DEFINE r == Where(t, "unindex", request[t].uris, request[t].made)
    <2>1. Becomes(t, r)
      BY <1>3, BecomesAt DEF DeleteNext
    <2>2. request[t].uris # <<>> /\ request[t].uris[1] \in Nat
      BY <1>0, <1>3 DEF DeleteNext
    <2>3. Fine(r)
      BY <1>0, <2>2 DEF Fine, Where, OpenRequest, Steps
    <2>4. RepoType'
      BY <1>3, <2>2, DeleteOpinionType DEF DeleteNext
    <2>5. IsRepo(rows)' /\ undisturbed' \in [Tab -> BOOLEAN] /\ kind' = kind
      BY <1>0, <1>3 DEF DeleteNext, IsRepo
    <2> HIDE DEF r
    <2>6. QED
      BY <2>1, <2>3, <2>4, <2>5, BecomesFine DEF r
  <1>4. ASSUME Respond(t) \/ Fails(t) PROVE Becomes(t, NoRequest) /\ OpinionsType'
    <2>1. Becomes(t, NoRequest)
      BY <1>4, BecomesAt DEF Respond, Fails
    <2>2. Fine(NoRequest)
      BY NoEls DEF Fine, NoRequest, OpenRequest, Steps
    <2>3. RepoType' /\ IsRepo(rows)' /\ undisturbed' \in [Tab -> BOOLEAN] /\ kind' = kind
      BY <1>0, <1>4 DEF Respond, Fails, Disturbs, stored, RepoType, IsRepo
    <2>4. QED
      BY <2>1, <2>2, <2>3, BecomesFine
  <1>5. QED
    BY <1>1, <1>2, <1>3, <1>4

-----------------------------------------------------------------------------
(* A request that nothing disturbs. *)

\* The records it has yet to delete, and the one it has written or deleted in
\* the repo and not in the index.
Left(r) == IF r.at \in {"index", "unindex"} THEN Els(Tail(r.uris)) ELSE Els(r.uris)
Touched(r) == IF r.at \in {"index", "unindex"} THEN {r.uris[1]} ELSE {}

Same(k) ==
    /\ k \in DOMAIN rows <=> k \in DOMAIN repo
    /\ k \in DOMAIN repo => rows[k] = repo[k]

\* A late commit says of its record what the repo says.
Fits(e) ==
    \/ e.key \notin DOMAIN repo /\ e.put = {}
    \/ e.key \in DOMAIN repo /\ e.put = {repo[e.key]}

\* What it leaves in the end is what was asked for.
Keeps(r) ==
    LET kept == DOMAIN repo \ Left(r)
    IN  /\ Left(r) \subseteq DOMAIN repo
        /\ r.value = 0 => kept = {}
        /\ r.value # 0 => \E k \in kept : repo[k].value = r.value
        /\ r.value # 0 /\ kind = "rating" => \E k \in kept : kept = {k}

AllFit(r) == \A i \in 1..Len(late) : Fits(late[i]) /\ late[i].key \notin Left(r)

GoingAs(r) ==
    /\ Distinct(r.uris)
    /\ \A k \in Nat : k \notin Touched(r) => Same(k)
    /\ AllFit(r)
    /\ r.at = "write" => late = <<>> /\ Els(r.uris) = DOMAIN repo
    /\ r.at = "index" => /\ r.uris[1] \in DOMAIN repo
                         /\ repo[r.uris[1]] = [value |-> r.value, at |-> r.made]
    /\ r.at = "unindex" => r.uris[1] \notin DOMAIN repo
    /\ r.at # "write" => Keeps(r)

Going(t) == GoingAs(request[t])

LEMMA GoesAs ==
    ASSUME NEW t \in Tab, NEW r, request'[t] = r, GoingAs(r)'
    PROVE  Going(t)'
  BY DEF Going, GoingAs, AllFit, Left, Touched, Keeps

LEMMA AskGoes ==
    ASSUME OpinionsType, NEW t \in Tab, NEW value \in Values \cup {0}, Ask(t, value),
           late = <<>>, rows = repo
    PROVE  Going(t)'
  <1>1. PICK uris \in ViewerState :
            Becomes(t, [at |-> IF value = 0 THEN "drop" ELSE "write", value |-> value,
                        uris |-> uris, made |-> 0])
    BY AskBecomes
  <1>2. uris \in Seq(Nat) /\ Distinct(uris) /\ Els(uris) = DOMAIN repo
    BY ViewerStateLists DEF OpinionsType
  <1>3. PICK r : r = [at |-> IF value = 0 THEN "drop" ELSE "write", value |-> value,
                      uris |-> uris, made |-> 0]
    OBVIOUS
  <1>4. r.at = (IF value = 0 THEN "drop" ELSE "write") /\ r.value = value /\ r.uris = uris
    BY <1>3
  <1>5. request'[t] = r
    BY <1>1, <1>3 DEF Becomes
  <1>6. UNCHANGED <<kind, repo, rows, late>>
    BY DEF Ask, stored
  <1>7. Left(r) = DOMAIN repo /\ Touched(r) = {}
    BY <1>2, <1>4 DEF Left, Touched
  <1>8. \A k : Same(k)'
    BY <1>6 DEF Same
  <1>9. r.at # "write" => Keeps(r)'
    BY <1>4, <1>6, <1>7 DEF Keeps
  <1>10. late' = <<>> /\ Len(late') = 0
    BY <1>6
  <1>11. GoingAs(r)'
    BY <1>2, <1>4, <1>6, <1>7, <1>8, <1>9, <1>10 DEF GoingAs, AllFit
  <1>12. QED
    BY <1>5, <1>11, GoesAs

\* A request writes its record when nothing has happened yet.
LEMMA WriteGoes ==
    ASSUME OpinionsType, NEW t \in Tab, Going(t), IsAt(t, "write"), NEW k \in Nat, NEW strays,
           <<k>> \o strays \in Seq(Nat), Distinct(<<k>> \o strays),
           (<<k>> \o strays)[1] = k, <<k>> \o strays # <<>>,
           Els(Tail(<<k>> \o strays)) = DOMAIN repo \ {k},
           WriteBoth(t, k, strays), UNCHANGED <<kind, rows, undisturbed>>
    PROVE  Going(t)'
  <1> DEFINE list == <<k>> \o strays
  <1>1. Becomes(t, Where(t, "index", list, commits))
    BY WriteBecomes
  <1> HIDE DEF list
  <1>r. PICK rec : rec = [value |-> request[t].value, at |-> commits]
    OBVIOUS
  <1>e. PICK e : e = [key |-> k, put |-> {rec}]
    OBVIOUS
  <1>2. PICK r : r = Where(t, "index", list, commits)
    OBVIOUS
  <1>3. r.at = "index" /\ r.value = request[t].value /\ r.uris = list /\ r.made = commits
    BY <1>2 DEF Where
  <1>4. request'[t] = r
    BY <1>1, <1>2 DEF Becomes
  <1>5. /\ repo' = With(repo, k, rec) /\ late' = Append(late, e)
        /\ rows' = rows /\ kind' = kind
    BY <1>r, <1>e DEF WriteBoth, PutOpinion
  <1>6. late = <<>> /\ r.value # 0 /\ \A l \in Nat : Same(l)
    BY <1>3 DEF Going, GoingAs, IsAt, Touched, OpinionsType
  <1>7. rec = [value |-> r.value, at |-> r.made] /\ rec.value = r.value
    BY <1>3, <1>r
  <1>8. e.key = k /\ e.put = {rec} /\ late' = <<e>>
    BY <1>5, <1>6, <1>e
  <1>9. /\ DOMAIN repo' = DOMAIN repo \cup {k} /\ repo'[k] = rec
        /\ \A l \in DOMAIN repo \ {k} : repo'[l] = repo[l]
    <2>1. IsRepo(repo) /\ rec \in Rec
      BY <1>r, RequestFields DEF OpinionsType, Rec
    <2>2. /\ IsRepo(With(repo, k, rec)) /\ DOMAIN With(repo, k, rec) = DOMAIN repo \cup {k}
          /\ With(repo, k, rec)[k] = rec
          /\ \A l \in DOMAIN repo \ {k} : With(repo, k, rec)[l] = repo[l]
      BY <2>1, WithTable
    <2>3. QED
      BY <1>5, <2>2
  <1>10. Left(r) = DOMAIN repo \ {k} /\ Touched(r) = {k} /\ Distinct(r.uris) /\ r.uris[1] = k
    BY <1>3 DEF Left, Touched, list
  <1>11. \A l \in Nat \ {k} : Same(l)'
    BY <1>5, <1>6, <1>9 DEF Same
  <1>12. AllFit(r)'
    <2>1. Len(late') = 1 /\ late'[1] = e
      BY <1>8
    <2>2. Fits(e)' /\ e.key \notin Left(r)
      BY <1>8, <1>9, <1>10 DEF Fits
    <2>3. QED
      BY <2>1, <2>2 DEF AllFit, Fits
  <1>13. Keeps(r)'
    <2>1. Left(r) \subseteq DOMAIN repo' /\ DOMAIN repo' \ Left(r) = {k}
      BY <1>9, <1>10
    <2>2. repo'[k].value = r.value
      BY <1>7, <1>9
    <2>3. QED
      BY <1>6, <2>1, <2>2 DEF Keeps
  <1>14. GoingAs(r)'
    BY <1>3, <1>7, <1>9, <1>10, <1>11, <1>12, <1>13 DEF GoingAs
  <1>15. QED
    BY <1>4, <1>14, GoesAs

LEMMA IndexGoes ==
    ASSUME OpinionsType, NEW t \in Tab, Going(t), IndexIt(t)
    PROVE  Going(t)'
  <1> DEFINE uris == request[t].uris
             k == uris[1]
  <1>1. PICK r : r = Where(t, "drop", Tail(uris), request[t].made)
    OBVIOUS
  <1>2. request'[t] = r
    BY <1>1, StepBecomes DEF Becomes
  <1>3. r.at = "drop" /\ r.value = request[t].value /\ r.uris = Tail(uris)
    BY <1>1 DEF Where
  <1>4. request[t].at = "index" /\ uris # <<>> /\ uris \in Seq(Nat) /\ Distinct(uris)
    BY RequestFields DEF IndexIt, IsAt, OpinionsType, Going, GoingAs
  <1>5. k \in Nat /\ Distinct(r.uris)
    BY <1>3, <1>4, HeadOff
  <1>6. PICK rec : rec = [value |-> request[t].value, at |-> request[t].made]
    OBVIOUS
  <1>7. rows' = With(rows, k, rec) /\ UNCHANGED <<kind, repo, late>>
    BY <1>6 DEF IndexIt
  <1>8. /\ DOMAIN rows' = DOMAIN rows \cup {k} /\ rows'[k] = rec
        /\ \A l \in DOMAIN rows \ {k} : rows'[l] = rows[l]
    <2>1. IsRepo(rows) /\ rec \in Rec
      BY <1>6, RequestFields DEF OpinionsType, Rec
    <2>2. /\ IsRepo(With(rows, k, rec)) /\ DOMAIN With(rows, k, rec) = DOMAIN rows \cup {k}
          /\ With(rows, k, rec)[k] = rec
          /\ \A l \in DOMAIN rows \ {k} : With(rows, k, rec)[l] = rows[l]
      BY <1>5, <2>1, WithTable
    <2>3. QED
      BY <1>7, <2>2
  <1>9. Left(r) = Left(request[t]) /\ Touched(r) = {} /\ Touched(request[t]) = {k}
    BY <1>3, <1>4 DEF Left, Touched
  <1>10. k \in DOMAIN repo /\ repo[k] = rec /\ \A l \in Nat \ {k} : Same(l)
    BY <1>4, <1>6, <1>9 DEF Going, GoingAs
  <1>11. \A l \in Nat : Same(l)'
    BY <1>7, <1>8, <1>10 DEF Same
  <1>12. AllFit(r)'
    BY <1>7, <1>9 DEF AllFit, Fits, Going, GoingAs
  <1>13. Keeps(r)'
    BY <1>3, <1>4, <1>7, <1>9 DEF Keeps, Going, GoingAs
  <1>14. GoingAs(r)'
    BY <1>3, <1>5, <1>9, <1>11, <1>12, <1>13 DEF GoingAs
  <1>15. QED
    BY <1>2, <1>14, GoesAs

LEMMA UnindexGoes ==
    ASSUME OpinionsType, NEW t \in Tab, Going(t), Unindex(t)
    PROVE  Going(t)'
  <1> DEFINE uris == request[t].uris
             k == uris[1]
  <1>1. PICK r : r = Where(t, "drop", Tail(uris), request[t].made)
    OBVIOUS
  <1>2. request'[t] = r
    BY <1>1, StepBecomes DEF Becomes
  <1>3. r.at = "drop" /\ r.value = request[t].value /\ r.uris = Tail(uris)
    BY <1>1 DEF Where
  <1>4. request[t].at = "unindex" /\ uris # <<>> /\ uris \in Seq(Nat) /\ Distinct(uris)
    BY RequestFields DEF Unindex, IsAt, OpinionsType, Going, GoingAs
  <1>5. k \in Nat /\ Distinct(r.uris)
    BY <1>3, <1>4, HeadOff
  <1>6. rows' = But(rows, k) /\ UNCHANGED <<kind, repo, late>>
    BY DEF Unindex
  <1>7. /\ DOMAIN rows' = DOMAIN rows \ {k}
        /\ \A l \in DOMAIN rows \ {k} : rows'[l] = rows[l]
    <2>1. IsRepo(rows)
      BY DEF OpinionsType
    <2>2. /\ IsRepo(But(rows, k)) /\ DOMAIN But(rows, k) = DOMAIN rows \ {k}
          /\ \A l \in DOMAIN rows \ {k} : But(rows, k)[l] = rows[l]
      BY <2>1, ButTable
    <2>3. QED
      BY <1>6, <2>2
  <1>8. Left(r) = Left(request[t]) /\ Touched(r) = {} /\ Touched(request[t]) = {k}
    BY <1>3, <1>4 DEF Left, Touched
  <1>9. k \notin DOMAIN repo /\ \A l \in Nat \ {k} : Same(l)
    BY <1>4, <1>8 DEF Going, GoingAs
  <1>10. \A l \in Nat : Same(l)'
    BY <1>6, <1>7, <1>9 DEF Same
  <1>11. AllFit(r)'
    BY <1>6, <1>8 DEF AllFit, Fits, Going, GoingAs
  <1>12. Keeps(r)'
    BY <1>3, <1>4, <1>6, <1>8 DEF Keeps, Going, GoingAs
  <1>13. GoingAs(r)'
    BY <1>3, <1>5, <1>8, <1>10, <1>11, <1>12 DEF GoingAs
  <1>14. QED
    BY <1>2, <1>13, GoesAs

LEMMA DeleteGoes ==
    ASSUME OpinionsType, NEW t \in Tab, Going(t), DeleteNext(t)
    PROVE  Going(t)'
  <1> DEFINE uris == request[t].uris
             k == uris[1]
             L == Left(request[t])
  <1>1. PICK r : r = Where(t, "unindex", uris, request[t].made)
    OBVIOUS
  <1>2. request'[t] = r
    BY <1>1, StepBecomes DEF Becomes
  <1>3. r.at = "unindex" /\ r.value = request[t].value /\ r.uris = uris
    BY <1>1 DEF Where
  <1>4. request[t].at = "drop" /\ uris # <<>> /\ uris \in Seq(Nat) /\ Distinct(uris)
    BY RequestFields DEF DeleteNext, IsAt, OpinionsType, Going, GoingAs
  <1>5. k \in Nat /\ k \in Els(uris) /\ Els(Tail(uris)) = Els(uris) \ {k}
    BY <1>4, HeadOff
  <1>6. Left(r) = L \ {k} /\ k \in L /\ Touched(r) = {k} /\ Touched(request[t]) = {}
    BY <1>3, <1>4, <1>5 DEF Left, Touched
  <1>7. Keeps(request[t]) /\ AllFit(request[t]) /\ \A l \in Nat : Same(l)
    BY <1>4, <1>6 DEF Going, GoingAs
  <1>8. k \in DOMAIN repo
    BY <1>6, <1>7 DEF Keeps
  <1>9. PICK e : e = [key |-> k, put |-> {}]
    OBVIOUS
  <1>10. /\ repo' = But(repo, k) /\ late' = Append(late, e)
         /\ rows' = rows /\ kind' = kind
    BY <1>8, <1>9 DEF DeleteNext, DeleteOpinion
  <1>11. /\ DOMAIN repo' = DOMAIN repo \ {k}
         /\ \A l \in DOMAIN repo \ {k} : repo'[l] = repo[l]
    <2>1. IsRepo(repo)
      BY DEF OpinionsType
    <2>2. /\ IsRepo(But(repo, k)) /\ DOMAIN But(repo, k) = DOMAIN repo \ {k}
          /\ \A l \in DOMAIN repo \ {k} : But(repo, k)[l] = repo[l]
      BY <2>1, ButTable
    <2>3. QED
      BY <1>10, <2>2
  <1>12. \A l \in Nat \ {k} : Same(l)'
    BY <1>7, <1>10, <1>11 DEF Same
  <1>13. AllFit(r)'
    <2>1. /\ Len(late') = Len(late) + 1 /\ Len(late) \in Nat /\ late'[Len(late) + 1] = e
          /\ \A i \in 1..Len(late) : late'[i] = late[i]
      BY <1>10 DEF OpinionsType
    <2>2. e.key = k /\ e.put = {}
      BY <1>9
    <2>3. \A i \in 1..Len(late) :
             /\ \/ late[i].key \notin DOMAIN repo' /\ late[i].put = {}
                \/ late[i].key \in DOMAIN repo' /\ late[i].put = {repo'[late[i].key]}
             /\ late[i].key \notin Left(r)
      BY <1>6, <1>7, <1>11 DEF AllFit, Fits
    <2>4. ASSUME NEW i \in 1..Len(late')
          PROVE  /\ \/ late'[i].key \notin DOMAIN repo' /\ late'[i].put = {}
                    \/ late'[i].key \in DOMAIN repo' /\ late'[i].put = {repo'[late'[i].key]}
                 /\ late'[i].key \notin Left(r)
      <3>1. CASE i \in 1..Len(late)
        BY <2>1, <2>3, <3>1
      <3>2. CASE i = Len(late) + 1
        BY <1>6, <1>11, <2>1, <2>2, <3>2
      <3>3. QED
        BY <2>1, <3>1, <3>2
    <2>5. QED
      BY <2>4 DEF AllFit, Fits
  <1>14. Keeps(r)'
    <2>1. DOMAIN repo' \ Left(r) = DOMAIN repo \ L /\ Left(r) \subseteq DOMAIN repo'
      BY <1>6, <1>7, <1>11 DEF Keeps
    <2>2. \A l \in DOMAIN repo \ L : repo'[l] = repo[l]
      BY <1>6, <1>11
    <2>3. QED
      BY <1>3, <1>7, <1>10, <2>1, <2>2 DEF Keeps
  <1>15. GoingAs(r)'
    BY <1>3, <1>4, <1>6, <1>11, <1>12, <1>13, <1>14 DEF GoingAs
  <1>16. QED
    BY <1>2, <1>15, GoesAs

\* A favorite that is there already.
LEMMA FavorGoes ==
    ASSUME OpinionsType, NEW t \in Tab, Going(t), Favor(t), request[t].uris # <<>>
    PROVE  Going(t)'
  <1> DEFINE uris == request[t].uris
  <1>1. PICK r : r = Where(t, "drop", <<>>, request[t].made)
    OBVIOUS
  <1>2. request'[t] = r
    BY <1>1, StepBecomes DEF Becomes
  <1>3. r.at = "drop" /\ r.value = request[t].value /\ r.uris = <<>>
    BY <1>1 DEF Where
  <1>4. request[t].at = "write" /\ uris \in Seq(Nat) /\ Distinct(uris)
        /\ kind = "favorite" /\ r.value = 1
    BY <1>3, RequestFields DEF Favor, IsAt, OpinionsType, Going, GoingAs
  <1>5. late = <<>> /\ Els(uris) = DOMAIN repo /\ \A l \in Nat : Same(l)
    BY <1>4 DEF Going, GoingAs, Touched
  <1>6. UNCHANGED <<kind, repo, rows, late>>
    BY DEF Favor
  <1>7. Left(r) = {} /\ Touched(r) = {} /\ Distinct(r.uris)
    BY <1>3, NoEls DEF Left, Touched
  <1>8. \A l \in Nat : Same(l)'
    BY <1>5, <1>6 DEF Same
  <1>9. AllFit(r)'
    BY <1>5, <1>6 DEF AllFit
  <1>10. Keeps(r)'
    <2>1. uris[1] \in DOMAIN repo
      BY <1>4, <1>5, HeadOff
    <2>2. repo[uris[1]].value = 1
      BY <1>4, <2>1 DEF OpinionsType
    <2>3. QED
      BY <1>4, <1>6, <1>7, <2>1, <2>2 DEF Keeps
  <1>11. GoingAs(r)'
    BY <1>3, <1>7, <1>8, <1>9, <1>10 DEF GoingAs
  <1>12. QED
    BY <1>2, <1>11, GoesAs

\* A late commit brings the index what the repo holds.
LEMMA EchoGoes ==
    ASSUME OpinionsType, NEW t \in Tab, Going(t), Echo
    PROVE  Going(t)'
  <1>1. PICK r : r = request[t]
    OBVIOUS
  <1>2. PICK e : e = Head(late)
    OBVIOUS
  <1>3. request'[t] = r /\ UNCHANGED <<kind, repo>> /\ late # <<>> /\ late' = Tail(late)
    BY <1>1 DEF Echo
  <1>4. GoingAs(r) /\ AllFit(r)
    BY <1>1 DEF Going, GoingAs
  <1>5. /\ Len(late) \in Nat \ {0} /\ late[1] = e /\ Len(late') = Len(late) - 1
        /\ \A i \in 1..Len(late') : i + 1 \in 1..Len(late) /\ late'[i] = late[i + 1]
        /\ e \in Event
    BY <1>2, <1>3 DEF OpinionsType
  <1>6. Fits(e) /\ e.key \in Nat
    BY <1>4, <1>5 DEF AllFit, Event
  <1>7. \A l \in Nat : (l # e.key => (Same(l) => Same(l)')) /\ Same(e.key)'
    <2>1. CASE e.put = {}
      <3>1. rows' = But(rows, e.key)
        BY <1>2, <2>1 DEF Echo
      <3>2. /\ DOMAIN rows' = DOMAIN rows \ {e.key}
            /\ \A l \in DOMAIN rows \ {e.key} : rows'[l] = rows[l]
        <4>1. IsRepo(rows)
          BY DEF OpinionsType
        <4>2. /\ IsRepo(But(rows, e.key)) /\ DOMAIN But(rows, e.key) = DOMAIN rows \ {e.key}
              /\ \A l \in DOMAIN rows \ {e.key} : But(rows, e.key)[l] = rows[l]
          BY <4>1, ButTable
        <4>3. QED
          BY <3>1, <4>2
      <3>3. e.key \notin DOMAIN repo
        BY <1>6, <2>1 DEF Fits
      <3>4. QED
        BY <1>3, <3>2, <3>3 DEF Same
    <2>2. CASE e.put # {}
      <3>1. PICK rec : rec = repo[e.key]
        OBVIOUS
      <3>2. e.key \in DOMAIN repo /\ e.put = {rec}
        BY <1>6, <2>2, <3>1 DEF Fits
      <3>3. (CHOOSE x \in e.put : TRUE) = rec
        BY <3>2
      <3>4. rows' = With(rows, e.key, rec)
        BY <1>2, <2>2, <3>3 DEF Echo
      <3>5. IsRepo(rows) /\ rec \in Rec
        BY <3>1, <3>2 DEF OpinionsType, IsRepo
      <3>6. /\ IsRepo(With(rows, e.key, rec))
            /\ DOMAIN With(rows, e.key, rec) = DOMAIN rows \cup {e.key}
            /\ With(rows, e.key, rec)[e.key] = rec
            /\ \A l \in DOMAIN rows \ {e.key} : With(rows, e.key, rec)[l] = rows[l]
        <4>1. PICK k \in Nat : k = e.key
          BY <1>6
        <4>2. /\ IsRepo(With(rows, k, rec)) /\ DOMAIN With(rows, k, rec) = DOMAIN rows \cup {k}
              /\ With(rows, k, rec)[k] = rec
              /\ \A l \in DOMAIN rows \ {k} : With(rows, k, rec)[l] = rows[l]
          BY <3>5, WithTable
        <4>3. QED
          BY <4>1, <4>2
      <3>7. QED
        BY <1>3, <3>1, <3>2, <3>4, <3>6 DEF Same
    <2>3. QED
      BY <2>1, <2>2
  <1>8. \A l \in Nat : l \notin Touched(r) => Same(l)'
    BY <1>4, <1>6, <1>7 DEF GoingAs
  <1>9. AllFit(r)'
    <2>1. \A i \in 1..Len(late') :
             /\ \/ late'[i].key \notin DOMAIN repo /\ late'[i].put = {}
                \/ late'[i].key \in DOMAIN repo /\ late'[i].put = {repo[late'[i].key]}
             /\ late'[i].key \notin Left(r)
      BY <1>4, <1>5 DEF AllFit, Fits
    <2>2. QED
      BY <1>3, <2>1 DEF AllFit, Fits
  <1>10. Keeps(r) => Keeps(r)'
    BY <1>3 DEF Keeps
  <1>11. GoingAs(r)'
    BY <1>3, <1>4, <1>8, <1>9, <1>10 DEF GoingAs
  <1>12. QED
    BY <1>3, <1>11, GoesAs

LEMMA RateGoes ==
    ASSUME OpinionsType, NEW t \in Tab, Going(t), Rate(t) \/ (Favor(t) /\ request[t].uris = <<>>)
    PROVE  Going(t)' /\ OpinionsType' /\ \E r : Becomes(t, r)
  <1> DEFINE uris == request[t].uris
  <1>1. /\ IsAt(t, "write") /\ UNCHANGED <<kind, rows, undisturbed>>
        /\ \/ uris = <<>> /\ WriteBoth(t, NewKey, <<>>)
           \/ uris # <<>> /\ WriteBoth(t, uris[1], Tail(uris))
    BY DEF Rate, Favor, Strays
  <1>2. uris \in Seq(Nat) /\ Distinct(uris) /\ Els(uris) = DOMAIN repo /\ NewKey \in Nat
    BY <1>1, RequestFields DEF Going, GoingAs, IsAt, NewKey, OpinionsType
  <1>3. CASE uris = <<>>
    <2>1. PICK k \in Nat : k = NewKey
      BY <1>2
    <2>2. Els(Tail(<<k>> \o <<>>)) = DOMAIN repo \ {k}
      BY <1>2, <1>3, NoEls, OneEl
    <2>3. /\ <<k>> \o <<>> \in Seq(Nat) /\ Distinct(<<k>> \o <<>>)
          /\ (<<k>> \o <<>>)[1] = k /\ <<k>> \o <<>> # <<>>
      BY OneEl
    <2>4. WriteBoth(t, k, <<>>)
      BY <1>1, <1>3, <2>1
    <2>5. QED
      BY <1>1, <2>2, <2>3, <2>4, WriteGoes, WriteBecomes
  <1>4. CASE uris # <<>>
    <2>1. PICK k \in Nat : k = uris[1]
      BY <1>2, <1>4, HeadOff
    <2>2. PICK strays : strays = Tail(uris)
      OBVIOUS
    <2>3. <<k>> \o strays = uris /\ Els(Tail(uris)) = DOMAIN repo \ {k}
      BY <1>2, <1>4, <2>1, <2>2, HeadOff
    <2>4. /\ <<k>> \o strays \in Seq(Nat) /\ Distinct(<<k>> \o strays)
          /\ (<<k>> \o strays)[1] = k /\ <<k>> \o strays # <<>>
          /\ Els(Tail(<<k>> \o strays)) = DOMAIN repo \ {k}
      BY <1>2, <1>4, <2>1, <2>3
    <2>5. WriteBoth(t, k, strays)
      BY <1>1, <1>4, <2>1, <2>2
    <2>6. QED
      BY <1>1, <2>4, <2>5, WriteGoes, WriteBecomes
  <1>5. QED
    BY <1>3, <1>4

\* The inductive invariant: while a request is undisturbed the others rest,
\* and it is going as it should.
OpinionsInv ==
    /\ OpinionsType
    /\ \A t \in Tab : undisturbed[t] =>
          /\ \A u \in Tab \ {t} : IsAt(u, "none")
          /\ ~IsAt(t, "none") => Going(t)

LEMMA OpinionsInvInit == OpinionsInit => OpinionsInv
  BY OpinionsTypeInit DEF OpinionsInit, OpinionsInv

\* A request's own steps.
Own(t) ==
    \/ Rate(t) \/ Favor(t) \/ IndexIt(t) \/ DeleteNext(t) \/ Unindex(t) \/ Respond(t)

LEMMA OwnSteps ==
    ASSUME OpinionsType, NEW t \in Tab, Own(t), Going(t)
    PROVE  /\ OpinionsType' /\ undisturbed' = undisturbed /\ ~IsAt(t, "none")
           /\ \E r : Becomes(t, r)
           /\ Going(t)' \/ IsAt(t, "none")'
  <1>1. undisturbed' = undisturbed /\ ~IsAt(t, "none")
    BY DEF Own, Rate, Favor, IndexIt, DeleteNext, Unindex, Respond, IsAt
  <1>2. CASE Rate(t) \/ (Favor(t) /\ request[t].uris = <<>>)
    BY <1>1, <1>2, RateGoes
  <1>3. CASE Favor(t) /\ request[t].uris # <<>>
    BY <1>1, <1>3, StepBecomes, FavorGoes
  <1>4. CASE IndexIt(t)
    BY <1>1, <1>4, StepBecomes, IndexGoes
  <1>5. CASE DeleteNext(t)
    BY <1>1, <1>5, StepBecomes, DeleteGoes
  <1>6. CASE Unindex(t)
    BY <1>1, <1>6, StepBecomes, UnindexGoes
  <1>7. CASE Respond(t)
    <2>1. Becomes(t, NoRequest) /\ OpinionsType'
      BY <1>7, StepBecomes
    <2>2. IsAt(t, "none")'
      BY <2>1 DEF Becomes, IsAt, NoRequest
    <2>3. QED
      BY <1>1, <2>1, <2>2
  <1>8. QED
    BY <1>2, <1>3, <1>4, <1>5, <1>6, <1>7 DEF Own

LEMMA RateType ==
    ASSUME OpinionsType, NEW t \in Tab, Rate(t) \/ (Favor(t) /\ request[t].uris = <<>>)
    PROVE  OpinionsType'
  <1> DEFINE uris == request[t].uris
  <1>1. /\ IsAt(t, "write") /\ UNCHANGED <<kind, rows, undisturbed>>
        /\ \/ uris = <<>> /\ WriteBoth(t, NewKey, <<>>)
           \/ uris # <<>> /\ WriteBoth(t, uris[1], Tail(uris))
    BY DEF Rate, Favor, Strays
  <1>2. PICK k, strays : /\ WriteBoth(t, k, strays)
                         /\ k \in Nat /\ strays \in Seq(Nat)
    <2>1. uris \in Seq(Nat) /\ NewKey \in Nat /\ <<>> \in Seq(Nat)
      BY RequestFields, NoEls DEF NewKey, OpinionsType
    <2>2. uris # <<>> => uris[1] \in Nat /\ Tail(uris) \in Seq(Nat)
      BY <2>1
    <2>3. QED
      BY <1>1, <2>1, <2>2
  <1>3. <<k>> \o strays \in Seq(Nat) /\ <<k>> \o strays # <<>>
    BY <1>2
  <1>4. QED
    BY <1>1, <1>2, <1>3, WriteBecomes

LEMMA OtherClientType ==
    ASSUME OpinionsType, OtherClient
    PROVE  OpinionsType'
  <1>1. RepoType'
    <2>1. ASSUME NEW k \in DOMAIN repo \cup {NewKey}, NEW v \in Values, PutOpinion(k, v)
          PROVE  RepoType'
      <3>1. k \in Nat /\ v \in Nat /\ (kind = "favorite" => v = 1) /\ kind' = kind
        <4>1. NewKey \in Nat /\ DOMAIN repo \subseteq Nat
          BY DEF OpinionsType, IsRepo, NewKey
        <4>2. k \in Nat
          BY <4>1
        <4>3. v \in Nat /\ (kind = "favorite" => v = 1)
          <5>1. CASE kind = "rating"
            <6>1. Values = Given
              BY <5>1 DEF Values
            <6>2. kind # "favorite"
              BY <5>1
            <6>3. QED
              BY <6>1, <6>2, OpinionsAssumption
          <5>2. CASE kind # "rating"
            BY <5>2 DEF Values
          <5>3. QED
            BY <5>1, <5>2
        <4>4. kind' = kind
          BY DEF OtherClient
        <4>5. QED
          BY <4>2, <4>3, <4>4
      <3>2. QED
        BY <2>1, <3>1, PutOpinionType
    <2>2. ASSUME NEW k \in DOMAIN repo, DeleteOpinion(k) PROVE RepoType'
      <3>1. k \in Nat /\ kind' = kind
        BY DEF OtherClient, OpinionsType, IsRepo
      <3>2. QED
        BY <2>2, <3>1, DeleteOpinionType
    <2>3. QED
      BY <2>1, <2>2 DEF OtherClient
  <1>2. UNCHANGED <<kind, rows, request>> /\ undisturbed' \in [Tab -> BOOLEAN]
    BY DEF OtherClient, Disturbs
  <1>3. QED
    BY <1>1, <1>2 DEF OpinionsType, RepoType, IsRepo

LEMMA EchoType ==
    ASSUME OpinionsType, Echo
    PROVE  OpinionsType'
  <1>1. PICK e : e = Head(late)
    OBVIOUS
  <1>2. late \in Seq(Event) /\ late # <<>> /\ late' = Tail(late)
    BY DEF Echo, OpinionsType
  <1>3. e \in Event /\ late' \in Seq(Event)
    BY <1>1, <1>2
  <1>4. IsRepo(rows')
    <2>1. CASE e.put = {}
      <3>1. rows' = But(rows, e.key) /\ IsRepo(rows)
        BY <1>1, <2>1 DEF Echo, OpinionsType
      <3>2. IsRepo(But(rows, e.key))
        BY <3>1, ButTable
      <3>3. QED
        BY <3>1, <3>2
    <2>2. CASE e.put # {}
      <3>1. PICK rec : rec = CHOOSE x \in e.put : TRUE
        OBVIOUS
      <3>2. rows' = With(rows, e.key, rec) /\ IsRepo(rows) /\ rec \in Rec /\ e.key \in Nat
        BY <1>1, <1>3, <2>2, <3>1 DEF Echo, OpinionsType, Event
      <3>3. IsRepo(With(rows, e.key, rec))
        BY <3>2, WithTable
      <3>4. QED
        BY <3>2, <3>3
    <2>3. QED
      BY <2>1, <2>2
  <1>5. UNCHANGED <<kind, repo, commits, request, undisturbed>>
    BY DEF Echo
  <1>6. QED
    BY <1>3, <1>4, <1>5 DEF OpinionsType, IsRepo

LEMMA OwnType ==
    ASSUME OpinionsType, NEW t \in Tab, Own(t)
    PROVE  OpinionsType'
  BY RateType, StepBecomes DEF Own

LEMMA OpinionsStep == OpinionsInv /\ [OpinionsNext]_opinionVars => OpinionsInv'
  <1> SUFFICES ASSUME OpinionsInv, [OpinionsNext]_opinionVars PROVE OpinionsInv'
    OBVIOUS
  <1>0. OpinionsType
    BY DEF OpinionsInv
  <1>1. CASE UNCHANGED opinionVars
    BY <1>1 DEF opinionVars, stored, OpinionsInv, OpinionsType, IsRepo, Going, GoingAs, AllFit,
                Fits, Same, Keeps, IsAt
  <1>2. CASE OtherClient
    BY <1>0, <1>2, OtherClientType DEF OtherClient, Disturbs, OpinionsInv
  <1>3. CASE Echo
    <2>1. OpinionsType' /\ UNCHANGED <<request, undisturbed>>
      BY <1>0, <1>3, EchoType DEF Echo
    <2>2. ASSUME NEW t \in Tab, Going(t) PROVE Going(t)'
      BY <1>0, <1>3, <2>2, EchoGoes
    <2>3. \A t \in Tab : undisturbed'[t] =>
             /\ \A u \in Tab \ {t} : IsAt(u, "none")'
             /\ ~IsAt(t, "none")' => Going(t)'
      BY <2>1, <2>2 DEF OpinionsInv, IsAt
    <2>4. QED
      BY <2>1, <2>3 DEF OpinionsInv
  <1>4. ASSUME NEW u \in Tab, NEW value \in Values \cup {0}, Ask(u, value) PROVE OpinionsInv'
    <2>1. OpinionsType' /\ \E r : Becomes(u, r)
      BY <1>0, <1>4, AskBecomes
    <2>2. ASSUME NEW t \in Tab, undisturbed'[t]
          PROVE  (\A v \in Tab \ {t} : IsAt(v, "none")') /\ Going(t)'
      <3>1. t = u /\ late = <<>> /\ rows = repo /\ \A v \in Tab : IsAt(v, "none")
        BY <1>4, <2>2 DEF Ask
      <3>2. \A v \in Tab \ {t} : IsAt(v, "none")'
        BY <2>1, <3>1 DEF Becomes, IsAt
      <3>3. QED
        BY <1>0, <1>4, <3>1, <3>2, AskGoes
    <2>3. QED
      BY <2>1, <2>2 DEF OpinionsInv
  <1>5. ASSUME NEW u \in Tab, Fails(u) PROVE OpinionsInv'
    <2>1. OpinionsType' /\ \A t \in Tab : ~undisturbed'[t]
      BY <1>0, <1>5, StepBecomes DEF Fails, Disturbs
    <2>2. QED
      BY <2>1 DEF OpinionsInv
  <1>6. ASSUME NEW u \in Tab, Own(u) PROVE OpinionsInv'
    <2>1. OpinionsType'
      BY <1>0, <1>6, OwnType
    <2>2. undisturbed' = undisturbed /\ ~IsAt(u, "none")
      BY <1>6 DEF Own, Rate, Favor, IndexIt, DeleteNext, Unindex, Respond, IsAt
    <2>3. ASSUME NEW t \in Tab, undisturbed'[t]
          PROVE  /\ \A v \in Tab \ {t} : IsAt(v, "none")'
                 /\ ~IsAt(t, "none")' => Going(t)'
      <3>1. /\ \A v \in Tab \ {t} : IsAt(v, "none")
            /\ ~IsAt(t, "none") => Going(t)
        BY <2>2, <2>3 DEF OpinionsInv
      <3>2. u = t /\ Going(t)
        BY <2>2, <3>1
      <3>3. (\E r : Becomes(t, r)) /\ (Going(t)' \/ IsAt(t, "none")')
        BY <1>0, <1>6, <3>2, OwnSteps
      <3>4. QED
        BY <3>1, <3>3 DEF Becomes, IsAt
    <2>4. QED
      BY <2>1, <2>3 DEF OpinionsInv
  <1>7. QED
    BY <1>1, <1>2, <1>3, <1>4, <1>5, <1>6 DEF OpinionsNext, Own

\* What the invariant says of a request that ends.
LEMMA RespondObeys ==
    ASSUME OpinionsInv, NEW t \in Tab, Respond(t), undisturbed[t]
    PROVE  Obeyed(request[t].value)
  <1>1. /\ request[t].at = "drop" /\ request[t].uris = <<>> /\ UNCHANGED <<kind, repo, rows>>
        /\ request[t].value \in Nat
    BY RequestFields DEF Respond, IsAt, stored, OpinionsInv
  <1>2. Going(t) /\ IsRepo(repo) /\ IsRepo(rows)
    BY <1>1 DEF OpinionsInv, IsAt, OpinionsType
  <1>3. Left(request[t]) = {} /\ Touched(request[t]) = {}
    BY <1>1, NoEls DEF Left, Touched
  <1>4. rows = repo
    <2>1. \A k \in Nat : Same(k)
      BY <1>2, <1>3 DEF Going, GoingAs
    <2>2. DOMAIN rows = DOMAIN repo
      BY <1>2, <2>1 DEF Same, IsRepo
    <2>3. \A k \in DOMAIN rows : rows[k] = repo[k]
      BY <1>2, <2>1, <2>2 DEF Same, IsRepo
    <2>4. QED
      BY <1>2, <2>2, <2>3, SameTables
  <1>5. Keeps(request[t])
    BY <1>1, <1>2 DEF Going, GoingAs
  <1>6. CASE request[t].value = 0
    <2>1. DOMAIN repo = {}
      BY <1>3, <1>5, <1>6 DEF Keeps
    <2>2. repo = <<>>
      BY <1>2, <2>1, EmptyTable
    <2>3. QED
      BY <1>1, <1>4, <1>6, <2>2 DEF Obeyed
  <1>7. CASE request[t].value # 0
    BY <1>1, <1>3, <1>4, <1>5, <1>7 DEF Obeyed, Keeps
  <1>8. QED
    BY <1>6, <1>7

\* For any tabs, ratings, keys and commits, and whatever failed requests and
\* other clients left behind: a rating or favorite that nothing disturbs
\* leaves the one record it asked for, or none, in repo and index alike
\* (handleRate, handleFavorite and deleteAll).
THEOREM OneOpinionIsLeft == OpinionsSpec => OneOpinion
  <1> DEFINE Obeys == \A t \in Tab : Respond(t) /\ undisturbed[t] => Obeyed(request[t].value)
  <1>1. OpinionsInv => Obeys
    BY RespondObeys
  <1>2. QED
    BY <1>1, OpinionsInvInit, OpinionsStep, PTL DEF OpinionsSpec, OneOpinion

-----------------------------------------------------------------------------
(***************************************************************************)
(* Sessions: SignInsHold, for any number of sign-ins and requests and any  *)
(* lives of rows, as long as a callback's two saves lie no further apart   *)
(* than the grace.                                                         *)
(***************************************************************************)

\* What the proof needs of the types: ages are numbers, requests have their
\* sign-ins, and a callback ends in its time.
AgesOK ==
    /\ requests \in [Session -> Nat \cup {None}]
    /\ oauth \in [Session -> Nat \cup {None}]
    /\ web \in [Session -> Nat \cup {None}]
    /\ calling \in [Session -> 0..CallbackTime \cup {None}]
CallsOK ==
    /\ DOMAIN call = Request
    /\ \A r \in Request : call[r].of \in Session \cup {None}
CleaningOK == cleaning.ticks \in Nat

\* A callback's OAuth session is no older than the callback.
YoungEnough ==
    \A n \in There(calling) :
        n \in loggedOut \/ (n \in There(oauth) /\ oauth[n] <= calling[n])

SessionsInv == AgesOK /\ CallsOK /\ CleaningOK /\ YoungEnough /\ SignInsHold

LEMMA Times ==
  /\ CallbackTime \in Nat /\ OrphanOAuthGrace \in Nat /\ CallbackTime <= OrphanOAuthGrace
  /\ WebSessionTTL \in Nat /\ AuthRequestTTL \in Nat /\ CleanupTime \in Nat
  /\ None \notin Nat /\ None \notin Session
  BY TimesAssumption

\* Deleting what is too old leaves the ages of the others.
LEMMA WithoutOld ==
  ASSUME NEW table \in [Session -> Nat \cup {None}], NEW life \in Nat
  PROVE  /\ Without(table, life) \in [Session -> Nat \cup {None}]
         /\ \A n \in Session : Without(table, life)[n] \in {table[n], None}
         /\ \A n \in Session : table[n] # None /\ table[n] <= life
                                  => Without(table, life)[n] = table[n]
  BY Times DEF Without

\* A tick deletes nothing, and makes nothing older by more than one.
LEMMA AgedByOne ==
  ASSUME NEW table \in [Session -> Nat \cup {None}], NEW life \in Nat
  PROVE  /\ Aged(table, life) \in [Session -> Nat \cup {None}]
         /\ \A n \in Session :
               /\ Aged(table, life)[n] = None <=> table[n] = None
               /\ table[n] # None => Aged(table, life)[n] <= table[n] + 1
  BY Times DEF Aged

LEMMA SessionsStart == SessionsInit => SessionsInv
  BY Times DEF SessionsInit, SessionsInv, AgesOK, CallsOK, CleaningOK, YoungEnough,
               SignInsHold, There, Nothing, Asleep

LEMMA SessionsStep == SessionsInv /\ [SessionsNext]_sessionVars => SessionsInv'
  <1> SUFFICES ASSUME SessionsInv, [SessionsNext]_sessionVars
               PROVE  SessionsInv'
    OBVIOUS
  <1> USE Times DEF SessionsInv, AgesOK, CallsOK, CleaningOK, There
  <1>1. ASSUME NEW n \in Session, HandleLogin(n)
        PROVE  SessionsInv'
    BY <1>1, WithoutOld DEF HandleLogin, Fresh, YoungEnough, SignInsHold
  <1>2. ASSUME NEW n \in Session, ProcessCallback(n)
        PROVE  SessionsInv'
    BY <1>2 DEF ProcessCallback, YoungEnough, SignInsHold
  <1>2a. ASSUME NEW n \in Session, DeleteAuthRequestInfo(n)
        PROVE  SessionsInv'
    BY <1>2a DEF DeleteAuthRequestInfo, YoungEnough, SignInsHold
  <1>3. ASSUME NEW n \in Session, CreateWebSession(n)
        PROVE  SessionsInv'
    BY <1>3, WithoutOld DEF CreateWebSession, YoungEnough, SignInsHold
  <1>4. ASSUME NEW n \in Session, CallbackFails(n)
        PROVE  SessionsInv'
    BY <1>4, WithoutOld DEF CallbackFails, YoungEnough, SignInsHold
  <1>5. ASSUME NEW r \in Request, NEW n \in Session, NEW does \in {"write", "logout"},
               LoadViewer(r, n, does)
        PROVE  SessionsInv'
    BY <1>5 DEF LoadViewer, Is, YoungEnough, SignInsHold, tables
  <1>6. ASSUME NEW r \in Request,
               PdsClient(r) \/ PdsClientFails(r) \/ Write(r) \/ Logout(r) \/ Leave(r)
        PROVE  SessionsInv'
    <2> DEFINE n == call[r].of
    <2>0. n \in Session \cup {None} /\ Nothing.of = None
      BY <1>6 DEF Nothing
    <2>1. CASE PdsClient(r)
      BY <2>1, <2>0 DEF PdsClient, Is, Goes, YoungEnough, SignInsHold, tables
    <2>2. CASE PdsClientFails(r)
      BY <2>2, <2>0 DEF PdsClientFails, SignOut, Ends, Is, YoungEnough, SignInsHold
    <2>3. CASE Write(r)
      BY <2>3, <2>0 DEF Write, Ends, Is, YoungEnough, SignInsHold
    <2>4. CASE Logout(r)
      BY <2>4, <2>0 DEF Logout, Goes, Is, YoungEnough, SignInsHold
    <2>5. CASE Leave(r)
      BY <2>5, <2>0 DEF Leave, SignOut, Ends, Is, YoungEnough, SignInsHold
    <2> QED
      BY <1>6, <2>1, <2>2, <2>3, <2>4, <2>5
  <1>7. CASE BeginCleanup
    BY <1>7 DEF BeginCleanup, YoungEnough, SignInsHold, tables
  <1>8. CASE CleanWebSessions
    <2>1. WebSessionTTL + cleaning.ticks \in Nat
      OBVIOUS
    <2> QED
      BY <1>8, <2>1, WithoutOld DEF CleanWebSessions, Cleans, YoungEnough, SignInsHold
  <1>9. CASE CleanOAuthSessions
    <2> DEFINE life == OrphanOAuthGrace + cleaning.ticks
    <2>1. life \in Nat /\ CallbackTime <= life
      OBVIOUS
    <2>2. \A n \in Session : oauth'[n] = IF n \in There(web) THEN oauth[n]
                                         ELSE Without(oauth, life)[n]
      BY <1>9 DEF CleanOAuthSessions
    <2>3. \A n \in There(calling) \cup There(web) :
             n \notin loggedOut => oauth'[n] = oauth[n]
      <3> SUFFICES ASSUME NEW n \in There(calling) \cup There(web), n \notin loggedOut
                   PROVE  oauth'[n] = oauth[n]
        OBVIOUS
      <3>1. CASE n \in There(web)
        BY <3>1, <2>2
      <3>2. CASE n \notin There(web)
        <4>1. oauth[n] # None /\ oauth[n] <= life
          BY <3>2, <2>1 DEF YoungEnough
        <4> QED
          BY <3>2, <4>1, <2>1, <2>2, WithoutOld
      <3> QED
        BY <3>1, <3>2
    <2>4. oauth' \in [Session -> Nat \cup {None}]
      BY <1>9, <2>1, WithoutOld DEF CleanOAuthSessions
    <2> QED
      BY <1>9, <2>3, <2>4 DEF CleanOAuthSessions, Cleans, YoungEnough, SignInsHold
  <1>10. CASE CleanOAuthRequests
    <2>1. AuthRequestTTL + cleaning.ticks \in Nat
      OBVIOUS
    <2> QED
      BY <1>10, <2>1, WithoutOld DEF CleanOAuthRequests, Asleep, YoungEnough, SignInsHold
  <1>11. CASE CleanupFails
    BY <1>11 DEF CleanupFails, Asleep, YoungEnough, SignInsHold, tables
  <1>12. CASE Tick
    <2>1. /\ oauth' \in [Session -> Nat \cup {None}]
          /\ \A n \in Session : /\ oauth'[n] = None <=> oauth[n] = None
                                /\ oauth[n] # None => oauth'[n] <= oauth[n] + 1
      BY <1>12, AgedByOne DEF Tick
    <2>2. /\ requests' \in [Session -> Nat \cup {None}]
          /\ web' \in [Session -> Nat \cup {None}]
          /\ \A n \in Session : web'[n] = None <=> web[n] = None
      BY <1>12, AgedByOne DEF Tick
    <2>3. /\ calling' \in [Session -> 0..CallbackTime \cup {None}]
          /\ \A n \in Session : /\ calling'[n] = None <=> calling[n] = None
                                /\ calling[n] # None => calling'[n] = calling[n] + 1
      BY <1>12 DEF Tick
    <2>4. CallsOK' /\ CleaningOK' /\ loggedOut' = loggedOut
      BY <1>12 DEF Tick
    <2>5. YoungEnough'
      BY <2>1, <2>3, <2>4 DEF YoungEnough
    <2>6. SignInsHold'
      BY <2>1, <2>2, <2>3, <2>4 DEF SignInsHold
    <2> QED
      BY <2>1, <2>2, <2>3, <2>4, <2>5, <2>6
  <1>13. CASE ServerStops
    BY <1>13 DEF ServerStops, Nothing, Asleep, YoungEnough, SignInsHold, tables
  <1>14. CASE UNCHANGED sessionVars
    BY <1>14 DEF sessionVars, tables, YoungEnough, SignInsHold
  <1> QED
    BY <1>1, <1>2, <1>2a, <1>3, <1>4, <1>5, <1>6, <1>7, <1>8, <1>9, <1>10, <1>11, <1>12,
       <1>13, <1>14 DEF SessionsNext

\* Whoever signs in keeps the OAuth session its browser session points at,
\* until it is logged out, whatever cleanups, failures and stops come between.
THEOREM SignInsAlwaysHold == SessionsSpec => []SignInsHold
  <1>1. SessionsInit => SessionsInv
    BY SessionsStart
  <1>2. SessionsInv /\ [SessionsNext]_sessionVars => SessionsInv'
    BY SessionsStep
  <1>3. SessionsInv => SignInsHold
    BY DEF SessionsInv
  <1> QED
    BY <1>1, <1>2, <1>3, PTL DEF SessionsSpec

-----------------------------------------------------------------------------
(***************************************************************************)
(* StoreTx: a transaction that has the sheets to itself sets its counts    *)
(* right, for any number of connections and operations.                    *)
(***************************************************************************)


\* The forks of s as the worker's next statement would count them.
Count(w, s) ==
    Cardinality(CountedForks(SheetsSeen(w), HiddenIn(ProfilesSeen(w)), s))

\* Every worker writes three tables.
Tables(writes) ==
    writes = [w \in Worker |-> [sheets   |-> writes[w].sheets,
                                profiles |-> writes[w].profiles,
                                stats    |-> writes[w].stats]]

\* Every variable has an entry per worker.
Entries ==
    /\ pc = [w \in Worker |-> pc[w]]
    /\ op = [w \in Worker |-> op[w]]
    /\ todo = [w \in Worker |-> todo[w]]
    /\ counted = [w \in Worker |-> counted[w]]
    /\ alone \in [Worker -> BOOLEAN]
    /\ Tables(wrote)

\* A worker at rest has written nothing.
RestsClean == \A w \in Worker : pc[w] = "idle" => wrote[w] = NoWrites

\* A transaction that has met no other is the only one open.
OnlyOne ==
    \A w \in Worker : alone[w] =>
        /\ pc[w] # "idle"
        /\ \A v \in Worker \ {w} : pc[v] = "idle"

\* What such a transaction has counted, it would count again: it writes its
\* rows before it counts.
CountsLast(w) ==
    /\ pc[w] \notin {"count", "store"} => wrote[w].stats = Empty
    /\ \A s \in DOMAIN wrote[w].stats : wrote[w].stats[s] = Count(w, s)
    /\ pc[w] = "store" => counted[w] = Count(w, Head(todo[w]))

TxInv ==
    /\ Entries /\ RestsClean /\ OnlyOne
    /\ \A w \in Worker : alone[w] => CountsLast(w)

-----------------------------------------------------------------------------
(* What a step leaves alone. *)

\* A worker's step changes no other's entries, and what it ends is at rest.
LEMMA StepEntries ==
    ASSUME Entries, NEW w \in Worker, Step(w)
    PROVE  /\ Entries'
           /\ \A v \in Worker \ {w} :
                 /\ pc'[v] = pc[v] /\ todo'[v] = todo[v] /\ counted'[v] = counted[v]
                 /\ wrote'[v] = wrote[v] /\ alone'[v] = alone[v]
           /\ alone'[w] => alone[w] /\ pc'[w] # "idle" /\ pc[w] # "idle" /\ db' = db
           /\ pc'[w] = "idle" => wrote'[w] = NoWrites
           /\ pc[w] = "idle" => pc'[w] = "idle" /\ db' = db
  <1> USE DEF Entries, Runs, Goto, db
  <1>1. CASE ReadOldFork(w)
    BY <1>1 DEF ReadOldFork
  <1>2. CASE WriteSheet(w)
    <2>1. Tables(wrote') /\ \A v \in Worker \ {w} : wrote'[v] = wrote[v]
      BY <1>2 DEF Tables, WriteSheet
    <2>2. QED
      BY <1>2, <2>1 DEF WriteSheet
  <1>3. CASE EnsureProfile(w)
    <2> DEFINE after == IF Target(w) = {} THEN wrote[w].profiles
                        ELSE Put(wrote[w].profiles, Owner(op[w].uri), FALSE)
    <2>1. wrote' = [wrote EXCEPT ![w].profiles = after]
      BY <1>3 DEF EnsureProfile
    <2> HIDE DEF after
    <2>2. Tables(wrote') /\ \A v \in Worker \ {w} : wrote'[v] = wrote[v]
      BY <2>1 DEF Tables
    <2>3. QED
      BY <1>3, <2>2 DEF EnsureProfile
  <1>4. CASE DeleteRow(w)
    <2>1. Tables(wrote') /\ \A v \in Worker \ {w} : wrote'[v] = wrote[v]
      BY <1>4 DEF Tables, DeleteRow
    <2>2. QED
      BY <1>4, <2>1 DEF DeleteRow
  <1>5. CASE WriteHidden(w)
    <2> DEFINE after == IF Target(w) = {} THEN wrote[w].profiles
                        ELSE Put(wrote[w].profiles, op[w].did, op[w].hidden)
    <2>1. wrote' = [wrote EXCEPT ![w].profiles = after]
      BY <1>5 DEF WriteHidden
    <2> HIDE DEF after
    <2>2. Tables(wrote') /\ \A v \in Worker \ {w} : wrote'[v] = wrote[v]
      BY <2>1 DEF Tables
    <2>3. QED
      BY <1>5, <2>2 DEF WriteHidden
  <1>6. CASE ReadSubjects(w)
    BY <1>6 DEF ReadSubjects
  <1>7. CASE CountForks(w)
    BY <1>7 DEF CountForks
  <1>8. CASE StoreCount(w)
    <2>1. Tables(wrote') /\ \A v \in Worker \ {w} : wrote'[v] = wrote[v]
      BY <1>8 DEF Tables, StoreCount
    <2>2. QED
      BY <1>8, <2>1 DEF StoreCount
  <1>9. CASE Commit(w)
    BY <1>9 DEF Commit, End, NoWrites, Tables
  <1>10. CASE Abort(w)
    BY <1>10 DEF Abort, End, NoWrites, Tables
  <1>11. QED
    BY <1>1, <1>2, <1>3, <1>4, <1>5, <1>6, <1>7, <1>8, <1>9, <1>10 DEF Step

\* A count sees committed rows and the transaction's own, and nothing else.
LEMMA CountLocal ==
    ASSUME NEW w \in Worker, db' = db, wrote'[w].sheets = wrote[w].sheets,
           wrote'[w].profiles = wrote[w].profiles
    PROVE  \A s : Count(w, s)' = Count(w, s)
  BY DEF db, Count, SheetsSeen, ProfilesSeen, Over

\* Before it counts, it has stored nothing.
LEMMA NothingStored ==
    ASSUME NEW w \in Worker, wrote'[w].stats = Empty, pc'[w] # "store"
    PROVE  CountsLast(w)'
  BY DEF CountsLast, Empty

LEMMA NothingStoredYet ==
    ASSUME Entries, NEW w \in Worker, CountsLast(w),
           \/ ReadOldFork(w) \/ WriteSheet(w) \/ EnsureProfile(w)
           \/ DeleteRow(w) \/ WriteHidden(w) \/ ReadSubjects(w)
    PROVE  wrote'[w].stats = Empty /\ pc'[w] # "store"
  <1> USE DEF Runs, Goto
  <1>1. pc'[w] # "store" /\ pc[w] \notin {"count", "store"}
    BY DEF Entries, ReadOldFork, WriteSheet, EnsureProfile, DeleteRow, WriteHidden, ReadSubjects
  <1>2. wrote[w].stats = Empty
    BY <1>1 DEF CountsLast
  <1>3. wrote'[w].stats = wrote[w].stats
    <2>1. CASE WriteSheet(w)
      BY <2>1 DEF Entries, Tables, WriteSheet
    <2>2. CASE EnsureProfile(w) \/ WriteHidden(w)
      <3>1. \/ wrote' = [wrote EXCEPT ![w].profiles =
                   IF Target(w) = {} THEN @ ELSE Put(@, Owner(op[w].uri), FALSE)]
            \/ wrote' = [wrote EXCEPT ![w].profiles =
                   IF Target(w) = {} THEN @ ELSE Put(@, op[w].did, op[w].hidden)]
        BY <2>2, Zenon DEF EnsureProfile, WriteHidden
      <3> DEFINE one == IF Target(w) = {} THEN wrote[w].profiles
                        ELSE Put(wrote[w].profiles, Owner(op[w].uri), FALSE)
                 other == IF Target(w) = {} THEN wrote[w].profiles
                          ELSE Put(wrote[w].profiles, op[w].did, op[w].hidden)
      <3>2. \/ wrote' = [wrote EXCEPT ![w].profiles = one]
            \/ wrote' = [wrote EXCEPT ![w].profiles = other]
        BY <3>1
      <3> HIDE DEF one, other
      <3>3. QED
        BY <3>2 DEF Entries, Tables
    <2>3. CASE DeleteRow(w)
      BY <2>3 DEF Entries, Tables, DeleteRow
    <2>4. CASE ReadOldFork(w) \/ ReadSubjects(w)
      BY <2>4 DEF ReadOldFork, ReadSubjects
    <2>5. QED
      BY <2>1, <2>2, <2>3, <2>4
  <1>4. QED
    BY <1>1, <1>2, <1>3

\* A transaction that has met no other counts what it leaves.
LEMMA CountsLastStep ==
    ASSUME Entries, NEW w \in Worker, Step(w), alone'[w], CountsLast(w), db' = db
    PROVE  CountsLast(w)'
  <1> USE DEF Runs, Goto
  <1>1. CASE \/ ReadOldFork(w) \/ WriteSheet(w) \/ EnsureProfile(w)
             \/ DeleteRow(w) \/ WriteHidden(w) \/ ReadSubjects(w)
    BY <1>1, NothingStoredYet, NothingStored
  <1>2. CASE CountForks(w)
    <2>1. \A s : Count(w, s)' = Count(w, s)
      BY <1>2, CountLocal DEF CountForks
    <2>2. counted'[w] = Count(w, Head(todo[w])) /\ todo' = todo /\ wrote' = wrote
      BY <1>2 DEF Entries, CountForks, Count
    <2>3. pc[w] = "count" /\ pc'[w] = "store"
      BY <1>2 DEF Entries, CountForks
    <2>4. QED
      BY <2>1, <2>2, <2>3 DEF CountsLast
  <1>3. CASE StoreCount(w)
    <2>1. wrote'[w].stats = Put(wrote[w].stats, Head(todo[w]), counted[w])
      BY <1>3 DEF Entries, Tables, StoreCount
    <2>2. wrote'[w].sheets = wrote[w].sheets /\ wrote'[w].profiles = wrote[w].profiles
      BY <1>3 DEF Entries, Tables, StoreCount
    <2>3. \A s : Count(w, s)' = Count(w, s)
      BY <2>2, CountLocal
    <2>4. pc[w] = "store" /\ pc'[w] = "count"
      BY <1>3 DEF Entries, StoreCount
    <2>5. QED
      BY <2>1, <2>3, <2>4 DEF CountsLast, Put
  <1>4. CASE Commit(w) \/ Abort(w)
    BY <1>4 DEF Entries, Commit, Abort, End
  <1>5. QED
    BY <1>1, <1>2, <1>3, <1>4 DEF Step

-----------------------------------------------------------------------------
(* The invariant. *)

LEMMA TxInit == Init => TxInv
  <1> SUFFICES ASSUME Init PROVE TxInv
    OBVIOUS
  <1>1. Entries /\ RestsClean
    BY DEF Init, Entries, Tables, RestsClean, NoWrites
  <1>2. \A w \in Worker : ~alone[w]
    BY DEF Init
  <1>3. QED
    BY <1>1, <1>2 DEF TxInv, OnlyOne

\* A transaction begins clean, and what was alone is no longer.
LEMMA TxBegin ==
    ASSUME TxInv, NEW w \in Worker, NEW o \in Ops, Begin(w, o)
    PROVE  TxInv'
  <1> DEFINE first == CASE o.kind = "upsert" -> "old"
                       [] o.kind = "delete" -> "sheet"
                       [] OTHER             -> "hide"
  <1>1. /\ pc' = [pc EXCEPT ![w] = first] /\ pc[w] = "idle"
        /\ op' = [op EXCEPT ![w] = o]
        /\ UNCHANGED <<todo, counted, wrote>>
    BY DEF Begin, Goto
  <1>2. first \in {"old", "sheet", "hide"}
    OBVIOUS
  <1> HIDE DEF first
  <1>3. wrote[w] = NoWrites
    BY <1>1 DEF TxInv, RestsClean
  <1>4. alone' = [v \in Worker |-> IF v = w THEN {x \in Worker : pc[x] # "idle"} = {} ELSE FALSE]
    BY DEF Begin
  <1>5. Entries'
    BY <1>1, <1>4 DEF TxInv, Entries
  <1>6. pc'[w] \notin {"idle", "count", "store"} /\ \A v \in Worker \ {w} : pc'[v] = pc[v]
    BY <1>1, <1>2 DEF TxInv, Entries
  <1>7. \A v \in Worker : alone'[v] => v = w /\ \A x \in Worker \ {w} : pc[x] = "idle"
    BY <1>4
  <1>8. RestsClean' /\ OnlyOne'
    BY <1>1, <1>3, <1>6, <1>7 DEF TxInv, RestsClean, OnlyOne
  <1>9. CountsLast(w)'
    BY <1>1, <1>3, <1>6, NothingStored DEF NoWrites
  <1>10. QED
    BY <1>5, <1>7, <1>8, <1>9 DEF TxInv

LEMMA TxOwnStep ==
    ASSUME TxInv, NEW w \in Worker, Step(w)
    PROVE  TxInv'
  <1>1. Entries /\ Entries'
    BY StepEntries DEF TxInv
  <1>2. \A v \in Worker \ {w} :
           /\ pc'[v] = pc[v] /\ todo'[v] = todo[v] /\ counted'[v] = counted[v]
           /\ wrote'[v] = wrote[v] /\ alone'[v] = alone[v]
    BY <1>1, StepEntries
  <1>3. /\ alone'[w] => alone[w] /\ pc'[w] # "idle" /\ pc[w] # "idle" /\ db' = db
        /\ pc'[w] = "idle" => wrote'[w] = NoWrites
        /\ pc[w] = "idle" => pc'[w] = "idle" /\ db' = db
    BY <1>1, StepEntries
  <1>4. RestsClean'
    BY <1>2, <1>3 DEF TxInv, RestsClean
  <1>5. OnlyOne'
    BY <1>2, <1>3 DEF TxInv, OnlyOne
  <1>6. ASSUME NEW v \in Worker, alone'[v] PROVE CountsLast(v)'
    <2>1. CASE v = w
      <3>1. alone[w] /\ CountsLast(w) /\ db' = db
        BY <1>3, <1>6, <2>1 DEF TxInv
      <3>2. QED
        BY <1>1, <1>6, <2>1, <3>1, CountsLastStep
    <2>2. CASE v # w
      <3>1. alone[v] /\ CountsLast(v) /\ pc[w] = "idle"
        BY <1>2, <1>6, <2>2 DEF TxInv, OnlyOne
      <3>2. \A s : Count(v, s)' = Count(v, s)
        BY <1>2, <1>3, <2>2, <3>1, CountLocal
      <3>3. QED
        BY <1>2, <2>2, <3>1, <3>2 DEF CountsLast
    <2>3. QED
      BY <2>1, <2>2
  <1>7. QED
    BY <1>1, <1>4, <1>5, <1>6 DEF TxInv

LEMMA TxStep == TxInv /\ [Next]_vars => TxInv'
  <1>1. ASSUME TxInv, UNCHANGED vars PROVE TxInv'
    BY <1>1 DEF TxInv, vars, Entries, RestsClean, OnlyOne, CountsLast, Count, SheetsSeen,
                ProfilesSeen, Over
  <1>2. QED
    BY <1>1, TxBegin, TxOwnStep DEF Next

-----------------------------------------------------------------------------

\* What a transaction that has met no other commits is a recount.
LEMMA HealsStep ==
    ASSUME TxInv, NEW w \in Worker, Commit(w), alone[w], NEW s \in DOMAIN wrote[w].stats
    PROVE  ForkCount(s)' = Cardinality(CountedForks(sheets', HiddenIn(profiles'), s))
  <1>1. wrote[w].stats[s] = Count(w, s)
    BY DEF TxInv, CountsLast
  <1>2. ForkCount(s)' = wrote[w].stats[s]
    BY DEF Commit, Over, ForkCount
  <1>3. sheets' = SheetsSeen(w) /\ profiles' = ProfilesSeen(w)
    BY DEF Commit
  <1>4. QED
    BY <1>1, <1>2, <1>3 DEF Count

(* Whatever overlapping transactions left behind, however many there were: *)
(* a transaction that recounts a sheet's forks and overlaps no other sets  *)
(* the count right (UpsertSheet, DeleteSheet, SetHidden at READ COMMITTED).*)
THEOREM CountsHeal == Spec => Heals
  <1> DEFINE Recounts ==
        \A w \in Worker : Commit(w) /\ alone[w] =>
            \A s \in DOMAIN wrote[w].stats :
                ForkCount(s)' = Cardinality(CountedForks(sheets', HiddenIn(profiles'), s))
  <1>1. TxInv => Recounts
    BY HealsStep
  <1>2. QED
    BY <1>1, TxInit, TxStep, PTL DEF Spec, Heals

-----------------------------------------------------------------------------
(* Rows are taken in one order: a sheet's, its author's, then counts. *)

TakesInOrder ==
    \A w \in Worker :
        /\ pc[w] \in {"idle", "old", "sheet", "hide"} => wrote[w] = NoWrites
        /\ pc[w] = "profile" => wrote[w].profiles = Empty /\ wrote[w].stats = Empty

LEMMA OrderInit == Init => TakesInOrder
  BY DEF Init, TakesInOrder

LEMMA OrderBegin ==
    ASSUME TxInv, TakesInOrder, NEW w \in Worker, NEW o \in Ops, Begin(w, o)
    PROVE  TakesInOrder'
  <1>1. wrote' = wrote /\ wrote[w] = NoWrites
    BY DEF Begin, TakesInOrder
  <1>2. pc'[w] # "profile" /\ \A v \in Worker \ {w} : pc'[v] = pc[v]
    BY DEF Begin, Goto, TxInv, Entries
  <1>3. QED
    BY <1>1, <1>2 DEF TakesInOrder

LEMMA OrderOwnStep ==
    ASSUME TxInv, TakesInOrder, NEW w \in Worker, Step(w)
    PROVE  TakesInOrder'
  <1>1. /\ Entries
        /\ \A v \in Worker \ {w} : pc'[v] = pc[v] /\ wrote'[v] = wrote[v]
        /\ pc'[w] = "idle" => wrote'[w] = NoWrites
    BY StepEntries DEF TxInv
  <1> USE DEF Entries, Runs, Goto
  <1>2. CASE ReadOldFork(w)
    <2>1. pc[w] = "old" /\ pc'[w] = "sheet" /\ wrote' = wrote
      BY <1>1, <1>2 DEF ReadOldFork
    <2>2. QED
      BY <1>1, <2>1 DEF TakesInOrder
  <1>3. CASE WriteSheet(w)
    <2>1. /\ pc[w] = "sheet" /\ pc'[w] = "profile"
          /\ wrote'[w].profiles = wrote[w].profiles /\ wrote'[w].stats = wrote[w].stats
      BY <1>1, <1>3 DEF WriteSheet, Tables
    <2>2. wrote'[w].profiles = Empty /\ wrote'[w].stats = Empty
      BY <2>1 DEF TakesInOrder, NoWrites
    <2>3. QED
      BY <1>1, <2>1, <2>2 DEF TakesInOrder
  <1>4. CASE \/ EnsureProfile(w) \/ DeleteRow(w) \/ WriteHidden(w) \/ ReadSubjects(w)
             \/ CountForks(w) \/ StoreCount(w) \/ Commit(w) \/ Abort(w)
    <2>1. pc'[w] \in {"idle", "subjects", "count", "store"}
      BY <1>1, <1>4 DEF EnsureProfile, DeleteRow, WriteHidden, ReadSubjects, CountForks,
                        StoreCount, Commit, Abort, End
    <2>2. QED
      BY <1>1, <2>1 DEF TakesInOrder
  <1>5. QED
    BY <1>2, <1>3, <1>4 DEF Step

LEMMA OrderStep == TxInv /\ TakesInOrder /\ [Next]_vars => TakesInOrder'
  BY OrderBegin, OrderOwnStep DEF Next, TakesInOrder, vars

\* Who waits for nothing but a sheet's or a profile's row holds up nobody that
\* holds one, so everybody in a circle waits for a count, and holds one.
LEMMA CircleOfCounts ==
    ASSUME TakesInOrder, NEW w \in Worker, Deadlocked(w)
    PROVE  pc[w] = "store" /\ DOMAIN wrote[w].stats # {}
  <1>1. PICK C \in SUBSET Worker :
            /\ w \in C
            /\ \A v \in C : Blockers(v) \cap C # {} /\ \E x \in C : v \in Blockers(x)
    BY DEF Deadlocked
  <1>2. \A v, x \in C : v \in Blockers(x) => Target(x) \cap Holds(v) # {}
    BY DEF Blockers, Locks
  <1>3. \A v \in C : pc[v] \in {"sheet", "profile", "hide", "store"}
    <2>1. \A v \in C : Target(v) # {}
      BY <1>1 DEF Blockers, Locks
    <2>2. QED
      BY <2>1 DEF Target
  <1>4. \A v \in C : pc[v] \in {"profile", "store"}
    <2>1. \A v \in C : pc[v] \in {"sheet", "hide"} => Holds(v) = {}
      BY DEF TakesInOrder, Holds, NoWrites, Empty
    <2>2. QED
      BY <1>1, <1>2, <1>3, <2>1
  <1>5. \A x \in C : pc[x] = "store" => Target(x) = {<<"stats", Head(todo[x])>>}
    BY DEF Target
  <1>6. \A x \in C : pc[x] = "profile" => Target(x) \subseteq {<<"profiles", Owner(op[x].uri)>>}
    BY DEF Target
  <1>7. \A v \in C : pc[v] = "store"
    <2>1. ASSUME NEW v \in C, pc[v] = "profile" PROVE FALSE
      <3>1. PICK x \in C : v \in Blockers(x)
        BY <1>1
      <3>2. Holds(v) = {<<t, k>> : t \in {"sheets"}, k \in DOMAIN wrote[v].sheets}
        BY <2>1 DEF TakesInOrder, Holds, Empty
      <3>3. \A e \in Holds(v) : e[1] = "sheets"
        <4>1. \A k : \A t \in {"sheets"} : <<t, k>>[1] = "sheets"
          OBVIOUS
        <4>2. QED
          BY <3>2, <4>1
      <3>4. \A e \in Target(x) : e[1] \in {"profiles", "stats"}
        <4>1. CASE pc[x] = "store"
          BY <1>5, <4>1
        <4>2. CASE pc[x] = "profile"
          BY <1>6, <4>2
        <4>3. QED
          BY <1>4, <4>1, <4>2
      <3>5. PICK e : e \in Target(x) /\ e \in Holds(v)
        BY <1>2, <3>1
      <3>6. QED
        BY <3>3, <3>4, <3>5
    <2>2. QED
      BY <1>4, <2>1
  <1>8. PICK x \in C : w \in Blockers(x)
    BY <1>1
  <1>9. <<"stats", Head(todo[x])>> \in Holds(w)
    <2>1. Target(x) = {<<"stats", Head(todo[x])>>} /\ Target(x) \cap Holds(w) # {}
      BY <1>1, <1>2, <1>5, <1>7, <1>8
    <2>2. QED
      BY <2>1
  <1>10. Head(todo[x]) \in DOMAIN wrote[w].stats
    <2> DEFINE h == Head(todo[x])
               rows1 == {<<t, k>> : t \in {"sheets"}, k \in DOMAIN wrote[w].sheets}
               rows2 == {<<t, k>> : t \in {"profiles"}, k \in DOMAIN wrote[w].profiles}
               rows3 == {<<t, k>> : t \in {"stats"}, k \in DOMAIN wrote[w].stats}
    <2> HIDE DEF h
    <2>1. <<"stats", h>> \in rows1 \cup rows2 \cup rows3
      BY <1>9 DEF Holds, h
    <2>2. <<"stats", h>> \notin rows1
      OBVIOUS
    <2>3. <<"stats", h>> \notin rows2
      OBVIOUS
    <2>4. <<"stats", h>> \in rows3
      BY <2>1, <2>2, <2>3
    <2>5. QED
      BY <2>4 DEF h
  <1>11. QED
    BY <1>1, <1>7, <1>10

(* No transaction that holds only a sheet's or a profile's row, or that    *)
(* waits for its first count, is ever part of a deadlock: recomputeAll     *)
(* comes last in UpsertSheet, DeleteSheet and SetHidden alike.             *)
THEOREM DeadlocksAreRecounts == Spec => []OnlyRecountsDeadlock
  <1>1. TakesInOrder => OnlyRecountsDeadlock
    BY CircleOfCounts DEF OnlyRecountsDeadlock
  <1>2. QED
    BY <1>1, TxInit, TxStep, OrderInit, OrderStep, PTL DEF Spec
=============================================================================
