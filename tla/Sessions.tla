------------------------------ MODULE Sessions ------------------------------
(***************************************************************************)
(* Signing in and out (pkg/server/auth.go) and the three tables behind it  *)
(* (pkg/store/auth.go): OAuth requests, OAuth sessions and the browser     *)
(* sessions that point at them; and the hourly cleanup of all three.       *)
(*                                                                         *)
(* A sign-in's request, OAuth session and browser session are rows of one  *)
(* name.  A table gives a row's age in ticks of a coarse clock, None where *)
(* there is no row.  A browser is whoever sends a token; the tokens of     *)
(* rows that are gone open nothing.                                        *)
(***************************************************************************)
EXTENDS Naturals

CONSTANTS
    Session,        \* names of sign-ins (a bound on those there are at once)
    Request,        \* requests under way (a bound on those there are at once)
    None,
    AuthRequestTTL, OrphanOAuthGrace, WebSessionTTL,    \* in ticks
    CallbackTime,   \* bound on the ticks between a callback's two saves
    CleanupTime     \* bound on the ticks a cleanup takes

ASSUME TimesAssumption ==
    /\ {AuthRequestTTL, OrphanOAuthGrace, WebSessionTTL, CleanupTime} \subseteq Nat
    /\ CallbackTime \in 0..OrphanOAuthGrace
    /\ None \notin Nat /\ None \notin Session

VARIABLES
    requests,   \* oauth_requests: ticks since created_at
    oauth,      \* oauth_sessions: ticks since updated_at
    web,        \* web_sessions: ticks since created_at
    calling,    \* callbacks with an OAuth session saved and no browser session
    call,       \* what a request is at, and of which browser session
    cleaning,   \* the statement Cleanup is at, and the ticks it has taken
    loggedOut   \* (history) OAuth sessions a logout deleted

tables == <<requests, oauth, web>>
sessionVars == <<tables, calling, call, cleaning, loggedOut>>

Nothing == [does |-> "nothing", of |-> None]
Asleep == [at |-> "asleep", ticks |-> 0]

SessionsInit ==
    /\ requests = [n \in Session |-> None] /\ oauth = requests /\ web = requests
    /\ calling = requests
    /\ call = [r \in Request |-> Nothing]
    /\ cleaning = Asleep
    /\ loggedOut = {}

There(table) == {n \in Session : table[n] # None}

\* DELETE ... WHERE created_at < the time the rows had to live before.
Without(table, life) ==
    [n \in Session |-> IF table[n] # None /\ table[n] > life THEN None ELSE table[n]]

-----------------------------------------------------------------------------
(* Signing in. *)

\* States, session ids and tokens are random: never one that is in use.
Fresh(n) ==
    /\ n \notin There(requests) \cup There(oauth) \cup There(web) \cup There(calling)
    /\ \A r \in Request : call[r].of # n

\* StartAuthFlow, with SaveAuthRequestInfo.
HandleLogin(n) ==
    /\ Fresh(n)
    /\ requests' = [Without(requests, AuthRequestTTL) EXCEPT ![n] = 0]
    /\ loggedOut' = loggedOut \ {n}
    /\ UNCHANGED <<oauth, web, calling, call, cleaning>>

\* A request is found while it is fresh, whatever cleanup has left, and its
\* code is redeemed for an OAuth session once.
ProcessCallback(n) ==
    /\ n \in There(requests) /\ requests[n] < AuthRequestTTL
    /\ n \notin There(oauth) \cup There(web) \cup There(calling)
    /\ oauth' = [oauth EXCEPT ![n] = 0]
    /\ calling' = [calling EXCEPT ![n] = 0]
    /\ UNCHANGED <<requests, web, call, cleaning, loggedOut>>

DeleteAuthRequestInfo(n) ==
    /\ n \in There(calling) \cap There(requests)
    /\ requests' = [requests EXCEPT ![n] = None]
    /\ UNCHANGED <<oauth, web, calling, call, cleaning, loggedOut>>

\* The rest of the callback is in Profiles (Resolve) and Ingest (SignIn).
CreateWebSession(n) ==
    /\ n \in There(calling) \ There(requests)
    /\ web' = [Without(web, WebSessionTTL) EXCEPT ![n] = 0]
    /\ calling' = [calling EXCEPT ![n] = None]
    /\ UNCHANGED <<requests, oauth, call, cleaning, loggedOut>>

CallbackFails(n) ==
    /\ n \in There(calling)
    /\ web' \in {web, Without(web, WebSessionTTL)}
    /\ calling' = [calling EXCEPT ![n] = None]
    /\ UNCHANGED <<requests, oauth, call, cleaning, loggedOut>>

-----------------------------------------------------------------------------
(* Requests of a browser. *)

Is(r, does) == call[r].does = does
Ends(r) == call' = [call EXCEPT ![r] = Nothing]
Goes(r, does) == call' = [call EXCEPT ![r].does = does]

\* A write, or a logout; without a viewer both change nothing.
LoadViewer(r, n, does) ==
    /\ Is(r, "nothing")
    /\ n \in There(web) /\ web[n] < WebSessionTTL
    /\ call' = [call EXCEPT ![r] = [does |-> does, of |-> n]]
    /\ UNCHANGED <<tables, calling, cleaning, loggedOut>>

\* DeleteWebSession may fail; the reply clears the cookie all the same.
SignOut(r) ==
    /\ web' \in {web, [web EXCEPT ![call[r].of] = None]}
    /\ Ends(r)
    /\ UNCHANGED <<requests, calling, cleaning>>

PdsClient(r) ==
    /\ Is(r, "write") /\ call[r].of \in There(oauth)
    /\ Goes(r, "resumed")
    /\ UNCHANGED <<tables, calling, cleaning, loggedOut>>

\* Any error signs the browser out: no session, no database, no time left.
PdsClientFails(r) ==
    /\ Is(r, "write")
    /\ SignOut(r)
    /\ UNCHANGED <<oauth, loggedOut>>

\* The client saves the tokens it refreshed on the way, or has none to
\* save; SaveSession inserts a row that has gone meanwhile.
Write(r) ==
    /\ Is(r, "resumed")
    /\ oauth' \in {oauth, [oauth EXCEPT ![call[r].of] = 0]}
    /\ Ends(r)
    /\ UNCHANGED <<requests, web, calling, cleaning, loggedOut>>

\* Logout deletes the OAuth session, or fails, which is only logged.
Logout(r) ==
    /\ Is(r, "logout")
    /\ \/ /\ oauth' = [oauth EXCEPT ![call[r].of] = None]
          /\ loggedOut' = loggedOut \cup {call[r].of}
       \/ UNCHANGED <<oauth, loggedOut>>
    /\ Goes(r, "leaving")
    /\ UNCHANGED <<requests, web, calling, cleaning>>

Leave(r) ==
    /\ Is(r, "leaving")
    /\ SignOut(r)
    /\ UNCHANGED <<oauth, loggedOut>>

-----------------------------------------------------------------------------
(* Cleanup: three statements, cut off at the time it began. *)

At(step) == cleaning.at = step
Cleans(step) == cleaning' = [cleaning EXCEPT !.at = step]

BeginCleanup ==
    /\ At("asleep")
    /\ cleaning' = [at |-> "web", ticks |-> 0]
    /\ UNCHANGED <<tables, calling, call, loggedOut>>

CleanWebSessions ==
    /\ At("web")
    /\ web' = Without(web, WebSessionTTL + cleaning.ticks)
    /\ Cleans("oauth")
    /\ UNCHANGED <<requests, oauth, calling, call, loggedOut>>

\* (Slip: no grace for what no browser session points at.)
CleanOrphans ==
    /\ At("oauth")
    /\ oauth' = [n \in Session |-> IF n \in There(web) THEN oauth[n] ELSE None]
    /\ Cleans("requests")
    /\ UNCHANGED <<requests, web, calling, call, loggedOut>>

\* (Slip: only while there is no browser session at all.)
CleanOAuthWhenEmpty ==
    /\ At("oauth")
    /\ oauth' = IF There(web) # {} THEN oauth
                ELSE Without(oauth, OrphanOAuthGrace + cleaning.ticks)
    /\ Cleans("requests")
    /\ UNCHANGED <<requests, web, calling, call, loggedOut>>

\* Only what no browser session points at.
CleanOAuthSessions ==
    /\ At("oauth")
    /\ oauth' = [n \in Session |->
                   IF n \in There(web) THEN oauth[n]
                   ELSE Without(oauth, OrphanOAuthGrace + cleaning.ticks)[n]]
    /\ Cleans("requests")
    /\ UNCHANGED <<requests, web, calling, call, loggedOut>>

CleanOAuthRequests ==
    /\ At("requests")
    /\ requests' = Without(requests, AuthRequestTTL + cleaning.ticks)
    /\ cleaning' = Asleep
    /\ UNCHANGED <<oauth, web, calling, call, loggedOut>>

CleanupFails ==
    /\ ~At("asleep")
    /\ cleaning' = Asleep
    /\ UNCHANGED <<tables, calling, call, loggedOut>>

-----------------------------------------------------------------------------

\* A row's age, up to where its age makes no more difference.
Aged(table, life) ==
    [n \in Session |->
        IF table[n] # None /\ table[n] <= life + CleanupTime
        THEN table[n] + 1 ELSE table[n]]

Tick ==
    /\ \A n \in There(calling) : calling[n] < CallbackTime
    /\ At("asleep") \/ cleaning.ticks < CleanupTime
    /\ requests' = Aged(requests, AuthRequestTTL)
    /\ oauth' = Aged(oauth, OrphanOAuthGrace)
    /\ web' = Aged(web, WebSessionTTL)
    /\ calling' = [n \in Session |-> IF calling[n] = None THEN None ELSE calling[n] + 1]
    /\ cleaning' = IF At("asleep") THEN cleaning ELSE [cleaning EXCEPT !.ticks = @ + 1]
    /\ UNCHANGED <<call, loggedOut>>

\* What the server was at is lost with it.
ServerStops ==
    /\ calling' = [n \in Session |-> None]
    /\ call' = [r \in Request |-> Nothing]
    /\ cleaning' = Asleep
    /\ UNCHANGED <<tables, loggedOut>>

SessionsNext ==
    \/ \E n \in Session :
          \/ HandleLogin(n) \/ ProcessCallback(n) \/ DeleteAuthRequestInfo(n)
          \/ CreateWebSession(n) \/ CallbackFails(n)
    \/ \E r \in Request, n \in Session, does \in {"write", "logout"} : LoadViewer(r, n, does)
    \/ \E r \in Request : PdsClient(r) \/ PdsClientFails(r) \/ Write(r) \/ Logout(r) \/ Leave(r)
    \/ BeginCleanup \/ CleanWebSessions \/ CleanOAuthSessions \/ CleanOAuthRequests
    \/ CleanupFails
    \/ Tick
    \/ ServerStops

SessionsSpec == SessionsInit /\ [][SessionsNext]_sessionVars

\* Time goes on, a callback ends, and of the hourly cleanups one after
\* another gets through.  Nobody has to sign in, write or sign out.
SessionsFairness ==
    /\ WF_sessionVars(Tick)
    /\ \A n \in Session : WF_sessionVars(CreateWebSession(n) \/ CallbackFails(n))
    /\ []<><<CleanOAuthRequests>>_sessionVars

-----------------------------------------------------------------------------

SessionsTypeOK ==
    /\ requests \in [Session -> Nat \cup {None}]
    /\ oauth \in [Session -> Nat \cup {None}]
    /\ web \in [Session -> Nat \cup {None}]
    /\ calling \in [Session -> 0..CallbackTime \cup {None}]
    /\ \A r \in Request :
          \/ call[r] = Nothing
          \/ call[r] \in [does : {"write", "resumed", "logout", "leaving"}, of : Session]
    /\ cleaning \in [at : {"asleep", "web", "oauth", "requests"}, ticks : 0..CleanupTime]
    /\ loggedOut \subseteq Session

(* Whoever signs in gets a browser session that works, and it works until  *)
(* it is signed out or expires: no cleanup takes the OAuth session of a    *)
(* callback that is still on its way to its browser session ("covering the *)
(* moment between the two during a sign-in", cleanup.go), nor one that a   *)
(* browser session points at; only a logout does.                          *)
SignInsHold ==
    \A n \in There(calling) \cup There(web) : n \in There(oauth) \cup loggedOut

(* Nothing of a sign-in lingers: a request that was never answered, an     *)
(* expired browser session, and an OAuth session that no browser session   *)
(* points at, whether a callback, a logout or a failed database left it or *)
(* a write brought it back after its logout, all go in the end (Cleanup).  *)
NothingLingers ==
    \A n \in Session :
        LET ofIt == n \in There(requests) \cup There(oauth) \cup There(web)
        IN  ofIt ~> ~ofIt
=============================================================================
