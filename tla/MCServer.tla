------------------------------ MODULE MCServer ------------------------------
(***************************************************************************)
(* The tables that the server keeps beside the index, one part at a time:  *)
(* sign-ins and their cleanup ("sessions"), and the names of accounts      *)
(* ("names").                                                              *)
(***************************************************************************)
EXTENDS Sessions, Profiles

CONSTANTS n1, n2, r1, r2, alice, bob, h1, h2

VARIABLE part

server == <<part, sessionVars, profileVars>>

\* A part that is left out starts in one way only.
ServerInit ==
    /\ part \in {"sessions", "names"}
    /\ SessionsInit /\ ProfilesInit
    /\ named = [d \in Account |-> IF part = "names" /\ d = alice THEN h1 ELSE NoHandle]
    /\ DOMAIN shown = Account

\* Two requests of one session, or requests of two.
Busy == call[r2] = Nothing \/ n2 \notin There(requests) \cup There(oauth) \cup There(web)

SignIns(A) == part = "sessions" /\ A /\ Busy' /\ UNCHANGED <<part, profileVars>>
Names(A) == part = "names" /\ A /\ UNCHANGED <<part, sessionVars>>

ServerNext == SignIns(SessionsNext) \/ Names(ProfilesNext)

\* SessionsFairness and ProfilesFairness.
ServerFairness ==
    /\ WF_server(SignIns(Tick))
    /\ \A n \in Session : WF_server(SignIns(CreateWebSession(n) \/ CallbackFails(n)))
    /\ part = "sessions" => []<><<SignIns(CleanOAuthRequests)>>_server
    /\ WF_server(Names(Expire)) /\ WF_server(Names(Run))
    /\ WF_server(Names(LookUpFails("run"))) /\ WF_server(Names(SaveFails("run")))
    /\ \A d \in Account \ Broken :
          SF_server(Names(Turn(d) /\ LookUp("run"))) /\ SF_server(Names(SavesKnown(d)))
    /\ \A d \in Broken : SF_server(Names(Saves(d)))

ServerSpec == ServerInit /\ [][ServerNext]_server /\ ServerFairness
=============================================================================
