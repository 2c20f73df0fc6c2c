----------------------------- MODULE MCWriters ------------------------------
(***************************************************************************)
(* The writers of the index on a server with an API key and its handlers   *)
(* at work ("key"), and an account's opinions of a sheet from two tabs     *)
(* ("opinions").                                                           *)
(***************************************************************************)
EXTENDS MCIngest, Opinions

VARIABLE part

writers == <<part, ingestVars, opinionVars>>

\* A part that is left out starts in one way only.
WritersInit ==
    /\ part \in {"key", "opinions"}
    /\ IngestInit /\ OpinionsInit
    /\ part = "opinions" \/ kind = "rating"

WritersNext ==
    \/ /\ part = "key" /\ IngestNext /\ OnlyAlice'
       /\ UNCHANGED <<part, opinionVars>>
    \/ part = "opinions" /\ OpinionsNext /\ UNCHANGED <<part, ingestVars>>

WritersSpec == WritersInit /\ [][WritersNext]_writers
=============================================================================
