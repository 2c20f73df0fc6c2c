------------------------------ MODULE MCIngest ------------------------------
(***************************************************************************)
(* alice edits and deletes a sheet, here and from another client, and bob  *)
(* may favorite it.                                                        *)
(***************************************************************************)
EXTENDS Ingest

CONSTANTS alice, bob

Song == <<alice, 1>>
OneSheet == {Song}
OneFavorite == {<<bob, 1>>}

Plain(draft) == [forkOf |-> NoFork, draft |-> draft]
Editing ==
    {Commit("sheet", Song, rec) : rec \in {Plain(TRUE), Plain(FALSE), Deleted}}
Liking ==
    {Commit("favorite", <<bob, 1>>, rec) : rec \in {[subject |-> Song], Deleted}}
Publishing == Editing \cup {Commit("sheet", Song, Invalid)}
FirstCommits == Publishing \cup Liking

\* bob's account stays as it is.
OnlyAlice == \A i \in 1..Len(log) : log[i].coll = "account" => log[i].did = alice
AliceSpec == IngestInit /\ [][IngestNext /\ OnlyAlice']_ingestVars
=============================================================================
