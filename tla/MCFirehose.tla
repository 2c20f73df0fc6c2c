----------------------------- MODULE MCFirehose -----------------------------
(***************************************************************************)
(* alice publishes, unpublishes, deletes and breaks a sheet while bob      *)
(* forks, rates and favorites it, and accounts come and go.                *)
(***************************************************************************)
EXTENDS Firehose

CONSTANTS alice, bob

Song == <<alice, 1>>
Cover == <<bob, 1>>
TwoSheets == {Song, Cover}
OneVote == {<<bob, 1>>}

Plain(draft) == [forkOf |-> NoFork, draft |-> draft]
SongEdits ==
    {Commit("sheet", Song, rec) : rec \in {Plain(TRUE), Plain(FALSE), Deleted, Invalid}}
Forking ==
    {Commit("sheet", Cover, rec) :
        rec \in {[forkOf |-> Song, draft |-> FALSE], Deleted}}
Liking ==
    {Commit("favorite", <<bob, 1>>, rec) : rec \in {[subject |-> Song], Deleted}}
Five == [subject |-> Song, value |-> 5, at |-> 1]
RatingIt ==
    {Commit("rating", <<bob, 1>>, rec) : rec \in {Five, Deleted}}

AllCommits == SongEdits \cup Forking \cup Liking \cup RatingIt
=============================================================================
