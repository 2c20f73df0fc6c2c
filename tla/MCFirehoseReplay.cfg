\* With an API key: crashes, store errors and replays.
CONSTANTS
    alice = alice
    bob = bob
    NoFork = NoFork
    Deleted = Deleted
    Invalid = Invalid
    Did = {alice, bob}
    Sheet <- TwoSheets
    Subject <- TwoSheets
    Rating <- OneVote
    Favorite <- OneVote
    Stars = {5}
    Time = {1}
    Commits <- AllCommits
    CanReplay = TRUE
    MaxLog = 4
    MaxStops = 2
SPECIFICATION FairFirehose
INVARIANTS ReplayIsHarmless NoneSkipped
PROPERTY Converges
\* The reader waits for events, and the bounds end them.
CHECK_DEADLOCK FALSE
