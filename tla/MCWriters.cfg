\* alice's sheet written here, elsewhere and by her sign-ins; one stop.
\* Two tabs and four commits of opinions.
CONSTANTS
    alice = alice
    bob = bob
    NoFork = NoFork
    Deleted = Deleted
    Invalid = Invalid
    Did = {alice, bob}
    Sheet <- OneSheet
    Subject <- OneSheet
    Rating = {}
    Favorite <- OneFavorite
    Stars = {}
    Time = {}
    Commits <- Publishing
    CanReplay = TRUE
    MaxLog = 4
    MaxStops = 1
    MaxPending = 2
    Backfills = {alice}
    Tab = {t1, t2}
    Given = {2, 5}
    MaxCommits = 4
SPECIFICATION WritersSpec
INVARIANT OnlyRacesDiverge
PROPERTY OneOpinion
\* The writers wait for events, and the bounds end them.
CHECK_DEADLOCK FALSE
