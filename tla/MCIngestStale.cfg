\* A backfill's page put after a later delete was handled.
CONSTANTS
    alice = alice
    bob = bob
    NoFork = NoFork
    Deleted = Deleted
    Invalid = Invalid
    Did = {alice}
    Sheet <- OneSheet
    Subject <- OneSheet
    Rating = {}
    Favorite = {}
    Stars = {}
    Time = {}
    Commits <- Editing
    CanReplay = TRUE
    MaxLog = 2
    MaxStops = 0
    MaxPending = 0
    Backfills = {alice}
SPECIFICATION IngestSpec
INVARIANT QuietInStep
\* The writers wait for events, and the bounds end them.
CHECK_DEADLOCK FALSE
