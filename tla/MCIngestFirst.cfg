\* The first start of a server without an API key: what RunOnce backfills,
\* while the firehose follows, stops and goes on.  No handlers.
CONSTANTS
    alice = alice
    bob = bob
    NoFork = NoFork
    Deleted = Deleted
    Invalid = Invalid
    Did = {alice, bob}
    Sheet <- OneSheet
    Subject <- OneSheet
    Rating = {}
    Favorite <- OneFavorite
    Stars = {}
    Time = {}
    Commits <- FirstCommits
    CanReplay = FALSE
    MaxLog = 3
    MaxStops = 1
    MaxPending = 0
    Backfills = {alice}
SPECIFICATION AliceSpec
PROPERTY BackfillCovers
\* The writers wait for events, and the bounds end them.
CHECK_DEADLOCK FALSE
