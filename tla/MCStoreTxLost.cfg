\* Two first forks of one sheet, published at the same time.
CONSTANTS
    alice = alice
    bob = bob
    original = original
    NoFork = NoFork
    NoRow = NoRow
    Did = {alice, bob}
    Sheet <- TwoSheets
    Subject <- Subjects
    Rating = {}
    Favorite = {}
    Stars = {}
    Time = {}
    Worker = {w1, w2}
    Ops <- TwoForks
SPECIFICATION Spec
INVARIANT FreshWhenQuiet
