\* Forks, hiding and purging; two ratings and two favorites by one account,
\* records that move subject; two transactions at a time.
CONSTANTS
    alice = alice
    bob = bob
    gone = gone
    s1 = s1
    s2 = s2
    NoFork = NoFork
    NoRow = NoRow
    w1 = w1
    w2 = w2
    Did = {alice, bob}
    Sheet <- MCSheets
    Subject <- MCSubjects
    Rating <- ThreeRatings
    Favorite <- TwoFavorites
    Stars = {1, 5}
    Time = {1, 2}
SPECIFICATION IndexSpec
INVARIANTS TypeOK StatsFresh AuthorsKnown CountsAsSeen OnlyRecountsDeadlock
PROPERTIES HideTakesEffect ReplayIsNoOp RefinesLibrary OrphanCardsGo Heals
