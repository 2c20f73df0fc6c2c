\* Four sheets, of each kind of instrument; a way down the page in four
\* steps under two fingers; five runs of chords, of which some are far apart; a
\* buffer of a few hops, and runs that take longer than that.
CONSTANTS
    None = None
    Sheets <- MCSheets
    Ahead = 2
    MaxTurns = 3
    End = 4
    Nudge = 1
    Fingers = 2
    MaxAnims = 2
    Chart <- MCChart
    NEAR = 2
    JUMP_FRAMES = 4
    FirstPace = 2
    MinPace = 1
    MaxPace = 3
    MaxInRun = 22
    KEEP = 4
    REACH = 2
    TIMESTEP = 4
    LAG = 1
    EVERY = 2
    MaxFrames = 12
SPECIFICATION ReaderSpec
INVARIANTS
    OneAtATime HeardAsShown SoundsTheSame
PROPERTIES
    HearingEnds KeepsItsPlace ScrollingEnds MovesAreEarned GetsThere FramesInOrder CatchesUp
\* The page waits for its reader, and the bounds end the waiting.
CHECK_DEADLOCK FALSE
