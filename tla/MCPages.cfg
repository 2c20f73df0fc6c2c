\* The author edits one sheet in two tabs and elsewhere; one chord, two capos,
\* three tunings and two files for the form; denied microphones, failing set-ups
\* and downloads, and a page that is left.
CONSTANTS
    Tabs = {one, two}
    Modes = {"edit", "fork", "new"}
    Tags = {"none", "rock"}
    MaxTexts = 3
    MaxVersions = 2
    Gone = Gone
    Nothing = Nothing
    Chords = {c}
    Capos = {0, 3}
    Picks = {"standard", "low-g", "drop-d"}
    MaxFiles = 2
    None = None
    Faults = {"mic", "audio", "model"}
    MaxRun = 5
    MaxQueue = 2
SYMMETRY Sym
SPECIFICATION PagesSpec
INVARIANTS
    FormFits MicAsShown
PROPERTIES
    LeavingKeepsWork WorkComesBack StaysOff
\* The pages wait for their readers, and the bounds end the waiting.
CHECK_DEADLOCK FALSE
