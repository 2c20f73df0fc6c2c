\* Every movable quality at two roots, and each instrument; four lines of a
\* chart; contents of up to three lines through two files.
CONSTANTS
    Boxes <- MCBoxes
    Typed <- MCTyped
    None = None
    Labels = {"Verse"}
    Names = {"n"}
    Patterns = {"p1", "p2"}
    Bars <- MCBars
    MaxLines = 4
    MaxChords = 2
    Null = Null
    Originals <- MCOriginals
    Unset = Unset
SPECIFICATION MusicSpec
INVARIANTS
    ResolveAgrees ShapesServe ChartAsWritten ConvertKeeps
PROPERTIES
    StepShowsNext 
\* A text ends, and a file's second trip is the last.
CHECK_DEADLOCK FALSE
