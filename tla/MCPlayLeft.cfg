\* Leaving the page before the microphone is allowed.
CONSTANTS
    Faults = {}
    MaxRun = 1
    MaxQueue = 2
SPECIFICATION PlaySpec
INVARIANT LeavesMic
\* The page waits for its reader, and the bounds end the waiting.
CHECK_DEADLOCK FALSE
