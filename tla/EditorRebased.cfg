\* One tab, and a publish from elsewhere.
CONSTANTS
    Tabs = {one}
    Modes = {"edit"}
    Tags = {"none", "some"}
    MaxTexts = 3
    MaxVersions = 2
    Gone = Gone
    Nothing = Nothing
SPECIFICATION EditorSpec
INVARIANT DraftKnowsItsVersion
\* The author may stop, and the bounds end the typing.
CHECK_DEADLOCK FALSE
