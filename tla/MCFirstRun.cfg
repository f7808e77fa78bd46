CONSTANTS
    Proc = {1, 2, 3}
    Unmigrated <- MCUnmigrated
    Askings <- MCAskings
    Mig = {1, 2, 3}
    Squash = {9}
    Replaces <- MCReplaces
    Statements <- MCStatements
    Deferred <- MCDeferred
    Looked <- MCLooked
    Starts <- MCStarts
    MaxFaults = 1
SPECIFICATION Spec
INVARIANTS RecordedIsWhole OneSucceeds SquashFollows
PROPERTIES AllEnd
CHECK_DEADLOCK FALSE
