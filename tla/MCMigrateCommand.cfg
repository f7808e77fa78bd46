CONSTANTS
    Key <- MCKey
    First = 8
    Latest = 9
    Release <- MCRelease
    Tree <- MCTree
    Upgrades <- MCUpgrades
    Original <- MCOriginal
    Brings <- MCBrings
    Needs <- MCNeeds
    Zero = 0
    NoName = 5
    NoApp = 0
    PruneDry = FALSE
SPECIFICATION Spec
INVARIANTS RunsInItsPlace TableTellsTheTruth NoDeadEnd DoneAsAsked ShownIsRun
