CONSTANTS
    App = {1, 2}
    Feature = {1, 2, 3, 4, 5}
    AppOf <- MCAppOf
    Needs <- MCNeeds
    Pulled = {5}
    Hand = 9
    Fragment = {0, 1}
    Constrained = {1}
    Key <- MCKey
    First = 0
    Latest = 99999
    Projects <- MCProjects
    MaxCommands = 2
    MaxSquashes = 1
    Avoided = {"UpdatesTogether", "UpdatesOffline", "SquashesAcross", "ReusesNumber", "EditsUnbuilt", "LosesFunctions", "SplitsApp", "LeavesBoth", "ConvertsLate"}
SPECIFICATION Spec
INVARIANTS AlwaysLoads AlwaysCompiles NeverTwice Accomplishes
PROPERTIES NothingRewritten MigratesFiles
CHECK_DEADLOCK FALSE
