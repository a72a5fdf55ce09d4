CONSTANTS
    Module <- MCModule
    Dir <- MCDir
    Graphs <- MCGraphs
    Entry = 3
    Root = "app"
    MaxStatic = 3
    MaxDynamic = 1
    MaxEvals = 3
    MaxAwaits = 1
    MaxTasks = 1
    MaxCalls = 1
    MaxDepth = 2
SPECIFICATION Spec
INVARIANTS
    OrderExact
    DependenciesFirst
    StartupInOrder
    NoGraphLost
    ExportsOfTheDone
PROPERTIES
    NoRerunOnceDone
    GraphGoesOn
CHECK_DEADLOCK FALSE
