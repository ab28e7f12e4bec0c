\* A client that changes the table while the scheduler runs.
CONSTANTS
    Functions = {f1, f2, f3}
    NoFunction = NoFunction
    Periods = {1, 2}
    MaxTasks = 3
    Wrap = 3
    MainOps = {"create", "destroy", "enable", "disable"}
    TaskOps = {"create", "destroy", "enable", "disable"}
SYMMETRY FunctionSymmetry
SPECIFICATION DynamicSpec
PROPERTIES OnlyWantedRun CountsOnce
