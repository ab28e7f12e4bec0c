\* Tasks set up before the timer starts.
CONSTANTS
    Functions = {f1, f2}
    NoFunction = NoFunction
    Periods = {0, 1, 2}
    MaxTasks = 3
    Wrap = 4
    MainOps = {"create", "enable", "disable"}
    TaskOps = {}
    MaxTicks = 6
SYMMETRY FunctionSymmetry
SPECIFICATION StaticSpec
INVARIANTS TicksAccounted
PROPERTIES ExactPeriod
