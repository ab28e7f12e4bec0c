\* Any client: every operation from the main code and from task functions.
CONSTANTS
    Functions = {f1, f2}
    NoFunction = NoFunction
    Periods = {1, 2}
    MaxTasks = 2
    Wrap = 3
    MainOps = {"create", "destroy", "enable", "disable"}
    TaskOps = {"create", "destroy", "enable", "disable"}
SPECIFICATION FairSpec
INVARIANTS NoNullCall
PROPERTIES EnabledTaskRuns
