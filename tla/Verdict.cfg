SPECIFICATION Spec
CONSTANTS
    Cfgs <- MCCfgs
    Rejects = {"bad"}
    Excluded = {"out"}
    Simulators <- MCSimulators
INVARIANTS PassIsEarned FailIsSeen MatrixIsWhole
PROPERTY EveryRunnerReports
CHECK_DEADLOCK FALSE
