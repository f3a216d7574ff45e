SPECIFICATION FileSpec
CONSTANTS
    t1 = t1
    t2 = t2
    a = a
    b = b
    x = x
    y = y
    Tests = {t1, t2}
    VectorTests = {t1}
    Flows = {"rtl", "synth"}
    Cfgs = {a, b}
    RejectCfgs = {b}
    Recorded <- MCRunners
    Traces = {x, y}
    NotOfStyle <- MCNotOfStyle
    Scenarios <- MCScenarios
    MaxHead = 2
    Generated <- MCGenerated
    Stimulus <- MCStimulus
    Exercises <- MCExercises
SYMMETRY Symmetry
INVARIANTS
    VerilatorIsConfirmed
    NothingIsHidden
    CoverageIsShown
    MarksCompareLikeForLike
CHECK_DEADLOCK FALSE
