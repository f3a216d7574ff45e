SPECIFICATION Spec
CONSTANTS
    Sources = {"unisim", "unifast"}
    Flows = {"rtl", "synth"}
    Cfgs = {"a", "b"}
    Scenarios <- MCScenarios
INVARIANTS
    NothingMasked
    AgreementIsEvidence
PROPERTIES
    RecordIsKept
CHECK_DEADLOCK FALSE
