SPECIFICATION Spec
INVARIANTS
    OrderIsIrrelevant
PROPERTIES
    ImplementsUG953
