\* A decision that gives an outcome index and no mask.
SPECIFICATION Spec
CONSTANTS
    Wagers = {"w1"}
    Threads = {"t1"}
    MaxTime = 3
    Settings <- IndexSettings
INVARIANTS DecisionCarriedOut
