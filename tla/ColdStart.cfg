CONSTANTS
    Pod = {1, 2, 3, 4}
    Replicas = 2
    MaxRestarts = 1
    MaxLosses = 1
SPECIFICATION Spec
INVARIANTS NoStaleRegistration RouterBeforeEngines EveryEngineIsKnown
