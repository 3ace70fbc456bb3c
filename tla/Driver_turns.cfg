SPECIFICATION Spec
CONSTANTS
    Tick = tick
    Request = {r1, r2}
    MaxVersion = 3
INVARIANT AppliedInOrder
PROPERTIES SavedWhileHealthy EventuallyApplied FailureComesToRest
