SPECIFICATION Spec
CONSTANTS
    k1 = k1
    Keys = {k1}
    Executors = {a, b, c}
    KeyOf <- MCKeyOf
    MaxDispatch = 2
INVARIANTS
    AtMostOnce
    EffectLeavesTrace
    CompletedIsConfirmed
PROPERTIES
    ConfirmedIsFinal
    UncertainBlocksRetry
CHECK_DEADLOCK FALSE
