SPECIFICATION Spec
CONSTANTS
    MaxTurns = 4
    MaxCalls = 3
INVARIANTS
    TypeOK
    EveryCallAnswered
PROPERTIES
    AskReturns
    EffortShrinks
CHECK_DEADLOCK FALSE
