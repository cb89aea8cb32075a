SPECIFICATION Spec
CHECK_DEADLOCK FALSE
CONSTANTS
    MaxCalls = 4
    Chain <- MCChain
    Eval <- MCEval
    InitialMemory <- MCInitialMemory
    MethodCall <- MCMethodCall
    Resource <- MCResource
    Stream <- MCStream
INVARIANTS
    TypeOK
    OneOperationAtATime
    NoUseAfterRelease
PROPERTIES
    ExecutedAtReturn
