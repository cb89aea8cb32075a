SPECIFICATION LoopSpec
CHECK_DEADLOCK FALSE
CONSTANTS
    MaxCalls = 1
    TextChainCount = 4
    SpecialPrimeCount = 3
    MaxOffset = 1
    Chain <- MCChain
    Eval <- MCEval
    InitialMemory <- MCInitialMemory
    MethodCall <- MCMethodCall
INVARIANTS
    TasksIndependent
PROPERTIES
    SameAsParallel
