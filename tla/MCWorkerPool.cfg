SPECIFICATION Spec
CONSTANTS
    WorkerCount = 2
    MaxCalls = 2
    Chain <- MCChain
    Kernel <- MCKernel
    Eval <- MCEval
    InitialMemory <- MCInitialMemory
    Batch <- MCBatch
INVARIANTS
    TypeOK
    SemaphoresBinary
    MailboxExclusive
    NoDataRace
    SameDestinationInOrder
    QuiescentBetweenCalls
PROPERTIES
    ImplementsKernelCalls
    CallsReturn
