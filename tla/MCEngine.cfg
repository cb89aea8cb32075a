CONSTANTS
    FullLevel = 3
    MaxLevel = 3
    OneMoreLevel = TRUE
    LogScale = 400
    LogQ <- PrimeLogs
    SlotCount = 2
    MaxLeftover = 2

SPECIFICATION Spec

INVARIANTS
    TypeOK
    ScalesExact
    CoreOperandsFit
    TextsStayUsable
    RefusedCallsMakeNothing
    HeapSound
