SPECIFICATION Spec
CONSTANTS
    Prime = 257
    Generator = 3
    MaxLog = 7
    ROUND_BOUND = 28
    FullLevel = 14
    MaxLevel = 14
    Scale = 2
    BasePrime = 32
    MessageNumber <- MCMessageNumber
    Overflow <- MCOverflow
    Request <- MCRequest
INVARIANTS
    MessageKept
    KeysSuffice
