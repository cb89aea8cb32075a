CONSTANTS
    R = 256
    LogN = 2
    Prime = {17, 41}
    Operand1 <- MCOperand1
    Operand2 <- MCOperand2

SPECIFICATION ProductSpec

INVARIANTS
    ProductTypeOK
    EvaluatesAtRoots
    ProductCorrect

CHECK_DEADLOCK FALSE
