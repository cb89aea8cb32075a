CONSTANTS
    MaxDegree = 9
    Prime = 10007
    IntModulus = 4
    ceil_log2 <- MCCeilLog2
    highest_power_of_two <- MCHighestPowerOfTwo
    Request <- MCRequest

SPECIFICATION Spec

INVARIANTS
    EvaluatesPolynomial
    InnerCallsAccepted
    HeapSound
