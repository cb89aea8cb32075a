CONSTANTS
    R = 2043
    Moduli <- MCModuli
    Message <- MCMessage
    Scalar <- MCScalar
    MaxTerms = 4
    MaxDrift = 4

SPECIFICATION Spec

INVARIANTS
    TypeOK
    DecodeCorrect

PROPERTY ImplementsRing
