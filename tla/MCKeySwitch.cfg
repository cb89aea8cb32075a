CONSTANTS
    R = 256
    LogN = 1
    AllModuli <- ModuliOfThree
    SpecialPrimeCount = 3
    Secret <- MCSecretOfTwo
    Error <- MCErrorOfTwo
    UniformSeed = {3}
    TextPolynomial <- MCMessageOfTwo

SPECIFICATION SwitchSpec

INVARIANTS
    SwitchTypeOK
    DigitsRepresent
    PartsMeet
    KeySwitchCorrect
