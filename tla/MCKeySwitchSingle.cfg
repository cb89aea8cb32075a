CONSTANTS
    R = 1024
    LogN = 2
    AllModuli <- ModuliOfOne
    SpecialPrimeCount = 1
    Secret <- MCSecretOfFour
    Error <- MCErrorOfFour
    UniformSeed = {3}
    TextPolynomial <- MCMessageOfFour

SPECIFICATION SwitchSpec

INVARIANTS
    KeySwitchCorrect
