CONSTANTS
    SlotCount = 8
    Keys = {1, 2, 4}
    CiphertextSize = 2
    MaxConversions = 2
    Request <- RequestServed

SPECIFICATION Spec

INVARIANTS
    OutputsUsable
    OutputsRotated
    NothingLeaked
    NoWorkTwice
