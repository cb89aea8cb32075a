CONSTANTS
    SlotCount = 8
    Keys = {1, 2, 4}
    CiphertextSize = 2
    MaxConversions = 0
    Request <- RequestAny

SPECIFICATION Spec

INVARIANT OutputsUsable
