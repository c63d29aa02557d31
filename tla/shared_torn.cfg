\* The comments of Find against two updates in one GET.
CONSTANTS
    NChunks = 2
    Contents = {0, 1}
SPECIFICATION Spec
INVARIANTS HitIsValidSideData
