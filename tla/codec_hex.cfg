\* Bin2Hex against its test.
CONSTANTS
    ItemLen = 3
    DatalenMod = 5
    SomeBytes = {0, 15, 16, 255}
    MaxLen = 6
SPECIFICATION Spec
INVARIANTS StoredIsSent
