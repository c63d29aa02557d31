\* A key of the column that has no slot.
CONSTANTS
    S = 2
    WordBits = 2
    ItemLen = 2
    DatalenMod = 4
    Servers = {s1}
    Values <- TwoValues
    DbKeys = {0, 1, 2, 4}
    SqlKeys = {0, 2}
    FirstDbs <- EmptyOrFull
    KeyRange = 4
    OtherTables = {"users"}
    Statements = {}
    MaxLog = 5
    MaxFiles = 3
SPECIFICATION Spec
PROPERTIES KeysAreServable
