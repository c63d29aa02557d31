\* Two servers, every ordinary statement, keys without a slot, restarts.
CONSTANTS
    S = 2
    WordBits = 2
    ItemLen = 2
    DatalenMod = 4
    Servers = {s1, s2}
    Values <- TwoValues
    DbKeys = {0, 1, 2, 4}
    SqlKeys = {2}
    FirstDbs <- EmptyOrFull
    KeyRange = 4
    OtherTables = {"users"}
    Statements = {}
    MaxLog = 5
    MaxFiles = 2
SPECIFICATION Spec
INVARIANTS TypeOK HitIsCurrent
PROPERTIES ImplementsCache
SYMMETRY ServerSymmetry
