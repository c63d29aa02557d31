\* Statements that the replay gets wrong: other tables, moved keys, several tables.
CONSTANTS
    S = 2
    WordBits = 2
    ItemLen = 2
    DatalenMod = 4
    Servers = {s1}
    Values <- OneValue
    DbKeys = {0, 1, 2, 4}
    SqlKeys = {0, 4}
    FirstDbs <- EmptyOrFull
    KeyRange = 4
    OtherTables = {"users", "kvs_old"}
    Statements = {"move", "multi"}
    MaxLog = 6
    MaxFiles = 3
SPECIFICATION FairSpec
INVARIANTS HitWasLogged StaleHitsWereMisread
PROPERTIES CatchesUp
