\* The same packets and items; what the comments promise for whole requests.
CONSTANTS
    ItemLen = 2
    DatalenMod = 4
    OwnMac <- Own
    NaHeader = 8
    Packets <- AllPackets
    TheKey <- Key1
    MaxHops = 4
    Room = 80
    SomeBytes = {0, 15, 171}
    MaxLen = 5
SPECIFICATION Spec
INVARIANTS WholeRequestsPass
