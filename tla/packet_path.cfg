\* Items of 2 bytes, lengths modulo 4, values of up to 5 bytes, every probe.
CONSTANTS
    ItemLen = 2
    DatalenMod = 4
    OwnMac <- Own
    NaHeader = 8
    Packets <- AllPackets
    TheKey <- Key1
    MaxHops = 4
    Room = 80
    SomeBytes = {0, 15, 171}
    MaxLen = 5
SPECIFICATION Spec
INVARIANTS TypeOK SurvivesExactlyIf RepliesTellTheRow OwnBytesExactlyIf WholeRequestsAreDropped FramesDieOut ProbesAnswered ChecksumsExactlyIf
