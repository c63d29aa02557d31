\* Two receive and two transmit rings of three slots, five frames.
CONSTANTS
    NRx = 2
    NTx = 2
    R = 3
    MaxFrames = 5
SPECIFICATION FairSpec
INVARIANTS TypeOK BuffersDistinct OneReplyEach RepliesInOrder
PROPERTIES OnlyOwnSlots EachIsAnswered
CHECK_DEADLOCK FALSE
