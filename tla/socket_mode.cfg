\* Two workers, as in the socket build, and three datagrams of any kind.
CONSTANTS
    Threads = {w1, w2}
    NoThread = NoThread
    MaxData = 3
SPECIFICATION Spec
INVARIANTS TypeOK RefCountsUsers PollerHasServer PeekedIsRead LossesFollowCuts
PROPERTIES EachIsRead CancelledLeave
CHECK_DEADLOCK FALSE
