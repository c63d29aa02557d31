\* Starting, stopping and failing with two threads.
CONSTANTS
    N = 2
SPECIFICATION FairSpec
INVARIANTS TypeOK ExitIsClean AtMostOneLateEvent ServedTableLives
PROPERTIES StopEnds
