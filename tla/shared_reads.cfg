\* Items of up to two units, two contents besides the zero one.
CONSTANTS
    NChunks = 2
    Contents = {0, 1}
SPECIFICATION Spec
INVARIANTS TypeOK OneOverlapIsSnapshot ValidSideIsWhole
PROPERTIES PublishedAtSwap
