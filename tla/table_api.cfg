\* Two slots in one word, every operation, two values to tell apart; one tick, which
\* a clock set back must not let count twice.
CONSTANTS
    S = 2
    WordBits = 2
    Bodies = {0, 1}
    ZeroBody = 0
    MaxClock = 1
SPECIFICATION StoreSpec
INVARIANTS TypeOK OneUpdatePerTick
PROPERTIES FrontUndisturbed ImplementsStore
