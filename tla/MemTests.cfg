\* All tests on memory with none or one of each kind of fault.
CONSTANTS
    VM_WINDOW_SIZE = 1
    VM_PINNED_SIZE = 2
    TESTWORD_WIDTH = 8
    BYTE = 4
    SHIFTS <- MCShifts
    SPIN_SIZE = 16
    MODULO_N = 5
    PAGE_WORDS = 32
    Segments <- MCSegments
    Tests = {0, 1, 2, 3, 4, 5, 6, 7, 8, 9, 10}
    Iterations <- MCIterations
    Seeds <- MCSeeds
    Faults <- MCFaults
SPECIFICATION Spec
INVARIANTS TypeOK NoFalseAlarm AccessesInside BlamesTheFault StuckFound AliasFound CouplingFound FadeFound TicksEstimated
PROPERTIES TestEnds
