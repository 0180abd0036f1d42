\* Test 9 on a memory whose last word has a stuck bit.
CONSTANTS
    VM_WINDOW_SIZE = 1
    VM_PINNED_SIZE = 2
    TESTWORD_WIDTH = 8
    BYTE = 4
    SHIFTS <- MCShifts
    SPIN_SIZE = 16
    MODULO_N = 5
    PAGE_WORDS = 32
    Segments <- MCSegments
    Tests = {9}
    Iterations <- MCIterations
    Seeds <- MCSeeds
    Faults <- MCStuck
SPECIFICATION Spec
INVARIANTS ModuloFindsStuck
