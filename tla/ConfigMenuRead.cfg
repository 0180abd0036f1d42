\* A limit as it is read and as it is documented.
CONSTANTS
    WORD = 6
    UnitShift <- MCShifts
    HeapStart = 3
    HeapEnd = 14
    PAGE_SHIFT = 2
    INT_BITS = 4
    NUM_TEST_PATTERNS = 3
    DefaultEnabled = {0, 1, 2}
    TEST_FIELD = 2
    LIMIT_FIELD = 3
    Keys = {"0", "1", "6", "x", "f", "K", "G"}
    MaxCommands = 1
\* At the bound, a selection that is empty cannot be mended.
CHECK_DEADLOCK FALSE
SPECIFICATION Spec
INVARIANTS ReadAsDocumented
