\* All modes, restarts and orders of errors, up to the limit of the counter.
CONSTANTS
    VM_WINDOW_SIZE = 1
    VM_PINNED_SIZE = 2
    WIDTH = 6
    ALIGN = 1
    MAX_PATTERNS = 2
    Addresses <- MCAddresses
    PAGE_WORDS = 2
    FaultWords <- MCFaultWords
    Xors <- MCXors
    Tests = {0, 1}
    ERROR_LIMIT = 2
    INT_MAX = 1
    MaxReports = 3
SPECIFICATION Spec
INVARIANTS TypeOK CapturesAll PatternsOfThisRun
PROPERTIES ImplementsStats
