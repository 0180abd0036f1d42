CONSTANTS
    WIDTH = 6
    ALIGN = 1
    MAX_PATTERNS = 3
    Addresses <- MCAddresses
SPECIFICATION BadRamSpec
INVARIANTS BadRamTypeOK FaultsCovered SortedAndBounded ExactWhileItFits
PROPERTIES OnlyGrows
