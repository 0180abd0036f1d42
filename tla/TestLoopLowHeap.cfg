\* The program as built, with a heap that begins inside the low window.
CONSTANTS
    VM_WINDOW_SIZE = 4
    VM_PINNED_SIZE = 8
    HeapStart = 1
    HeapEnd = 7
    PAGE_SIZE = 4
    LOW_LOAD_LIMIT = 8
    NUM_TEST_PATTERNS = 3
    Stages <- MCStages
    Ticks <- MCTicks
    FadeTest = 2
    FadeStages = {1, 4}
    DefaultEnabled = {0, 1, 2}
    Keys = {}
    EnabledChoices = {}
    LimitChoices = {}
    MaxPass = 3
SPECIFICATION Spec
INVARIANTS RunsOnHeapOnly
