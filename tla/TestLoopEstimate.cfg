\* The estimates of the dummy run under skips and restarts.
CONSTANTS
    VM_WINDOW_SIZE = 4
    VM_PINNED_SIZE = 8
    HeapStart = 3
    HeapEnd = 7
    PAGE_SIZE = 4
    LOW_LOAD_LIMIT = 8
    NUM_TEST_PATTERNS = 2
    Stages <- MCStagesTwo
    Ticks <- MCOneTick
    FadeTest = 1
    FadeStages = {1}
    DefaultEnabled = {0, 1}
    Keys = {"menu", "skip"}
    EnabledChoices = {{0, 1}}
    LimitChoices <- MCTwoLimits
    MaxPass = 2
SPECIFICATION Spec
INVARIANTS BarCompletes
