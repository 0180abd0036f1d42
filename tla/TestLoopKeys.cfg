\* The keyboard reconfigures, skips and exits at every poll.
CONSTANTS
    VM_WINDOW_SIZE = 4
    VM_PINNED_SIZE = 8
    HeapStart = 3
    HeapEnd = 14
    PAGE_SIZE = 4
    LOW_LOAD_LIMIT = 8
    NUM_TEST_PATTERNS = 2
    Stages <- MCStagesShort
    Ticks <- MCNoTicks
    FadeTest = 1
    FadeStages = {1}
    DefaultEnabled = {0, 1}
    Keys = {"menu", "skip", "escape"}
    EnabledChoices = {{0}, {1}, {0, 1}}
    LimitChoices <- MCLimits
    MaxPass = 2
SPECIFICATION Spec
INVARIANTS TypeOK ReportsTruePage CoversSelection IndexInRange
PROPERTIES BailStartsNothing RestartHonoured ImplementsSequence
