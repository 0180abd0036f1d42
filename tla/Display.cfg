\* Four rows and three errors in a run, every key at every poll.
CONSTANTS
    LastRow = 4
    MaxErrors = 3
SPECIFICATION Spec
INVARIANTS TypeOK BannerTrue NoGhost NewestWhole
PROPERTIES FailureTold
