\* Error lines under a banner while trace lines scroll.
CONSTANTS
    LastRow = 3
    MaxErrors = 2
SPECIFICATION Spec
INVARIANTS RowsBelongTogether
