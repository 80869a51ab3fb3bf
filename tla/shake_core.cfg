CONSTANTS
    NumNodes = 3
    TypeOrder <- MCTypeOrder
    Config <- MCConfig
    MAX_NEIGHBORS = 2
    MaxStarts = 4
SPECIFICATION Spec
INVARIANTS TypeOK
PROPERTIES LinkedWhenSmallerFirst
CHECK_DEADLOCK FALSE
