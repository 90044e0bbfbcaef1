CONSTANTS
    Elements <- MCElements
    key <- MCkey
    InitLen = 1
    MaxLen = 6
SPECIFICATION Spec
INVARIANTS WellFormed
PROPERTIES IsPriorityQueue
