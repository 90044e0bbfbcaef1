CONSTANTS
    Elements <- MCElements
    key <- MCkey
    InitLen = 3
    MaxLen = 6
    Matching <- MCMatching
SPECIFICATION CleanSpec
INVARIANTS CleansAll
