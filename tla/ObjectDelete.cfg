SPECIFICATION Spec
CONSTANTS
  Keys <- MCKeys
  Chunk = 2
  MaxBatch = 5
  MaxObjects = 4
INVARIANTS CleanMeansGone CountsAreTrue
CHECK_DEADLOCK FALSE
