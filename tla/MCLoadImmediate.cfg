CONSTANTS
  Chunk = {0, 4660, 65535}
  Garbage <- MCGarbage

SPECIFICATION LoadSpec

INVARIANTS
  ValueLoaded

\* The function returns.
CHECK_DEADLOCK FALSE
