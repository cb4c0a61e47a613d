SPECIFICATION Spec
CONSTANTS
  Meta = {m1}
  Data = {d1, d2, d3}
  Val = {0, 1}
  None = None
  BLOCK_CACHE_SIZE = 2
INVARIANT NewClustersZero
