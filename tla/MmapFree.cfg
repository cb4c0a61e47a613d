SPECIFICATION MmapSpec
CONSTANTS
  Proc = {p1, p2}
  First = p1
  None = None
  NFrames = 17
  Programs = {1}
  StackPages = 1
  KstackPages = 1
  PAGE_SIZE = 1
  Top = 6
  Val = {0, 1}
  MaxSpaces = 1
  Stores = {}
  Gap = 1
  MaxPages = 2
  Starts = {3, 4}
INVARIANTS FreeFramesUnmapped
