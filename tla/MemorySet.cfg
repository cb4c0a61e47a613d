SPECIFICATION Spec
CONSTANTS
  Proc = {p1, p2}
  First = p1
  None = None
  NFrames = 18
  Programs = {1, 2}
  StackPages = 1
  KstackPages = 1
  PAGE_SIZE = 2
  Top = 6
  Val = {0, 1}
  MaxSpaces = 2
  Stores = {2, 4}
INVARIANT MemorySound
PROPERTIES PrivateSpec
