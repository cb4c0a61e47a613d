SPECIFICATION TablesSpec
CONSTANTS
  Space = {s1, s2}
  Fan = 2
  PAGE_SIZE = 2
  UsizeMod = 64
  NFrames = 8
  Pages = {5, 6}
  Copies <- MCCopies
  MaxCopies = 1
  MaxMaps = 5
  Task = {k1, k2}
  NStd = 1
  MaxFds = 3
  MaxFiles = 2
  Std = Std
  None = None
SYMMETRY Symmetry
INVARIANT TablesSound
PROPERTIES UserSpec DescriptorsSpec EndsAsInPipe
CHECK_DEADLOCK FALSE
