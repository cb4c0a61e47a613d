SPECIFICATION FairSpec
CONSTANTS
  Proc = {p1, p2}
  Creator = p1
  Byte = {0, 1}
  RING_BUFFER_SIZE = 2
  MaxLen = 3
  MaxFd = 2
  None = None
INVARIANT PipeInv
PROPERTIES FifoSpec EofReturns NoStandoff
