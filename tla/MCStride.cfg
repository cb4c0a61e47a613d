SPECIFICATION StrideFairSpec
CONSTANTS
  TCB = {init, t1, t2}
  INITPROC = init
  None = None
  Calls = {}
  BIGSTRIDE = 4
  DefaultPri = 2
  Prios = {1, 4}
  MaxBase = 2
INVARIANT StrideSound
PROPERTY FairSpec
