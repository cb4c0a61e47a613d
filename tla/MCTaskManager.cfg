SPECIFICATION FairSpec
CONSTANTS
  TCB = {init, t1, t2}
  INITPROC = init
  None = None
  Calls = {"nanosleep", "io"}
INVARIANTS OnePlace NoAssertFails IdsInStep FamilyTree WaiterHasChild
PROPERTIES WaitReturns ChildrenReaped OnlyParentReaps
