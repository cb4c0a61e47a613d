SPECIFICATION Spec
CONSTANTS
  Setups <- MCSetups
  IdxMod = 8
  rd = rd
  wr = wr
  Reqs <- MCReqs
  Kind <- MCKind
  Val = {0, 1}
  None = None
INVARIANT QueueSound
PROPERTIES RequestsSpec
