CONSTANTS
  Thread = {t1, t2, t3}
  MaxTicket = 5
  UsizeMod = 64
  MaxRounds = 3
  Orders = 5
  Word = 2
  Start = 5
  End = 20
  RescueStart = 22
  RescueEnd = 26
  Layouts <- MCLayouts
SPECIFICATION LibrarySpec
INVARIANTS TicketsOwned SpinSound HeapSound
PROPERTIES GuardsSpec EveryTicketServed StarverFirst LockGuards SpinEnds AllocatorProperty
CHECK_DEADLOCK FALSE
