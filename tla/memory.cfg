SPECIFICATION Spec
CONSTANTS
  Start = 1
  HeapSize = 14
  Header = 2
  Requests = {0, 1, 3}
INVARIANTS
  MTypeOK
  Linked
  Coalesced
  BlocksApart
PROPERTIES
  RefusesOnlyWhenFull
  MallocReturns
  ImplementsAllocator
