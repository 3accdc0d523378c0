SPECIFICATION Spec
CONSTANTS
  Task = {1,2,3}
  Root = 1
  MaxDepth = 3
  Faults = {13, 33}
INVARIANTS
  StackIsOwn
  ContextIntact
