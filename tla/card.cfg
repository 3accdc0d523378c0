SPECIFICATION Spec
CONSTANTS
  RingSize = 2
  Good = {f}
  Bad = {e}
  Free = free
  Tasks = {t, u}
INVARIANTS
  ReceivedInOrder
  SentInOrder
  NoFrameForgotten
PROPERTIES
  FramesHandled
