SPECIFICATION FairSpec
CHECK_DEADLOCK FALSE
CONSTANTS
  Host = {a, b}
  Nobody = nobody
  Servers = {b}
  Port = 80
  Lengths = {23}
  Zeros = {0, 23}
  MaxListens = 2
  MaxConnects = 1
  Senders = {a}
  MaxSends = 2
  Answerers = {b}
  MaxMishaps = 1
INVARIANTS
 StreamPrefix
 HandshakeAgrees
 Synchronised
 HangsOnlyWhenClosing
PROPERTIES
 DeliveredInCalm
 ClosesBothEnds
