SPECIFICATION Spec
CONSTANTS
  Me = me
  Neighbours = {gw, n}
  Far = {x}
  Gateway = gw
  Everyone = everyone
  Nobody = nobody
  CacheSize = 2
  ListenPorts = {1, 2}
  RemotePorts = {7}
  FirstPort = 1
  Answered = {gw, x}
  MaxSockets = 2
  MaxFrames = 1
INVARIANTS
  SentToNextHop
  HandlerNeverWaits
  OneSocketPerRemote
PROPERTIES
  ResolveReturns
