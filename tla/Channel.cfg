SPECIFICATION Spec
CONSTANTS
  Socket = {s1, s2}
  Listener = {l1}
  Broadcaster = {b1, b2}
  MaxConnections = 1
  QueueSize = 1
  Attempts = 2
  DropSlow = TRUE
  MessageCap = 2
INVARIANTS SocketsMissNothing ListenersMissNothing
PROPERTIES BroadcastEnds
