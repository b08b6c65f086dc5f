\* One request to reload.
SPECIFICATION MCSpec
CONSTANTS
  Part = {"reload"}
  None = None
  in = in
  out = out
  ip1 = ip1
  ip2 = ip2
  node1 = node1
  daemon = daemon
  poll = poll
  session = session
  Session <- MCSession
  Id <- MCId
  Addrs <- MCAddrs
  Target <- MCTarget
  HistorySize = 2
  MaxSessions = 4
  Writer <- MCWriter
  Once <- MCOnce
  MaxSize = 2
  MaxLines = 5
  Daemon = daemon
  MaxDaemonLines = 9
  Version = {1, 2, 3}
  Broken = {3}
  SamePort = TRUE
  WatchConfig = TRUE
  WatchFaults = {}
  Server = {"binkp", "api"}
  MaxEvents = 1
INVARIANTS
  ServerKept
CHECK_DEADLOCK FALSE
