\* Reloads on two events, of files one of which is broken; the registry of four
\* sessions; log files of two lines.  Nothing is left to do when the daemon has
\* exited, or no session or line may come any more.
SPECIFICATION MCSpec
CONSTANTS
  Part = {"reload", "api", "monitor", "log", "logs"}
  None = None
  in = in
  out = out
  ip1 = ip1
  ip2 = ip2
  node1 = node1
  daemon = daemon
  poll = poll
  session = session
  Session <- MCSession
  Id <- MCId
  Addrs <- MCAddrs
  Target <- MCTarget
  HistorySize = 2
  MaxSessions = 4
  Writer <- MCWriter
  Once <- MCOnce
  MaxSize = 2
  MaxLines = 5
  Daemon = daemon
  MaxDaemonLines = 9
  Version = {1, 2, 3}
  Broken = {3}
  SamePort = TRUE
  WatchConfig = TRUE
  WatchFaults = {"add", "overflow"}
  Server = {"binkp"}
  MaxEvents = 2
INVARIANTS
  CurrentServices
  NoChangeMissed
  NoGhost
  LogIntact
PROPERTIES
  CallsInactive
CHECK_DEADLOCK FALSE
