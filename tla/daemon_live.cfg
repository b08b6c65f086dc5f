\* Reloads on three events, with a file that is broken; and a shutdown around one event.
\* Nothing is left to do when the daemon has exited, or no event may come any more.
SPECIFICATION MCSpec
CONSTANTS
  Part = {"config", "shutdown"}
  Version = {1, 2, 3}
  Broken = {3}
  SamePort = TRUE
  WatchConfig = TRUE
  WatchFaults = {"overflow"}
  Server = {"binkp", "api"}
  MaxEvents = 3
PROPERTIES
  LatestConfigUsed
  ShutdownEnds
CHECK_DEADLOCK FALSE
