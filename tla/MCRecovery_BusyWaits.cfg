SPECIFICATION Spec
CONSTANTS
  Hosts = {a, b}
  Running = {a}
  NoHost = NoHost
  CandMax = 2
  Width = 3
  Base = 2
  Cap = 2
  Jitter = 1
  BusyDelay = 3
  ToDiscovery = 2
  Timeout = 1
  Watchdog = 1
  MaxAge = 3
  Buffer = 1
  MaxSeq = 2
  MaxFaults = 3

PROPERTY BusyWaits
CHECK_DEADLOCK FALSE
