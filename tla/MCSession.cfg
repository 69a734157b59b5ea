\* The daemon, its picker and the command line, two of them applying at a time.
SPECIFICATION SessionSpec
CONSTANTS
  Appliers = {daemon, picker, cli}
  Daemon = daemon
  Picker = picker
  Cli = cli
  MaxActive = 2
  Images = {i1}
  Videos = {v1}
  Unindexed = {}
  Deletable = {}
  Monitors = {NoMonitor}
  NoMonitor = NoMonitor
  MaxOrphans = 1
  None = None
INVARIANTS CloseRestoresAlone
