\* Two processes that apply at once, an indexed image and a video the scanner
\* has not seen, one file that gets deleted, one backend that outlives its applier.
SPECIFICATION Spec
CONSTANTS
  Appliers = {a1, a2}
  Images = {i1}
  Videos = {v1}
  Unindexed = {v1}
  Deletable = {v1}
  Monitors = {NoMonitor}
  NoMonitor = NoMonitor
  MaxOrphans = 1
  None = None
SYMMETRY Symmetry
INVARIANTS SoloApplyHeals IndexedFileGetsItsBackend OnlyWorkingFileIsRemembered RestoresKeepTheChoice
