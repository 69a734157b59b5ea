\* Three pids: a picker, a child abandoned by an interrupted waitpid and an alien
\* process that has got the number of a dead picker.  Pickers outlive a daemon nobody
\* supervises.
SPECIFICATION FairSpec
CONSTANTS
  Pids = {p1, p2, p3}
  None = None
  MaxPolls = 2
  Supervised = FALSE
  PkillMatches = TRUE
INVARIANTS PickerPidIsOurChild NoLeakedPicker ZombieIsAnnounced RestoreBehindNoPicker
PROPERTIES EveryCommandEnds ZombiesAreReaped StopIsHonoured ImplementsSinglePicker
