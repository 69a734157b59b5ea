\* An operation of vibewall anywhere among the runs of the script, one at a time beside
\* the guard, over an image and two videos.
SPECIFICATION FairVideoSpec
CONSTANTS
  Appliers = {a1}
  Users = {u1}
  Guard = guard
  AllowedOnBattery = FALSE
  Images = {i1}
  Videos = {v1, v2}
  Unindexed = {}
  Deletable = {}
  Monitors = {NoMonitor}
  NoMonitor = NoMonitor
  MaxOrphans = 1
  MaxApplies = 1
  None = None
INVARIANTS SoloStartHeals
PROPERTIES VideoStartsWithoutHyprpaper VideoEndsOnBattery
