\* One host, two severities, a cap of two, three instants; one I/O error, one restart that may turn dedup off, or the clock set back.
SPECIFICATION Spec
CONSTANTS
  h1 = h1
  s1 = s1
  s2 = s2
  Hosts = {h1}
  Severities = {s1, s2}
  Cap = 2
  Retain = 1
  NotifyEvery = 0
  PruneEvery = 2
  RoomEvery = 2
  BatchMax = 1
  ShareBase = 2
  Dedups = {TRUE, FALSE}
  FirstDedups = {TRUE}
  MaxTime = 2
  MaxSeq = 3
  Troubles = {"fault", "restart", "clock"}
  MaxTrouble = 1

SYMMETRY RingSymmetry
INVARIANTS
  AggregatesAgree
  IndexFollows
  RingBounded
PROPERTY PruneLeavesNothingOld
\* A ring that cannot be opened at boot stops the plugin.
CHECK_DEADLOCK FALSE
