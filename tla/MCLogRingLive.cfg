\* One line, two I/O errors: the ring comes back, and what is old goes.
SPECIFICATION FairSpec
CONSTANTS
  h1 = h1
  s1 = s1
  Hosts = {h1}
  Severities = {s1}
  Cap = 1
  Retain = 1
  NotifyEvery = 0
  PruneEvery = 2
  RoomEvery = 2
  BatchMax = 1
  ShareBase = 2
  Dedups = {TRUE}
  FirstDedups = {TRUE}
  MaxTime = 2
  MaxSeq = 1
  Troubles = {"fault"}
  MaxTrouble = 2
PROPERTIES
  RingComesBack
  OldGoes
\* A ring that cannot be opened at boot stops the plugin.
CHECK_DEADLOCK FALSE
