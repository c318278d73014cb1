\* One optional kind, two objects, three revisions, a channel of two.
SPECIFICATION FairSpec
CONSTANTS
  k1 = k1
  k2 = k2
  Keys = {k1, k2}
  MaxRev = 3
  ChanCap = 2
  Optional = TRUE
\* A kind whose watch is shut down stops.
CHECK_DEADLOCK FALSE
INVARIANTS
  ConsistentSnapshot
  FlagsHonest
PROPERTIES
  Converges
  ShutdownEnds
