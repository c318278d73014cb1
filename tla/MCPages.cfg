\* One page at a time, over what its caches, probes and kept answers can hold.
SPECIFICATION PagesSpec
CONSTANTS
  Requests = {o1, o2}
  Fields = {"memory", "memory_floor", "network", "display"}
  Values = {va, vb}
  Sizes = {va}
  Names = {d1}
  Secrets = {k1}
  Multus = {m1}
  Blank = Blank
  Bad = Bad
  MaxWrites = 2
  Images = {i1, i2}
  Media = {m1}
  None = None

SYMMETRY Symmetry
INVARIANTS
  DisksPaired
  EditShows
  OfferedIsTaken
  SaidIsSo
  FoundIsSo
  HiddenUnreferenced
  NamesAVolume
\* A page that was answered, and a request that ended, ask nothing more.
CHECK_DEADLOCK FALSE
