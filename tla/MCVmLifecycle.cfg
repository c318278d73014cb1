\* Two requests at once on one machine, two instances of it.
SPECIFICATION FairSpec
CONSTANTS
  o1 = o1
  o2 = o2
  Requests = {o1, o2}
  MaxInst = 2
  None = None
INVARIANTS
  StopStops
  RestartReplaces
PROPERTY FreshInstance
