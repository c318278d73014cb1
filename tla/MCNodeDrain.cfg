\* One drain at a time: two nodes, two pods under a budget of one and one without a
\* controller.
SPECIFICATION FairSpec
CONSTANTS
  n1 = n1
  n2 = n2
  p1 = p1
  p2 = p2
  s1 = s1
  d1 = d1
  Nodes = {n1, n2}
  Managed = {p1, p2}
  Solo = {s1}
  MinAvailable = 1
  Drains = {d1}
  NoPod = NoPod
INVARIANTS
  BudgetKept
  ListedOrGone
  EvictedIsElsewhere
PROPERTY DrainedInTheEnd
