\* The daemon going up and down, and the pod of a viewer held to some projects, on one page.
SPECIFICATION FeedFairSpec
CONSTANTS
  r1 = r1
  n1 = n1
  p1 = p1
  Rows = {}
  Projects = {n1}
  Pages = {p1}
  QueueCap = 1
  WireCap = 1
  MaxEvents = 1
  NoFeed = NoFeed
PROPERTIES
  NeverGoesBack
  KeepsUp
