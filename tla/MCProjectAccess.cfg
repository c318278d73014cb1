\* One viewer, one project, one page request at a time.
SPECIFICATION Spec
CONSTANTS
  t1 = t1
  p1 = p1
  r1 = r1
  r2 = r2
  Tokens = {t1}
  Projects = {p1}
  Requests = {r1}
  TTL = 1
  AskTicks = 1
  NoRules = NoRules
  NoAnswer = NoAnswer
SYMMETRY Symmetry
INVARIANTS
  TakenAwayIsHidden
  HeldIsShown
