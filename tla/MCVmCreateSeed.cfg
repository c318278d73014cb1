\* A machine made again under its name, with a key the first one did not have.
SPECIFICATION CreateSpec
CONSTANTS
  k1 = k1
  k2 = k2
  o1 = o1
  o2 = o2
  home = home
  n1 = n1
  Keys = {k1, k2}
  Namespaces = {home, n1}
  Home = home
  Requests = {o1, o2}
  Makers = {o1, o2}
  None = None

INVARIANT SeedCarriesKeys
