\* An install token, a user without an identity, one session, one request and one page at a time.
SPECIFICATION Spec
CONSTANTS
  u1 = u1
  t1 = t1
  c1 = c1
  q1 = q1
  p1 = p1
  Users = {u1}
  Identified = {}
  InstallTokens = {t1}
  WriterConfigs = {{u1}, {Cert}}
  Own = Own
  Cert = Cert
  Anonymous = Anonymous
  Root = Root
  Cookies = {c1}
  Requests = {q1}
  Pages = {p1}
  TTL = 1
  AskTicks = 1
  None = None
SYMMETRY Symmetry
INVARIANTS
  ReviewIsCurrent
  ActsAsItself
  ReaderNeverWrites
