\* Two threads on any one of the six followers, until the files rest.
SPECIFICATION FairSpec
CONSTANTS
  r1 = r1
  r2 = r2
  w1 = w1
  w2 = w2
  bearer = bearer
  cert = cert
  key = key
  Readers = {r1, r2}
  Followers = {"token", "console", "conn", "ca", "client", "listener"}
  TokenFile = bearer
  Pair = {cert, key}
  Words = {w1, w2}
  NoWord = NoWord
  NoValue = NoValue
  MaxWrites = 2
  MaxFails = 1
INVARIANTS
  TypeOK
  KeptIsContent
  AnswerWasHeld
PROPERTIES
  SettledIsKept
  TokenIsRegister
