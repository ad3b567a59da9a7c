SPECIFICATION Spec
CONSTANTS
  Conn = {c1, c2}
  MAX_CLNT = 2
  FirstFd = 0
  LastFd = 2
  CHAR = 2
  Logins <- KnownLogins
  Sends <- MixedSends
  MaxSend = 3
  NoConn = NoConn
SYMMETRY Symmetry
CHECK_DEADLOCK FALSE
INVARIANTS
  ReplyToAsker
  PerSenderOrder
