SPECIFICATION Spec
CONSTANTS
  Conn = {c1, c2, c3, c4}
  MAX_CLNT = 2
  FirstFd = 4
  LastFd = 7
  CHAR = 256
  Logins <- KnownLogins
  Sends <- NoSends
  MaxSend = 0
  NoConn = NoConn
SYMMETRY Symmetry
VIEW WithoutInbox
CHECK_DEADLOCK FALSE
INVARIANTS
  SessionCount
  NeverOverCapacity
PROPERTIES
  RetryAccepted
