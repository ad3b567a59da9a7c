SPECIFICATION FairSpec
CONSTANTS
  Conn = {c1, c2, c3}
  MAX_CLNT = 2
  FirstFd = 4
  LastFd = 6
  CHAR = 256
  Logins <- AllLogins
  Sends <- NoSends
  MaxSend = 0
  NoConn = NoConn
CHECK_DEADLOCK FALSE
INVARIANTS
  FdAccounting
PROPERTIES
  Drains
  EveryoneAnswered
