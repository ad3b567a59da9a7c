SPECIFICATION Spec
CONSTANTS
  Conn = {c1, c2, c3}
  MAX_CLNT = 2
  FirstFd = 4
  LastFd = 6
  CHAR = 256
  Logins <- KnownLogins
  Sends <- RoutedSends
  MaxSend = 1
  NoConn = NoConn
SYMMETRY Symmetry
CHECK_DEADLOCK FALSE
INVARIANTS
  SlotNamesItsSession
  AuthenticSender
  MisdeliveryOnlyByReuse
