\* Two workers, two users, two passwords.
CONSTANTS
  h1 = h1
  h2 = h2
  v6 = v6
  root = root
  admin = admin
  pw1 = pw1
  pw2 = pw2
  NoHost = NoHost
  Addr <- MCAddr
  IPv4 <- MCIPv4
  Targets <- MCTargets
  Users <- MCUsers
  Passwords <- MCPasswords
  Accepted <- MCAccepted
  ReqWorkers = 2
SPECIFICATION Spec
INVARIANTS LoginsOnly NoStragglers TriesBounded OneLateDial
PROPERTIES ImplementsStage
