\* Two workers (the default of 64, cut to the number of targets), one attempt.
CONSTANTS
  h1 = h1
  h2 = h2
  v6 = v6
  stranger = stranger
  NoHost = NoHost
  Addr <- MCAddr
  IPv4 <- MCTwoAddrs
  Targets <- MCTwoHosts
  ReqAttempts = 1
  ReqWorkers = 0
  SockCap = 1
SPECIFICATION Spec
PROPERTIES CancelReturns Terminates ImplementsStage
