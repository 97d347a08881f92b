\* Two workers, two attempts, two hosts and an address that is not IPv4.
CONSTANTS
  h1 = h1
  h2 = h2
  v6 = v6
  stranger = stranger
  NoHost = NoHost
  Addr <- MCAddr
  IPv4 <- MCIPv4
  Targets <- MCTargets
  ReqAttempts = 2
  ReqWorkers = 2
  SockCap = 1
SPECIFICATION Spec
INVARIANTS NoLostWakeup LiveHostsAnswered NoStragglers ProgressExact EchoBudget OneLateEcho
