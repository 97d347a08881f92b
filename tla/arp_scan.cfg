\* Two hosts, an IPv6 target and a neighbour; two foreign MACs.
CONSTANTS
  h1 = h1
  h2 = h2
  v6 = v6
  stranger = stranger
  m1 = m1
  m2 = m2
  self = self
  SelfMAC = self
  NoMAC = NoMAC
  Addr <- MCAddr
  IPv4 <- MCIPv4
  Targets <- MCTargets
  MAC <- MCMAC
  QueueCap = 2
  Traffic = 3
SPECIFICATION Spec
INVARIANTS FirstReplyWins NoStragglers SweepComplete RepliesKept
PROPERTIES ImplementsStage
