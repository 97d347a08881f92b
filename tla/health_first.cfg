\* The same hosts, one of which tells its memory in two formats.
CONSTANTS
  Hosts <- MCHosts
  Outputs <- MCOutputs
  BadNames <- MCBadNames
  NetModels <- MCNetModels
  NetOS <- MCNetOS
  Digits <- MCDigits
  HwAddrs <- MCHwAddrs
  CounterBits = 4
  Chunks = 2
  Typed = 2
SPECIFICATION CollectionSpec
INVARIANTS HealthFirst
