\* Seven kinds of host, two or three commands in a gather; of a command that is
\* followed, two pieces of output, and two commands typed into a shell.
CONSTANTS
  Hosts <- MCHosts
  Outputs <- MCOutputs
  BadNames <- MCBadNames
  NetModels <- MCNetModels
  NetOS <- MCNetOS
  Digits <- MCDigits
  HwAddrs <- MCHwAddrs
  CounterBits = 4
  Chunks = 2
  Typed = 2
SPECIFICATION CollectionSpec
INVARIANTS IdentityKept HealthKept NeighborsRead CountersRead OutputComplete
PROPERTIES GoroutinesEnd CommandReturns
