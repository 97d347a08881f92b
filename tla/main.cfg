\* Two interfaces, two addresses, two lines of .env, a 32-bit build scaled down;
\* three stages of four targets, in halves: two counts have the same part.
CONSTANTS
  unset = unset
  odd = odd
  noNet = noNet
  Key <- MCKey
  Value <- MCValue
  Refused = {"refused"}
  Unset = unset
  MaxLines = 2
  AddrBits = 3
  IntBits = 3
  Private = {4, 5}
  LinkLocal = {7}
  Odd = odd
  IPv4Nets <- MCNets
  MaxIfaces = 2
  MaxAddrs = 2
  NoNet = noNet
  Lists = {"22x"}
  Ports = {"22x"}
  Default = "default"
  Envs <- MCEnvs
  Limits = {0, 2}
  w1 = w1
  w2 = w2
  Workers = {w1, w2}
  Sender = w1
  Stages <- MCStages
  Length <- MCLength
  None = None
  Total = 4
  Hundred = 2
SPECIFICATION MainSpec
INVARIANTS EnvMerged TargetsExact LoginsConfigured FullLineOnce
PROPERTIES StepsShown
