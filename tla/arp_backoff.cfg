\* The constants of arpscan.go.
CONSTANTS
  BurstMin = 2
  BurstStart = 8
  BurstMax = 32
  RetryMax = 64
  BackoffMax = 50
SPECIFICATION Spec
INVARIANTS SlowsDown
