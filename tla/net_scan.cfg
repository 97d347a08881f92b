\* This machine and a neighbour; ping, ARP and SSH; one lookup at a time.
CONSTANTS
  me = me
  h1 = h1
  random = random
  cisco = cisco
  nobody = nobody
  switch = switch
  server = server
  None = None
  Addr <- MCAddr
  Mac <- MCMac
  Local <- MCLocal
  Brand <- MCBrand
  Registered <- MCRegistered
  NetworkHints <- MCBrand
  EndHints = {}
  Name <- MCName
  Core <- MCCore
  Methods <- MCMethods
  Reports <- MCReports
  Slots = 1
  LocalIP = me
  LocalMAC = cisco
  OSNames <- MCOSNames
SPECIFICATION RunSpec
INVARIANTS FirstWins NothingLost TableComplete NameOrder
PROPERTIES FilledStays Terminates
