SPECIFICATION AnySpec
CONSTANTS
  AtFamilies = {"LUA10", "U8300", "PLS8", "EC25", "ELS31"}
  NetTypes = {"AUTO", "3G"}
  SameTypes = TRUE
  Csq = 0
  Roaming = TRUE
  Cards = {"READY", "PIN", "NETSUB", "NONE"}
  Counters = {"QPINC"}
  MaxRetry = 2
  LowRetry = 2
  ApnRetry = 1
  Slow = {"PLS8"}
  MaxChanges = 1
  MaxWire = 2
  MaxTty = 2
  WanBase = 4000
  WanMax = 4003
  LanEth = 1
  WanEth = 2
  OvpnCloud = 11
  OvpnServer = 12
  Dot11Svi = 3000
  StaPort = 5
  TableBase = 50
  QmapMode = 6
  MipcMax = 3
  DevPort <- MCDevPort
  Kits <- MCKits
  Sims = {1, 2}
  MaxCheck = 2
  MaxEvents = 2
  UsbFamilies = {"EC25","RM500","disk"}
  Endings <- MCEndings
  MaxDevices = 3
  TaskKits <- MCTaskKits
  MaxAsked = 3
INVARIANT ListIsCareful
INVARIANT ModemIsPrepared
INVARIANT ModemIsFound
INVARIANT PendingIsTried
PROPERTY PassEnds
PROPERTY HungModemIsRevived
CHECK_DEADLOCK FALSE
