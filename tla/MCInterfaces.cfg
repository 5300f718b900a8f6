SPECIFICATION InterfacesSpec
CONSTANTS
  WanBase = 4000
  WanMax = 4001
  LanEth = 1
  WanEth = 2
  OvpnCloud = 11
  OvpnServer = 12
  Dot11Svi = 3000
  StaPort = 100
  DevPort <- MCDevPort
  TableBase = 100
  Products <- MCProducts
  Ifs <- MCIfs
  Addressed = {"SVI", "GE"}
  Bits = 2
  Regions <- MCRegions
  MaxRows = 2
  Tables <- MCTables
  MaxSlot = 2
  MaxType = 2
  MaxPort = 3
  Vids = {1}
  Tids = {1}
  MaxTrunk = 1
  MaxNews = 2
  LldpPorts = {1}
  Neighbours = {"A", "B"}
  Instances = {1}
  Ids = {1, 2, 3}
  MaxPlaces = 2
  MaxPosts = 3
  Nets = {"A", "B"}
  Slots6 = 2
INVARIANT InterfacesFit
INVARIANT CopyAgrees
INVARIANT PrintedIsReadBack
INVARIANT TablesAreSound
INVARIANT LeaseIsFollowed
CHECK_DEADLOCK FALSE
