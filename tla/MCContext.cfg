SPECIFICATION ContextSpec
CONSTANTS
  Families = {"EC25", "RM520N", "RM500U", "PLS8", "ME909", "FG360", "LE910", "U8300", "LARAR2", "TOBYL201", "PVS8", "LP41", "ELS31", "FM650"}
  Keys = {TRUE, FALSE}
  CardOf <- MCCards
  Verizon = {"vzw"}
  Network <- MCNetwork
  Profiles <- MCProfiles
  Indices = {0, 2}
  Operator <- MCOperator
  MaxDials = 2
  LinkFamilies = {"EC25", "TOBYL201", "ELS81", "RM500U", "RM520N", "PLS8"}
  Leases = {"a", "b"}
  NoGateway = {"b"}
  Host = {"b"}
  ModemCids <- MCCids
  Retries = 3
  Alerts = {a1, a2}
  Incoming = {i1}
  Room = 1
INVARIANT DialIsOfCard
INVARIANT LinkIsOfDial
INVARIANT UnsentIsKept
PROPERTY LostContextIsNoticed
PROPERTY TextIsRead
CHECK_DEADLOCK FALSE
