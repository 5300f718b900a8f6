------------------------------- MODULE IfRename -------------------------------
(***************************************************************************)
(* The network devices of a modem that carries several contexts            *)
(* (ih_redial.c): the driver creates one device for each context, under a  *)
(* name of its own; the router calls the device of an uplink by the name   *)
(* of the uplink.  The alias of a device remembers the driver's name.      *)
(***************************************************************************)
EXTENDS IfNames

CONSTANTS
  QmapMode,  \* devices of a driver with dual APN (qmap_mode=6)
  MipcMax    \* MIPC_IF_MAX

ASSUME RenameConstantsOK == QmapMode \in 1 .. 9 /\ MipcMax \in 1 .. 9

NoAlias == <<>>
Dev(raw) == [raw |-> raw, alias |-> NoAlias, name |-> raw]

\* The devices a driver creates: raw is the one it made, whatever its name.
RawDevices(modem, dual) ==
  CASE modem = "RM500"  -> {Dev(<<"mhi", n>>) : n \in 1 .. IF dual THEN QmapMode ELSE 1}
    [] modem = "EP06"   -> {Dev(<<"wwan">>)} \cup
                           {Dev(<<"wwan", n>>) : n \in 1 .. IF dual THEN QmapMode ELSE 1}
    [] modem = "FG360"  -> {Dev(<<"ccmni", n>>) : n \in 0 .. MipcMax}
    [] modem = "RM500U" -> {Dev(<<"usb0">>)}
    [] OTHER            -> {}

Called(devs, name) == {d \in devs : d.name = name}
SysOf(modem, wwan) == CellName([build |-> "ER6", modem |-> modem], If("CELLULAR", 0, wwan, 0))

\* save_raw_name_to_ifalias(): the devices that still have the driver's name.
\* The base device of EP06 is none of those it looks at.
SaveRawName(devs) ==
  {IF d.name = d.raw /\ d.raw # <<"wwan">> THEN [d EXCEPT !.alias = d.raw] ELSE d : d \in devs}

\* ip link set .. name ..: refused if there is no such device, if the name is
\* empty or if it is taken.
SetName(devs, from, to) ==
  IF Called(devs, from) = {} \/ to = NoAlias \/ Called(devs, to) # {} THEN devs
  ELSE {IF d.name = from THEN [d EXCEPT !.name = to] ELSE d : d \in devs}

\* The device of a context, as the driver calls it.
RawOf(modem, dual, id) ==
  CASE modem = "RM500"  -> <<"mhi", IF dual THEN id ELSE 1>>
    [] modem = "EP06"   -> IF dual THEN <<"wwan", id>> ELSE <<"wwan">>
    [] modem = "FG360"  -> <<"ccmni", id>>
    [] OTHER            -> <<"usb0">>

\* strncmp(alias, raw, strlen(raw)): the alias need only begin with the name.
AliasIs(d, raw) == d.alias # NoAlias /\ IsPrefix(raw, d.alias)

\* rm500_rename_iface() and its like: some device that has kept the driver's
\* name must have the alias; generic_rename_iface() asks nothing.  What `ip'
\* answers is not looked at.
RenameIface(modem, devs, sys, raw) ==
  IF modem = "RM500U" \/ \E d \in devs : d.name = d.raw /\ AliasIs(d, raw)
  THEN [ok |-> TRUE, devs |-> SetName(devs, raw, sys)]
  ELSE [ok |-> FALSE, devs |-> devs]

\* check_cell_sys_name(): the uplink's name goes to the device of its context;
\* the device that had it gets its own back.
CheckCellSysName(modem, dual, pcie, devs, wwan, id) ==
  LET sys == SysOf(modem, wwan)  raw == RawOf(modem, dual, id)  had == Called(devs, sys)
      reverted == IF had = {} THEN devs
                  ELSE SetName(devs, sys, (CHOOSE d \in had : TRUE).alias)
  IN IF modem \notin {"RM500", "EP06", "FG360", "RM500U"} \/ (modem = "RM500U" /\ pcie)
        \/ \E d \in had : AliasIs(d, raw)
     THEN [ok |-> TRUE, devs |-> devs]
     ELSE RenameIface(modem, reverted, sys, raw)
===============================================================================
