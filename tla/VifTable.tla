------------------------------- MODULE VifTable -------------------------------
(***************************************************************************)
(* The table of interfaces a service keeps (vif_shared.c): a region of     *)
(* slots for each type, filled from what is published, with the look-ups   *)
(* by address and by name and the check that keeps the networks of two     *)
(* interfaces apart.  An address is a sequence of bits, a mask a length.   *)
(***************************************************************************)
EXTENDS IfNames

CONSTANTS
  Products,   \* products in play
  Ifs(_),     \* interfaces of a product
  Addressed,  \* types of interface whose addresses the command line gives
  Bits,       \* bound: length of an address
  Regions,    \* slots of each type: [type -> number] (vif_mgmts)
  MaxRows     \* bound: interfaces that exist at once

\* The order of the regions (vif_mgmts).
Mgmts == <<"CELLULAR", "SUB_CELLULAR", "GE", "LO", "TUNNEL", "SVI", "VP", "OPENVPN",
           "DOT11", "STA_DOT11", "SUB_DOT11">>

ASSUME TableConstantsOK ==
  /\ Products \subseteq Product /\ Bits \in Nat /\ MaxRows \in Nat
  /\ DOMAIN Regions \subseteq Range(Mgmts) /\ \A t \in DOMAIN Regions : Regions[t] \in Nat
  /\ \A p \in Products : \A i \in Ifs(p) :
       i \in [type : STRING, slot : Nat, port : Nat, sid : Nat] /\ i.type # "NONE"

\* The interfaces a product has: the Ethernet ports of ER3 are its LAN and its WAN port,
\* those of the others are in slot 1; uplinks on VLANs are not for ER3, the VLAN of the
\* radio is for IR9 and the second radio of IG9 is a sub interface of the first.
Proper(p, i) ==
  /\ i.slot = IF i.type = "GE" /\ p.build # "ER3" THEN 1 ELSE 0
  /\ IF i.type \in {"SUB_CELLULAR", "SUB_DOT11"} THEN i.sid > 0 ELSE i.sid = 0
  /\ i.type = "GE" /\ p.build = "ER3" => i.port \in {LanEth, WanEth}
  /\ i.type = "SVI" => (p.build = "ER3" => ~IsWanSvi(i)) /\ (p.build # "IR9" => i.port # Dot11Svi)
  /\ i.type = "CELLULAR" => i.port > 0
  /\ i.type = "OPENVPN" => i.port <= 10 \/ i.port \in {OvpnCloud, OvpnServer}
  /\ i.type \in {"DOT11", "SUB_DOT11"} => i.port \in 1 .. 2
  /\ i.type = "DOT11" /\ p.build = "IG9" => i.port # 2
  /\ i.type = "STA_DOT11" => i.port = StaPort

\* The product when its usb0 comes or goes.
Switched(p) == [p EXCEPT !.usb0 = ~@]

ASSUME InterfacesAreProper ==
  \A p \in Products : /\ \A i \in Ifs(p) : Proper(p, i)
                      /\ p.modem = "ME909" => /\ Switched(p) \in Products
                                              /\ Ifs(Switched(p)) = Ifs(p)

\* 0.0.0.0 stands for none.
Ips == {ip \in [1 .. Bits -> {0, 1}] : \E k \in 1 .. Bits : ip[k] = 1}
Lens == 0 .. Bits
NoIp == <<>>
Addr(ip, len) == [ip |-> ip, len |-> len]
NoAddr == Addr(NoIp, 0)
Bare(info, iface) == [info |-> info, iface |-> iface, main |-> NoAddr, second |-> NoAddr]
NoRow == Bare(None, NoName)

VARIABLES
  product,  \* the product
  rows,     \* gl_vif_info, by region
  config    \* addresses given by the command line, by interface

tableVars == <<product, rows, config>>

\* vif_buff_mgmts_init(): the regions are empty.
TableInit ==
  /\ product \in Products
  /\ rows = [t \in DOMAIN Regions |-> [n \in 1 .. Regions[t] |-> NoRow]]
  /\ config = [i \in Ifs(product) |-> {}]

-----------------------------------------------------------------------------
\* The table as the code walks it: by region, in the order of vif_mgmts.

Table == UNION {Range(rows[t]) : t \in DOMAIN Regions}

\* The first row that is one of S, and the interface it belongs to.
Hits(t, S) == {n \in DOMAIN rows[t] : rows[t][n] \in S}
First(S) ==
  LET regions == {k \in DOMAIN Mgmts : Mgmts[k] \in DOMAIN Regions /\ Hits(Mgmts[k], S) # {}}
      t       == Mgmts[Min(regions)]
  IN IF regions = {} THEN None ELSE rows[t][Min(Hits(t, S))].info

\* get_vif_buff_mgmt(): VXLAN shares the region of the tunnels.
Region(type) == IF type = "VXLAN" THEN "TUNNEL" ELSE type
HasRegion(type) == Region(type) \in DOMAIN Regions

\* find_vif_info_by_if_info(), then find_unused_vif_info(); 0 if there is none.
Slot(type, info) ==
  LET S == {n \in DOMAIN rows[type] : rows[type][n].info = info}
  IN IF S = {} THEN 0 ELSE Min(S)
Place(info) ==
  LET r == Region(info.type) IN
  IF Slot(r, info) > 0 THEN Slot(r, info) ELSE Slot(r, None)

\* What vif_get_iface(), vif_get_local_ip(), .. vif_get_status() answer from.
Row(info) ==
  IF HasRegion(info.type) /\ Slot(Region(info.type), info) > 0
  THEN rows[Region(info.type)][Slot(Region(info.type), info)] ELSE NoRow

-----------------------------------------------------------------------------
\* Addresses.

Masked(ip, len) == [k \in 1 .. Bits |-> IF k <= len THEN ip[k] ELSE 0]
Overlap(a, b) ==
  LET len == IF a.len < b.len THEN a.len ELSE b.len IN Masked(a.ip, len) = Masked(b.ip, len)
SameNet(ip, a) == Masked(ip, a.len) = Masked(a.ip, a.len)

\* Mutant: the mask of the new address decides.
ConflictsOwnMask(info, a) ==
  \E r \in Table :
    /\ r.info # None /\ r.info # info /\ r.main.ip # NoIp
    /\ \/ Masked(r.main.ip, a.len) = Masked(a.ip, a.len)
       \/ r.second.ip # NoIp /\ Masked(r.second.ip, a.len) = Masked(a.ip, a.len)

\* vif_if_ip_conflict(): the shorter mask decides; an interface without a main
\* address is passed over, whatever its secondary addresses are.
Conflicts(info, a) ==
  \E r \in Table :
    /\ r.info # None /\ r.info # info /\ r.main.ip # NoIp
    /\ \/ Overlap(a, r.main)
       \/ r.second.ip # NoIp /\ Overlap(a, r.second)

\* get_vif_by_localip(), get_vif_by_ip(), get_vif_by_gateway2(), get_vif_by_subnet().
ByLocalIp(ip) == First({r \in Table : r.main.ip = ip})
ByIp(ip) ==
  First({r \in Table : r.main.ip = ip \/ (r.second.ip = ip /\ r.second.len > 0)})
ByGateway2(ip) ==
  First({r \in Table : \/ r.main.ip # NoIp /\ r.main.len > 0 /\ SameNet(ip, r.main)
                       \/ r.second.ip # NoIp /\ r.second.len > 0 /\ SameNet(ip, r.second)})
BySubnet(net, len) ==
  First({r \in Table : r.main.ip # NoIp /\ len > 0 /\ r.main.len = len
                       /\ Masked(r.main.ip, len) = net})

\* get_lan_vif_by_ip(): any VLAN counts, one that is an uplink as well.
OfLan(i) == IF product.build = "ER3" THEN i.type = "GE" /\ i.port = LanEth ELSE i.type = "SVI"
LanByIp(ip) ==
  First({r \in Table : OfLan(r.info) /\ r.main.ip # NoIp /\ r.main.len > 0 /\ SameNet(ip, r.main)})

\* get_vif_by_iface().
ByIface(name) == First({r \in Table : r.iface = name})

\* get_cli_str_from_sys_ifname() and get_sys_ifname_from_cli_str().
CliOfSys(name) == IF ByIface(name) = None THEN NoText ELSE CliName(ByIface(name))
SysOfCli(text) ==
  LET i == FromCliName(product, text)
  IN IF i = None THEN NoName ELSE VifGetSysName(product, i)

\* get_uplink_vifs(): the rows of the regions that may hold an uplink.
Uplinks ==
  {i \in {r.info : r \in Table} :
     /\ i.type \in IF product.build = "ER3" THEN {"GE", "CELLULAR"}
                   ELSE {"SVI", "CELLULAR", "STA_DOT11"}
     /\ i.port > 0 /\ CheckIfIsWan(product, i)}

-----------------------------------------------------------------------------
\* What changes the table.

\* sync_vif_link_change_handle(): the row is overwritten; one without a slot is
\* logged and forgotten.
Hear(row) ==
  LET t == Region(row.info.type)  n == Place(row.info) IN
  rows' = IF HasRegion(row.info.type) /\ n > 0 THEN [rows EXCEPT ![t][n] = row] ELSE rows

\* VIF_DESTROY: the slot is released.
Forget(info) ==
  LET t == Region(info.type)  n == Slot(t, info) IN
  rows' = IF HasRegion(info.type) /\ n > 0 THEN [rows EXCEPT ![t][n] = NoRow] ELSE rows

Fresh(info) == Bare(info, VifGetSysName(product, info))
Known == {i \in Ifs(product) : Row(i) # NoRow}

\* An interface is created: the service it belongs to publishes it.
Create(info) ==
  /\ Row(info) = NoRow /\ Cardinality(Known) < MaxRows
  /\ Hear(Fresh(info))
  /\ UNCHANGED <<product, config>>

\* The command line gives it its main address, if the check lets it.
SetMain(info, a) ==
  /\ Row(info) # NoRow /\ Row(info).main = NoAddr /\ ~Conflicts(info, a)
  /\ Hear([Row(info) EXCEPT !.main = a])
  /\ config' = [config EXCEPT ![info] = @ \cup {a}]
  /\ UNCHANGED product

\* .. and a second one, beside the first.
SetSecond(info, a) ==
  /\ Row(info).main # NoAddr /\ Row(info).second = NoAddr /\ ~Conflicts(info, a)
  /\ Hear([Row(info) EXCEPT !.second = a])
  /\ config' = [config EXCEPT ![info] = @ \cup {a}]
  /\ UNCHANGED product

\* iface_clear_all_ip4_addr().
Clear(info) ==
  /\ Row(info).main # NoAddr
  /\ Hear(Bare(info, Row(info).iface))
  /\ config' = [config EXCEPT ![info] = {}]
  /\ UNCHANGED product

Destroy(info) ==
  /\ Row(info) # NoRow
  /\ Forget(info)
  /\ config' = [config EXCEPT ![info] = {}]
  /\ UNCHANGED product

\* The device usb0 of an ME909 comes or goes: what is published keeps the name it has.
UsbChanges ==
  /\ product.modem = "ME909"
  /\ product' = Switched(product)
  /\ UNCHANGED <<rows, config>>

TableNext ==
  \/ UsbChanges
  \/ \E i \in Ifs(product) :
       \/ Create(i) \/ Clear(i) \/ Destroy(i)
       \/ i.type \in Addressed /\ \E ip \in Ips, len \in Lens \ {0} :
            SetMain(i, Addr(ip, len)) \/ SetSecond(i, Addr(ip, len))

TableSpec == TableInit /\ [][TableNext]_tableVars

-----------------------------------------------------------------------------
(* Properties.                                                             *)

\* An address that was accepted for an interface leads to that interface by
\* every look-up: as an address, as a gateway in its network, as its network,
\* and as an address of the LAN (vif_shared.c l.611-741, 1662-1706).  The check
\* of l.1345-1396 is what makes it so.
AddressLeadsHome ==
  \A i \in Ifs(product) : \A a \in config[i] :
    /\ ByIp(a.ip) = i /\ ByGateway2(a.ip) = i
    /\ a = Row(i).main => /\ ByLocalIp(a.ip) = i
                          /\ BySubnet(Masked(a.ip, a.len), a.len) = i
                          /\ OfLan(i) => LanByIp(a.ip) = i

\* The system name of an interface of the table leads back to itself through
\* the text of the command line, as the command line reads it and as the
\* services do, and the interface through that of the panel: what is shown may
\* be typed (vif_shared.c l.74-231, 1444-1489, if_info.c l.186-320, 492-680).
\* Not so for
\*  - the Wi-Fi client, which no reader of the command line takes without a number;
\*  - OpenVPN's two special links: the client of the cloud is shown as the server,
\*    which the command line reads as the server and the services as the cloud;
\*  - sub interfaces of the radio that get no name on ER3 and IG9;
\*  - an ME909 whose usb0 came or went since its name was published;
\*  - what the services refuse on boards with an ETH2_OMAP;
\*  - sub interfaces of the modem, which the panel does not name, and the L2TP
\*    server, whose name it does not read.
ShownMayBeTyped ==
  \A i \in Known : LET name == Row(i).iface  t == PanelName(product, i) IN
    /\ name # NoName /\ name = VifGetSysName(product, i) /\ i.type # "STA_DOT11" =>
         /\ ~(i.type = "OPENVPN" /\ i.port = OvpnCloud) => SysOfCli(CliOfSys(name)) = name
         /\ ~(i.type = "OPENVPN" /\ i.port > 10) /\ ~Refused(product, i.type, i.slot, i.port) =>
              VifGetSysName(product, FromCmdName(product, CliName(i))) = name
    /\ t # NoText /\ ~(i.type = "VP" /\ i.port > 20) => FromPanelName(product, t) = i

\* Two uplinks never share a routing table: traffic that is routed by policy
\* leaves by the uplink the policy names (vif_shared.c l.877-926).
UplinksHaveTables ==
  \A i, j \in Uplinks : i # j /\ PolicyTable(product, i) # -1 =>
                          PolicyTable(product, i) # PolicyTable(product, j)

\* Names, addresses and tables of the interfaces fit together (vif_shared.c).
InterfacesFit == AddressLeadsHome /\ ShownMayBeTyped /\ UplinksHaveTables
===============================================================================
