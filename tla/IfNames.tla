-------------------------------- MODULE IfNames --------------------------------
(***************************************************************************)
(* The names of an interface (if_info.c, vif_shared.c): IF_INFO is what    *)
(* the services exchange; the panel name is what the web and NETCONF use,  *)
(* the CLI name what the command line uses, the system name what Linux     *)
(* uses.  A text is a record of its word, the token after it and the       *)
(* numbers; spaces, dashes and abbreviations are left out.                 *)
(***************************************************************************)
EXTENDS Integers, Sequences, FiniteSets, SequencesExt, FiniteSetsExt, Functions

CONSTANTS
  WanBase, WanMax,        \* IF_WAN_SVI_ID_BASE, IF_WAN_SVI_ID_MAX
  LanEth, WanEth,         \* IF_LAN_ETH_ID, IF_WAN_ETH_ID (ER3)
  OvpnCloud, OvpnServer,  \* OPENVPN_CLOUD_PORT, OPENVPN_SERVER_PORT
  Dot11Svi,               \* DOT11_SVI_PORT
  StaPort,                \* the number of the Wi-Fi client, 100
  DevPort,                \* the device's port of each Ethernet port of ER3
  TableBase               \* POLICY_ROUTE_TABLE_ID_BASE

ASSUME NamesConstantsOK ==
  /\ WanBase \in Nat /\ WanMax \in Nat /\ WanBase <= WanMax
  /\ LanEth = 1 /\ WanEth = 2
  /\ OvpnCloud \in Nat /\ OvpnServer \in Nat /\ 10 < OvpnCloud /\ OvpnCloud < OvpnServer
  /\ Dot11Svi \in Nat /\ Dot11Svi < WanBase /\ StaPort \in Nat /\ 2 < StaPort
  /\ DevPort \in [1 .. 2 -> Nat] /\ TableBase \in Nat

\* A product: the firmware it is built for, its modem, whether it has one of the keys TH09
\* and FH20 and shows a device usb0 just now, and the licences of an ETH2_OMAP board.
Product == [build : {"IR9", "IG9", "ER3", "ER6", "IR8"}, modem : STRING, key : BOOLEAN,
            usb0 : BOOLEAN, eth : {"any", "mtk", "single"}]

If(type, slot, port, sid) == [type |-> type, slot |-> slot, port |-> port, sid |-> sid]
None == If("NONE", 0, 0, 0)
NoName == <<>>

IsWanSvi(i) == i.type = "SVI" /\ i.port \in WanBase .. WanMax

-----------------------------------------------------------------------------
\* System names.

\* The network device of the modem: most modems have one, whatever the number.
CellName(p, i) ==
  CASE p.modem \in {"PLS8", "ELS31", "ELS81", "TOBYL201"} -> <<"usb", 0>>
    [] p.modem = "ME909" -> IF p.key \/ p.usb0 THEN <<"usb", 0>> ELSE <<"usbeth2">>
    [] p.modem = "LP41"                        -> <<"usbeth2">>
    [] p.modem \in {"RM500", "EP06"}           -> <<"rmnet_apn", i.port>>
    [] p.modem = "RM520N"                      -> <<"apn", i.port>>
    [] p.modem \in {"FM650", "RM500U"}         -> <<"pcie0">>
    [] p.modem = "FG360"                       -> <<"mipc_apn", i.port>>
    [] p.modem \in {"EC20", "EC25", "RG500", "NL668"} -> <<"wwan0">>
    [] OTHER                                   -> <<"ppp", i.port>>

\* The Ethernet ports: what the first test assigns on IG9 boards is overwritten.
EthName(p, i) ==
  CASE p.build = "ER3" -> <<IF i.port = LanEth THEN "lan" ELSE "eth", DevPort[i.port]>>
    [] p.build = "ER6" -> <<"spilan", i.port>>
    [] OTHER           -> <<"eth", i.port - 1>>

Radio(port) == IF port = 1 THEN "ra2g" ELSE "ra5g"

\* A radio, and a sub interface of one: only IR9, ER6 and IR8 name the latter, the others
\* report success and leave the name as it was.
WlanName(p, i) ==
  CASE p.build = "IR9" -> <<"vlan", Dot11Svi + i.port - 1 + i.sid>>
    [] p.build = "ER6" -> <<Radio(i.port), i.sid>>
    [] p.build = "IR8" -> IF i.type = "DOT11" THEN <<"ath", i.port - 1>> ELSE <<"ath", i.port - 1, i.sid>>
    [] OTHER           -> IF i.type = "DOT11" THEN <<"ath", i.port - 1>> ELSE NoName

\* The Wi-Fi client.
StaName(p) == IF p.build = "ER6" THEN <<"athsta">> ELSE <<"ath", StaPort>>

\* Point-to-point links share the name space of pppd.
VifGetSysName(p, i) ==
  CASE i.type \in {"FE", "GE"}                 -> EthName(p, i)
    [] i.type \in {"SUB_FE", "SUB_GE"}         -> <<"eth", i.port - 1, i.sid>>
    [] i.type \in {"CELLULAR", "SUB_CELLULAR"} -> CellName(p, i)
    [] i.type = "TUNNEL"                       -> <<"gre", i.port>>
    [] i.type = "VXLAN"                        -> <<"vxlan", i.port>>
    [] i.type = "SVI" -> IF IsWanSvi(i) THEN <<"wan", i.port - WanBase + 1>>
                         ELSE <<"vlan", i.port>>
    [] i.type = "LO"                           -> <<"lo">>
    [] i.type = "DIALER"                       -> <<"ppp", i.port + 10>>
    [] i.type = "VP"                           -> <<"ppp", i.port + 20>>
    [] i.type = "OPENVPN"                      -> <<"tun", i.port>>
    [] i.type \in {"DOT11", "SUB_DOT11"}       -> WlanName(p, i)
    [] i.type = "STA_DOT11"                    -> StaName(p)
    [] i.type = "BRIDGE"                       -> <<"br", i.port>>
    [] OTHER                                   -> NoName

-----------------------------------------------------------------------------
\* Panel names.  The table is searched in this order, and a word of it matches
\* every text it is a prefix of: "wlan-sta" stands before "wlan".

PanelTypes == <<<<"LAN", "lan">>, <<"WAN", "wan">>, <<"CELLULAR", "cellular">>,
                <<"TUNNEL", "tunnel">>, <<"SVI", "vlan">>, <<"LO", "loopback">>,
                <<"DIALER", "dialer">>, <<"VP", "l2tp">>, <<"OPENVPN", "openvpn">>,
                <<"STA_DOT11", "wlan-sta">>, <<"DOT11", "wlan">>, <<"SUB_DOT11", "wlan">>,
                <<"BRIDGE", "bridge">>, <<"VXLAN", "vxlan">>>>
IsPrefixWord(w, text) == w = text \/ <<w, text>> = <<"wlan", "wlan-sta">>

\* The entries of a table that have w in column c, and what the first of some
\* entries has in it.
Having(s, c, w) == {k \in DOMAIN s : s[k][c] = w}
FirstIn(s, S, c, default) == IF S = {} THEN default ELSE s[Min(S)][c]

Matching(word) == {k \in DOMAIN PanelTypes : IsPrefixWord(PanelTypes[k][2], word)}

\* Mutant: the last entry that matches is taken.
PanelTypeOfLast(word) ==
  IF Matching(word) = {} THEN "NONE" ELSE PanelTypes[Max(Matching(word))][1]

\* get_if_type_by_panel_name().
PanelType(word) == FirstIn(PanelTypes, Matching(word), 1, "NONE")

\* get_panel_type_name_by_type(): a port is a LAN port unless ER3 says otherwise.
PanelWord(p, i) ==
  LET type == IF i.type \notin {"FE", "GE"} THEN i.type
              ELSE IF p.build = "ER3" /\ i.type = "GE" /\ i.port = WanEth THEN "WAN" ELSE "LAN"
  IN FirstIn(PanelTypes, Having(PanelTypes, 1, type), 2, "")

Text(word, slot, port, sid) ==
  [word |-> word, slot |-> slot, name |-> "", port |-> port, sid |-> sid]
NoText == Text("", 0, 0, 0)
Named(word, name) == [Text(word, 0, 0, 0) EXCEPT !.name = name]
Alone(word) == Named(word, "none")

\* get_panel_name_from_if_info().
PanelName(p, i) ==
  LET w == PanelWord(p, i) IN
  IF w = "" THEN NoText
  ELSE CASE IsWanSvi(i)                                   -> Text("wan", 0, i.port - WanBase + 1, 0)
         [] i.type = "OPENVPN" /\ i.port = OvpnCloud      -> Named(w, "cloud")
         [] i.type = "OPENVPN" /\ i.port > OvpnCloud      -> Named(w, "server")
         [] i.type = "VP" /\ i.port > 20                  -> Named(w, "server")
         [] i.type = "STA_DOT11"                          -> Alone(w)
         [] i.type = "SUB_DOT11"                          -> Text(w, 0, i.port, i.sid)
         [] p.build = "ER3" /\ i.type = "GE" /\ i.port = WanEth -> Text(w, 0, i.port - 1, 0)
         [] OTHER                                         -> Text(w, 0, i.port, 0)

OvpnPort(t) == CASE t.name = "server" -> OvpnServer [] t.name = "cloud" -> OvpnCloud
                 [] OTHER -> t.port

\* get_if_info_from_panel_name().  Every type from DOT11 to OPENVPN with a sub
\* interface becomes SUB_DOT11.
FromPanelName(p, t) ==
  LET type == PanelType(t.word)  n == t.port IN
  CASE type = "CELLULAR" -> IF n <= 0 THEN None
                            ELSE If(IF t.sid > 0 THEN "SUB_CELLULAR" ELSE type, 0, n, t.sid)
    [] type = "STA_DOT11" -> If(type, 0, StaPort, 0)
    [] type \in {"DOT11", "TUNNEL", "VXLAN", "SVI", "LO", "DIALER", "VP", "OPENVPN"} ->
         If(IF t.sid > 0 THEN "SUB_DOT11" ELSE type, 0,
            IF type = "OPENVPN" /\ t.sid = 0 THEN OvpnPort(t) ELSE n, t.sid)
    [] type = "BRIDGE"   -> If(type, 0, n, 0)
    [] type = "LAN"      -> IF p.build = "ER3" THEN If("GE", 0, LanEth, 0)
                            ELSE If("GE", 1, n, 0)
    [] type = "WAN"      -> IF p.build # "ER3" THEN If("SVI", 0, WanBase + n - 1, 0)
                            ELSE IF n # 1 THEN None ELSE If("GE", 0, WanEth, 0)
    [] OTHER -> None

-----------------------------------------------------------------------------
\* CLI names.

CliTypes == <<<<"FE", "fastethernet">>, <<"GE", "gigabitethernet">>,
              <<"CELLULAR", "cellular">>, <<"TUNNEL", "tunnel">>, <<"VXLAN", "vxlan">>,
              <<"SVI", "vlan">>, <<"LO", "loopback">>, <<"DIALER", "dialer">>,
              <<"SUB_FE", "fastethernet">>, <<"SUB_GE", "gigabitethernet">>,
              <<"SUB_CELLULAR", "cellular">>, <<"VP", "virtual-ppp">>,
              <<"OPENVPN", "openvpn">>, <<"DOT11", "dot11radio">>,
              <<"SUB_DOT11", "dot11radio">>, <<"BRIDGE", "bridge">>, <<"CAN", "can">>,
              <<"VE", "virtual-eth">>, <<"STA_DOT11", "wlan-sta">>>>

CliType(word) == FirstIn(CliTypes, Having(CliTypes, 2, word), 1, "NONE")
CliWord(i) == FirstIn(CliTypes, Having(CliTypes, 1, i.type), 2, "")

\* get_str_from_if_info(): every OpenVPN port above 10 is the server, the VLAN
\* of the radio is the radio.
CliName(i) ==
  LET w == CliWord(i) IN
  IF w = "" THEN NoText
  ELSE CASE i.type = "SVI" /\ i.port = Dot11Svi    -> Text("dot11radio", 0, 1, 0)
         [] i.type = "OPENVPN" /\ i.port > 10      -> Named(w, "server")
         [] i.type = "STA_DOT11"                   -> Alone(w)
         [] i.type \in {"FE", "GE"}                -> Text(w, i.slot, i.port, 0)
         [] i.type \in {"SUB_FE", "SUB_GE"}        -> Text(w, i.slot, i.port, i.sid)
         [] i.type \in {"SUB_CELLULAR", "SUB_DOT11"} -> Text(w, 0, i.port, i.sid)
         [] OTHER                                  -> Text(w, 0, i.port, 0)

\* On IR9 and IG9 the second radio is a sub interface of the first.
SecondRadio(p, i) ==
  IF p.build \in {"IR9", "IG9"} /\ i.type = "DOT11" /\ i.port = 2
  THEN If("SUB_DOT11", i.slot, 1, 1) ELSE i

SubOf(type) == CASE type = "FE" -> "SUB_FE" [] type = "GE" -> "SUB_GE"
                 [] type = "CELLULAR" -> "SUB_CELLULAR" [] type = "DOT11" -> "SUB_DOT11"
                 [] OTHER -> type

\* get_if_info_from_str2(), of the command line: a sub interface of whatever is not an
\* Ethernet port or the modem is one of the radio; any name but "server" is number 0.
FromCliName(p, t) ==
  LET type   == CliType(t.word)
      whole  == type \in {"BRIDGE", "CAN"}
      server == t.name = "server" /\ type = "OPENVPN" /\ t.sid = 0
  IN IF type \in {"NONE", "STA_DOT11"} THEN None
     ELSE SecondRadio(p, If(IF t.sid = 0 \/ whole THEN type
                            ELSE IF type \in {"FE", "GE", "CELLULAR"} THEN SubOf(type)
                            ELSE "SUB_DOT11",
                            IF type \in {"FE", "GE"} THEN t.slot ELSE 0,
                            IF server THEN OvpnServer ELSE t.port,
                            IF whole THEN 0 ELSE t.sid))

\* Boards with an ETH2_OMAP know port 1 only.
Refused(p, type, slot, port) ==
  /\ port > 1
  /\ \/ p.eth = "mtk" /\ type \in {"FE", "GE"} /\ slot = 0
     \/ p.eth = "single"

\* get_if_info_from_str1(), of the services: a server of OpenVPN is number 11, a sub
\* interface of a type that has none keeps the type.
FromCmdName(p, t) ==
  LET type == CliType(t.word)
      port == IF type = "OPENVPN" /\ t.name = "server" THEN 11 ELSE t.port
  IN IF type = "NONE" \/ t.name = "none" \/ Refused(p, type, t.slot, port) THEN None
     ELSE SecondRadio(p, If(IF t.sid > 0 THEN SubOf(type) ELSE type, t.slot, port, t.sid))

-----------------------------------------------------------------------------
\* Uplinks.

\* check_if_is_wan().
CheckIfIsWan(p, i) ==
  \/ p.build = "ER3" /\ i.type = "GE" /\ i.port = WanEth
  \/ i.type \in {"CELLULAR", "STA_DOT11"}
  \/ IsWanSvi(i)

\* Names of uplinks and the numbers each may have; 0 if it has none.
TableMirror == <<<<"wan", 1, 2>>, <<"cellular", 1, 1>>, <<"wlan-sta", 0, 0>>, <<"l2tp", 1, 20>>>>

TablesOf(e) == IF e[2] > 0 THEN e[3] - e[2] + 1 ELSE 1

\* The first table after those of the first n names.
TableAfter[n \in 0 .. 4] ==
  IF n = 0 THEN TableBase ELSE TableAfter[n - 1] + TablesOf(TableMirror[n])

\* get_policy_route_table_id(): the routing table of an uplink, -1 if none.
PolicyTable(p, i) ==
  LET t == PanelName(p, i)
      S == Having(TableMirror, 1, t.word)
      k == Min(S)
      e == TableMirror[k]
  IN CASE S = {}             -> -1
       [] S # {} /\ e[2] = 0 -> TableAfter[k - 1]
       [] S # {} /\ e[2] > 0 /\ t.port \notin e[2] .. e[3] -> -1
       [] OTHER -> TableAfter[k - 1] + t.port - e[2]
=============================================================================
