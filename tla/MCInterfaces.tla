----------------------------- MODULE MCInterfaces -----------------------------
(* The interfaces the router shares with its services, for TLC: the table of      *)
(* interfaces, the switch ports and the tables beside them, and the IPv6 addresses  *)
(* of a link.  A behaviour is of one of the five parts, which share no state.       *)
EXTENDS VifTable, SwitchReplica, SwitchTables, Lease6

VARIABLE turn  \* the part that moves

\* One place for tunnels: a region that is full drops a row.
MCRegions == [t \in {"CELLULAR", "SUB_CELLULAR", "GE", "LO", "SVI", "VP", "STA_DOT11", "DOT11",
                     "SUB_DOT11", "OPENVPN"} |-> 2]
             @@ [t \in {"TUNNEL"} |-> 1]

MCDevPort == <<3, 0>>

Made(build, modem, eth) ==
  [build |-> build, modem |-> modem, key |-> FALSE, usb0 |-> FALSE, eth |-> eth]
MCProducts ==
  {Made("IR9", "EC25", "any"), Made("ER3", "FM650", "any"), Made("ER6", "RM520N", "mtk"),
   Made("IR8", "ME909", "single"), [Made("IR8", "ME909", "single") EXCEPT !.usb0 = TRUE]}

MCIfs(p) ==
  {If("CELLULAR", 0, 1, 0), If("LO", 0, 1, 0), If("TUNNEL", 0, 1, 0), If("VXLAN", 0, 1, 0),
   If("OPENVPN", 0, 1, 0), If("OPENVPN", 0, OvpnCloud, 0), If("VP", 0, 1, 0), If("VP", 0, 21, 0),
   If("DOT11", 0, 1, 0), If("SUB_DOT11", 0, 1, 1), If("STA_DOT11", 0, StaPort, 0)}
  \cup (IF p.build = "ER3" THEN {If("GE", 0, LanEth, 0), If("GE", 0, WanEth, 0)}
        ELSE {If("SVI", 0, 1, 0), If("SVI", 0, WanBase, 0)}
             \cup CASE p.build = "IR9" -> {If("SVI", 0, WanBase + 1, 0), If("SVI", 0, Dot11Svi, 0)}
                    [] p.build = "IR8" -> {If("GE", 1, 2, 0), If("SUB_CELLULAR", 0, 1, 1)}
                    [] OTHER           -> {If("DOT11", 0, 2, 0)})

FE == 1
GE == 2
Entry(type, slot, port, devPort) ==
  [type |-> type, slot |-> slot, port |-> port, dev |-> 0, devPort |-> devPort,
   cpu |-> FALSE, cascade |-> FALSE]

\* One slot with two types and the port of the CPU; two slots; two switch chips
\* that are chained.
OneSlot  == <<Entry(FE, 1, 1, 3), Entry(FE, 1, 2, 2), Entry(GE, 1, 1, 5),
              [Entry(GE, 1, 2, 7) EXCEPT !.cpu = TRUE]>>
TwoSlots == <<Entry(FE, 1, 1, 1), Entry(FE, 1, 2, 2), Entry(FE, 2, 1, 3)>>
TwoChips == <<Entry(FE, 1, 1, 1), [Entry(FE, 1, 2, 4) EXCEPT !.cascade = TRUE],
              [Entry(FE, 1, 3, 1) EXCEPT !.dev = 1]>>
MCTables == {OneSlot, TwoSlots, TwoChips}

InterfacesInit ==
  /\ turn \in {"table", "ports", "mib", "places", "ipv6"}
  /\ TableInit /\ (turn # "table" => product.build = "IR9")
  /\ SwInit /\ (turn # "ports" => table = TwoSlots)
  /\ TabInit
  /\ Lease6Init /\ (turn # "ipv6" => config6.share /\ ~config6.v4)

InterfacesNext ==
  \/ turn = "table"  /\ TableNext  /\ UNCHANGED <<swVars, tabVars, lease6Vars, turn>>
  \/ turn = "ports"  /\ SwNext     /\ UNCHANGED <<tableVars, tabVars, lease6Vars, turn>>
  \/ turn = "mib"    /\ MibNext    /\ UNCHANGED <<tableVars, swVars, lease6Vars, turn>>
  \/ turn = "places" /\ PlaceNext  /\ UNCHANGED <<tableVars, swVars, lease6Vars, turn>>
  \/ turn = "ipv6"   /\ Lease6Next /\ UNCHANGED <<tableVars, swVars, tabVars, turn>>

InterfacesSpec ==
  InterfacesInit /\ [][InterfacesNext]_<<tableVars, swVars, tabVars, lease6Vars, turn>>
===============================================================================
