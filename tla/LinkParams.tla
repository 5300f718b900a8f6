------------------------------ MODULE LinkParams ------------------------------
(***************************************************************************)
(* The address of the link (ih_redial.c, mbim.c): where VIF_INFO gets its  *)
(* address, gateway, mask and DNS server from, and how the dialer watches  *)
(* a connection by asking the modem every 20 seconds.  The modem's network *)
(* may drop a context or give it another lease at any time, also between   *)
(* two of the questions by which a TOBY-L201 is asked for its parameters.  *)
(* The value of a field is the lease it came from.                         *)
(***************************************************************************)
EXTENDS Integers, Sequences, SequencesExt

CONSTANTS
  LinkFamilies,  \* modem families that are considered
  Leases,        \* what the network may assign
  NoGateway,     \* leases that name no gateway
  Host,          \* leases of a single address: netmask 255.255.255.255
  ModemCids,     \* contexts the modem lists, in this order
  Retries        \* MAX_OPEN_USB_RETRY (3)

ASSUME LinkParamsConstantsOK ==
  /\ NoGateway \subseteq Leases /\ Host \subseteq Leases /\ Retries \in Nat \ {0}
  /\ ModemCids \in Seq(Nat) \ {<<>>}

Off  == "off"   \* a context that is not active
Zero == "0"     \* a field that has been cleared

VARIABLES
  linkFamily,  \* gl_modem_code
  linkPhase,   \* "startup", "dial", "connecting", "connected"
  alive,       \* gl_ppp_pid > 0; a bridge has no process and sets 65535
  named,       \* the profile has an APN
  linkKeyed,   \* NRQ1 is in the licence
  bearer,      \* the leases of its contexts, and whether it is attached
  pinfo,       \* VIF_INFO: address, gateway, mask, DNS server, status
  dev,         \* the address of the interface, Zero when flushed
  told,        \* address in the last VIF_LINK_CHANGE, Zero when it said down
  silent,      \* gl_open_usbserial_retry_cnt
  given,       \* leases the link has had since MODEM_STARTUP (ghost)
  checked      \* the last poll passed and the modem has not changed since (ghost)

linkVars == <<linkFamily, linkPhase, alive, named, linkKeyed, bearer, pinfo, dev, told, silent, given,
              checked>>

QmiLinks    == {"EC25"}
BridgeLinks == {"ELS81", "TOBYL201"}
DhcpLinks   == {"PLS8", "ME909", "ELS31", "RM500U", "RM520N", "FM650", "LP41"}

First     == ModemCids[1]
Actives   == {c \in ToSet(ModemCids) : bearer.lease[c] # Off}
Cleared   == [ip |-> Zero, gw |-> Zero, mask |-> Zero, dns |-> Zero, up |-> FALSE]
Fields(p) == {p.ip, p.gw} \ {Zero}
MaskOf(l) == IF l \in Host THEN "host" ELSE "net"

LinkParamsTypeOK ==
  /\ linkFamily \in LinkFamilies /\ linkPhase \in {"startup", "dial", "connecting", "connected"}
  /\ alive \in BOOLEAN /\ named \in BOOLEAN /\ linkKeyed \in BOOLEAN /\ checked \in BOOLEAN
  /\ bearer \in [lease : [ToSet(ModemCids) -> Leases \cup {Off}], attached : BOOLEAN]
  /\ pinfo \in [ip : Leases \cup {Zero}, gw : Leases \cup {Zero},
                mask : {"host", "net", Zero}, dns : Leases \cup {Zero}, up : BOOLEAN]
  /\ dev \in Leases \cup {Zero} /\ told \in Leases \cup {Zero} /\ silent \in 0 .. Retries
  /\ given \subseteq Leases

ParamsInit ==
  /\ linkFamily \in LinkFamilies
  /\ named \in (IF linkFamily = "TOBYL201" THEN BOOLEAN ELSE {TRUE})
  /\ linkKeyed \in (IF linkFamily = "RM520N" THEN BOOLEAN ELSE {FALSE})
  /\ linkPhase = "startup" /\ alive = FALSE
  /\ bearer = [lease |-> [c \in ToSet(ModemCids) |-> Off], attached |-> TRUE]
  /\ pinfo = Cleared /\ dev = Zero /\ told = Zero /\ silent = 0
  /\ given = {} /\ checked = FALSE

-----------------------------------------------------------------------------
\* ublox_bridge_mode_get_net_paras(): the active contexts are asked one after
\* the other, until one of them has told everything.  Its answers are one of
Answers == {"all", "noGateway", "gatewayError", "noAddress", "addressError",
            "noDns", "dnsError"}

\* What it has found so far: pinfo, the interface, is anything changed, is there
\* an address, and "on", "stop" or "error" for the loop.
Found(p, d) == [pinfo |-> p, dev |-> d, changed |-> FALSE, got |-> FALSE, loop |-> "on"]

\* Gateway and mask are stored as they are read, before the address is known.
StoreGateway(f, l) ==
  LET mask == MaskOf(l)
  IN  [f EXCEPT !.pinfo.gw = l, !.pinfo.mask = mask,
                !.changed = @ \/ f.pinfo.gw # l \/ f.pinfo.mask # mask]

\* The interface is configured point to point when the mask has just become that
\* of a host; else validate_ip_mask() refuses such a mask and it is left flushed.
StoreAddress(f, before, l) ==
  LET new  == f.pinfo.ip # l
      peer == before.mask # "host" /\ f.pinfo.mask = "host"
      fits == peer \/ f.pinfo.mask # "host"
  IN  IF ~new THEN [f EXCEPT !.got = TRUE]
      ELSE IF fits THEN [f EXCEPT !.got = TRUE, !.pinfo.ip = l, !.dev = l, !.changed = TRUE]
      ELSE [f EXCEPT !.got = TRUE, !.pinfo.ip = l, !.dev = Zero, !.loop = "next"]

StoreDns(f, l) ==
  [f EXCEPT !.pinfo.dns = l, !.changed = @ \/ f.pinfo.dns # l, !.loop = "stop"]

\* One context: `l' is its lease when the gateway is asked, `later' afterwards.
AskContext(f, answer, l, later) ==
  LET gated  == StoreGateway(f, l)
      placed == StoreAddress(gated, f.pinfo, later)
  IN  CASE answer = "noGateway"    -> f
        [] answer = "gatewayError" -> [f EXCEPT !.loop = "error"]
        [] answer = "addressError" -> gated
        [] answer = "noAddress"    -> [gated EXCEPT !.loop = "stop"]
        [] OTHER ->
             IF placed.loop = "next" THEN [placed EXCEPT !.loop = "on"]
             ELSE CASE answer = "dnsError" -> [placed EXCEPT !.loop = "error"]
                    [] answer = "noDns"    -> [placed EXCEPT !.loop = "stop"]
                    [] answer = "all"       -> StoreDns(placed, later)

\* With an APN in the profile only the contexts 1 and 4 are asked.
Asked(c) == c \in Actives /\ (named => c \in {1, 4})

\* `leases' is what the modem has assigned when the call is over.
AskOne(f, c, answers, leases) ==
  IF f.loop # "on" \/ ~Asked(c) \/ leases[c] = Off THEN f
  ELSE AskContext(f, answers[c], bearer.lease[c], leases[c])

BridgeParams(p, d, answers, leases) ==
  LET found[n \in 0 .. Len(ModemCids)] ==
        IF n = 0 THEN Found(p, d)
        ELSE AskOne(found[n - 1], ModemCids[n], answers, leases)
  IN  found[Len(ModemCids)]

\* 1: changed; 0: as before; -1: no parameters.
Verdict(f) ==
  IF f.loop = "error" THEN -1 ELSE IF f.changed THEN 1 ELSE IF f.got THEN 0 ELSE -1

\* modem_get_net_params_by_at(): a single answer names everything, and the
\* interface is flushed when it does not.
AtParams(p, d, answered) ==
  IF ~answered \/ Actives = {} THEN [Found(p, Zero) EXCEPT !.loop = "error"]
  ELSE LET l == bearer.lease[ModemCids[Min({i \in DOMAIN ModemCids : ModemCids[i] \in Actives})]]
       IN  [Found(p, d) EXCEPT
              !.pinfo = [p EXCEPT !.ip = l, !.gw = l, !.mask = MaskOf(l), !.dns = l],
              !.dev = IF p.ip = l THEN d ELSE l, !.got = TRUE]

\* A modem changes a lease at any time, also during a call that asks it.
Changes(leases) ==
  {leases} \cup {[leases EXCEPT ![c] = l] : c \in ToSet(ModemCids), l \in Leases \cup {Off}}

-----------------------------------------------------------------------------
\* The dial.

\* clear_cellular_net_info()
ClearNet(p) == [Cleared EXCEPT !.up = p.up]

\* MODEM_STARTUP, up to the start of the dial.
StartupLink ==
  /\ linkPhase = "startup" /\ linkPhase' = "dial" /\ pinfo' = ClearNet(pinfo) /\ given' = {}
  /\ UNCHANGED <<linkFamily, alive, named, linkKeyed, bearer, dev, told, silent, checked>>

\* A call by which a TOBY-L201 is asked: bound, a call in which a lease changes is
\* answered in full.  (listed: AT+CGACT? is answered.)
Call(listed, answers, leases) == [listed |-> listed, answers |-> answers, leases |-> leases]
Calls ==
  LET full == [c \in ToSet(ModemCids) |-> "all"]
  IN  {Call(FALSE, full, bearer.lease)}
      \cup {Call(TRUE, answers, bearer.lease) : answers \in [ToSet(ModemCids) -> Answers]}
      \cup {Call(TRUE, full, leases) : leases \in Changes(bearer.lease)}

Params(p, d, call) ==
  IF call.listed THEN BridgeParams(p, d, call.answers, call.leases)
  ELSE [Found(p, d) EXCEPT !.loop = "error"]

\* DHCP: the sub-daemon is started; an RM520N is asked for its DNS server first.
StartClient ==
  /\ linkPhase = "dial" /\ linkFamily \notin BridgeLinks
  /\ linkPhase' = "connecting" /\ alive' = TRUE
  /\ IF linkFamily # "RM520N" THEN UNCHANGED pinfo
     ELSE \E dns \in {Zero, bearer.lease[First]} \ {Off} : pinfo' = [pinfo EXCEPT !.dns = dns]
  /\ UNCHANGED <<linkFamily, named, linkKeyed, bearer, dev, told, silent, checked, given>>

\* GET_STATIC_PARAMS: get_network_parameters().
StartBridge ==
  /\ linkPhase = "dial" /\ linkFamily \in BridgeLinks
  /\ \E call \in Calls :
       LET f == IF linkFamily = "ELS81" THEN AtParams(ClearNet(pinfo), dev, call.listed)
                ELSE Params(ClearNet(pinfo), dev, call)
           ok == Verdict(f) >= 0
       IN  /\ linkFamily = "ELS81" => call.leases = bearer.lease
           /\ bearer' = [bearer EXCEPT !.lease = call.leases] /\ dev' = f.dev /\ alive' = ok
           /\ pinfo' = [f.pinfo EXCEPT !.up = @ \/ ok]
           /\ given' = Fields(f.pinfo)
           /\ linkPhase' = IF ok THEN "connecting" ELSE "startup"
  /\ UNCHANGED <<linkFamily, named, linkKeyed, told, silent, checked>>

-----------------------------------------------------------------------------
\* wwan0_dhcpc_event_handle(), mipc_wwan_event_handle().

\* What a lease sets: the gateway only if it names one; an RM520N keeps the DNS
\* server it has.
BoundInfo(l) ==
  [ip |-> l, gw |-> IF l \in NoGateway THEN pinfo.gw ELSE l, mask |-> MaskOf(l),
   dns |-> IF linkFamily = "RM520N" /\ pinfo.dns # Zero THEN pinfo.dns ELSE l, up |-> TRUE]

\* The client reports a lease after it has reported that it has none.
Bound ==
  /\ alive /\ linkFamily \notin BridgeLinks /\ ~pinfo.up /\ bearer.lease[First] # Off
  /\ pinfo' = BoundInfo(bearer.lease[First]) /\ dev' = bearer.lease[First]
  /\ given' = given \cup {bearer.lease[First]}
  /\ told' = IF linkPhase = "connected" /\ linkFamily \in QmiLinks THEN bearer.lease[First] ELSE told
  /\ checked' = FALSE
  /\ UNCHANGED <<linkFamily, linkPhase, alive, named, linkKeyed, bearer, silent>>

\* The lease is lost: a QMI link says so, the client of a DHCP link is stopped.
Deconfig ==
  /\ alive /\ linkFamily \notin BridgeLinks
  /\ pinfo' = [pinfo EXCEPT !.up = FALSE] /\ dev' = Zero
  /\ told' = IF linkPhase = "connected" /\ linkFamily \in QmiLinks THEN Zero ELSE told
  /\ alive' = ~(linkPhase = "connected" /\ linkFamily \in DhcpLinks)
  /\ UNCHANGED <<linkFamily, linkPhase, named, linkKeyed, bearer, silent, checked, given>>

ChildDies ==
  /\ alive /\ linkFamily \notin BridgeLinks /\ alive' = FALSE
  /\ UNCHANGED <<linkFamily, linkPhase, named, linkKeyed, bearer, pinfo, dev, told, silent, checked, given>>

\* CONNECTING
ConnectLink ==
  /\ linkPhase = "connecting" /\ alive /\ pinfo.up
  /\ linkPhase' = "connected" /\ told' = pinfo.ip
  /\ UNCHANGED <<linkFamily, alive, named, linkKeyed, bearer, pinfo, dev, silent, checked, given>>

\* CONNECTING and CONNECTED without their process.
BreakOff ==
  /\ linkPhase \in {"connecting", "connected"} /\ ~alive
  /\ linkPhase' = "startup" /\ pinfo' = [pinfo EXCEPT !.up = FALSE]
  /\ told' = IF linkPhase = "connected" THEN Zero ELSE told
  /\ silent' = IF linkPhase = "connected" /\ linkFamily \notin BridgeLinks THEN 0 ELSE silent
  /\ checked' = FALSE
  /\ UNCHANGED <<linkFamily, alive, named, linkKeyed, bearer, dev, given>>

\* A QMI link that stays down is given up (gl_wait_reconnect_cnt).
QmiGivesUp ==
  /\ linkPhase = "connected" /\ alive /\ linkFamily \in QmiLinks /\ ~pinfo.up /\ alive' = FALSE
  /\ UNCHANGED <<linkFamily, linkPhase, named, linkKeyed, bearer, pinfo, dev, told, silent, checked, given>>

-----------------------------------------------------------------------------
\* my_wwan_connect_timer(): the questions of each family.  A question is
\* answered or not; the answer says what the modem knows.

HasContext == bearer.lease[First] # Off
HasAddress == pinfo.ip = bearer.lease[First]

\* Mutant: an RM500U is asked for its context only.
FirstHoldsAnyAddress ==
  CASE linkFamily = "TOBYL201" -> bearer.attached
    [] linkFamily = "LP41"     -> FALSE
    [] OTHER               -> HasContext

\* check_modem_qnetdevstatus() compares the address, check_modem_cgpaddr() does
\* so for the context that is bound to an RM520N's link, which no other has.
FirstHolds ==
  CASE linkFamily = "TOBYL201" -> bearer.attached
    [] linkFamily = "RM500U"   -> HasAddress
    [] linkFamily = "LP41"     -> FALSE
    [] OTHER               -> HasContext
SecondHolds ==
  CASE linkFamily = "TOBYL201" -> TRUE
    [] linkFamily = "RM520N"   -> linkKeyed => HasContext /\ (pinfo.up => HasAddress)
    [] OTHER               -> bearer.attached

\* Unanswered first questions in a row.
Missed == silent + 1

\* Mutant: the result of the second question overwrites that of the first.
OutcomeOfSecond(first, second) ==
  CASE ~first -> IF Missed >= Retries THEN "end" ELSE "silent"
    [] OTHER  -> IF second /\ ~SecondHolds THEN "end" ELSE "ok"

\* "ok", "silent" or "end"; the second question may stay unanswered.
Outcome(first, second) ==
  CASE ~first                          -> IF Missed >= Retries THEN "end" ELSE "silent"
    [] first /\ ~FirstHolds            -> "end"
    [] first /\ FirstHolds /\ ~second  -> "ok"
    [] OTHER                           -> IF SecondHolds THEN "ok" ELSE "end"

\* A link that is ended leaves its process to BreakOff.
Concluded(outcome, sure) ==
  /\ alive' = (alive /\ outcome # "end")
  /\ silent' = IF outcome = "silent" THEN Missed ELSE 0
  /\ checked' = (outcome = "ok" /\ sure)

PollPlain(first, second) ==
  /\ linkPhase = "connected" /\ linkFamily \in (DhcpLinks \cup BridgeLinks) \ {"TOBYL201"}
  /\ Concluded(Outcome(first, second), second)
  /\ UNCHANGED <<linkFamily, linkPhase, named, linkKeyed, bearer, pinfo, dev, told, given>>

\* The parameters of a TOBY-L201 are read again; new ones are told to the others
\* and the link is dialed anew.
PollBridge(call, first) ==
  LET f == Params(pinfo, dev, call)
      outcome == IF Verdict(f) # 0 THEN "end" ELSE Outcome(first, TRUE)
  IN  /\ linkPhase = "connected" /\ linkFamily = "TOBYL201"
      /\ given' = given \cup Fields(f.pinfo)
      /\ pinfo' = f.pinfo /\ dev' = f.dev /\ bearer' = [bearer EXCEPT !.lease = call.leases]
      /\ told' = IF Verdict(f) > 0 THEN f.pinfo.ip ELSE told
      /\ Concluded(outcome, call.leases = bearer.lease)
      /\ UNCHANGED <<linkFamily, linkPhase, named, linkKeyed>>

PollPlainAny  == \E first, second \in BOOLEAN : PollPlain(first, second)
PollBridgeAny == \E call \in Calls, first \in BOOLEAN : PollBridge(call, first)

\* The network.
Reassign ==
  /\ \/ bearer' \in {[bearer EXCEPT !.lease = l] : l \in Changes(bearer.lease) \ {bearer.lease}}
     \/ bearer' = [bearer EXCEPT !.attached = ~@]
  /\ checked' = FALSE
  /\ UNCHANGED <<linkFamily, linkPhase, alive, named, linkKeyed, pinfo, dev, told, silent, given>>

ParamsNext ==
  \/ StartupLink \/ StartClient \/ StartBridge \/ Bound \/ Deconfig \/ ChildDies
  \/ ConnectLink \/ BreakOff \/ QmiGivesUp \/ PollPlainAny \/ PollBridgeAny \/ Reassign

ParamsSpec == ParamsInit /\ [][ParamsNext]_linkVars

\* The timer of a connection is always armed again; the handler runs each second.
ParamsFairness == WF_linkVars(PollPlainAny) /\ WF_linkVars(BreakOff)
ParamsLiveSpec == ParamsSpec /\ ParamsFairness

-----------------------------------------------------------------------------
(* Properties.                                                             *)

\* The gateway of a link comes from a lease of the dial it belongs to: a lease
\* that names none never leaves that of an earlier dial behind, which only the
\* clearing of VIF_INFO in MODEM_STARTUP assures (ih_redial.c l.3639, 5745-5767).
GatewayIsOfDial == linkPhase = "connected" /\ pinfo.up => pinfo.gw \in given \cup {Zero}

\* A poll that compares addresses and has let the link pass leaves VIF_INFO as
\* the modem has it, gateway and mask of a TOBY-L201 included, even when the
\* lease changed between its questions (l.5437-5471, 8549-8640).
PassedLinkIsTheModems ==
  checked /\ alive /\ pinfo.up =>
    /\ linkFamily = "RM500U" \/ (linkFamily = "RM520N" /\ linkKeyed) => HasAddress
    /\ linkFamily = "TOBYL201" =>
         \E c \in Actives : LET l == bearer.lease[c]
                          IN  pinfo.ip = l /\ pinfo.gw = l /\ pinfo.mask = MaskOf(l)

\* The others were told of the address the link has, and its interface has it,
\* also after a QMI link has got another lease (l.3598-3601, 3722-3726).
ToldIsUsed ==
  linkPhase = "connected" /\ alive /\ pinfo.up /\ linkFamily \in DhcpLinks \cup QmiLinks =>
    told = pinfo.ip /\ dev = pinfo.ip

\* A connection whose context the network has dropped ends, however the modem
\* answers or is silent, unless the context comes back (l.5473-5527).
LostContextIsNoticed ==
  (linkPhase = "connected" /\ linkFamily \in DhcpLinks \cup {"ELS81"} /\ Actives = {})
    ~> (linkPhase # "connected" \/ Actives # {})

\* The link that is announced is the one this dial has obtained: its gateway, the
\* address the modem has at the last poll, and what the services were told.
LinkIsOfDial == LinkParamsTypeOK /\ GatewayIsOfDial /\ PassedLinkIsTheModems /\ ToldIsUsed
=============================================================================
