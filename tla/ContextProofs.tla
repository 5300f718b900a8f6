------------------------------ MODULE ContextProofs ------------------------------
(***************************************************************************)
(* Proofs about the parts of MCContext: no alert is forgotten and none is  *)
(* sent again once OK has come for it (Sms), the link that is announced is *)
(* the one this dial has obtained (LinkParams), and a dial that starts     *)
(* asks the modem for the context of the card's profile (DialPath), for    *)
(* any alerts, store, modem, profiles and network.                         *)
(***************************************************************************)
EXTENDS Sms, LinkParams, DialPath, LoopTheorems, SequenceTheorems

-----------------------------------------------------------------------------
(* Short messages.                                                         *)

\* The configuration, the modem's mode, the timer, the inbox.
DialerTypes ==
  /\ where \in {"off", "sms_only", "dial", "connecting", "connected"}
  /\ config \in [enable : BOOLEAN, mode : Modes, interval : BOOLEAN, online : BOOLEAN]
  /\ mode \in Modes /\ smsd \in BOOLEAN /\ timer \in BOOLEAN /\ python \in BOOLEAN
  /\ box \subseteq Incoming /\ read \subseteq Incoming

\* The store is a set of alerts that have been asked for, without an OK yet.
StoreTypes ==
  /\ asked \subseteq Alerts /\ store \subseteq asked
  /\ acked \subseteq asked /\ full \subseteq asked
  /\ IsFiniteSet(store) /\ Cardinality(store) <= Room

Kept == store \cap acked = {} /\ asked \ (acked \cup full) \subseteq store /\ again = {}

SmsInv == DialerTypes /\ StoreTypes /\ Kept

LEMMA SmsInvInit == SmsInit => SmsInv
<1> SUFFICES ASSUME SmsInit PROVE SmsInv
  OBVIOUS
<1>1. /\ where = "off" /\ mode = "pdu" /\ timer = FALSE /\ smsd = config.enable
      /\ config \in [enable : BOOLEAN, mode : Modes, interval : {TRUE}, online : BOOLEAN]
      /\ store = {} /\ asked = {} /\ acked = {} /\ again = {} /\ full = {} /\ box = {}
      /\ read = {} /\ python = FALSE
  BY DEF SmsInit
<1>2. /\ config \in [enable : BOOLEAN, mode : Modes, interval : BOOLEAN, online : BOOLEAN]
      /\ smsd \in BOOLEAN
  BY <1>1
<1>3. DialerTypes
  <2>1. where \in {"off", "sms_only", "dial", "connecting", "connected"} /\ mode \in Modes
    BY <1>1 DEF Modes
  <2>2. timer \in BOOLEAN /\ box \subseteq Incoming /\ read \subseteq Incoming
    BY <1>1, Zenon
  <2>3. python \in BOOLEAN
    BY <1>1
  <2> QED BY <1>2, <2>1, <2>2, <2>3 DEF DialerTypes
<1>4. StoreTypes
  BY <1>1, FS_EmptySet, SmsConstantsOK DEF StoreTypes
<1> QED BY <1>1, <1>3, <1>4 DEF SmsInv, Kept

-----------------------------------------------------------------------------
(* What happens to the store.                                              *)

\* Resending removes what is taken and nothing else.
LEMMA ResentShrinks ==
  ASSUME StoreTypes, Kept, NEW took \in SUBSET Alerts
  PROVE  /\ Resent(took) \subseteq store
         /\ Resent(took) \cap (acked \cup AckedBy(took)) = {}
         /\ store \ Resent(took) \subseteq AckedBy(took) /\ AckedBy(took) \subseteq store
         /\ Resending \subseteq store
         /\ IsFiniteSet(Resent(took)) /\ Cardinality(Resent(took)) \in Nat
         /\ Cardinality(Resent(took)) <= Room
<1>1. /\ Resent(took) \subseteq store
      /\ Resent(took) \cap (acked \cup AckedBy(took)) = {}
      /\ store \ Resent(took) \subseteq AckedBy(took) /\ AckedBy(took) \subseteq store
      /\ Resending \subseteq store
  BY DEF Resent, AckedBy, Resending, Kept
<1>2. IsFiniteSet(Resent(took)) /\ Cardinality(Resent(took)) <= Cardinality(store)
  BY <1>1, FS_Subset DEF StoreTypes
<1>3. Cardinality(store) \in Nat /\ Cardinality(Resent(took)) \in Nat
  BY <1>2, FS_CardinalityType DEF StoreTypes
<1> QED BY <1>1, <1>2, <1>3, SmsConstantsOK DEF StoreTypes

LEMMA AlertKeeps ==
  ASSUME SmsInv, NEW a \in Alerts, NEW took \in SUBSET Alerts, Alert(a, took)
  PROVE  SmsInv'
<1> DEFINE kept  == Resent(took)
           saved == Cardinality(kept) < Room
           taken == where = "connected" /\ a \in took
<1>1. DialerTypes /\ StoreTypes /\ Kept
  BY DEF SmsInv
<1>2. /\ a \notin asked /\ asked' = asked \cup {a}
      /\ store' = IF saved /\ ~taken THEN kept \cup {a} ELSE kept
      /\ acked' = acked \cup AckedBy(took) \cup (IF taken THEN {a} ELSE {})
      /\ again' = again \cup ((Resending \cup (IF where = "connected" THEN {a} ELSE {})) \cap acked)
      /\ full'  = IF saved THEN full ELSE full \cup {a}
      /\ mode'  = IF where = "connected" THEN "text" ELSE mode
      /\ UNCHANGED <<where, config, smsd, timer, box, read, python>>
  BY DEF Alert, Sending, boxVars
<1>3. /\ kept \subseteq store /\ kept \cap (acked \cup AckedBy(took)) = {}
      /\ store \ kept \subseteq AckedBy(took) /\ AckedBy(took) \subseteq store
      /\ IsFiniteSet(kept) /\ Cardinality(kept) \in Nat /\ Cardinality(kept) <= Room
      /\ Resending \subseteq store
  BY <1>1, ResentShrinks
<1> HIDE DEF kept
<1>4. DialerTypes'
  BY <1>1, <1>2 DEF DialerTypes, Modes
<1>5. a \notin store /\ a \notin kept /\ a \notin acked
  BY <1>1, <1>2, <1>3 DEF StoreTypes
<1>6. IsFiniteSet(store') /\ Cardinality(store') <= Room
  <2>1. IsFiniteSet(kept \cup {a}) /\ Cardinality(kept \cup {a}) = Cardinality(kept) + 1
    BY <1>3, <1>5, FS_AddElement
  <2>2. CASE saved /\ ~taken
    BY <1>2, <1>3, <2>1, <2>2, SmsConstantsOK
  <2>3. CASE ~(saved /\ ~taken)
    BY <1>2, <1>3, <2>3
  <2> QED BY <2>2, <2>3
<1>7. StoreTypes'
  BY <1>1, <1>2, <1>3, <1>6 DEF StoreTypes
<1>8. again' = {}
  BY <1>1, <1>2, <1>3, <1>5 DEF Kept
<1>9. Kept'
  <2>1. store' \cap acked' = {}
    BY <1>2, <1>3, <1>5 DEF StoreTypes
  <2>2. asked' \ (acked' \cup full') \subseteq store'
    BY <1>1, <1>2, <1>3 DEF Kept
  <2> QED BY <1>8, <2>1, <2>2 DEF Kept
<1> QED BY <1>4, <1>7, <1>9 DEF SmsInv

LEMMA TimerKeeps ==
  ASSUME SmsInv, NEW answered \in BOOLEAN, NEW took \in SUBSET Alerts,
         SmsTimer(answered, took)
  PROVE  SmsInv'
<1>1. DialerTypes /\ StoreTypes /\ Kept
  BY DEF SmsInv
<1>2. /\ timer' = config.interval
      /\ store' = Resent(took) /\ acked' = acked \cup AckedBy(took)
      /\ again' = again \cup (Resending \cap acked) /\ mode' = ModeAfterResend
      /\ UNCHANGED <<where, config, smsd, asked, full, python>>
  BY DEF SmsTimer, Sending
<1>3. box' \subseteq Incoming /\ read' \subseteq Incoming
  BY <1>1 DEF SmsTimer, boxVars, DialerTypes
<1>4. mode' \in Modes /\ timer' \in BOOLEAN
  BY <1>1, <1>2 DEF ModeAfterResend, Modes, DialerTypes
<1>5. DialerTypes'
  BY <1>1, <1>2, <1>3, <1>4 DEF DialerTypes
<1>6. /\ Resent(took) \subseteq store /\ Resent(took) \cap (acked \cup AckedBy(took)) = {}
      /\ store \ Resent(took) \subseteq AckedBy(took) /\ AckedBy(took) \subseteq store
      /\ IsFiniteSet(Resent(took)) /\ Cardinality(Resent(took)) <= Room
      /\ Resending \subseteq store
  BY <1>1, ResentShrinks
<1>7. StoreTypes' /\ Kept'
  BY <1>1, <1>2, <1>6 DEF StoreTypes, Kept
<1> QED BY <1>5, <1>7 DEF SmsInv

-----------------------------------------------------------------------------
(* What leaves the store alone.                                            *)

LEMMA StoreKept ==
  ASSUME SmsInv, UNCHANGED alertVars, DialerTypes'
  PROVE  SmsInv'
BY DEF SmsInv, alertVars, StoreTypes, Kept

LEMMA InboxKeeps ==
  ASSUME SmsInv, PySms \/ PyTurns \/ Arrive
  PROVE  SmsInv'
<1>1. CASE PySms \/ PyTurns
  <2>1. DialerTypes'
    BY <1>1 DEF SmsInv, DialerTypes, PySms, PyTurns, Modes, boxVars
  <2> QED BY <1>1, <2>1, StoreKept DEF PySms, PyTurns
<1>2. CASE Arrive
  <2>1. DialerTypes'
    BY <1>2 DEF SmsInv, DialerTypes, Arrive
  <2> QED BY <1>2, <2>1, StoreKept DEF Arrive
<1> QED BY <1>1, <1>2

\* The dialer's steps.
LEMMA DialerKeeps ==
  ASSUME SmsInv,
         \/ SmsOnly \/ SmsOnlyEnds \/ ListDone \/ Dial \/ SwitchSim \/ DialFails \/ Connected
         \/ LinkLost \/ Suspend \/ Reset
  PROVE  SmsInv'
<1>1. Stay
  BY DEF SmsOnly, SmsOnlyEnds, ListDone, Dial, SwitchSim, DialFails, Connected, LinkLost,
         Suspend, Reset, Step
<1>2. where' \in {"off", "sms_only", "dial", "connecting", "connected"}
  BY DEF SmsOnly, SmsOnlyEnds, ListDone, Dial, SwitchSim, DialFails, Connected, LinkLost,
         Suspend, Reset, Step
<1>3. config.mode \in Modes /\ {config.enable, config.interval, config.online} \subseteq BOOLEAN
  BY DEF SmsInv, DialerTypes
<1>4. mode' \in Modes
  BY <1>3 DEF SmsInv, DialerTypes, Modes, SmsOnly, SmsOnlyEnds, ListDone, Dial, SwitchSim,
         DialFails, Connected, LinkLost, Suspend, Reset, SmsStart, KeepSms
<1>5. timer' \in BOOLEAN
  BY <1>3 DEF SmsInv, DialerTypes, SmsOnly, SmsOnlyEnds, ListDone, Dial, SwitchSim,
         DialFails, Connected, LinkLost, Suspend, Reset, SmsStart, KeepSms
<1>6. DialerTypes'
  BY <1>1, <1>2, <1>4, <1>5 DEF SmsInv, DialerTypes, Stay, boxVars
<1> QED BY <1>1, <1>6, StoreKept DEF Stay

\* The commands.
LEMMA CliKeeps ==
  ASSUME SmsInv,
         CliEnable \/ CliDisable \/ CliMode \/ CliInterval \/ CliNoInterval \/ CliSend \/ SmsdExits
  PROVE  SmsInv'
<1>1. CliStay
  BY DEF CliEnable, CliDisable, CliMode, CliInterval, CliNoInterval, CliSend, SmsdExits
<1>2. /\ config \in [enable : BOOLEAN, mode : Modes, interval : BOOLEAN, online : BOOLEAN]
      /\ config.mode \in Modes /\ {config.enable, config.interval, config.online} \subseteq BOOLEAN
      /\ mode \in Modes /\ timer \in BOOLEAN /\ smsd \in BOOLEAN
  BY DEF SmsInv, DialerTypes
<1>3. config' \in [enable : BOOLEAN, mode : Modes, interval : BOOLEAN, online : BOOLEAN]
  BY <1>2 DEF CliEnable, CliDisable, CliMode, CliInterval, CliNoInterval, CliSend, SmsdExits
<1>4. mode' \in Modes
  BY <1>2 DEF CliEnable, CliDisable, CliMode, CliInterval, CliNoInterval, CliSend, SmsdExits,
              KeepSms
<1>5. timer' \in BOOLEAN /\ smsd' \in BOOLEAN
  BY <1>2 DEF CliEnable, CliDisable, CliMode, CliInterval, CliNoInterval, CliSend, SmsdExits,
              KeepSms
<1>6. DialerTypes'
  BY <1>1, <1>3, <1>4, <1>5 DEF SmsInv, DialerTypes, CliStay, boxVars
<1> QED BY <1>1, <1>6, StoreKept DEF CliStay

LEMMA SmsInvStep == SmsInv /\ [SmsNext]_smsVars => SmsInv'
<1> SUFFICES ASSUME SmsInv, [SmsNext]_smsVars PROVE SmsInv'
  OBVIOUS
<1>1. CASE UNCHANGED smsVars
  BY <1>1 DEF smsVars, SmsInv, DialerTypes, StoreTypes, Kept
<1>2. CASE AlertAny
  BY <1>2, AlertKeeps DEF AlertAny
<1>3. CASE SmsTimerAny
  BY <1>3, TimerKeeps DEF SmsTimerAny
<1>4. CASE \/ SmsOnly \/ SmsOnlyEnds \/ ListDone \/ Dial \/ SwitchSim \/ DialFails
           \/ Connected \/ LinkLost \/ Suspend \/ Reset
  BY <1>4, DialerKeeps
<1>5. CASE CliEnable \/ CliDisable \/ CliMode \/ CliInterval \/ CliNoInterval \/ CliSend
           \/ SmsdExits
  BY <1>5, CliKeeps
<1> QED BY <1>1, <1>2, <1>3, <1>4, <1>5, InboxKeeps DEF SmsNext

\* An alert that is asked for is kept until OK has come back for it from some
\* number, and is not sent again after that, unless it met a full store: for any room
\* and any number of alerts, connections, refusals, sendings that go out without an
\* OK and changes of the settings (ih_redial.c l.4395-4442, 4664-4687).
THEOREM AlertsKept == SmsSpec => []UnsentIsKept
<1>1. SmsInv => UnsentIsKept
  BY DEF SmsInv, DialerTypes, StoreTypes, Kept, UnsentIsKept, SmsTypeOK
<1> QED BY <1>1, SmsInvInit, SmsInvStep, PTL DEF SmsSpec

-----------------------------------------------------------------------------
(* The parameters of the link.  Most of the work is the loop over the      *)
(* contexts of a TOBY-L201: that it is defined, and what it keeps.         *)

Infos == [ip : Leases \cup {Zero}, gw : Leases \cup {Zero}, mask : {"host", "net", Zero},
          dns : Leases \cup {Zero}, up : BOOLEAN]
Founds == [pinfo : Infos, dev : Leases \cup {Zero}, changed : BOOLEAN, got : BOOLEAN,
           loop : {"on", "stop", "error", "next"}]
Bearers == [ToSet(ModemCids) -> Leases \cup {Off}]

\* One context leaves what has been found in its type.
LEMMA GatewayStored ==
  ASSUME NEW f \in Founds, NEW l \in Leases
  PROVE  /\ StoreGateway(f, l) \in Founds
         /\ StoreGateway(f, l).pinfo.gw = l /\ StoreGateway(f, l).pinfo.mask = MaskOf(l)
         /\ StoreGateway(f, l).pinfo.ip = f.pinfo.ip
         /\ StoreGateway(f, l).got = f.got /\ StoreGateway(f, l).loop = f.loop
         /\ ~StoreGateway(f, l).changed => ~f.changed /\ f.pinfo.gw = l /\ f.pinfo.mask = MaskOf(l)
  BY DEF StoreGateway, Founds, Infos, MaskOf

LEMMA AddressStored ==
  ASSUME NEW f \in Founds, NEW before \in Infos, NEW l \in Leases, NEW g, g = StoreAddress(f, before, l)
  PROVE  /\ g \in Founds /\ g.got /\ g.pinfo.ip = l
         /\ g.pinfo.gw = f.pinfo.gw /\ g.pinfo.mask = f.pinfo.mask
         /\ g.loop \in {f.loop, "next"}
         /\ ~g.changed => ~f.changed
<1> DEFINE a == [f EXCEPT !.got = TRUE]
           b == [a EXCEPT !.pinfo.ip = l]
           c == [b EXCEPT !.dev = l]
           d == [b EXCEPT !.dev = Zero]
<1>1. a \in Founds /\ a.got /\ a.pinfo = f.pinfo /\ a.loop = f.loop /\ a.changed = f.changed
  BY DEF Founds
<1>2. f.pinfo.ip = l => g = a
  BY DEF StoreAddress
<1>3. f.pinfo.ip # l => g = [c EXCEPT !.changed = TRUE] \/ g = [d EXCEPT !.loop = "next"]
  BY DEF StoreAddress
<1> HIDE DEF a
<1>4. /\ b \in Founds /\ b.got /\ b.pinfo.ip = l /\ b.pinfo.gw = f.pinfo.gw /\ b.pinfo.mask = f.pinfo.mask
      /\ b.loop = f.loop /\ b.changed = f.changed
  BY <1>1 DEF Founds, Infos
<1> HIDE DEF b
<1>5. c \in Founds /\ c.got /\ c.pinfo = b.pinfo /\ c.loop = f.loop
  BY <1>4 DEF Founds
<1>6. d \in Founds /\ d.got /\ d.pinfo = b.pinfo /\ d.changed = f.changed
  BY <1>4 DEF Founds
<1> HIDE DEF c, d
<1>7. CASE f.pinfo.ip = l
  BY <1>1, <1>2, <1>7
<1>8. CASE g = [c EXCEPT !.changed = TRUE]
  BY <1>4, <1>5, <1>8 DEF Founds
<1>9. CASE g = [d EXCEPT !.loop = "next"]
  BY <1>4, <1>6, <1>9 DEF Founds
<1> QED
  BY <1>3, <1>7, <1>8, <1>9

LEMMA DnsStored ==
  ASSUME NEW f \in Founds, NEW l \in Leases, NEW g, g = StoreDns(f, l)
  PROVE  /\ g \in Founds /\ g.got = f.got /\ g.loop = "stop"
         /\ g.pinfo.ip = f.pinfo.ip /\ g.pinfo.gw = f.pinfo.gw /\ g.pinfo.mask = f.pinfo.mask
         /\ ~g.changed => ~f.changed
<1> DEFINE a == [f EXCEPT !.pinfo.dns = l]
           b == [a EXCEPT !.loop = "stop"]
<1>1. /\ a \in Founds /\ a.got = f.got /\ a.pinfo.ip = f.pinfo.ip /\ a.pinfo.gw = f.pinfo.gw
      /\ a.pinfo.mask = f.pinfo.mask /\ a.changed = f.changed
  BY DEF Founds, Infos
<1>2. g = b \/ g = [b EXCEPT !.changed = TRUE]
  <2>1. f.changed \in BOOLEAN
    BY DEF Founds
  <2>2. CASE f.changed \/ f.pinfo.dns # l
    BY <2>2 DEF StoreDns
  <2>3. CASE ~f.changed /\ f.pinfo.dns = l
    <3>1. g = [b EXCEPT !.changed = FALSE]
      BY <2>3 DEF StoreDns
    <3>2. b.changed = FALSE /\ b = [b EXCEPT !.changed = b.changed]
      BY <2>1, <2>3, <1>1 DEF Founds
    <3> QED
      BY <3>1, <3>2
  <2> QED
    BY <2>2, <2>3
<1> HIDE DEF a
<1>3. b \in Founds /\ b.got = a.got /\ b.pinfo = a.pinfo /\ b.changed = a.changed /\ b.loop = "stop"
  BY <1>1 DEF Founds
<1> HIDE DEF b
<1>4. CASE g = [b EXCEPT !.changed = TRUE]
  BY <1>1, <1>3, <1>4 DEF Founds
<1> QED
  BY <1>1, <1>2, <1>3, <1>4

\* What has been found, if nothing has changed, is what the modem has assigned.
Settled(f) ==
  ~f.changed /\ f.got =>
    \E c \in Actives : LET l == bearer.lease[c]
                       IN  f.pinfo.ip = l /\ f.pinfo.gw = l /\ f.pinfo.mask = MaskOf(l)

\* One context more: its parameters are stored, and if the lease does not change in
\* between and nothing has changed, they are those of the context.
LEMMA ContextAsked ==
  ASSUME NEW f \in Founds, f.loop = "on", NEW answer \in Answers, NEW l \in Leases, NEW later \in Leases,
         NEW g, g = AskContext(f, answer, l, later)
  PROVE  /\ g \in Founds /\ g.loop # "next"
         /\ \/ /\ g.pinfo.ip = f.pinfo.ip /\ g.got = f.got
               /\ ~g.changed => ~f.changed /\ g.pinfo.gw = f.pinfo.gw /\ g.pinfo.mask = f.pinfo.mask
            \/ g.pinfo.ip = later /\ g.pinfo.gw = l /\ g.pinfo.mask = MaskOf(l)
<1> DEFINE gated == StoreGateway(f, l)
           placed == StoreAddress(gated, f.pinfo, later)
<1>1. /\ gated \in Founds /\ gated.pinfo.gw = l /\ gated.pinfo.mask = MaskOf(l)
      /\ gated.pinfo.ip = f.pinfo.ip /\ gated.got = f.got /\ gated.loop = "on"
      /\ ~gated.changed => ~f.changed /\ f.pinfo.gw = l /\ f.pinfo.mask = MaskOf(l)
  BY GatewayStored
<1>2. f.pinfo \in Infos
  BY DEF Founds
<1> HIDE DEF gated
<1>3. /\ placed \in Founds /\ placed.got /\ placed.pinfo.ip = later
      /\ placed.pinfo.gw = gated.pinfo.gw /\ placed.pinfo.mask = gated.pinfo.mask
      /\ placed.loop \in {"on", "next"}
  BY <1>1, <1>2, AddressStored
<1> HIDE DEF placed
<1>4. CASE answer = "noGateway"
  BY <1>4 DEF AskContext
<1>5. CASE answer = "gatewayError"
  <2>1. g = [f EXCEPT !.loop = "error"]
    BY <1>5 DEF AskContext
  <2> QED
    BY <2>1 DEF Founds
<1>6. CASE answer = "addressError"
  <2>1. g = gated
    BY <1>6 DEF AskContext, gated
  <2> QED
    BY <2>1, <1>1
<1>7. CASE answer = "noAddress"
  <2>1. g = [gated EXCEPT !.loop = "stop"]
    BY <1>7 DEF AskContext, gated
  <2> QED
    BY <2>1, <1>1 DEF Founds
<1>8. CASE answer \in {"all", "noDns", "dnsError"}
  <2>1. g \in {[placed EXCEPT !.loop = "on"], [placed EXCEPT !.loop = "error"],
               [placed EXCEPT !.loop = "stop"], StoreDns(placed, later)}
    BY <1>8 DEF AskContext, placed, gated
  <2>2. CASE g = StoreDns(placed, later)
    BY <2>2, <1>1, <1>3, DnsStored
  <2>3. CASE g # StoreDns(placed, later)
    <3>1. PICK e \in {"on", "error", "stop"} : g = [placed EXCEPT !.loop = e]
      BY <2>1, <2>3
    <3> QED
      BY <3>1, <1>1, <1>3 DEF Founds
  <2> QED
    BY <2>2, <2>3
<1> QED
  BY <1>4, <1>5, <1>6, <1>7, <1>8 DEF Answers

\* One round of the loop over the contexts.
LEMMA OneAsked ==
  ASSUME NEW leases \in Bearers, bearer.lease \in Bearers, NEW answers \in [ToSet(ModemCids) -> Answers],
         NEW f \in Founds, f.loop # "next", leases = bearer.lease => Settled(f),
         NEW c \in ToSet(ModemCids), NEW g, g = AskOne(f, c, answers, leases)
  PROVE  g \in Founds /\ g.loop # "next" /\ (leases = bearer.lease => Settled(g))
<1>1. CASE f.loop # "on" \/ ~Asked(c) \/ leases[c] = Off
  BY <1>1 DEF AskOne
<1>2. CASE f.loop = "on" /\ Asked(c) /\ leases[c] # Off
  <2>1. c \in Actives /\ leases[c] \in Leases /\ bearer.lease[c] \in Leases
    BY <1>2 DEF Asked, Actives, Bearers
  <2>2. g = AskContext(f, answers[c], bearer.lease[c], leases[c]) /\ answers[c] \in Answers
    BY <1>2 DEF AskOne
  <2> DEFINE l == bearer.lease[c]
             later == leases[c]
  <2>3. /\ g \in Founds /\ g.loop # "next"
        /\ \/ /\ g.pinfo.ip = f.pinfo.ip /\ g.got = f.got
              /\ ~g.changed => ~f.changed /\ g.pinfo.gw = f.pinfo.gw /\ g.pinfo.mask = f.pinfo.mask
           \/ g.pinfo.ip = later /\ g.pinfo.gw = l /\ g.pinfo.mask = MaskOf(l)
    BY <1>2, <2>1, <2>2, ContextAsked
  <2>4. CASE g.pinfo.ip = later /\ g.pinfo.gw = l /\ g.pinfo.mask = MaskOf(l)
    BY <2>1, <2>3, <2>4 DEF Settled
  <2>5. CASE /\ g.pinfo.ip = f.pinfo.ip /\ g.got = f.got
             /\ ~g.changed => ~f.changed /\ g.pinfo.gw = f.pinfo.gw /\ g.pinfo.mask = f.pinfo.mask
    BY <2>3, <2>5 DEF Settled
  <2> QED
    BY <2>3, <2>4, <2>5
<1> QED
  BY <1>1, <1>2

\* The loop over the contexts, which is a recursive function: it exists, and every
\* round leaves what has been found in its type and settled.
LEMMA BridgeSettles ==
  ASSUME NEW leases \in Bearers, bearer.lease \in Bearers, NEW answers \in [ToSet(ModemCids) -> Answers],
         NEW p \in Infos, NEW d \in Leases \cup {Zero},
         NEW g, g = BridgeParams(p, d, answers, leases)
  PROVE  g \in Founds /\ g.loop # "next" /\ (leases = bearer.lease => Settled(g))
<1> DEFINE N == Len(ModemCids)
           I == {f \in Founds : f.loop # "next" /\ (leases = bearer.lease => Settled(f))}
           Round(x) == AskOne(x[1], ModemCids[x[2]], answers, leases)
           F == [x \in I \X (1 .. N) |-> Round(x)]
           Rounds(h) == [n \in 0 .. N |-> IF n = 0 THEN Found(p, d)
                                          ELSE AskOne(h[n - 1], ModemCids[n], answers, leases)]
           found == CHOOSE h : h = Rounds(h)
<1>1. N \in Nat /\ \A n \in 1 .. N : ModemCids[n] \in ToSet(ModemCids)
  BY LinkParamsConstantsOK DEF ToSet
<1>2. ASSUME NEW f \in I, NEW n \in 1 .. N PROVE AskOne(f, ModemCids[n], answers, leases) \in I
  BY <1>1, OneAsked
<1>3. Found(p, d) \in I
  BY DEF Found, Founds, Settled
<1>4. F \in [I \X (1 .. N) -> I]
  <2>1. ASSUME NEW x \in I \X (1 .. N) PROVE Round(x) \in I
    BY <1>2
  <2> QED
    BY <2>1
<1>5. \A f \in I, n \in 1 .. N : F[<<f, n>>] = AskOne(f, ModemCids[n], answers, leases)
  OBVIOUS
<1> HIDE DEF I, F
<1>6. PICK h \in [0 .. N -> I] : h[0] = Found(p, d) /\ \A n \in 1 .. N : h[n] = F[<<h[n - 1], n>>]
  <2>1. N \in Nat
    BY <1>1
  <2> HIDE DEF N
  <2> DEFINE start == Found(p, d)
  <2>2. start \in I
    BY <1>3
  <2> HIDE DEF start
  <2>3. \E h \in [0 .. N -> I] : IsLoop(h, N, start, F)
    BY <1>4, <2>1, <2>2, LoopExists
  <2> QED
    BY <2>3 DEF start, IsLoop
<1>7. h = Rounds(h)
  <2>1. ASSUME NEW n \in 0 .. N
        PROVE  h[n] = IF n = 0 THEN Found(p, d) ELSE AskOne(h[n - 1], ModemCids[n], answers, leases)
    <3>1. CASE n = 0
      BY <1>6, <3>1
    <3>2. CASE n # 0
      <4>1. n \in 1 .. N /\ n - 1 \in 0 .. N
        BY <1>1, <3>2
      <4> QED
        BY <1>5, <1>6, <4>1, <3>2
    <3> QED
      BY <3>1, <3>2
  <2> QED
    BY <1>6, <2>1
<1>8. found = Rounds(found)
  BY <1>7
<1>9. g = found[N]
  BY DEF BridgeParams
<1> HIDE DEF found
<1>10. found[0] \in I /\ \A n \in 1 .. N : found[n - 1] \in I => found[n] \in I
  <2>1. found[0] \in I
    BY <1>1, <1>3, <1>8
  <2>2. ASSUME NEW n \in 1 .. N, found[n - 1] \in I PROVE found[n] \in I
    BY <1>1, <1>2, <1>8, <2>2
  <2> QED
    BY <2>1, <2>2
<1>11. \A n \in 0 .. N : found[n] \in I
  <2> DEFINE G == {n \in 0 .. N : found[n] \in I}
  <2>1. G \in SUBSET (0 .. N) /\ 0 \in G /\ \A n \in 1 .. N : n - 1 \in G => n \in G
    BY <1>1, <1>10
  <2>2. G = 0 .. N
    <3> HIDE DEF G
    <3> QED
      BY <1>1, <2>1, Climb
  <2> QED
    BY <2>2
<1>12. g \in I
  <2>1. N \in Nat
    BY <1>1
  <2> HIDE DEF N
  <2>2. N \in 0 .. N
    BY <2>1
  <2> QED
    BY <1>9, <1>11, <2>2
<1> QED
  BY <1>12 DEF I

LEMMA CallTyped ==
  ASSUME bearer.lease \in Bearers, NEW call \in Calls
  PROVE  call.listed \in BOOLEAN /\ call.answers \in [ToSet(ModemCids) -> Answers] /\ call.leases \in Bearers
<1> DEFINE allUp == [c \in ToSet(ModemCids) |-> "all"]
<1>1. allUp \in [ToSet(ModemCids) -> Answers]
  BY DEF Answers
<1>2. Changes(bearer.lease) \subseteq Bearers
  BY DEF Changes, Bearers
<1>3. CASE call = Call(FALSE, allUp, bearer.lease)
  BY <1>1, <1>3 DEF Call
<1>4. CASE \E answers \in [ToSet(ModemCids) -> Answers] : call = Call(TRUE, answers, bearer.lease)
  BY <1>4 DEF Call
<1>5. CASE \E leases \in Changes(bearer.lease) : call = Call(TRUE, allUp, leases)
  BY <1>1, <1>2, <1>5 DEF Call
<1> QED
  BY <1>3, <1>4, <1>5 DEF Calls

\* A verdict of "as before": nothing has changed, and there is an address.
LEMMA AsBefore ==
  ASSUME NEW f \in Founds, Verdict(f) = 0
  PROVE  ~f.changed /\ f.got /\ f.loop # "error"
<1>1. CASE f.loop = "error"
  <2>1. Verdict(f) = -1
    BY <1>1 DEF Verdict
  <2> QED
    BY <2>1
<1>2. CASE f.loop # "error" /\ f.changed
  <2>1. Verdict(f) = 1
    BY <1>2 DEF Verdict
  <2> QED
    BY <2>1
<1>3. CASE f.loop # "error" /\ ~f.changed /\ ~f.got
  <2>1. Verdict(f) = -1
    BY <1>3 DEF Verdict
  <2> QED
    BY <2>1
<1> QED
  BY <1>1, <1>2, <1>3

LEMMA ParamsFound ==
  ASSUME bearer.lease \in Bearers, NEW p \in Infos, NEW d \in Leases \cup {Zero}, NEW call \in Calls,
         NEW f, f = Params(p, d, call)
  PROVE  /\ f \in Founds
         /\ Verdict(f) = 0 /\ call.leases = bearer.lease => ~f.changed /\ f.got /\ Settled(f)
<1>1. call.answers \in [ToSet(ModemCids) -> Answers] /\ call.leases \in Bearers
  BY CallTyped
<1>2. CASE call.listed
  <2>1. f = BridgeParams(p, d, call.answers, call.leases)
    BY <1>2 DEF Params
  <2>2. f \in Founds /\ (call.leases = bearer.lease => Settled(f))
    BY <1>1, <2>1, BridgeSettles
  <2> QED
    BY <2>2, AsBefore
<1>3. CASE ~call.listed
  <2>1. f = [Found(p, d) EXCEPT !.loop = "error"]
    BY <1>3 DEF Params
  <2>2. f \in Founds /\ f.loop = "error"
    BY <2>1 DEF Found, Founds
  <2> QED
    BY <2>2, AsBefore
<1> QED
  BY <1>2, <1>3

LEMMA AtFound ==
  ASSUME bearer.lease \in Bearers, NEW p \in Infos, NEW d \in Leases \cup {Zero}, NEW answered \in BOOLEAN,
         NEW f, f = AtParams(p, d, answered)
  PROVE  f \in Founds
<1>1. CASE ~answered \/ Actives = {}
  <2>1. f = [Found(p, Zero) EXCEPT !.loop = "error"]
    BY <1>1 DEF AtParams
  <2> QED
    BY <2>1 DEF Found, Founds
<1>2. CASE answered /\ Actives # {}
  <2> DEFINE S == {i \in DOMAIN ModemCids : ModemCids[i] \in Actives}
             l == bearer.lease[ModemCids[Min(S)]]
             q == [[[[p EXCEPT !.ip = l] EXCEPT !.gw = l] EXCEPT !.mask = MaskOf(l)] EXCEPT !.dns = l]
             to == IF p.ip = l THEN d ELSE l
  <2>1. S \in SUBSET (1 .. Len(ModemCids)) /\ S # {} /\ Len(ModemCids) \in Nat
    BY <1>2, LinkParamsConstantsOK DEF Actives, ToSet
  <2>2. Min(S) \in S
    <3> HIDE DEF S
    <3> QED
      BY <2>1, MinIsMember
  <2>3. l \in Leases
    <3> DEFINE i == Min(S)
    <3>1. ModemCids[i] \in Actives
      BY <2>2
    <3> HIDE DEF i
    <3> QED
      BY <3>1 DEF Actives, Bearers, i
  <2>4. f = [[[Found(p, d) EXCEPT !.pinfo = q] EXCEPT !.dev = to] EXCEPT !.got = TRUE]
    <3>1. f = [Found(p, d) EXCEPT !.pinfo = [p EXCEPT !.ip = l, !.gw = l, !.mask = MaskOf(l), !.dns = l],
                                  !.dev = to, !.got = TRUE]
      BY <1>2 DEF AtParams
    <3> HIDE DEF l
    <3>2. [p EXCEPT !.ip = l, !.gw = l, !.mask = MaskOf(l), !.dns = l] = q
      OBVIOUS
    <3> HIDE DEF q, to
    <3> QED
      BY <3>1, <3>2
  <2> HIDE DEF l
  <2>5. q \in Infos
    <3>1. MaskOf(l) \in {"host", "net"}
      BY DEF MaskOf
    <3> DEFINE m == MaskOf(l)
    <3> HIDE DEF m
    <3>2. q = [[[[p EXCEPT !.ip = l] EXCEPT !.gw = l] EXCEPT !.mask = m] EXCEPT !.dns = l] /\ m \in {"host", "net"}
      BY <3>1 DEF m
    <3> QED
      BY <2>3, <3>2 DEF Infos
  <2>6. to \in Leases \cup {Zero}
    BY <2>3
  <2> HIDE DEF q, to
  <2> QED
    BY <2>4, <2>5, <2>6 DEF Found, Founds
<1> QED
  BY <1>1, <1>2

\* The invariant of the link.  What its client does only matters for a link that has
\* one: such a link is down until the client has reported of this dial, its interface
\* has the address it reported, and a DHCP link that is connected is up or has lost its client.
GatewayGiven == pinfo.gw \in given \cup {Zero}
ClientInv ==
  linkFamily \notin BridgeLinks =>
    /\ linkPhase \in {"startup", "dial"} => ~alive /\ ~pinfo.up
    /\ alive /\ pinfo.up => dev = pinfo.ip
    /\ linkPhase = "connected" /\ alive /\ linkFamily \in DhcpLinks => pinfo.up
    /\ ToldIsUsed
CheckedInv == checked => linkPhase = "connected"
ParamsInv ==
  LinkParamsTypeOK /\ GatewayGiven /\ ClientInv /\ CheckedInv /\ PassedLinkIsTheModems

LEMMA FirstListed == First \in ToSet(ModemCids)
  BY LinkParamsConstantsOK DEF First, ToSet

\* The steps that leave the lease, VIF_INFO and its interface as they are.
LEMMA SmallSteps ==
  ASSUME ParamsInv, ChildDies \/ ConnectLink \/ QmiGivesUp
  PROVE  ParamsInv'
<1>1. UNCHANGED <<linkFamily, named, linkKeyed, bearer, pinfo, dev, given, silent, checked>>
  BY DEF ChildDies, ConnectLink, QmiGivesUp
<1>2. /\ alive' \in BOOLEAN /\ (alive' => alive)
      /\ linkPhase' \in {"startup", "dial", "connecting", "connected"} /\ told' \in Leases \cup {Zero}
  BY DEF ChildDies, ConnectLink, QmiGivesUp, ParamsInv, LinkParamsTypeOK
<1>3. LinkParamsTypeOK'
  BY <1>1, <1>2 DEF ParamsInv, LinkParamsTypeOK
<1>4. GatewayGiven' /\ CheckedInv'
  BY <1>1 DEF ParamsInv, GatewayGiven, CheckedInv, ChildDies, ConnectLink, QmiGivesUp
<1>5. ClientInv'
  <2>1. CASE ChildDies \/ QmiGivesUp
    BY <1>1, <2>1 DEF ParamsInv, ClientInv, ToldIsUsed, ChildDies, QmiGivesUp
  <2>2. CASE ConnectLink
    BY <1>1, <2>2 DEF ParamsInv, ClientInv, ToldIsUsed, ConnectLink
  <2> QED
    BY <2>1, <2>2
<1>6. PassedLinkIsTheModems'
  BY <1>1, <1>2 DEF ParamsInv, PassedLinkIsTheModems, HasAddress, Actives, First, MaskOf
<1> QED
  BY <1>3, <1>4, <1>5, <1>6 DEF ParamsInv

LEMMA StartupLinkKeeps ==
  ASSUME ParamsInv, StartupLink
  PROVE  ParamsInv'
<1>1. pinfo' = [ip |-> Zero, gw |-> Zero, mask |-> Zero, dns |-> Zero, up |-> pinfo.up]
  BY DEF StartupLink, ClearNet, Cleared
<1>2. LinkParamsTypeOK'
  BY <1>1 DEF ParamsInv, LinkParamsTypeOK, StartupLink
<1>3. GatewayGiven' /\ CheckedInv' /\ ~checked'
  BY <1>1 DEF ParamsInv, GatewayGiven, CheckedInv, StartupLink
<1>4. ClientInv'
  BY <1>1 DEF ParamsInv, ClientInv, ToldIsUsed, StartupLink
<1>5. PassedLinkIsTheModems'
  BY <1>3 DEF PassedLinkIsTheModems
<1> QED
  BY <1>2, <1>3, <1>4, <1>5 DEF ParamsInv

LEMMA StartClientKeeps ==
  ASSUME ParamsInv, StartClient
  PROVE  ParamsInv'
<1>1. PICK dns \in Leases \cup {Zero} : pinfo' = pinfo \/ pinfo' = [pinfo EXCEPT !.dns = dns]
  BY FirstListed DEF ParamsInv, LinkParamsTypeOK, StartClient
<1>2. pinfo' \in Infos /\ pinfo'.gw = pinfo.gw /\ pinfo'.up = pinfo.up
  BY <1>1 DEF ParamsInv, LinkParamsTypeOK, Infos
<1>3. LinkParamsTypeOK'
  BY <1>2 DEF ParamsInv, LinkParamsTypeOK, StartClient, Infos
<1>4. GatewayGiven' /\ CheckedInv' /\ ~checked'
  BY <1>2 DEF ParamsInv, GatewayGiven, CheckedInv, StartClient
<1>5. ClientInv'
  BY <1>2 DEF ParamsInv, ClientInv, ToldIsUsed, StartClient
<1>6. PassedLinkIsTheModems'
  BY <1>4 DEF PassedLinkIsTheModems
<1> QED
  BY <1>3, <1>4, <1>5, <1>6 DEF ParamsInv

LEMMA StartBridgeKeeps ==
  ASSUME ParamsInv, StartBridge
  PROVE  ParamsInv'
<1>1. bearer \in [lease : Bearers, attached : BOOLEAN] /\ dev \in Leases \cup {Zero}
  BY DEF ParamsInv, LinkParamsTypeOK, Bearers
<1>2. ClearNet(pinfo) \in Infos
  <2>1. ClearNet(pinfo) = [ip |-> Zero, gw |-> Zero, mask |-> Zero, dns |-> Zero, up |-> pinfo.up]
    BY DEF ClearNet, Cleared
  <2> QED
    BY <2>1 DEF Infos, ParamsInv, LinkParamsTypeOK
<1> DEFINE F(call) == IF linkFamily = "ELS81" THEN AtParams(ClearNet(pinfo), dev, call.listed)
                      ELSE Params(ClearNet(pinfo), dev, call)
           ok(call) == Verdict(F(call)) >= 0
<1>3. PICK call \in Calls :
        /\ bearer' = [bearer EXCEPT !.lease = call.leases] /\ dev' = F(call).dev /\ alive' = ok(call)
        /\ pinfo' = [F(call).pinfo EXCEPT !.up = @ \/ ok(call)]
        /\ given' = Fields(F(call).pinfo)
        /\ linkPhase' = IF ok(call) THEN "connecting" ELSE "startup"
  BY DEF StartBridge
<1>4. call.listed \in BOOLEAN /\ call.leases \in Bearers
  BY <1>1, CallTyped
<1>5. F(call) \in Founds
  <2>1. CASE linkFamily = "ELS81"
    BY <1>1, <1>2, <1>4, <2>1, AtFound
  <2>2. CASE linkFamily # "ELS81"
    BY <1>1, <1>2, <2>2, ParamsFound
  <2> QED
    BY <2>1, <2>2
<1> DEFINE f == F(call)
<1> HIDE DEF F
<1>6. f.pinfo \in Infos /\ f.dev \in Leases \cup {Zero}
  BY <1>5 DEF Founds
<1>7. CASE ok(call)
  <2>1. alive' = TRUE /\ pinfo' = [f.pinfo EXCEPT !.up = TRUE] /\ linkPhase' = "connecting"
    BY <1>3, <1>7
  <2> DEFINE P == f.pinfo
  <2>4. pinfo' \in Infos
    <3>1. P \in Infos /\ pinfo' = [P EXCEPT !.up = TRUE]
      BY <1>6, <2>1
    <3> HIDE DEF P
    <3> QED
      BY <3>1 DEF Infos
  <2>2. LinkParamsTypeOK'
    BY <1>1, <1>3, <1>4, <1>6, <2>1, <2>4 DEF ParamsInv, LinkParamsTypeOK, StartBridge, Infos, Bearers, Fields
  <2>3. GatewayGiven'
    BY <1>3, <1>6, <2>1 DEF GatewayGiven, Fields, Infos
  <2> QED
    BY <2>1, <2>2, <2>3 DEF ParamsInv, ClientInv, CheckedInv, PassedLinkIsTheModems, StartBridge
<1>8. CASE ~ok(call)
  <2>1. alive' = FALSE /\ linkPhase' = "startup"
    <3>1. alive' = ok(call) /\ linkPhase' = IF ok(call) THEN "connecting" ELSE "startup"
      BY <1>3
    <3>2. ok(call) = FALSE
      BY <1>8
    <3> HIDE DEF ok
    <3> QED
      BY <3>1, <3>2
  <2>2. pinfo' = [f.pinfo EXCEPT !.up = f.pinfo.up]
    <3>1. f.pinfo.up \in BOOLEAN
      BY <1>6 DEF Infos
    <3>2. (f.pinfo.up \/ ok(call)) = f.pinfo.up
      BY <1>8, <3>1
    <3> HIDE DEF ok, f
    <3> QED
      BY <1>3, <3>2 DEF f
  <2>3. LinkParamsTypeOK'
    BY <1>1, <1>3, <1>4, <1>6, <2>1, <2>2 DEF ParamsInv, LinkParamsTypeOK, StartBridge, Infos, Bearers, Fields
  <2>4. GatewayGiven'
    BY <1>3, <1>6, <2>2 DEF GatewayGiven, Fields, Infos
  <2> QED
    BY <2>1, <2>3, <2>4 DEF ParamsInv, ClientInv, CheckedInv, PassedLinkIsTheModems, StartBridge
<1> QED
  BY <1>7, <1>8

LEMMA BoundKeeps ==
  ASSUME ParamsInv, Bound
  PROVE  ParamsInv'
<1> DEFINE l == bearer.lease[First]
           gw == IF l \in NoGateway THEN pinfo.gw ELSE l
           dns == IF linkFamily = "RM520N" /\ pinfo.dns # Zero THEN pinfo.dns ELSE l
<1>1. l \in Leases
  BY FirstListed DEF Bound, ParamsInv, LinkParamsTypeOK
<1>2. pinfo' = [ip |-> l, gw |-> gw, mask |-> MaskOf(l), dns |-> dns, up |-> TRUE]
  BY DEF Bound, BoundInfo
<1>3. /\ dev' = l /\ given' = given \cup {l} /\ checked' = FALSE
      /\ told' = IF linkPhase = "connected" /\ linkFamily \in QmiLinks THEN l ELSE told
      /\ UNCHANGED <<linkFamily, linkPhase, alive, named, linkKeyed, bearer, silent>>
      /\ alive /\ linkFamily \notin BridgeLinks /\ ~pinfo.up
  BY DEF Bound
<1> HIDE DEF l
<1>4. MaskOf(l) \in {"host", "net"}
  BY DEF MaskOf
<1>5. gw \in Leases \cup {Zero} /\ gw \in given \cup {l, Zero} /\ dns \in Leases \cup {Zero}
  BY <1>1 DEF ParamsInv, LinkParamsTypeOK, GatewayGiven
<1> DEFINE m == MaskOf(l)
<1> HIDE DEF gw, dns, m
<1>6. pinfo' = [ip |-> l, gw |-> gw, mask |-> m, dns |-> dns, up |-> TRUE] /\ m \in {"host", "net"}
  BY <1>2, <1>4 DEF m
<1>7. LinkParamsTypeOK'
  <2>1. pinfo' \in Infos
    BY <1>1, <1>5, <1>6 DEF Infos
  <2>2. told' \in Leases \cup {Zero} /\ given' \subseteq Leases
    BY <1>1, <1>3 DEF ParamsInv, LinkParamsTypeOK
  <2> QED
    BY <1>1, <1>3, <2>1, <2>2 DEF ParamsInv, LinkParamsTypeOK, Infos
<1>8. GatewayGiven' /\ CheckedInv' /\ PassedLinkIsTheModems'
  BY <1>3, <1>5, <1>6 DEF GatewayGiven, CheckedInv, PassedLinkIsTheModems
<1>9. ClientInv'
  BY <1>3, <1>6 DEF ParamsInv, ClientInv, ToldIsUsed
<1> QED
  BY <1>7, <1>8, <1>9 DEF ParamsInv

\* The lease is lost, or the dialer gives the connection up.
LEMMA DownSteps ==
  ASSUME ParamsInv, Deconfig \/ BreakOff
  PROVE  ParamsInv'
<1>1. /\ pinfo' = [pinfo EXCEPT !.up = FALSE]
      /\ UNCHANGED <<linkFamily, named, linkKeyed, bearer, given>>
  BY DEF Deconfig, BreakOff
<1>2. pinfo' \in Infos /\ ~pinfo'.up /\ pinfo'.gw = pinfo.gw
  BY <1>1 DEF ParamsInv, LinkParamsTypeOK, Infos
<1>3. alive' \in BOOLEAN
  <2>1. CASE Deconfig
    BY <2>1, Zenon DEF Deconfig
  <2>2. CASE BreakOff
    BY <2>2 DEF BreakOff, ParamsInv, LinkParamsTypeOK
  <2> QED
    BY <2>1, <2>2
<1>4. /\ linkPhase' \in {"startup", "dial", "connecting", "connected"} /\ dev' \in Leases \cup {Zero}
      /\ told' \in Leases \cup {Zero} /\ checked' \in BOOLEAN
  BY DEF Deconfig, BreakOff, ParamsInv, LinkParamsTypeOK
<1>5. silent' \in 0 .. Retries
  BY LinkParamsConstantsOK DEF Deconfig, BreakOff, ParamsInv, LinkParamsTypeOK
<1>6. LinkParamsTypeOK'
  BY <1>1, <1>2, <1>3, <1>4, <1>5 DEF ParamsInv, LinkParamsTypeOK, Infos
<1>7. GatewayGiven' /\ CheckedInv' /\ PassedLinkIsTheModems'
  BY <1>1, <1>2 DEF ParamsInv, GatewayGiven, CheckedInv, PassedLinkIsTheModems, Deconfig, BreakOff
<1>8. ClientInv'
  <2>1. CASE Deconfig
    BY <1>1, <1>2, <2>1, Zenon DEF ParamsInv, ClientInv, ToldIsUsed, Deconfig
  <2>2. CASE BreakOff
    BY <1>1, <1>2, <2>2 DEF ParamsInv, ClientInv, ToldIsUsed, BreakOff
  <2> QED
    BY <2>1, <2>2
<1> QED
  BY <1>6, <1>7, <1>8 DEF ParamsInv

\* How a poll ends.
LEMMA PollConcluded ==
  ASSUME LinkParamsTypeOK, NEW outcome, NEW first \in BOOLEAN, NEW other \in BOOLEAN, NEW sure \in BOOLEAN,
         outcome = "end" \/ outcome = Outcome(first, other), Concluded(outcome, sure)
  PROVE  /\ alive' \in BOOLEAN /\ checked' \in BOOLEAN /\ silent' \in 0 .. Retries
         /\ alive' => alive
         /\ checked' => outcome = "ok" /\ sure
<1>1. alive' \in BOOLEAN /\ (alive' => alive)
  BY Zenon DEF Concluded, LinkParamsTypeOK
<1>2. checked' \in BOOLEAN /\ (checked' => outcome = "ok" /\ sure)
  BY Zenon DEF Concluded
<1>3. silent' \in 0 .. Retries
  <2>1. CASE outcome # "silent"
    BY <2>1, LinkParamsConstantsOK DEF Concluded
  <2>2. CASE outcome = "silent"
    <3>1. ~first
      BY <2>2 DEF Outcome
    <3>2. outcome = IF Missed >= Retries THEN "end" ELSE "silent"
      BY <2>2, <3>1 DEF Outcome
    <3>3. ~(Missed >= Retries)
      BY <2>2, <3>2
    <3> QED
      BY <2>2, <3>3, LinkParamsConstantsOK DEF Concluded, Missed, LinkParamsTypeOK
  <2> QED
    BY <2>1, <2>2
<1> QED
  BY <1>1, <1>2, <1>3

LEMMA PollPlainKeeps ==
  ASSUME ParamsInv, NEW first \in BOOLEAN, NEW other \in BOOLEAN, PollPlain(first, other)
  PROVE  ParamsInv'
<1>1. /\ linkPhase = "connected" /\ linkFamily # "TOBYL201" /\ Concluded(Outcome(first, other), other)
      /\ UNCHANGED <<linkFamily, linkPhase, named, linkKeyed, bearer, pinfo, dev, told, given>>
  BY DEF PollPlain
<1>2. /\ alive' \in BOOLEAN /\ checked' \in BOOLEAN /\ silent' \in 0 .. Retries
      /\ alive' => alive
      /\ checked' => Outcome(first, other) = "ok" /\ other
  BY <1>1, PollConcluded DEF ParamsInv
<1>3. LinkParamsTypeOK'
  BY <1>1, <1>2 DEF ParamsInv, LinkParamsTypeOK
<1>4. GatewayGiven' /\ CheckedInv'
  BY <1>1 DEF ParamsInv, GatewayGiven, CheckedInv
<1>5. ClientInv'
  BY <1>1, <1>2 DEF ParamsInv, ClientInv, ToldIsUsed
<1>6. checked' => FirstHolds /\ SecondHolds
  BY <1>2 DEF Outcome
<1>7. ASSUME checked', pinfo.up, linkFamily = "RM500U" \/ (linkFamily = "RM520N" /\ linkKeyed)
      PROVE  HasAddress
  BY <1>6, <1>7 DEF FirstHolds, SecondHolds
<1>8. PassedLinkIsTheModems'
  BY <1>1, <1>7 DEF PassedLinkIsTheModems, HasAddress, First
<1> QED
  BY <1>3, <1>4, <1>5, <1>8 DEF ParamsInv

LEMMA PollBridgeKeeps ==
  ASSUME ParamsInv, NEW call \in Calls, NEW first \in BOOLEAN, PollBridge(call, first)
  PROVE  ParamsInv'
<1> DEFINE f == Params(pinfo, dev, call)
           outcome == IF Verdict(f) # 0 THEN "end" ELSE Outcome(first, TRUE)
           sure == (call.leases = bearer.lease)
<1>1. bearer \in [lease : Bearers, attached : BOOLEAN] /\ dev \in Leases \cup {Zero} /\ pinfo \in Infos
  BY DEF ParamsInv, LinkParamsTypeOK, Bearers, Infos
<1>2. call.leases \in Bearers
  BY <1>1, CallTyped
<1>3. /\ f \in Founds
      /\ Verdict(f) = 0 /\ call.leases = bearer.lease => ~f.changed /\ f.got /\ Settled(f)
  BY <1>1, ParamsFound
<1>4. /\ linkPhase = "connected" /\ linkFamily = "TOBYL201"
      /\ given' = given \cup Fields(f.pinfo)
      /\ pinfo' = f.pinfo /\ dev' = f.dev /\ bearer' = [bearer EXCEPT !.lease = call.leases]
      /\ told' = IF Verdict(f) > 0 THEN f.pinfo.ip ELSE told
      /\ Concluded(outcome, sure)
      /\ UNCHANGED <<linkFamily, linkPhase, named, linkKeyed>>
  BY DEF PollBridge
<1>5. /\ alive' \in BOOLEAN /\ checked' \in BOOLEAN /\ silent' \in 0 .. Retries
      /\ checked' => outcome = "ok" /\ sure
  <2>1. outcome = "end" \/ outcome = Outcome(first, TRUE)
    OBVIOUS
  <2>2. sure \in BOOLEAN
    OBVIOUS
  <2> HIDE DEF outcome, sure
  <2> QED
    BY <1>4, <2>1, <2>2, PollConcluded DEF ParamsInv
<1>6. checked' => Verdict(f) = 0 /\ call.leases = bearer.lease
  BY <1>5
<1> HIDE DEF f, outcome, sure
<1>7. f.pinfo \in Infos /\ f.dev \in Leases \cup {Zero}
  BY <1>3 DEF Founds
<1>8. /\ f.pinfo.ip \in Leases \cup {Zero} /\ f.pinfo.gw \in Leases \cup {Zero}
      /\ told' \in Leases \cup {Zero} /\ given' \subseteq Leases
  BY <1>4, <1>7 DEF Infos, Fields, ParamsInv, LinkParamsTypeOK
<1>9. bearer' \in [lease : Bearers, attached : BOOLEAN] /\ bearer'.lease = call.leases
  BY <1>1, <1>2, <1>4
<1>10. LinkParamsTypeOK'
  BY <1>4, <1>5, <1>7, <1>8, <1>9 DEF ParamsInv, LinkParamsTypeOK, Bearers, Infos
<1>11. GatewayGiven' /\ CheckedInv' /\ ClientInv'
  BY <1>4, <1>8 DEF ParamsInv, GatewayGiven, CheckedInv, ClientInv, Fields, BridgeLinks
<1>12. PassedLinkIsTheModems'
  <2> SUFFICES ASSUME checked' PROVE PassedLinkIsTheModems'
    BY DEF PassedLinkIsTheModems
  <2>1. Settled(f) /\ ~f.changed /\ f.got /\ bearer'.lease = bearer.lease
    BY <1>3, <1>6, <1>9
  <2>2. PICK c \in Actives : LET l == bearer.lease[c]
                             IN  f.pinfo.ip = l /\ f.pinfo.gw = l /\ f.pinfo.mask = MaskOf(l)
    BY <2>1 DEF Settled
  <2>3. c \in Actives'
    BY <2>1 DEF Actives
  <2> QED
    BY <1>4, <2>1, <2>2, <2>3 DEF PassedLinkIsTheModems, MaskOf
<1> QED
  BY <1>10, <1>11, <1>12 DEF ParamsInv

LEMMA ReassignKeeps ==
  ASSUME ParamsInv, Reassign
  PROVE  ParamsInv'
<1>1. bearer \in [lease : Bearers, attached : BOOLEAN]
  BY DEF ParamsInv, LinkParamsTypeOK, Bearers
<1>2. bearer' \in [lease : Bearers, attached : BOOLEAN]
  <2>1. CASE \E l \in Changes(bearer.lease) : bearer' = [bearer EXCEPT !.lease = l]
    <3>1. Changes(bearer.lease) \subseteq Bearers
      BY <1>1 DEF Changes, Bearers
    <3> QED
      BY <1>1, <2>1, <3>1
  <2>2. CASE bearer' = [bearer EXCEPT !.attached = ~@]
    BY <1>1, <2>2
  <2> QED
    BY <2>1, <2>2 DEF Reassign
<1>3. /\ checked' = FALSE
      /\ UNCHANGED <<linkFamily, linkPhase, alive, named, linkKeyed, pinfo, dev, told, silent, given>>
  BY DEF Reassign
<1>4. LinkParamsTypeOK'
  <2>1. bearer' \in [lease : [ToSet(ModemCids) -> Leases \cup {Off}], attached : BOOLEAN]
    BY <1>2 DEF Bearers
  <2>2. /\ linkFamily' \in LinkFamilies /\ linkPhase' \in {"startup", "dial", "connecting", "connected"}
        /\ alive' \in BOOLEAN /\ named' \in BOOLEAN /\ linkKeyed' \in BOOLEAN /\ checked' \in BOOLEAN
    BY <1>3 DEF ParamsInv, LinkParamsTypeOK
  <2>3. /\ pinfo' \in Infos /\ dev' \in Leases \cup {Zero} /\ told' \in Leases \cup {Zero}
        /\ silent' \in 0 .. Retries /\ given' \subseteq Leases
    BY <1>3 DEF ParamsInv, LinkParamsTypeOK, Infos
  <2> QED
    BY <2>1, <2>2, <2>3 DEF LinkParamsTypeOK, Infos
<1> QED
  BY <1>3, <1>4 DEF ParamsInv, GatewayGiven, CheckedInv, ClientInv, ToldIsUsed, PassedLinkIsTheModems

\* Whatever the modem, the leases and the contexts it lists, and however often the
\* network reassigns them, the invariant of the link holds.
THEOREM ParamsInductive == ParamsSpec => []ParamsInv
<1>1. ParamsInit => ParamsInv
  <2> SUFFICES ASSUME ParamsInit PROVE ParamsInv
    OBVIOUS
  <2>1. linkKeyed \in BOOLEAN /\ named \in BOOLEAN
    BY DEF ParamsInit
  <2>2. bearer \in [lease : [ToSet(ModemCids) -> Leases \cup {Off}], attached : BOOLEAN]
    <3> DEFINE none == [c \in ToSet(ModemCids) |-> Off]
    <3>1. none \in [ToSet(ModemCids) -> Leases \cup {Off}] /\ bearer = [lease |-> none, attached |-> TRUE]
      BY DEF ParamsInit
    <3> HIDE DEF none
    <3> QED
      BY <3>1
  <2>3. pinfo = [ip |-> Zero, gw |-> Zero, mask |-> Zero, dns |-> Zero, up |-> FALSE]
    BY DEF ParamsInit, Cleared
  <2>4. silent \in 0 .. Retries
    BY LinkParamsConstantsOK DEF ParamsInit
  <2>5. /\ linkFamily \in LinkFamilies /\ linkPhase = "startup" /\ alive = FALSE /\ checked = FALSE
        /\ dev = Zero /\ told = Zero /\ given = {}
    BY DEF ParamsInit
  <2>6. LinkParamsTypeOK
    BY <2>1, <2>2, <2>3, <2>4, <2>5 DEF LinkParamsTypeOK
  <2> QED
    BY <2>3, <2>5, <2>6 DEF ParamsInv, GatewayGiven, ClientInv, CheckedInv, ToldIsUsed, PassedLinkIsTheModems
<1>2. ParamsInv /\ [ParamsNext]_linkVars => ParamsInv'
  <2> SUFFICES ASSUME ParamsInv, [ParamsNext]_linkVars PROVE ParamsInv'
    OBVIOUS
  <2>1. CASE UNCHANGED linkVars
    BY <2>1 DEF linkVars, ParamsInv, LinkParamsTypeOK, GatewayGiven, ClientInv, CheckedInv, ToldIsUsed,
       PassedLinkIsTheModems, HasAddress, Actives, First, MaskOf
  <2>2. CASE PollPlainAny
    BY <2>2, PollPlainKeeps DEF PollPlainAny
  <2>3. CASE PollBridgeAny
    BY <2>3, PollBridgeKeeps DEF PollBridgeAny
  <2> QED
    BY <2>1, <2>2, <2>3, StartupLinkKeeps, StartClientKeeps, StartBridgeKeeps, BoundKeeps, DownSteps,
       SmallSteps, ReassignKeeps DEF ParamsNext
<1> QED
  BY <1>1, <1>2, PTL DEF ParamsSpec

\* LinkIsOfDial: gateway and address of an announced link are of this dial, a link the
\* poll has let pass is as the modem has it, and the services were told of the address it has.
THEOREM LinkAlwaysOfDial == ParamsSpec => []LinkIsOfDial
<1>1. ParamsInv => LinkIsOfDial
  <2> SUFFICES ASSUME ParamsInv PROVE LinkIsOfDial
    OBVIOUS
  <2>1. ToldIsUsed
    BY DEF ParamsInv, ClientInv, ToldIsUsed, DhcpLinks, QmiLinks, BridgeLinks
  <2> QED
    BY <2>1 DEF ParamsInv, GatewayGiven, GatewayIsOfDial, LinkIsOfDial
<1> QED
  BY <1>1, ParamsInductive, PTL

-----------------------------------------------------------------------------
(* The configuration of a dial.                                            *)

-----------------------------------------------------------------------------
(* Lists of commands, put together from shorter ones.                      *)

IsList(s) == \E S : s \in Seq(S)

LEMMA ListFacts ==
  ASSUME NEW s, IsList(s)
  PROVE  Len(s) \in Nat /\ DOMAIN s = 1 .. Len(s)
BY LenProperties DEF IsList

LEMMA ListOfOne ==
  ASSUME NEW c
  PROVE  IsList(<<c>>) /\ Len(<<c>>) = 1 /\ <<c>>[1] = c
<1>1. <<c>> \in Seq({c})
  OBVIOUS
<1> QED
  BY <1>1 DEF IsList

LEMMA ListOfNone == IsList(Nothing) /\ Len(Nothing) = 0
<1>1. <<>> \in Seq({})
  OBVIOUS
<1> QED
  BY <1>1 DEF IsList, Nothing

LEMMA ListsJoined ==
  ASSUME NEW s, NEW t, IsList(s), IsList(t)
  PROVE  /\ IsList(s \o t) /\ Len(s \o t) = Len(s) + Len(t)
         /\ \A i \in 1 .. Len(s \o t) :
              (s \o t)[i] = IF i <= Len(s) THEN s[i] ELSE t[i - Len(s)]
<1>1. PICK S : s \in Seq(S)
  BY DEF IsList
<1>2. PICK T : t \in Seq(T)
  BY DEF IsList
<1>3. s \in Seq(S \cup T) /\ t \in Seq(S \cup T)
  <2>1. S \subseteq S \cup T /\ T \subseteq S \cup T
    OBVIOUS
  <2> QED
    BY <1>1, <1>2, <2>1, SeqMonotonic
<1> QED
  BY <1>3, ConcatProperties DEF IsList

\* The field of a context that a command sets, and to what.
SetsField(c, f, cid) == IF f = "apn" THEN SetsApn(c, cid) ELSE SetsCreds(c, cid)
FieldOf(c, f)        == IF f = "apn" THEN c.apn ELSE c.creds

\* Whoever obeys the list to its end has this value in the end, if he has had it
\* before; or in any case.
Keeps(s, f, cid, a) ==
  /\ IsList(s)
  /\ \A i \in DOMAIN s : SetsField(s[i], f, cid) => FieldOf(s[i], f) = <<a>>
Ends(s, f, cid, a) ==
  /\ IsList(s)
  /\ \E i \in DOMAIN s :
       /\ SetsField(s[i], f, cid)
       /\ \A j \in DOMAIN s : j >= i /\ SetsField(s[j], f, cid) => FieldOf(s[j], f) = <<a>>

LEMMA KeepsJoined ==
  ASSUME NEW s, NEW t, NEW f, NEW cid, NEW a, Keeps(s, f, cid, a), Keeps(t, f, cid, a)
  PROVE  Keeps(s \o t, f, cid, a)
<1>1. IsList(s) /\ IsList(t)
  BY DEF Keeps
<1>2. /\ IsList(s \o t) /\ Len(s \o t) = Len(s) + Len(t)
      /\ \A i \in 1 .. Len(s \o t) :
           (s \o t)[i] = IF i <= Len(s) THEN s[i] ELSE t[i - Len(s)]
  BY <1>1, ListsJoined
<1>3. /\ Len(s) \in Nat /\ DOMAIN s = 1 .. Len(s) /\ Len(t) \in Nat /\ DOMAIN t = 1 .. Len(t)
      /\ DOMAIN (s \o t) = 1 .. Len(s \o t)
  BY <1>1, <1>2, ListFacts
<1>4. ASSUME NEW i \in DOMAIN (s \o t), SetsField((s \o t)[i], f, cid)
      PROVE  FieldOf((s \o t)[i], f) = <<a>>
  <2>1. CASE i <= Len(s)
    <3>1. i \in DOMAIN s /\ (s \o t)[i] = s[i]
      BY <1>2, <1>3, <2>1
    <3> QED
      BY <1>4, <3>1 DEF Keeps
  <2>2. CASE ~(i <= Len(s))
    <3>1. i - Len(s) \in DOMAIN t /\ (s \o t)[i] = t[i - Len(s)]
      BY <1>2, <1>3, <2>2
    <3> QED
      BY <1>4, <3>1 DEF Keeps
  <2> QED
    BY <2>1, <2>2
<1> QED
  BY <1>2, <1>4 DEF Keeps

LEMMA EndsJoined ==
  ASSUME NEW s, NEW t, NEW f, NEW cid, NEW a, IsList(s),
         Ends(t, f, cid, a) \/ (Ends(s, f, cid, a) /\ Keeps(t, f, cid, a))
  PROVE  Ends(s \o t, f, cid, a)
<1>1. IsList(t)
  BY DEF Keeps, Ends
<1>2. /\ IsList(s \o t) /\ Len(s \o t) = Len(s) + Len(t)
      /\ \A i \in 1 .. Len(s \o t) :
           (s \o t)[i] = IF i <= Len(s) THEN s[i] ELSE t[i - Len(s)]
  BY <1>1, ListsJoined
<1>3. /\ Len(s) \in Nat /\ DOMAIN s = 1 .. Len(s) /\ Len(t) \in Nat /\ DOMAIN t = 1 .. Len(t)
      /\ DOMAIN (s \o t) = 1 .. Len(s \o t)
  BY <1>1, <1>2, ListFacts
<1>4. CASE Ends(t, f, cid, a)
  <2>1. PICK k \in DOMAIN t :
          /\ SetsField(t[k], f, cid)
          /\ \A j \in DOMAIN t : j >= k /\ SetsField(t[j], f, cid) => FieldOf(t[j], f) = <<a>>
    BY <1>4 DEF Ends
  <2>2. Len(s) + k \in DOMAIN (s \o t) /\ (s \o t)[Len(s) + k] = t[k]
    BY <1>2, <1>3
  <2>3. ASSUME NEW j \in DOMAIN (s \o t), j >= Len(s) + k, SetsField((s \o t)[j], f, cid)
        PROVE  FieldOf((s \o t)[j], f) = <<a>>
    <3>1. j - Len(s) \in DOMAIN t /\ j - Len(s) >= k /\ (s \o t)[j] = t[j - Len(s)]
      BY <1>2, <1>3, <2>3
    <3> QED
      BY <2>1, <2>3, <3>1
  <2> QED
    BY <1>2, <2>1, <2>2, <2>3 DEF Ends
<1>5. CASE Ends(s, f, cid, a) /\ Keeps(t, f, cid, a)
  <2>1. PICK k \in DOMAIN s :
          /\ SetsField(s[k], f, cid)
          /\ \A j \in DOMAIN s : j >= k /\ SetsField(s[j], f, cid) => FieldOf(s[j], f) = <<a>>
    BY <1>5 DEF Ends
  <2>2. k \in DOMAIN (s \o t) /\ (s \o t)[k] = s[k]
    BY <1>2, <1>3
  <2>3. ASSUME NEW j \in DOMAIN (s \o t), j >= k, SetsField((s \o t)[j], f, cid)
        PROVE  FieldOf((s \o t)[j], f) = <<a>>
    <3>1. CASE j <= Len(s)
      <4>1. j \in DOMAIN s /\ (s \o t)[j] = s[j]
        BY <1>2, <1>3, <3>1
      <4> QED
        BY <2>1, <2>3, <4>1
    <3>2. CASE ~(j <= Len(s))
      <4>1. j - Len(s) \in DOMAIN t /\ (s \o t)[j] = t[j - Len(s)]
        BY <1>2, <1>3, <3>2
      <4> QED
        BY <1>5, <2>3, <4>1 DEF Keeps
    <3> QED
      BY <3>1, <3>2
  <2> QED
    BY <1>2, <2>1, <2>2, <2>3 DEF Ends
<1> QED
  BY <1>4, <1>5

\* What a list ends with is what the modem has when it was told all of it.
LEMMA ToldInFull ==
  ASSUME NEW m, NEW s, NEW cid \in Cids, NEW a
  PROVE  /\ Ends(s, "apn", cid, a) => Told(m, s, {}).apn[cid] = a
         /\ Ends(s, "creds", cid, a) => Told(m, s, {}).creds[cid] = a
<1>1. ASSUME Ends(s, "apn", cid, a) PROVE Told(m, s, {}).apn[cid] = a
  <2> DEFINE S == {i \in DOMAIN s \ {} : SetsApn(s[i], cid)}
  <2>1. Len(s) \in Nat /\ DOMAIN s = 1 .. Len(s)
    BY <1>1, ListFacts DEF Ends
  <2>2. PICK k \in S : \A j \in S : j >= k => s[j].apn = <<a>>
    BY <1>1 DEF Ends, SetsField, FieldOf
  <2>3. S \in SUBSET (1 .. Len(s)) /\ S # {}
    BY <2>1, <2>2
  <2>4. Told(m, s, {}).apn[cid] = IF S = {} THEN m.apn[cid] ELSE s[Max(S)].apn[1]
    BY DEF Told
  <2> HIDE DEF S
  <2>5. Max(S) \in S /\ \A y \in S : y <= Max(S)
    BY <2>1, <2>3, MaxIsMember
  <2>6. Max(S) >= k
    BY <2>1, <2>2, <2>3, <2>5
  <2>7. s[Max(S)].apn = <<a>>
    BY <2>2, <2>5, <2>6
  <2> QED
    BY <2>3, <2>4, <2>7
<1>2. ASSUME Ends(s, "creds", cid, a) PROVE Told(m, s, {}).creds[cid] = a
  <2> DEFINE S == {i \in DOMAIN s \ {} : SetsCreds(s[i], cid)}
  <2>1. Len(s) \in Nat /\ DOMAIN s = 1 .. Len(s)
    BY <1>2, ListFacts DEF Ends
  <2>2. PICK k \in S : \A j \in S : j >= k => s[j].creds = <<a>>
    BY <1>2 DEF Ends, SetsField, FieldOf
  <2>3. S \in SUBSET (1 .. Len(s)) /\ S # {}
    BY <2>1, <2>2
  <2>4. Told(m, s, {}).creds[cid] = IF S = {} THEN m.creds[cid] ELSE s[Max(S)].creds[1]
    BY DEF Told
  <2> HIDE DEF S
  <2>5. Max(S) \in S /\ \A y \in S : y <= Max(S)
    BY <2>1, <2>3, MaxIsMember
  <2>6. Max(S) >= k
    BY <2>1, <2>2, <2>3, <2>5
  <2>7. s[Max(S)].creds = <<a>>
    BY <2>2, <2>5, <2>6
  <2> QED
    BY <2>3, <2>4, <2>7
<1> QED
  BY <1>1, <1>2
-----------------------------------------------------------------------------
(* A single command, or two.                                               *)

Setting(cid, apn, creds) == [what |-> "set", cid |-> cid, apn |-> apn, creds |-> creds]

LEMMA OneSetting ==
  ASSUME NEW x, NEW apn, NEW creds, NEW cid
  PROVE  /\ IsList(Set(x, apn, creds))
         /\ \A a : (x = cid /\ apn # <<>> => apn = <<a>>) => Keeps(Set(x, apn, creds), "apn", cid, a)
         /\ \A a : (x = cid /\ creds # <<>> => creds = <<a>>)
                     => Keeps(Set(x, apn, creds), "creds", cid, a)
         /\ \A a : x = cid /\ apn = <<a>> => Ends(Set(x, apn, creds), "apn", cid, a)
         /\ \A a : x = cid /\ creds = <<a>> => Ends(Set(x, apn, creds), "creds", cid, a)
<1> DEFINE c == Setting(x, apn, creds)
<1>1. Set(x, apn, creds) = <<c>>
  BY DEF Set, Setting
<1>2. c.what = "set" /\ c.cid = x /\ c.apn = apn /\ c.creds = creds
  BY DEF Setting
<1> HIDE DEF c
<1>3. IsList(<<c>>) /\ DOMAIN <<c>> = {1} /\ <<c>>[1] = c
  BY ListOfOne
<1>4. ASSUME NEW a PROVE /\ (x = cid /\ apn # <<>> => apn = <<a>>) => Keeps(<<c>>, "apn", cid, a)
                         /\ (x = cid /\ creds # <<>> => creds = <<a>>) => Keeps(<<c>>, "creds", cid, a)
  BY <1>2, <1>3 DEF Keeps, SetsField, FieldOf, SetsApn, SetsCreds
<1>5. ASSUME NEW a PROVE /\ x = cid /\ apn = <<a>> => Ends(<<c>>, "apn", cid, a)
                         /\ x = cid /\ creds = <<a>> => Ends(<<c>>, "creds", cid, a)
  <2>1. <<a>> # <<>>
    OBVIOUS
  <2> QED
    BY <1>2, <1>3, <2>1 DEF Ends, SetsField, FieldOf, SetsApn, SetsCreds
<1> QED
  BY <1>1, <1>3, <1>4, <1>5

\* A command that is no setting leaves every context as it is.
LEMMA NoSetting ==
  ASSUME NEW x, NEW f, NEW cid, NEW a
  PROVE  /\ Keeps(Nothing, f, cid, a) /\ Keeps(Link(x), f, cid, a) /\ Keeps(Rule(x), f, cid, a)
         /\ IsList(Link(x)) /\ IsList(Rule(x))
<1>1. Keeps(Nothing, f, cid, a)
  <2>1. DOMAIN Nothing = 1 .. 0
    BY ListOfNone, ListFacts
  <2> QED
    BY ListOfNone, <2>1 DEF Keeps
<1>2. ASSUME NEW c, c.what # "set" PROVE Keeps(<<c>>, f, cid, a)
  <2>1. IsList(<<c>>) /\ DOMAIN <<c>> = {1} /\ <<c>>[1] = c
    BY ListOfOne
  <2> QED
    BY <1>2, <2>1 DEF Keeps, SetsField, SetsApn, SetsCreds
<1>3. [what |-> "link", cid |-> x].what # "set" /\ [what |-> "rule", cid |-> x].what # "set"
  OBVIOUS
<1> QED
  BY <1>1, <1>2, <1>3, ListOfOne DEF Link, Rule

\* SetAuth() is one setting, or none.
LEMMA AuthSetting ==
  ASSUME NEW p, NEW x, NEW cid
  PROVE  /\ IsList(SetAuth(p, x))
         /\ \A a : (AuthContext(x) = cid /\ family \in NamesApn => family # "FG360" /\ p.apn = a)
                      => Keeps(SetAuth(p, x), "apn", cid, a)
         /\ \A a : (AuthContext(x) = cid => a = Creds(p))
                      => Keeps(SetAuth(p, x), "creds", cid, a)
         /\ family \in HasAuth \ NeverCleared /\ AuthContext(x) = cid
              => Ends(SetAuth(p, x), "creds", cid, Creds(p))
<1> DEFINE apn == IF family \notin NamesApn THEN <<>>
                  ELSE IF family = "FG360" /\ imsi \in Verizon THEN <<"IMS">> ELSE <<p.apn>>
           one == Set(AuthContext(x), apn, <<Creds(p)>>)
<1>1. /\ SetAuth(p, x) \in {Nothing, one}
      /\ family \in HasAuth \ NeverCleared => SetAuth(p, x) = one
  BY DEF SetAuth, AuthCommand
<1>2. \A a : (AuthContext(x) = cid /\ family \in NamesApn => family # "FG360" /\ p.apn = a)
               => (AuthContext(x) = cid /\ apn # <<>> => apn = <<a>>)
  OBVIOUS
<1> HIDE DEF apn
<1>3. IsList(one)
  BY OneSetting
<1>4. ASSUME NEW a, AuthContext(x) = cid /\ family \in NamesApn => family # "FG360" /\ p.apn = a
      PROVE  Keeps(one, "apn", cid, a)
  <2>1. AuthContext(x) = cid /\ apn # <<>> => apn = <<a>>
    BY <1>2, <1>4
  <2> QED
    BY <2>1, OneSetting
<1>5. ASSUME NEW a, AuthContext(x) = cid => a = Creds(p) PROVE Keeps(one, "creds", cid, a)
  BY <1>5, OneSetting
<1>6. AuthContext(x) = cid => Ends(one, "creds", cid, Creds(p))
  BY OneSetting
<1> HIDE DEF one
<1> QED
  BY <1>1, <1>3, <1>4, <1>5, <1>6, ListOfNone, NoSetting
-----------------------------------------------------------------------------
(* What the setup before a connection ends with.                           *)

LEMMA Contexts ==
  /\ PdpContextId \in {1, 3} /\ ContextId \in {1, 3} /\ SecondContextId = 6
  /\ family \in TwoContexts => \A x : AuthContext(x) = x
  /\ "FG360" \notin TwoContexts
  /\ family \in TwoContexts => family \notin NeverCleared
BY DEF PdpContextId, ContextId, SecondContextId, AuthContext, NeverCleared, TwoContexts, Qmi

LEMMA SetupEnds ==
  ASSUME NEW p, family # "FG360", HasSecond => family \in TwoContexts, p.apn # None
  PROVE  /\ IsList(PdpSetup(p))
         /\ (family \in NamesApn => p.apn # Blank)
              => Ends(PdpSetup(p), "apn", ContextId, Unblank(p.apn))
         /\ family \in HasAuth \ NeverCleared
              => Ends(PdpSetup(p), "creds", AuthContext(ContextId), Creds(p))
         /\ HasSecond => Ends(PdpSetup(p), "apn", SecondContextId, TheSecond.apn)
<1> DEFINE a == SetPdp(ContextId, Unblank(p.apn))
           b == IF HasSecond THEN SetPdp(SecondContextId, TheSecond.apn) ELSE Nothing
           c == SetAuth(p, ContextId)
           d == IF HasSecond THEN SetAuth(TheSecond, SecondContextId) ELSE Nothing
<1>1. PdpSetup(p) = ((a \o b) \o c) \o d
  BY DEF PdpSetup
<1>2. IsList(a) /\ IsList(b) /\ IsList(c) /\ IsList(d)
  BY OneSetting, ListOfNone, AuthSetting DEF SetPdp
<1>3. IsList(a \o b) /\ IsList((a \o b) \o c) /\ IsList(((a \o b) \o c) \o d)
  <2> HIDE DEF a, b, c, d
  <2>1. IsList(a \o b)
    BY <1>2, ListsJoined
  <2>2. IsList((a \o b) \o c)
    BY <1>2, <2>1, ListsJoined
  <2> QED
    BY <1>2, <2>1, <2>2, ListsJoined
<1>4. ASSUME family \in NamesApn => p.apn # Blank
      PROVE  Ends(((a \o b) \o c) \o d, "apn", ContextId, Unblank(p.apn))
  <2> DEFINE v == Unblank(p.apn)
  <2>1. Ends(a, "apn", ContextId, v)
    BY OneSetting DEF SetPdp
  <2>2. Keeps(b, "apn", ContextId, v)
    <3>1. SecondContextId # ContextId
      BY Contexts
    <3> QED
      BY <3>1, OneSetting, NoSetting DEF SetPdp
  <2>3. Keeps(c, "apn", ContextId, v)
    <3>1. family \in NamesApn => p.apn = v
      BY <1>4 DEF Unblank
    <3> HIDE DEF v
    <3> QED
      BY <3>1, AuthSetting
  <2>4. Keeps(d, "apn", ContextId, v)
    <3>1. HasSecond => AuthContext(SecondContextId) # ContextId
      BY Contexts
    <3> HIDE DEF v
    <3> QED
      BY <3>1, AuthSetting, NoSetting
  <2> HIDE DEF a, b, c, d, v
  <2>5. Ends(a \o b, "apn", ContextId, v)
    BY <1>2, <2>1, <2>2, EndsJoined
  <2>6. Ends((a \o b) \o c, "apn", ContextId, v)
    BY <1>3, <2>3, <2>5, EndsJoined
  <2>7. Ends(((a \o b) \o c) \o d, "apn", ContextId, v)
    BY <1>3, <2>4, <2>6, EndsJoined
  <2> QED
    BY <2>7 DEF v
<1>5. ASSUME family \in HasAuth \ NeverCleared
      PROVE  Ends(((a \o b) \o c) \o d, "creds", AuthContext(ContextId), Creds(p))
  <2>1. Ends(c, "creds", AuthContext(ContextId), Creds(p))
    BY <1>5, AuthSetting
  <2>2. Keeps(d, "creds", AuthContext(ContextId), Creds(p))
    <3>1. HasSecond => AuthContext(SecondContextId) # AuthContext(ContextId)
      BY Contexts
    <3> QED
      BY <3>1, AuthSetting, NoSetting
  <2> HIDE DEF a, b, c, d
  <2>3. Ends((a \o b) \o c, "creds", AuthContext(ContextId), Creds(p))
    BY <1>3, <2>1, EndsJoined
  <2> QED
    BY <1>3, <2>2, <2>3, EndsJoined
<1>6. ASSUME HasSecond
      PROVE  Ends(((a \o b) \o c) \o d, "apn", SecondContextId, TheSecond.apn)
  <2>1. Ends(b, "apn", SecondContextId, TheSecond.apn)
    BY <1>6, OneSetting DEF SetPdp
  <2>2. Keeps(c, "apn", SecondContextId, TheSecond.apn)
    <3>1. AuthContext(ContextId) # SecondContextId
      BY <1>6, Contexts
    <3> QED
      BY <3>1, AuthSetting
  <2>3. Keeps(d, "apn", SecondContextId, TheSecond.apn)
    BY <1>6, AuthSetting
  <2> HIDE DEF a, b, c, d
  <2>4. Ends(a \o b, "apn", SecondContextId, TheSecond.apn)
    BY <1>2, <2>1, EndsJoined
  <2>5. Ends((a \o b) \o c, "apn", SecondContextId, TheSecond.apn)
    BY <1>3, <2>2, <2>4, EndsJoined
  <2> QED
    BY <1>3, <2>3, <2>5, EndsJoined
<1> HIDE DEF a, b, c, d
<1> QED
  BY <1>1, <1>3, <1>4, <1>5, <1>6

\* A tail of the list that sets what it has already got, or nothing, changes nothing.
LEMMA ConnectKeeps ==
  ASSUME NEW p, NEW x, NEW f \in {"apn", "creds"}, NEW a,
         family = "ME909" /\ f = "apn" /\ x = 1 => a = p.apn,
         family = "ME909" /\ f = "creds" /\ x = 1 => a = Creds(p)
  PROVE  Keeps(Connect(p), f, x, a)
<1>1. ASSUME NEW i, NEW j PROVE Keeps(Link(i) \o Link(j), f, x, a)
  BY NoSetting, KeepsJoined
<1>2. family = "ME909" => Keeps(Set(1, <<p.apn>>, <<Creds(p)>>) \o Link(1), f, x, a)
  <2> SUFFICES ASSUME family = "ME909"
               PROVE  Keeps(Set(1, <<p.apn>>, <<Creds(p)>>) \o Link(1), f, x, a)
    OBVIOUS
  <2>1. Keeps(Set(1, <<p.apn>>, <<Creds(p)>>), f, x, a)
    <3>1. CASE f = "apn"
      BY <3>1, OneSetting
    <3>2. CASE f = "creds"
      BY <3>2, OneSetting
    <3> QED
      BY <3>1, <3>2
  <2> QED
    BY <2>1, NoSetting, KeepsJoined
<1> QED
  BY <1>1, <1>2, NoSetting DEF Connect
-----------------------------------------------------------------------------
(* The context of a dial all of whose commands were answered.              *)

\* A profile, and not the mark of an unused place.
IsProfile(a) ==
  /\ a = [apn |-> a.apn, user |-> a.user, password |-> a.password, dialno |-> a.dialno]
  /\ a.dialno # 0

AutoShape == IsProfile(auto)

\* What ContextIsOfProfile says it of.
Described ==
  LET p == TheProfile
  IN  /\ IF family \in Qmi THEN keyed ELSE family \in FixedContext => ~keyed
      /\ family \notin {"LE910", "ELS61"} \cup Ublox
      /\ family \in Ppp => p.dialno = IF OnSecondBearer(p) THEN 2 ELSE 1
      /\ HasSecond => family \in TwoContexts
      /\ p.apn \notin {None} \cup (IF family \in BlankIsLost THEN {Blank} ELSE {})

\* The list leaves the contexts as ContextIsOfProfile wants them.
EndsAsDialed(s, cid) ==
  /\ Ends(s, "apn", cid, Unblank(TheProfile.apn))
  /\ family \in (HasAuth \ NeverCleared) \ Ppp
       => Ends(s, "creds", AuthContext(cid), Creds(TheProfile))
  /\ HasSecond => Ends(s, "apn", SecondContextId, TheSecond.apn)

LEMMA SecondIsProfile == AutoShape /\ HasSecond => TheSecond # TypeNone
<1>1. DefaultProfile # TypeNone
  <2>1. DefaultProfile.dialno = 1 /\ TypeNone.dialno = 0
    BY DEF DefaultProfile, Profile, TypeNone
  <2> QED
    BY <2>1
<1>2. AutoShape => auto # TypeNone
  <2>1. TypeNone.dialno = 0
    BY DEF TypeNone
  <2> QED
    BY <2>1 DEF AutoShape, IsProfile
<1> QED
  BY <1>1, <1>2 DEF TheSecond, ProfileAt

LEMMA DialOfProfile ==
  ASSUME NEW cid, NEW s, NEW whole, AutoShape, UNCHANGED <<family, keyed>>, Dialed(cid, whole),
         whole /\ Described =>
           cid \in {1, 2, 3} /\ modem' = Told(modem, s, {}) /\ EndsAsDialed(s, cid)
  PROVE  ContextIsOfProfile'
<1> DEFINE p == TheProfile
           q == IF HasSecond THEN TheSecond ELSE TypeNone
<1>1. /\ dialed'.cid = cid /\ dialed'.profile = p /\ dialed'.other = q /\ dialed'.whole = whole
  BY DEF Dialed
<1>2. q # TypeNone <=> HasSecond
  BY SecondIsProfile
<1>3. ASSUME whole, Described
      PROVE  /\ modem'.apn[cid] = Unblank(p.apn)
             /\ family \in (HasAuth \ NeverCleared) \ Ppp => modem'.creds[AuthContext(cid)] = Creds(p)
             /\ q # TypeNone => modem'.apn[SecondContextId] = q.apn
  <2>1. cid \in {1, 2, 3} /\ modem' = Told(modem, s, {}) /\ EndsAsDialed(s, cid)
    BY <1>3
  <2>2. cid \in Cids /\ AuthContext(cid) \in Cids /\ SecondContextId \in Cids
    BY <2>1 DEF AuthContext, Cids, SecondContextId
  <2>3. modem'.apn[cid] = Unblank(p.apn)
    BY <2>1, <2>2, ToldInFull DEF EndsAsDialed
  <2>4. ASSUME family \in (HasAuth \ NeverCleared) \ Ppp
        PROVE  modem'.creds[AuthContext(cid)] = Creds(p)
    BY <2>1, <2>2, <2>4, ToldInFull DEF EndsAsDialed
  <2>5. ASSUME HasSecond PROVE modem'.apn[SecondContextId] = TheSecond.apn
    BY <2>1, <2>2, <2>5, ToldInFull DEF EndsAsDialed
  <2> QED
    BY <1>2, <2>3, <2>4, <2>5
<1> HIDE DEF p, q
<1>4. (whole /\ IF family \in Qmi THEN keyed ELSE family \in FixedContext => ~keyed)
      /\ family \notin {"LE910", "ELS61"} \cup Ublox
      /\ (family \in Ppp => p.dialno = IF OnSecondBearer(p) THEN 2 ELSE 1)
      /\ (q # TypeNone => family \in TwoContexts)
      /\ p.apn \notin {None} \cup (IF family \in BlankIsLost THEN {Blank} ELSE {})
      => whole /\ Described
  BY <1>2 DEF Described, p
<1>5. family' = family /\ keyed' = keyed
  OBVIOUS
<1> QED
  BY <1>1, <1>3, <1>4, <1>5 DEF ContextIsOfProfile, OnSecondBearer, AuthContext
LEMMA ActivateDataIsOfProfile ==
  ASSUME AutoShape, ActivateData
  PROVE  ContextIsOfProfile'
<1> DEFINE p == TheProfile
           s == PdpSetup(p) \o Connect(p)
           one == Set(PdpContextId, <<p.apn>>, <<Creds(p)>>)
<1>1. UNCHANGED <<family, keyed>>
  BY DEF ActivateData, Begin
<1>2. family \in Qmi \cup Dhcp \cup {"ELS81", "FG360"} /\ family # "RM520N"
  BY DEF ActivateData
<1>3. \/ family # "FG360" /\ \E no : modem' = Told(modem, s, no) /\ Dialed(LinkContext, no = {})
      \/ family = "FG360" /\ modem' = Told(modem, one, {}) /\ Dialed(LinkContext, TRUE)
      \/ Dialed(LinkContext, FALSE)
  BY DEF ActivateData
<1>4. ASSUME family # "FG360", Described
      PROVE  LinkContext \in {1, 2, 3} /\ EndsAsDialed(s, LinkContext)
  <2>1. LinkContext = ContextId
    BY <1>2, <1>4 DEF Described, LinkContext, ContextId, Qmi, Mipc, FixedContext
  <2>2. /\ p.apn # None /\ (family \in NamesApn \cup {"ME909"} => p.apn # Blank)
        /\ HasSecond => family \in TwoContexts
    BY <1>4 DEF Described, BlankIsLost
  <2>3. /\ IsList(PdpSetup(p)) /\ Ends(PdpSetup(p), "apn", ContextId, Unblank(p.apn))
        /\ family \in HasAuth \ NeverCleared
             => Ends(PdpSetup(p), "creds", AuthContext(ContextId), Creds(p))
        /\ HasSecond => Ends(PdpSetup(p), "apn", SecondContextId, TheSecond.apn)
    BY <1>4, <2>2, SetupEnds
  <2>4. Keeps(Connect(p), "apn", ContextId, Unblank(p.apn))
    BY <2>2, ConnectKeeps DEF Unblank
  <2>5. Keeps(Connect(p), "creds", AuthContext(ContextId), Creds(p))
    BY ConnectKeeps
  <2>6. Keeps(Connect(p), "apn", SecondContextId, TheSecond.apn)
    BY Contexts, ConnectKeeps
  <2> HIDE DEF p
  <2>7. /\ Ends(s, "apn", ContextId, Unblank(p.apn))
        /\ family \in HasAuth \ NeverCleared => Ends(s, "creds", AuthContext(ContextId), Creds(p))
        /\ HasSecond => Ends(s, "apn", SecondContextId, TheSecond.apn)
    BY <2>3, <2>4, <2>5, <2>6, EndsJoined
  <2> QED
    BY <2>1, <2>7, Contexts DEF EndsAsDialed, p
<1>5. ASSUME family = "FG360", Described
      PROVE  LinkContext \in {1, 2, 3} /\ EndsAsDialed(one, LinkContext)
  <2>1. LinkContext = PdpContextId /\ AuthContext(LinkContext) = PdpContextId
    BY <1>5 DEF LinkContext, Mipc, AuthContext, NeverCleared
  <2>2. p.apn = Unblank(p.apn) /\ ~HasSecond
    BY <1>5, Contexts DEF Described, BlankIsLost, NamesApn, Unblank
  <2>3. Ends(one, "apn", PdpContextId, p.apn) /\ Ends(one, "creds", PdpContextId, Creds(p))
    BY OneSetting
  <2> HIDE DEF one
  <2> QED
    BY <2>1, <2>2, <2>3, Contexts DEF EndsAsDialed
<1> HIDE DEF s, one
<1>6. CASE family # "FG360" /\ \E no : modem' = Told(modem, s, no) /\ Dialed(LinkContext, no = {})
  <2>1. PICK no : modem' = Told(modem, s, no) /\ Dialed(LinkContext, no = {})
    BY <1>6
  <2>2. no = {} /\ Described =>
          LinkContext \in {1, 2, 3} /\ modem' = Told(modem, s, {}) /\ EndsAsDialed(s, LinkContext)
    BY <1>4, <1>6, <2>1
  <2> QED
    BY <1>1, <2>1, <2>2, DialOfProfile
<1>7. CASE family = "FG360" /\ modem' = Told(modem, one, {}) /\ Dialed(LinkContext, TRUE)
  BY <1>1, <1>5, <1>7, DialOfProfile
<1>8. CASE Dialed(LinkContext, FALSE)
  BY <1>1, <1>8, DialOfProfile
<1> QED
  BY <1>3, <1>6, <1>7, <1>8

LEMMA ActivateQmapIsOfProfile ==
  ASSUME AutoShape, ActivateQmap
  PROVE  ContextIsOfProfile'
<1> DEFINE p == TheProfile
           rules == IF default_cid # ContextId THEN Rule(0) \o Rule(ContextId) ELSE Link(0)
<1>1. UNCHANGED <<family, keyed>> /\ family = "RM520N"
  BY DEF ActivateQmap, Begin
<1>2. \/ \E no : modem' = QmapModem(no) /\ Dialed(ContextId, no = {})
      \/ Dialed(ContextId, FALSE)
  BY DEF ActivateQmap
<1>3. QmapModem({}) = Told(modem, QmapCommands, {})
  BY DEF QmapModem, RuleRefused
<1>4. ASSUME Described
      PROVE  ContextId \in {1, 2, 3} /\ EndsAsDialed(QmapCommands, ContextId)
  <2>1. p.apn # None /\ family \notin NamesApn /\ (HasSecond => family \in TwoContexts)
    BY <1>1, <1>4 DEF Described, NamesApn, TwoContexts
  <2>2. /\ IsList(PdpSetup(p)) /\ Ends(PdpSetup(p), "apn", ContextId, Unblank(p.apn))
        /\ family \in HasAuth \ NeverCleared
             => Ends(PdpSetup(p), "creds", AuthContext(ContextId), Creds(p))
        /\ HasSecond => Ends(PdpSetup(p), "apn", SecondContextId, TheSecond.apn)
    BY <1>1, <1>4, <2>1, SetupEnds DEF Described, NamesApn, TwoContexts
  <2>3. ASSUME NEW f, NEW x, NEW a PROVE Keeps(rules, f, x, a) /\ Keeps(Link(ContextId), f, x, a)
    <3>1. Keeps(Rule(0) \o Rule(ContextId), f, x, a)
      BY NoSetting, KeepsJoined
    <3> QED
      BY <3>1, NoSetting
  <2>4. QmapCommands = (PdpSetup(p) \o rules) \o Link(ContextId)
    BY DEF QmapCommands
  <2> HIDE DEF p, rules
  <2>5. ASSUME NEW f, NEW x, NEW a, Ends(PdpSetup(p), f, x, a)
        PROVE  Ends(QmapCommands, f, x, a)
    <3>1. Ends(PdpSetup(p) \o rules, f, x, a)
      BY <2>2, <2>3, <2>5, EndsJoined
    <3>2. IsList(PdpSetup(p) \o rules)
      BY <3>1 DEF Ends
    <3> QED
      BY <2>3, <2>4, <3>1, <3>2, EndsJoined
  <2> QED
    BY <2>2, <2>5, Contexts DEF EndsAsDialed, p
<1>5. CASE \E no : modem' = QmapModem(no) /\ Dialed(ContextId, no = {})
  <2>1. PICK no : modem' = QmapModem(no) /\ Dialed(ContextId, no = {})
    BY <1>5
  <2>2. no = {} /\ Described =>
          /\ ContextId \in {1, 2, 3} /\ modem' = Told(modem, QmapCommands, {})
          /\ EndsAsDialed(QmapCommands, ContextId)
    BY <1>3, <1>4, <2>1
  <2> QED
    BY <1>1, <2>1, <2>2, DialOfProfile
<1>6. CASE Dialed(ContextId, FALSE)
  BY <1>1, <1>6, DialOfProfile
<1> QED
  BY <1>2, <1>5, <1>6

LEMMA DialPppIsOfProfile ==
  ASSUME AutoShape, DialPpp
  PROVE  ContextIsOfProfile'
<1> DEFINE p == TheProfile
           s == Chat(p)
<1>1. UNCHANGED <<family, keyed>> /\ family \in Ppp
  BY DEF DialPpp, Begin
<1>2. PICK n \in 0 .. Len(s) :
        modem' = Told(modem, SubSeq(s, 1, n), {}) /\ Dialed(p.dialno, n = Len(s))
  BY DEF DialPpp
<1>3. ASSUME Described PROVE p.dialno \in {1, 2, 3} /\ EndsAsDialed(s, p.dialno) /\ IsList(s)
  <2> DEFINE x == IF OnSecondBearer(p) THEN 2 ELSE 1
             c == SetPdp(x, p.apn)
  <2>1. /\ p.dialno = x /\ p.apn # None /\ p.apn # Blank
        /\ family \notin {"LE910", "ELS61"} \cup Ublox
        /\ HasSecond => family \in TwoContexts
    BY <1>1, <1>3 DEF Described, BlankIsLost
  <2>2. family \notin TwoContexts /\ family # "ELS31"
    BY <1>1 DEF Ppp, TwoContexts, Dhcp
  <2>3. s = c \o Link(p.dialno)
    BY <2>1, <2>2 DEF Chat, Ublox
  <2>4. Ends(c, "apn", x, p.apn) /\ IsList(c)
    BY OneSetting DEF SetPdp
  <2> HIDE DEF c
  <2>5. Ends(s, "apn", x, p.apn)
    BY <2>3, <2>4, NoSetting, EndsJoined
  <2>6. Unblank(p.apn) = p.apn /\ x \in {1, 2, 3} /\ ~HasSecond /\ IsList(s)
    BY <2>1, <2>2, <2>5 DEF Unblank, Ends
  <2> HIDE DEF x, s, p
  <2>7. EndsAsDialed(s, x)
    BY <1>1, <2>5, <2>6 DEF EndsAsDialed, p
  <2> QED
    BY <2>1, <2>6, <2>7
<1> HIDE DEF s, p
<1>4. n = Len(s) /\ Described =>
        /\ p.dialno \in {1, 2, 3} /\ modem' = Told(modem, s, {})
        /\ EndsAsDialed(s, p.dialno)
  <2> SUFFICES ASSUME n = Len(s), Described PROVE SubSeq(s, 1, n) = s
    BY <1>2, <1>3
  <2>1. PICK S : s \in Seq(S)
    BY <1>3 DEF IsList
  <2> QED
    BY <2>1, SubSeqFull
<1> QED
  BY <1>1, <1>2, <1>4, DialOfProfile
-----------------------------------------------------------------------------
(* The rule of an RM520N.                                                  *)

RuleFree(s) == IsList(s) /\ \A i \in DOMAIN s : s[i].what # "rule"

LEMMA RuleUntouched ==
  ASSUME NEW m, NEW s, NEW no, RuleFree(s)
  PROVE  Told(m, s, no).rule = m.rule
BY DEF RuleFree, Told

LEMMA RuleFreeJoined ==
  ASSUME NEW s, NEW t, RuleFree(s), RuleFree(t)
  PROVE  RuleFree(s \o t)
<1>1. IsList(s) /\ IsList(t)
  BY DEF RuleFree
<1>2. /\ IsList(s \o t) /\ Len(s \o t) = Len(s) + Len(t)
      /\ \A i \in 1 .. Len(s \o t) :
           (s \o t)[i] = IF i <= Len(s) THEN s[i] ELSE t[i - Len(s)]
  BY <1>1, ListsJoined
<1>3. /\ Len(s) \in Nat /\ DOMAIN s = 1 .. Len(s) /\ Len(t) \in Nat /\ DOMAIN t = 1 .. Len(t)
      /\ DOMAIN (s \o t) = 1 .. Len(s \o t)
  BY <1>1, <1>2, ListFacts
<1>4. ASSUME NEW i \in DOMAIN (s \o t) PROVE (s \o t)[i].what # "rule"
  <2>1. CASE i <= Len(s)
    <3>1. i \in DOMAIN s /\ (s \o t)[i] = s[i]
      BY <1>2, <1>3, <2>1
    <3> QED
      BY <3>1 DEF RuleFree
  <2>2. CASE ~(i <= Len(s))
    <3>1. i - Len(s) \in DOMAIN t /\ (s \o t)[i] = t[i - Len(s)]
      BY <1>2, <1>3, <2>2
    <3> QED
      BY <3>1 DEF RuleFree
  <2> QED
    BY <2>1, <2>2
<1> QED
  BY <1>2, <1>4 DEF RuleFree

\* Only Rule() names the rule.
LEMMA RuleFreeCommands ==
  /\ RuleFree(Nothing)
  /\ \A x, apn, creds : RuleFree(Set(x, apn, creds))
  /\ \A x, apn : RuleFree(SetPdp(x, apn))
  /\ \A x : RuleFree(Link(x))
  /\ \A p, x : RuleFree(SetAuth(p, x))
<1>1. RuleFree(Nothing)
  <2>1. DOMAIN Nothing = 1 .. 0
    BY ListOfNone, ListFacts
  <2> QED
    BY ListOfNone, <2>1 DEF RuleFree
<1>2. ASSUME NEW c, c.what # "rule" PROVE RuleFree(<<c>>)
  <2>1. IsList(<<c>>) /\ DOMAIN <<c>> = {1} /\ <<c>>[1] = c
    BY ListOfOne
  <2> QED
    BY <1>2, <2>1 DEF RuleFree
<1>3. ASSUME NEW x, NEW apn, NEW creds PROVE RuleFree(Set(x, apn, creds))
  <2>1. [what |-> "set", cid |-> x, apn |-> apn, creds |-> creds].what # "rule"
    OBVIOUS
  <2> QED
    BY <1>2, <2>1 DEF Set
<1>4. ASSUME NEW x PROVE RuleFree(Link(x))
  <2>1. [what |-> "link", cid |-> x].what # "rule"
    OBVIOUS
  <2> QED
    BY <1>2, <2>1 DEF Link
<1>5. ASSUME NEW x, NEW apn PROVE RuleFree(SetPdp(x, apn))
  BY <1>3 DEF SetPdp
<1>6. ASSUME NEW p, NEW x PROVE RuleFree(SetAuth(p, x))
  BY <1>1, <1>3 DEF SetAuth, AuthCommand
<1> QED
  BY <1>1, <1>3, <1>4, <1>5, <1>6

LEMMA SetupIsRuleFree ==
  ASSUME NEW p
  PROVE  RuleFree(PdpSetup(p)) /\ RuleFree(Connect(p)) /\ RuleFree(Chat(p))
<1>1. RuleFree(PdpSetup(p))
  <2> DEFINE a == IF p.apn # None THEN SetPdp(ContextId, Unblank(p.apn)) ELSE Nothing
             b == IF HasSecond THEN SetPdp(SecondContextId, TheSecond.apn) ELSE Nothing
             c == SetAuth(p, ContextId)
             d == IF HasSecond THEN SetAuth(TheSecond, SecondContextId) ELSE Nothing
  <2>1. PdpSetup(p) = ((a \o b) \o c) \o d
    BY DEF PdpSetup
  <2>2. RuleFree(a) /\ RuleFree(b) /\ RuleFree(c) /\ RuleFree(d)
    BY RuleFreeCommands
  <2> HIDE DEF a, b, c, d
  <2> QED
    BY <2>1, <2>2, RuleFreeJoined
<1>2. RuleFree(Connect(p))
  <2>1. ASSUME NEW x, NEW y PROVE RuleFree(Link(x) \o Link(y))
    BY RuleFreeCommands, RuleFreeJoined
  <2>2. RuleFree(Set(1, <<p.apn>>, <<Creds(p)>>) \o Link(1))
    BY RuleFreeCommands, RuleFreeJoined
  <2> QED
    BY <2>1, <2>2, RuleFreeCommands DEF Connect
<1>3. RuleFree(Chat(p))
  <2> DEFINE a == IF p.apn = None \/ family \in {"ELS61", "LARAR2", "TOBYL201"} THEN Nothing
                  ELSE CASE family \in {"LE910", "ELS31"} -> SetPdp(3, p.apn)
                         [] OnSecondBearer(p) -> SetPdp(2, p.apn)
                         [] family \in {"U8300", "U8300C"} /\ p.apn = Blank -> Nothing
                         [] OTHER -> SetPdp(1, p.apn)
  <2>1. Chat(p) = a \o Link(p.dialno)
    BY DEF Chat
  <2>2. RuleFree(a)
    BY RuleFreeCommands
  <2> HIDE DEF a
  <2> QED
    BY <2>1, <2>2, RuleFreeCommands, RuleFreeJoined
<1> QED
  BY <1>1, <1>2, <1>3

LEMMA TextIsRuleFree == RuleFree(TextCommands)
<1> DEFINE p == TheProfile
           x == IF family \in {"U8300", "U8300C"} THEN (IF p.dialno = 2 THEN 2 ELSE 1) ELSE ContextId
           both == SetAuth(p, x)
                   \o (IF family \in {"RM500", "RM520N"} /\ HasSecond
                       THEN SetAuth(TheSecond, SecondContextId) ELSE Nothing)
           three == Link(0) \o SetPdp(2, None) \o SetPdp(1, Unblank(p.apn))
           dual == (IF ContextId = 3 THEN SetPdp(1, "IMS") ELSE Nothing)
                   \o SetPdp(SecondContextId, IF HasSecond THEN TheSecond.apn ELSE None)
                   \o SetPdp(ContextId, p.apn)
<1>1. RuleFree(both)
  <2>1. RuleFree(SetAuth(p, x))
    BY RuleFreeCommands
  <2>2. RuleFree(IF family \in {"RM500", "RM520N"} /\ HasSecond
                 THEN SetAuth(TheSecond, SecondContextId) ELSE Nothing)
    BY RuleFreeCommands
  <2> QED
    BY <2>1, <2>2, RuleFreeJoined
<1>2. RuleFree(three)
  <2>1. RuleFree(Link(0) \o SetPdp(2, None))
    BY RuleFreeCommands, RuleFreeJoined
  <2> QED
    BY <2>1, RuleFreeCommands, RuleFreeJoined
<1>3. RuleFree(dual)
  <2> DEFINE a == IF ContextId = 3 THEN SetPdp(1, "IMS") ELSE Nothing
             b == SetPdp(SecondContextId, IF HasSecond THEN TheSecond.apn ELSE None)
             c == SetPdp(ContextId, p.apn)
  <2>1. RuleFree(a) /\ RuleFree(b) /\ RuleFree(c)
    BY RuleFreeCommands
  <2> HIDE DEF a, b, c
  <2>2. RuleFree((a \o b) \o c)
    BY <2>1, RuleFreeJoined
  <2> QED
    BY <2>2 DEF a, b, c
<1> HIDE DEF both, three, dual
<1>4. RuleFree(AuthText(p))
  BY <1>1, RuleFreeCommands DEF AuthText, both, x
<1>5. RuleFree(ApnText(p))
  <2>1. ApnText(p) =
          IF p.apn = None \/ family \in {"LE910", "ELS31", "FG360"} THEN Nothing
          ELSE IF OnSecondBearer(p) THEN (IF auto.apn # None THEN SetPdp(1, auto.apn) ELSE Nothing)
          ELSE CASE family \in {"PLS8", "ELS61", "ELS81"} -> three
                 [] family = "ME909" -> SetPdp(0, p.apn)
                 [] family \in {"U8300", "U8300C", "TOBYL201", "LARAR2"} -> SetPdp(1, Unblank(p.apn))
                 [] family \in DualApn -> dual
                 [] OTHER -> SetPdp(1, p.apn)
    BY DEF ApnText, three, dual
  <2> QED
    BY <1>2, <1>3, <2>1, RuleFreeCommands
<1>6. TextCommands \in {Nothing, AuthText(p) \o ApnText(p)}
  BY DEF TextCommands
<1>7. RuleFree(AuthText(p) \o ApnText(p))
  BY <1>4, <1>5, RuleFreeJoined
<1> QED
  BY <1>6, <1>7, RuleFreeCommands

LEMMA TextLeavesRule ==
  ASSUME NEW cmds, NEW cid, NEW p, RuleFree(cmds), TextAndReset(cmds, cid, p)
  PROVE  modem'.rule = modem.rule
<1> DEFINE all == cmds \o (IF NeedReset(modem, cid, p) THEN FunctionReset ELSE Nothing)
<1>1. PICK no : modem' = Told(modem, all, no)
  BY DEF TextAndReset
<1>2. RuleFree(all)
  <2>1. RuleFree(IF NeedReset(modem, cid, p) THEN FunctionReset ELSE Nothing)
    BY RuleFreeCommands DEF FunctionReset
  <2> QED
    BY <2>1, RuleFreeJoined
<1> HIDE DEF all
<1> QED
  BY <1>1, <1>2, RuleUntouched
LEMMA PartIsRuleFree ==
  ASSUME NEW s, RuleFree(s), NEW n \in 0 .. Len(s)
  PROVE  RuleFree(SubSeq(s, 1, n))
<1>1. PICK S : s \in Seq(S)
  BY DEF RuleFree, IsList
<1>2. Len(s) \in Nat /\ DOMAIN s = 1 .. Len(s) /\ \A i \in 1 .. n : s[i] \in S
  BY <1>1, LenProperties
<1>3. /\ SubSeq(s, 1, n) \in Seq(S) /\ Len(SubSeq(s, 1, n)) = n
      /\ \A i \in 1 .. n : SubSeq(s, 1, n)[i] = s[i]
  <2>1. /\ SubSeq(s, 1, n) \in Seq(S)
        /\ Len(SubSeq(s, 1, n)) = IF 1 <= n THEN n - 1 + 1 ELSE 0
        /\ \A i \in 1 .. n - 1 + 1 : SubSeq(s, 1, n)[i] = s[1 + i - 1]
    BY <1>2, SubSeqProperties
  <2>2. n \in Nat
    BY <1>2
  <2> QED
    BY <2>1, <2>2
<1>4. DOMAIN SubSeq(s, 1, n) = 1 .. n /\ 1 .. n \subseteq DOMAIN s
  BY <1>2, <1>3, LenProperties
<1> QED
  BY <1>3, <1>4 DEF RuleFree, IsList

\* A new rule is remembered as soon as it is set, and one that could not be set is
\* gone or as it was.
LEMMA QmapRule ==
  ASSUME RuleIsNotAnothers, NEW no, modem' = QmapModem(no), default_cid' = Remembered(no)
  PROVE  RuleIsNotAnothers'
<1> DEFINE s == PdpSetup(TheProfile)
           k == Len(s)
           t == QmapCommands
<1>1. RuleFree(s) /\ IsList(s) /\ k \in Nat /\ DOMAIN s = 1 .. k
  BY SetupIsRuleFree, ListFacts DEF RuleFree
<1>2. ContextId >= 0
  BY Contexts
<1>3. CASE default_cid = ContextId
  <2>1. t = (s \o Link(0)) \o Link(ContextId)
    BY <1>3 DEF QmapCommands
  <2>2. RuleFree(s \o Link(0))
    BY <1>1, RuleFreeCommands, RuleFreeJoined
  <2>3. RuleFree(t)
    BY <2>1, <2>2, RuleFreeCommands, RuleFreeJoined
  <2>4. ~RuleRefused(no)
    BY <1>3 DEF RuleRefused
  <2>5. modem' = Told(modem, t, no) /\ default_cid' = default_cid
    BY <1>3, <2>4 DEF QmapModem, Remembered
  <2> HIDE DEF t
  <2> QED
    BY <2>3, <2>5, RuleUntouched DEF RuleIsNotAnothers
<1>4. CASE default_cid # ContextId
  <2> DEFINE r0 == [what |-> "rule", cid |-> 0]
             r1 == [what |-> "rule", cid |-> ContextId]
             l1 == [what |-> "link", cid |-> ContextId]
  <2>1. t = (s \o (<<r0>> \o <<r1>>)) \o <<l1>>
    BY <1>4 DEF QmapCommands, Rule, Link
  <2>2. r0.what = "rule" /\ r1.what = "rule" /\ l1.what # "rule" /\ r0.cid = 0 /\ r1.cid = ContextId
    OBVIOUS
  <2> HIDE DEF r0, r1, l1, t, s
  <2> DEFINE two == <<r0>> \o <<r1>>
             most == s \o two
  <2>3. IsList(two) /\ Len(two) = 2 /\ two[1] = r0 /\ two[2] = r1
    BY ListOfOne, ListsJoined
  <2> HIDE DEF two
  <2>4. /\ IsList(most) /\ Len(most) = k + 2
        /\ \A i \in 1 .. k : most[i] = s[i]
        /\ most[k + 1] = r0 /\ most[k + 2] = r1
    <3>1. /\ IsList(most) /\ Len(most) = k + 2
          /\ \A i \in 1 .. k + 2 : most[i] = IF i <= k THEN s[i] ELSE two[i - k]
      <4>1. /\ IsList(most) /\ Len(most) = Len(s) + Len(two)
            /\ \A i \in 1 .. Len(most) : most[i] = IF i <= Len(s) THEN s[i] ELSE two[i - Len(s)]
        BY <1>1, <2>3, ListsJoined
      <4> HIDE DEF most
      <4> QED
        BY <2>3, <4>1
    <3>2. (k + 1) - k = 1 /\ (k + 2) - k = 2 /\ {k + 1, k + 2} \subseteq 1 .. k + 2
      BY <1>1
    <3> HIDE DEF most
    <3> QED
      BY <1>1, <2>3, <3>1, <3>2
  <2> HIDE DEF most
  <2>5. /\ DOMAIN t = 1 .. k + 3 /\ Len(t) = k + 3
        /\ \A i \in 1 .. k : t[i] = most[i]
        /\ t[k + 1] = r0 /\ t[k + 2] = r1 /\ t[k + 3] = l1
    <3>1. t = most \o <<l1>>
      BY <2>1 DEF most, two
    <3>2. IsList(<<l1>>) /\ Len(<<l1>>) = 1 /\ <<l1>>[1] = l1
      BY ListOfOne
    <3>3. /\ IsList(most \o <<l1>>) /\ Len(most \o <<l1>>) = k + 3
          /\ \A i \in 1 .. k + 3 :
               (most \o <<l1>>)[i] = IF i <= k + 2 THEN most[i] ELSE <<l1>>[i - (k + 2)]
      BY <1>1, <2>4, <3>2, ListsJoined
    <3>4. DOMAIN (most \o <<l1>>) = 1 .. k + 3
      BY <3>3, ListFacts
    <3> QED
      BY <1>1, <2>4, <3>1, <3>2, <3>3, <3>4
  <2>6. \A i \in 1 .. k : t[i].what # "rule"
    BY <1>1, <2>4, <2>5 DEF RuleFree
  <2>7. ASSUME NEW not PROVE {i \in DOMAIN t \ not : t[i].what = "rule"} = {k + 1, k + 2} \ not
    <3>1. ASSUME NEW i \in 1 .. k + 3 PROVE t[i].what = "rule" <=> i \in {k + 1, k + 2}
      <4>1. i \in 1 .. k \/ i = k + 1 \/ i = k + 2 \/ i = k + 3
        BY <1>1
      <4>2. i \in 1 .. k => i \notin {k + 1, k + 2}
        BY <1>1
      <4>3. k + 3 \notin {k + 1, k + 2}
        BY <1>1
      <4> QED
        BY <2>2, <2>5, <2>6, <4>1, <4>2, <4>3
    <3>2. {k + 1, k + 2} \subseteq 1 .. k + 3
      BY <1>1
    <3> QED
      BY <2>5, <3>1, <3>2
  <2>8. RuleRefused(no) <=> k + 2 \in no
    <3>1. Len(t) - 1 = k + 2
      BY <1>1, <2>5
    <3> QED
      BY <1>4, <3>1 DEF RuleRefused, t
  <2>9. CASE RuleRefused(no)
    <3> DEFINE not == no \cup {Len(t)}
               R == {i \in DOMAIN t \ not : t[i].what = "rule"}
    <3>1. default_cid' = default_cid /\ modem' = Told(modem, t, not)
      BY <2>9 DEF QmapModem, Remembered, t
    <3>2. modem'.rule = IF R = {} THEN modem.rule ELSE t[Max(R)].cid
      BY <3>1 DEF Told
    <3>3. R \subseteq {k + 1}
      BY <2>7, <2>8, <2>9
    <3>4. R # {} => Max(R) = k + 1
      <4> SUFFICES ASSUME R # {} PROVE Max(R) = k + 1
        OBVIOUS
      <4>1. R \in SUBSET (1 .. k + 3) /\ k + 3 \in Nat
        BY <1>1, <3>3
      <4> HIDE DEF R
      <4> QED
        BY <3>3, <4>1, MaxIsMember
    <3> HIDE DEF R
    <3> QED
      BY <2>2, <2>5, <3>1, <3>2, <3>4 DEF RuleIsNotAnothers
  <2>10. CASE ~RuleRefused(no)
    <3> DEFINE R == {i \in DOMAIN t \ no : t[i].what = "rule"}
    <3>1. default_cid' = ContextId /\ modem' = Told(modem, t, no)
      BY <2>10 DEF QmapModem, Remembered, t
    <3>2. modem'.rule = IF R = {} THEN modem.rule ELSE t[Max(R)].cid
      BY <3>1 DEF Told
    <3>3. R \subseteq {k + 1, k + 2} /\ k + 2 \in R
      BY <2>7, <2>8, <2>10
    <3>4. Max(R) = k + 2
      <4>1. R \in SUBSET (1 .. k + 3) /\ k + 3 \in Nat /\ R # {}
        BY <1>1, <3>3
      <4> HIDE DEF R
      <4>2. Max(R) \in R /\ k + 2 <= Max(R)
        BY <3>3, <4>1, MaxIsMember
      <4>3. Max(R) \in {k + 1, k + 2}
        BY <3>3, <4>2
      <4>4. ASSUME NEW m \in {k + 1, k + 2}, k + 2 <= m PROVE m = k + 2
        BY <1>1, <4>4
      <4> QED
        BY <4>2, <4>3, <4>4
    <3> HIDE DEF R
    <3> QED
      BY <2>2, <2>5, <3>1, <3>2, <3>3, <3>4 DEF RuleIsNotAnothers
  <2> QED
    BY <2>9, <2>10
<1> QED
  BY <1>3, <1>4

-----------------------------------------------------------------------------
(* The profile that is chosen for the operator of the card.                *)

Changed(a, x, y, z) == [a EXCEPT !.apn = x, !.user = y, !.password = z]

LEMMA ChangedProfile ==
  ASSUME NEW a, IsProfile(a), NEW x, NEW y, NEW z
  PROVE  Changed(a, x, y, z)
           = [apn |-> x, user |-> y, password |-> z, dialno |-> a.dialno]
<1> DEFINE b == [a EXCEPT !.apn = x]
           c == [b EXCEPT !.user = y]
<1>1. Changed(a, x, y, z) = [c EXCEPT !.password = z]
  BY DEF Changed
<1>2. b = [apn |-> x, user |-> a.user, password |-> a.password, dialno |-> a.dialno]
  BY DEF IsProfile
<1> HIDE DEF b
<1>3. c = [apn |-> x, user |-> y, password |-> a.password, dialno |-> a.dialno]
  BY <1>2
<1> HIDE DEF c
<1> QED
  BY <1>1, <1>3

LEMMA SelectedProfile ==
  ASSUME NEW op, NEW a, IsProfile(a)
  PROVE  LET x == SelectNetApn(op, a)
             line == NetLine(op)
         IN  /\ IsProfile(x)
             /\ line # NoLine =>
                  /\ x.apn = line[1]
                  /\ Len(line) = 1 => x.user = None
                  /\ Len(line) = 3 => x.user = line[2] /\ x.password = line[3]
<1> DEFINE n == IF family = "LE910" THEN 3 ELSE 1
           base == [a EXCEPT !.dialno = n]
           line == NetLine(op)
<1>1. n # 0
  OBVIOUS
<1> HIDE DEF n
<1>2. base = [apn |-> a.apn, user |-> a.user, password |-> a.password, dialno |-> n]
  BY DEF IsProfile
<1>3. IsProfile(base)
  BY <1>1, <1>2 DEF IsProfile
<1>4. SelectNetApn(op, a) = IF line = NoLine THEN UseDefault(base) ELSE UseLine(line, base)
  BY DEF SelectNetApn, n
<1> HIDE DEF base, line
<1>5. IsProfile(UseDefault(base))
  <2>1. base.dialno # 0
    BY <1>3 DEF IsProfile
  <2>2. UseDefault(base) \in {Changed(base, None, "card", "card"),
                              Changed(base, "uninet", "gprs", "gprs")}
    BY DEF UseDefault, Changed
  <2>3. ASSUME NEW u, NEW v, NEW w
        PROVE  Changed(base, u, v, w) = [apn |-> u, user |-> v, password |-> w, dialno |-> base.dialno]
    BY <1>3, ChangedProfile
  <2>4. ASSUME NEW u, NEW v, NEW w
        PROVE  IsProfile([apn |-> u, user |-> v, password |-> w, dialno |-> base.dialno])
    BY <2>1 DEF IsProfile
  <2> QED
    BY <2>2, <2>3, <2>4 DEF UseDefault
<1>6. /\ IsProfile(UseLine(line, base)) /\ UseLine(line, base).apn = line[1]
      /\ Len(line) = 1 => UseLine(line, base).user = None
      /\ Len(line) = 3 => UseLine(line, base).user = line[2] /\ UseLine(line, base).password = line[3]
  <2> DEFINE user == CASE Len(line) = 1 -> None
                       [] Len(line) = 2 -> line[2] \o ";"
                       [] OTHER -> line[2]
             password == IF Len(line) > 2 THEN line[3] ELSE base.password
  <2>1. UseLine(line, base) = Changed(base, line[1], user, password)
    BY DEF UseLine, Changed
  <2>2. Len(line) = 1 => user = None
    OBVIOUS
  <2>3. Len(line) = 3 => user = line[2] /\ password = line[3]
    <3> HIDE DEF line
    <3> SUFFICES ASSUME Len(line) = 3 PROVE user = line[2] /\ password = line[3]
      OBVIOUS
    <3>1. Len(line) # 1 /\ Len(line) # 2 /\ Len(line) > 2
      OBVIOUS
    <3> QED
      BY <3>1
  <2> HIDE DEF user, password
  <2>4. base.dialno # 0
    BY <1>3 DEF IsProfile
  <2>5. UseLine(line, base) = [apn |-> line[1], user |-> user, password |-> password,
                               dialno |-> base.dialno]
    BY <1>3, <2>1, ChangedProfile
  <2> QED
    BY <2>2, <2>3, <2>4, <2>5 DEF IsProfile
<1> QED
  BY <1>4, <1>5, <1>6 DEF line
-----------------------------------------------------------------------------
PathInv == AutoShape /\ DialIsOfCard

LEMMA PathStarts == PathInit => PathInv
<1> SUFFICES ASSUME PathInit PROVE PathInv
  OBVIOUS
<1>1. phase = "listing" /\ imsi = None /\ auto = Unused /\ default_cid = -1
  BY DEF PathInit
<1>2. IsProfile(Unused)
  BY DEF IsProfile, Unused, Profile
<1>3. ContextIsOfProfile /\ AutoIsOfCard
  BY <1>1 DEF ContextIsOfProfile, AutoIsOfCard
<1>4. RuleIsNotAnothers
  BY <1>1 DEF RuleIsNotAnothers
<1> QED
  BY <1>1, <1>2, <1>3, <1>4 DEF PathInv, AutoShape, DialIsOfCard

\* The APN is chosen with the IMSI of the card, and only then.
LEMMA ImsiStep ==
  ASSUME PathInv, ReadImsi
  PROVE  PathInv'
<1> DEFINE a == SelectNetApn(CardOf[current_sim], auto)
           line == NetLine(CardOf[current_sim])
           p == IF index[current_sim] = 0 THEN a ELSE TheProfile
<1>1. /\ imsi' = CardOf[current_sim] /\ family' = family /\ default_cid' = default_cid
      /\ auto' = IF ErasesAuto(p) THEN [a EXCEPT !.apn = None] ELSE a
      /\ phase' \in {"pdp", "dial"}
      /\ modem' = modem \/ TextAndReset(TextCommands', ContextId', TheProfile')
  BY DEF ReadImsi
<1>2. /\ IsProfile(a)
      /\ line # NoLine =>
           /\ a.apn = line[1]
           /\ Len(line) = 1 => a.user = None
           /\ Len(line) = 3 => a.user = line[2] /\ a.password = line[3]
  BY SelectedProfile DEF PathInv, AutoShape
<1>3. ErasesAuto(p) => family \in {"LE910", "ELS31"}
  BY DEF ErasesAuto
<1> HIDE DEF p, a
<1>4. IsProfile(auto')
  <2>1. IsProfile([a EXCEPT !.apn = None])
    <3> DEFINE b == [a EXCEPT !.apn = None]
    <3>1. b = [apn |-> None, user |-> a.user, password |-> a.password, dialno |-> a.dialno]
      BY <1>2 DEF IsProfile
    <3>2. a.dialno # 0
      BY <1>2 DEF IsProfile
    <3> HIDE DEF b
    <3>3. IsProfile(b)
      BY <3>1, <3>2 DEF IsProfile
    <3> QED
      BY <3>3 DEF b
  <2> QED
    BY <1>1, <1>2, <2>1
<1>5. AutoIsOfCard'
  <2> SUFFICES ASSUME imsi' # None, family \notin Cdma \cup {"LE910", "ELS31"},
                      Len(Network[imsi']) \in {1, 3}
               PROVE  /\ auto'.apn = Network[imsi'][1]
                      /\ Creds(auto') =
                           IF Len(Network[imsi']) = 1 THEN NoCreds
                           ELSE Creds(Profile(Network[imsi'][1], Network[imsi'][2],
                                              Network[imsi'][3]))
    BY <1>1 DEF AutoIsOfCard
  <2>1. line = Network[imsi'] /\ auto' = a
    BY <1>1, <1>3 DEF NetLine
  <2>2. line # NoLine
    <3>1. Len(NoLine) = 0
      BY DEF NoLine
    <3> QED
      BY <2>1, <3>1
  <2> HIDE DEF line
  <2>3. CASE Len(line) = 1
    BY <1>2, <2>1, <2>2, <2>3 DEF Creds
  <2>4. CASE Len(line) = 3
    <3>1. Profile(line[1], line[2], line[3]).user = line[2]
          /\ Profile(line[1], line[2], line[3]).password = line[3]
      BY DEF Profile
    <3> QED
      BY <1>2, <2>1, <2>2, <2>4, <3>1 DEF Creds
  <2> QED
    BY <2>1, <2>3, <2>4
<1>6. modem'.rule = modem.rule
  <2>1. RuleFree(TextCommands)'
    BY TextIsRuleFree, PTL
  <2>2. RuleFree(TextCommands')
    BY <2>1
  <2> QED
    BY <1>1, <2>2, TextLeavesRule
<1>7. RuleIsNotAnothers'
  BY <1>1, <1>6 DEF PathInv, DialIsOfCard, RuleIsNotAnothers
<1>8. ContextIsOfProfile'
  BY <1>1 DEF ContextIsOfProfile
<1> QED
  BY <1>4, <1>5, <1>7, <1>8 DEF PathInv, AutoShape, DialIsOfCard

\* A dial chooses no APN, and only an RM520N's has to do with the rule.
LEMMA DialStep ==
  ASSUME PathInv, ActivateData \/ ActivateQmap \/ DialPpp \/ DialBridge
  PROVE  PathInv'
<1>1. UNCHANGED <<family, keyed, imsi, auto>>
  BY DEF ActivateData, ActivateQmap, DialPpp, DialBridge, Begin
<1>2. AutoShape' /\ AutoIsOfCard'
  BY <1>1 DEF PathInv, DialIsOfCard, AutoShape, AutoIsOfCard
<1>3. AutoShape /\ RuleIsNotAnothers
  BY DEF PathInv, DialIsOfCard
<1>4. ContextIsOfProfile'
  <2>1. CASE DialBridge
    BY <1>1, <1>3, <2>1, DialOfProfile DEF DialBridge
  <2> QED
    BY <1>3, <2>1, ActivateDataIsOfProfile, ActivateQmapIsOfProfile, DialPppIsOfProfile
<1>5. RuleIsNotAnothers'
  <2>1. CASE ActivateData
    <3> DEFINE s == PdpSetup(TheProfile) \o Connect(TheProfile)
               one == Set(PdpContextId, <<TheProfile.apn>>, <<Creds(TheProfile)>>)
    <3>1. RuleFree(s)
      BY SetupIsRuleFree, RuleFreeJoined
    <3>2. RuleFree(one)
      BY RuleFreeCommands
    <3>3. /\ default_cid' = default_cid
          /\ \/ \E no : modem' = Told(modem, s, no)
             \/ modem' = Told(modem, one, {})
             \/ modem' = modem
      BY <2>1 DEF ActivateData
    <3> HIDE DEF s, one
    <3>4. modem'.rule = modem.rule
      BY <3>1, <3>2, <3>3, RuleUntouched
    <3> QED
      BY <1>3, <3>3, <3>4 DEF RuleIsNotAnothers
  <2>2. CASE ActivateQmap
    <3>1. \/ \E no : modem' = QmapModem(no) /\ default_cid' = Remembered(no)
          \/ UNCHANGED <<modem, default_cid>>
      BY <2>2 DEF ActivateQmap
    <3> QED
      BY <1>3, <3>1, QmapRule DEF RuleIsNotAnothers
  <2>3. CASE DialPpp
    <3>1. PICK n \in 0 .. Len(Chat(TheProfile)) :
            modem' = Told(modem, SubSeq(Chat(TheProfile), 1, n), {})
      BY <2>3 DEF DialPpp
    <3>2. default_cid' = default_cid
      BY <2>3 DEF DialPpp
    <3>3. RuleFree(SubSeq(Chat(TheProfile), 1, n))
      BY SetupIsRuleFree, PartIsRuleFree
    <3>4. modem'.rule = modem.rule
      BY <3>1, <3>3, RuleUntouched
    <3> QED
      BY <1>3, <3>2, <3>4 DEF RuleIsNotAnothers
  <2>4. CASE DialBridge
    BY <1>3, <2>4 DEF DialBridge, RuleIsNotAnothers
  <2> QED
    BY <2>1, <2>2, <2>3, <2>4
<1> QED
  BY <1>2, <1>4, <1>5 DEF PathInv, DialIsOfCard

\* Every dial that was answered in full uses the profile of the card in use, the
\* operator's profile is that of the card, and the rule of an RM520N is never that
\* of another context than the one remembered, for any operators, profiles and
\* changes of the cards, whatever the modem refuses and keeps.
THEOREM DialAlwaysOfCard == PathSpec => []DialIsOfCard
<1>1. PathInit => PathInv
  BY PathStarts
<1>2. PathInv /\ [PathNext]_pathVars => PathInv'
  <2> SUFFICES ASSUME PathInv, [PathNext]_pathVars PROVE PathInv'
    OBVIOUS
  <2>1. CASE ReadImsi
    BY <2>1, ImsiStep
  <2>2. CASE SetupUblox
    <3>1. /\ UNCHANGED <<family, imsi, auto, default_cid>> /\ phase' = "dial"
          /\ TextAndReset(TextCommands, ContextId, TheProfile)
      BY <2>2 DEF SetupUblox
    <3>2. modem'.rule = modem.rule
      BY <3>1, TextIsRuleFree, TextLeavesRule
    <3> QED
      BY <3>1, <3>2
      DEF PathInv, AutoShape, DialIsOfCard, ContextIsOfProfile, AutoIsOfCard, RuleIsNotAnothers
  <2>3. CASE ActivateData \/ ActivateQmap \/ DialPpp \/ DialBridge
    BY <2>3, DialStep
  <2>4. CASE Startup
    <3>1. /\ UNCHANGED <<family, auto, default_cid, modem>>
          /\ phase' = "listing" /\ imsi' = None
      BY <2>4 DEF Startup
    <3> QED
      BY <3>1
      DEF PathInv, AutoShape, DialIsOfCard, ContextIsOfProfile, AutoIsOfCard, RuleIsNotAnothers
  <2>5. CASE Configure
    <3>1. UNCHANGED <<family, imsi, auto, default_cid, modem, phase>> /\ phase # "dialed"
      BY <2>5 DEF Configure
    <3> QED
      BY <3>1
      DEF PathInv, AutoShape, DialIsOfCard, ContextIsOfProfile, AutoIsOfCard, RuleIsNotAnothers
  <2>6. CASE UNCHANGED pathVars
    BY <2>6
    DEF pathVars, PathInv, AutoShape, DialIsOfCard, ContextIsOfProfile, AutoIsOfCard, RuleIsNotAnothers,
        AuthContext, OnSecondBearer
  <2> QED
    BY <2>1, <2>2, <2>3, <2>4, <2>5, <2>6 DEF PathNext
<1>3. PathInv => DialIsOfCard
  BY DEF PathInv
<1> QED
  BY <1>1, <1>2, <1>3, PTL DEF PathSpec

==============================================================================
