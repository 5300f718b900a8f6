---------------------------------- MODULE Sms ----------------------------------
(***************************************************************************)
(* Short messages (sms.c, ih_redial.c l.4362-4442, 4653-4700, 4774-4788).  *)
(* A timer reads the modem's inbox and hands the messages of permitted     *)
(* senders to smsd; alerts of other services go to every number of the     *)
(* access list, and are stored while there is no connection.  A modem      *)
(* understands the commands of one mode at a time, text or PDU; who sends  *)
(* a message sets the mode it needs.                                       *)
(***************************************************************************)
EXTENDS Integers, FiniteSets

CONSTANTS
  Alerts,     \* alerts (recipient 88888888888) that other services ask for
  Incoming,   \* messages that arrive, from senders that are permitted
  Room        \* MAX_SAVED_SMS (20)

ASSUME SmsConstantsOK == Room \in Nat \ {0}

Modes == {"text", "pdu"}

VARIABLES
  where,   \* "off" (no dial yet), "sms_only", "dial", "connecting", "connected"
  config,  \* SMS_CONFIG and whether the dialer is always online
  smsd,    \* gl_smsd_pid > 0
  mode,    \* what the modem understands, AT+CMGF
  timer,   \* gl_ev_sms_tmr is armed
  store,   \* g_saved_unsent_sms
  asked,   \* alerts that have been asked for (ghost)
  acked,   \* alerts for which OK has come back from some number (ghost)
  again,   \* alerts that are tried again after an OK (ghost)
  full,    \* alerts that met a full store (ghost)
  box,     \* the modem's inbox
  read,    \* messages that have been read and deleted (ghost)
  python   \* Python programs send messages at present

smsVars == <<where, config, smsd, mode, timer, store, asked, acked, again, full, box, read,
             python>>
alertVars == <<store, asked, acked, again, full>>
boxVars   == <<box, read>>

SmsTypeOK ==
  /\ where \in {"off", "sms_only", "dial", "connecting", "connected"}
  /\ config \in [enable : BOOLEAN, mode : Modes, interval : BOOLEAN, online : BOOLEAN]
  /\ mode \in Modes /\ {smsd, timer, python} \subseteq BOOLEAN
  /\ store \subseteq asked /\ Cardinality(store) <= Room /\ asked \subseteq Alerts
  /\ acked \cup again \cup full \subseteq asked
  /\ box \cup read \subseteq Incoming

SmsInit ==
  /\ where = "off" /\ mode = "pdu" /\ timer = FALSE
  /\ config \in [enable : BOOLEAN, mode : Modes, interval : {TRUE}, online : BOOLEAN]
  /\ smsd = config.enable
  /\ store = {} /\ asked = {} /\ acked = {} /\ again = {} /\ full = {} /\ box = {}
  /\ read = {} /\ python = FALSE

-----------------------------------------------------------------------------
\* Alerts.

\* Mutant: a stored alert is purged once it has been tried.
ResentBlindly(took) == IF where = "connected" /\ config.enable THEN {} ELSE store

\* resend_unsent_sms(): each stored alert is sent to every number, and kept unless OK
\* came back from one of them.  `took': those for which one comes now.
Resent(took) == IF where = "connected" /\ config.enable THEN store \ took ELSE store
ModeAfterResend == IF where = "connected" /\ config.enable THEN "text" ELSE mode
AckedBy(took) == IF where = "connected" /\ config.enable THEN store \cap took ELSE {}
Resending == IF where = "connected" /\ config.enable THEN store ELSE {}

\* sms_send_text() for the alerts of a set.  One that goes out and has no OK in 10 s
\* is an error like any other: its alert is not in `took', and is sent once more.
Sending(alerts) == again' = again \cup (alerts \cap acked)

\* IPC_MSG_SMS_SEND with the recipient 88888888888: stored first, sent when there is
\* a connection, and purged when OK has come back from some number.
Alert(a, took) ==
  LET kept  == Resent(took)
      saved == Cardinality(kept) < Room
      here  == where = "connected"
      taken == here /\ a \in took
  IN  /\ config.enable /\ a \in Alerts \ asked
      /\ asked' = asked \cup {a}
      /\ store' = IF saved /\ ~taken THEN kept \cup {a} ELSE kept
      /\ acked' = acked \cup AckedBy(took) \cup (IF taken THEN {a} ELSE {})
      /\ Sending(Resending \cup (IF here THEN {a} ELSE {}))
      /\ full'  = IF saved THEN full ELSE full \cup {a}
      /\ mode'  = IF here THEN "text" ELSE mode
      /\ UNCHANGED <<where, config, smsd, timer, boxVars, python>>

AlertAny == \E a \in Alerts, took \in SUBSET Alerts : Alert(a, took)

\* IPC_MSG_PYSMS_SEND: always a PDU, as often as a Python program likes.
PySms ==
  /\ config.enable /\ python /\ mode' = "pdu"
  /\ UNCHANGED <<where, config, smsd, timer, python, alertVars, boxVars>>
PyTurns ==
  /\ python' = ~python
  /\ UNCHANGED <<where, config, smsd, mode, timer, alertVars, boxVars>>

-----------------------------------------------------------------------------
\* The inbox.

Arrive ==
  /\ \E m \in Incoming \ (box \cup read) : box' = box \cup {m}
  /\ UNCHANGED <<where, config, smsd, mode, timer, alertVars, read, python>>

\* Mutant: what it finds is parsed for the other mode.
UnderstandsOther == mode # config.mode

\* sms_receive_batch_text() and _pdu(): a modem in the other mode refuses the state
\* it is asked for ("ALL", 4), and there is no OK.
Understands == mode = config.mode

\* my_sms_timer(): reads the inbox and deletes what it has read; then stored alerts
\* are sent again, in text mode.
SmsTimer(answered, took) ==
  /\ timer /\ timer' = config.interval
  /\ IF answered /\ Understands THEN box' = {} /\ read' = read \cup box ELSE UNCHANGED boxVars
  /\ store' = Resent(took) /\ acked' = acked \cup AckedBy(took)
  /\ Sending(Resending) /\ mode' = ModeAfterResend
  /\ UNCHANGED <<where, config, smsd, asked, full, python>>

SmsTimerAny ==
  \E answered \in BOOLEAN, took \in SUBSET Alerts : SmsTimer(answered, took)
SmsAnswered == \E took \in SUBSET Alerts : SmsTimer(TRUE, took)

-----------------------------------------------------------------------------
\* The dialer: where the mode is set and the timer armed or deleted.

SmsStart == /\ mode' = IF config.enable THEN config.mode ELSE mode
            /\ timer' = (timer \/ (config.enable /\ config.interval))
KeepSms     == UNCHANGED <<mode, timer>>
Stay     == UNCHANGED <<config, smsd, alertVars, boxVars, python>>

Step(from, to) == where = from /\ where' = to /\ Stay

\* READY, without a dial: only short messages; and back when dialing is enabled.
SmsOnly     == Step("off", "sms_only") /\ config.enable /\ SmsStart
SmsOnlyEnds == Step("sms_only", "off") /\ timer' = FALSE /\ UNCHANGED mode
\* AT, when its list is done: a dialer on demand reads messages while it waits.
ListDone    == Step("off", "dial") /\ IF config.online THEN KeepSms ELSE SmsStart
\* DHCP; a switch to the other SIM leaves the timer armed.
Dial        == Step("dial", "connecting") /\ KeepSms
SwitchSim   == Step("dial", "off") /\ KeepSms
\* CONNECTING and CONNECTED
DialFails   == Step("connecting", "off") /\ UNCHANGED mode /\ timer' = (timer /\ config.online)
Connected   == Step("connecting", "connected") /\ IF config.online THEN SmsStart ELSE KeepSms
LinkLost    == Step("connected", "off") /\ UNCHANGED mode /\ timer' = FALSE
\* change_redial_state()
Suspend     == where # "off" /\ where' = "off" /\ timer' = FALSE /\ UNCHANGED mode /\ Stay
\* A modem that is reset understands PDU.
Reset       == Step("off", "off") /\ mode' = "pdu" /\ UNCHANGED timer

-----------------------------------------------------------------------------
\* The CLI: `sms enable', `no sms enable', `sms mode', `sms interval', `no sms
\* interval', `sms send'.

PortInUse == where \in {"dial", "connecting", "connected"}
CliStay   == UNCHANGED <<where, alertVars, boxVars, python>>

CliEnable ==
  /\ config' = [config EXCEPT !.enable = TRUE] /\ smsd' = TRUE
  /\ IF ~smsd /\ PortInUse
     THEN mode' = config.mode /\ timer' = (timer \/ config.interval) ELSE KeepSms
  /\ CliStay
CliDisable ==
  /\ config' = [config EXCEPT !.enable = FALSE] /\ smsd' = FALSE /\ KeepSms /\ CliStay
CliMode ==
  /\ \E m \in Modes : config' = [config EXCEPT !.mode = m] /\ mode' = IF PortInUse THEN m ELSE mode
  /\ UNCHANGED <<smsd, timer>> /\ CliStay
CliInterval ==
  /\ \E on \in BOOLEAN : /\ config' = [config EXCEPT !.interval = on]
                         /\ timer' = (timer \/ (config.enable /\ on))
  /\ UNCHANGED <<smsd, mode>> /\ CliStay
CliNoInterval ==
  config' = [config EXCEPT !.interval = TRUE] /\ KeepSms /\ UNCHANGED smsd /\ CliStay
\* Sent as text; then the mode is set to what is configured.
CliSend == mode' = config.mode /\ UNCHANGED <<config, smsd, timer>> /\ CliStay
SmsdExits == smsd /\ smsd' = FALSE /\ KeepSms /\ UNCHANGED config /\ CliStay

SmsNext ==
  \/ AlertAny \/ PySms \/ PyTurns \/ Arrive \/ SmsTimerAny
  \/ SmsOnly \/ SmsOnlyEnds \/ ListDone \/ Dial \/ SwitchSim \/ DialFails \/ Connected
  \/ LinkLost \/ Suspend \/ Reset
  \/ CliEnable \/ CliDisable \/ CliMode \/ CliInterval \/ CliNoInterval \/ CliSend \/ SmsdExits

\* The event loop runs an armed timer, and a modem that is asked again and again
\* answers at last.
SmsSpec == SmsInit /\ [][SmsNext]_smsVars /\ WF_smsVars(SmsTimerAny) /\ SF_smsVars(SmsAnswered)

-----------------------------------------------------------------------------
(* Properties.                                                             *)

\* An alert is stored until OK has come back for it from some number, however
\* connections come and go between its request and its resending: none is forgotten,
\* and none is sent once more after its OK (l.4395-4442, 4664-4687).  One whose text
\* went out without an OK in time is kept and sent again (sms.c l.113-116); a full
\* store loses it.
UnsentIsKept ==
  /\ SmsTypeOK
  /\ store \cap acked = {}
  /\ asked \ (acked \cup full) \subseteq store
  /\ again = {}

\* Messages of mode m are polled for, and no Python program disturbs the mode.
Reading(m) ==
  where = "connected" /\ timer /\ config.enable /\ config.interval /\ config.mode = m /\ ~python

\* A message that arrives while there is a connection is read, also when Python
\* programs have put the modem into PDU mode before, unless the connection ends, the
\* configuration changes or a Python program sends again: one PDU message in each
\* interval of the poll keeps a text unread for ever (sms.c l.608).
TextIsRead == \A i \in Incoming : []<>~(i \in box /\ Reading("text"))
=============================================================================
