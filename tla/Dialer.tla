------------------------------- MODULE Dialer -------------------------------
(***************************************************************************)
(* The redial daemon as a dialer: the state machine redial_handle(), the   *)
(* sub-daemon processes it starts and kills, the mailbox through which     *)
(* they report their link, the timers it arms, and the link state it       *)
(* broadcasts to the other services of the router.                         *)
(*                                                                         *)
(* One action per arm of redial_handle() and one per callback of the event *)
(* loop.  The daemon is single threaded: every callback runs to its end.   *)
(* Which AT command failed, how often, and on which SIM card is data here: *)
(* an arm that asks the modem may take any of its outcomes.                *)
(***************************************************************************)
EXTENDS Naturals, Sequences

CONSTANTS
  Modems,         \* the modems the router may have, by what they dial with
  InfiniteRetry,  \* ppp_config.infinitely_dial_retry
  MaxRedial,      \* MAX_PPP_REDIAL
  MaxCount,       \* bound: the redials that are counted
  MaxMail,        \* bound: reports waiting in the mailbox
  MaxRequests,    \* bound: requests from outside in one behaviour
  Requests,       \* the kinds of request that may arrive
  Crashes         \* TRUE: a sub-daemon may die without a last report

\* A modem that dials with one sub-daemon, by its get_sub_deamon_type();
\* DHCP6: start_dhcpc() starts odhcp6c too (RM500U with IPv6);
\* DUAL: a QMI modem with two WWANs (dual_apn_is_enabled()) when it starts.
Kinds     == {"PPP", "DHCP", "DHCP6", "QMI", "DUAL", "MIPC", "NONE"}
\* Requests that move or abandon the state machine whatever it is doing, and
\* the one that changes how many sub-daemons the next dial starts.
Forced    == {"suspend", "hup", "alarm", "dual"}
Ordinary  == {"mode", "enable", "ppp", "backup", "stop", "redial", "sim"}

ASSUME ConstantsOK ==
  /\ Modems \subseteq Kinds
  /\ InfiniteRetry \in BOOLEAN /\ Crashes \in BOOLEAN
  /\ MaxRedial \in Nat /\ MaxMail \in Nat /\ MaxRequests \in Nat
  /\ MaxCount \in Nat /\ MaxCount > MaxRedial + 1
  /\ Requests \subseteq Forced \cup Ordinary

VARIABLES
  st,         \* gl_redial_state
  child,      \* per slot: no pid, or what the process has achieved so far
  mail,       \* FIFO of the reports sent by the sub-daemons
  vif,        \* the WWANs whose vif_info.status is VIF_UP
  pub,        \* the WWANs whose last broadcast VIF_LINK_CHANGE said UP
  tmr,        \* the armed timers (the main timer is always armed)
  cfg,        \* the modem, detected when the daemon starts, and the settings
  dial,       \* gl_redial_dial_state
  dualWwan,   \* gl_dual_wwan_enable
  simSwitch,  \* gl_sim_switch_flag
  force,      \* gl_force_suspend
  redialCnt,  \* gl_ppp_redial_cnt
  waitCnt,    \* gl_wait_reconnect_cnt
  requests    \* how many requests have arrived (bounded by MaxRequests)

link    == <<child, mail>>
policy  == <<cfg, dial, simSwitch, force, requests>>
counts  == <<redialCnt, waitCnt>>
vars    == <<st, child, mail, vif, pub, tmr, cfg, dial, dualWwan,
             simSwitch, force, redialCnt, waitCnt, requests>>

-----------------------------------------------------------------------------
(* The states, in the order of the enumeration; REBOOT stands for the      *)
(* daemon hanging after system("reboot").                                  *)

BeforeModemInit == {"INIT", "WAIT_CONFIG", "STARTUP", "LOAD_DRV", "WAIT_AT"}
Dialing         == {"PPP", "DHCP", "GET_STATIC_PARAMS"}
BringUp         == BeforeModemInit \cup Dialing \cup
                   {"MODEM_INIT", "SLEEP", "READY", "SMS_ONLY", "AT"}
States          == BringUp \cup {"SUSPEND", "CONNECTING", "CONNECTED", "REBOOT"}

\* gl_ppp_pid, gl_2nd_ppp_pid and gl_odhcp6c_pid (the second odhcp6c is never
\* started: start_dhcpc() is only called for the first WWAN).
Slots      == {"wwan1", "wwan2", "odhcp6c"}
Wwans      == {"wwan1", "wwan2"}
\* "none" is pid -1.  A dead process not yet reaped looks to the daemon like a
\* silent one, so exit and SIGCHLD are one step.
Progress   == {"none", "fresh", "up", "lost"}
Timers     == {"ppp", "pppUp", "signal", "wwan"}
Modes      == {"ONLINE", "DEMAND", "MANUAL"}
DialStates == {"NONE", "STARTED", "KILLED"}
Settings   == [modem : Modems, dual : BOOLEAN,
               mode : Modes, enable : BOOLEAN, held : BOOLEAN]
Report     == [from : Slots, up : BOOLEAN]

\* The redial counter goes one past its limit, or further where pppd is started
\* for ever.
TypeOK ==
  /\ st \in States
  /\ child \in [Slots -> Progress]
  /\ mail \in Seq(Report)
  /\ vif \in SUBSET Wwans /\ pub \in SUBSET Wwans /\ tmr \in SUBSET Timers
  /\ cfg \in Settings /\ dial \in DialStates
  /\ dualWwan \in BOOLEAN /\ simSwitch \in BOOLEAN /\ force \in BOOLEAN
  /\ redialCnt \in 0 .. MaxCount
  /\ redialCnt > MaxRedial + 1 => InfiniteRetry /\ cfg.modem = "PPP"
  /\ waitCnt \in 0 .. 4
  /\ requests \in 0 .. MaxRequests

Init ==
  /\ st = "INIT"
  /\ child = [s \in Slots |-> "none"] /\ mail = <<>>
  /\ vif = {} /\ pub = {} /\ tmr = {}
  /\ \E m \in Modems :
       cfg = [modem |-> m, dual |-> m = "DUAL",
              mode |-> "ONLINE", enable |-> TRUE, held |-> FALSE]
  /\ dial = "NONE" /\ dualWwan = FALSE /\ simSwitch = FALSE /\ force = FALSE
  /\ redialCnt = 0 /\ waitCnt = 0 /\ requests = 0

-----------------------------------------------------------------------------
(* Sub-daemons.                                                            *)

SubDaemon == CASE cfg.modem = "DHCP6" -> "DHCP"
               [] cfg.modem = "DUAL" -> "QMI"
               [] OTHER -> cfg.modem

SubDaemonRunning == \E s \in Slots : child[s] # "none"

\* The pids stop_child_by_sub_daemon() kills.
StopSlots == IF SubDaemon = "DHCP" THEN Slots
             ELSE IF SubDaemon = "QMI" THEN Wwans ELSE {"wwan1"}

\* The last reports of processes S that are on their way out: a process whose
\* link is up reports it down, unless it crashes or has to be killed with -9.
Farewell(S, box) ==
  LET bye(s, b) == IF s \in S /\ child[s] = "up"
                   THEN Append(b, [from |-> s, up |-> FALSE]) ELSE b
  IN {bye("wwan2", bye("wwan1", box))} \cup (IF Crashes THEN {box} ELSE {})

\* stop_child_by_sub_daemon(), the mailbox being `box' when it is called.
StopChild(box) ==
  /\ child' = [s \in Slots |-> IF s \in StopSlots THEN "none" ELSE child[s]]
  /\ IF SubDaemon = "NONE" THEN mail' = box
                           ELSE mail' \in Farewell(StopSlots, box)

\* Mutants: start over without killing what is dialed; start over even from
\* CONNECTED, which then never withdraws its link.
RestartBesideChild(box) ==
  /\ st' = IF st \in BeforeModemInit \cup {"CONNECTED"} THEN st ELSE "STARTUP"
  /\ mail' = box /\ UNCHANGED child

RestartFromConnected(box) ==
  IF st \in BeforeModemInit THEN mail' = box /\ UNCHANGED <<st, child>>
  ELSE IF SubDaemonRunning THEN StopChild(box) /\ UNCHANGED st
  ELSE st' = "STARTUP" /\ mail' = box /\ UNCHANGED child

\* do_redial_procedure(): kill what is dialed and let the state machine find
\* out, or else start over; too early a call is ignored.
DoRedial(box) ==
  IF st \in BeforeModemInit THEN mail' = box /\ UNCHANGED <<st, child>>
  ELSE IF SubDaemonRunning THEN StopChild(box) /\ UNCHANGED st
  ELSE /\ st' = IF st = "CONNECTED" THEN st ELSE "STARTUP"
       /\ mail' = box /\ UNCHANGED child

\* Mutant: the connection probe of a DHCP modem is forgotten.
ChangeStateKeepsProbe(s) ==
  IF st = s THEN UNCHANGED <<st, link, tmr>>
  ELSE StopChild(mail) /\ st' = s /\ tmr' = tmr \ {"pppUp", "signal"}

\* change_redial_state(): the broadcast link state is left as it is.
ChangeState(s) ==
  IF st = s THEN UNCHANGED <<st, link, tmr>>
  ELSE /\ StopChild(mail)
       /\ st' = s
       /\ tmr' = tmr \ {"pppUp", "signal", "wwan"}

-----------------------------------------------------------------------------
(* Bringing the modem up: the arms of redial_handle() before a dial.       *)

\* Mutant: the first broadcast is left out.
RedialInitSilent ==
  /\ st = "INIT"
  /\ st' = "WAIT_CONFIG"
  /\ vif' = vif \ {"wwan1"}
  /\ UNCHANGED <<link, pub, tmr, policy, dualWwan, counts>>

RedialInit ==
  /\ st = "INIT"
  /\ st' = "WAIT_CONFIG"
  /\ vif' = vif \ {"wwan1"} /\ pub' = pub \ {"wwan1"}
  /\ UNCHANGED <<link, tmr, policy, dualWwan, counts>>

\* Arms that touch nothing modelled here but the state.
ModemStep(from, to) ==
  /\ st = from /\ st' = to
  /\ UNCHANGED <<link, vif, pub, tmr, policy, dualWwan, counts>>

WaitConfig == ModemStep("WAIT_CONFIG", "STARTUP")

\* check_dualsim_switch() consumes the request to switch the SIM card; too many
\* fruitless scans end in schedule_router_or_modem_reboot(), even with infinite
\* retries if no modem was found.
ModemStartup ==
  /\ st = "STARTUP"
  /\ \/ st' = "LOAD_DRV" /\ simSwitch' = FALSE
     \/ st' = "REBOOT" /\ UNCHANGED simSwitch
  /\ UNCHANGED <<link, vif, pub, tmr, cfg, dial, force, requests, dualWwan, counts>>

\* "if need switch sim, change it at once": current_sim_is_right() raises the
\* flag itself when the SIM card in use has used up its traffic.
WrongSim == (simSwitch \/ "sim" \in Requests) /\ simSwitch' = TRUE
SwitchAtOnce(from) ==
  /\ st = from /\ st' = "STARTUP"
  /\ UNCHANGED <<link, vif, pub, tmr, cfg, dial, force, requests, dualWwan, counts>>

SwitchSim ==
  \/ WrongSim /\ \E s \in {"LOAD_DRV", "MODEM_INIT", "READY", "AT"} : SwitchAtOnce(s)
  \/ simSwitch /\ ModemStep("WAIT_AT", "STARTUP")

LoadDrv   == ~simSwitch /\ \E s \in {"STARTUP", "WAIT_AT"} : ModemStep("LOAD_DRV", s)

\* Mutant: a modem that answers at once is not waited for.
WaitAtAtOnce == ~simSwitch /\ ModemStep("WAIT_AT", "MODEM_INIT")

\* The ten one-second probes outlast whatever was in the mailbox.
WaitAt    == /\ ~simSwitch /\ mail = <<>>
             /\ \/ ModemStep("WAIT_AT", "MODEM_INIT")
                \/ cfg.enable /\ ModemStep("WAIT_AT", "STARTUP")

ModemInit == /\ ~simSwitch
             /\ \E s \in {"STARTUP", "SLEEP", "READY"} : ModemStep("MODEM_INIT", s)

ModemReady == /\ ~simSwitch
              /\ \E s \in IF cfg.enable THEN {"AT", "STARTUP"} ELSE {"SMS_ONLY"} :
                   ModemStep("READY", s)

SmsOnly   == cfg.enable /\ ModemStep("SMS_ONLY", "READY")

DialStateOf == CASE SubDaemon \in {"DHCP", "MIPC", "QMI"} -> "DHCP"
                 [] SubDaemon = "NONE" -> "GET_STATIC_PARAMS"
                 [] OTHER -> "PPP"

AtCommands == ~simSwitch /\ \E s \in {"STARTUP", DialStateOf} : ModemStep("AT", s)

-----------------------------------------------------------------------------
(* Dialing.                                                                *)

MayDial == cfg.enable /\ ~cfg.held

\* Mutant: one redial too many.
TooManyRedialsLate == redialCnt > MaxRedial + 1

TooManyRedials == redialCnt > MaxRedial

\* "gl_ppp_redial_cnt++": the arms of the other sub-daemons begin again once there
\* have been too many, that of pppd goes on counting.
CountRedial(reset) ==
  redialCnt' = IF TooManyRedials /\ reset THEN 0 ELSE redialCnt + 1

\* Hung up by hand: the DHCP and static arms wait to be told to dial again.
HungUp == st # "PPP" /\ dial = "KILLED"

SwitchBeforeDial ==
  /\ MayDial /\ WrongSim
  /\ \E s \in Dialing : /\ s = "GET_STATIC_PARAMS" => ~HungUp
                        /\ SwitchAtOnce(s)

RebootRouter ==
  /\ MayDial /\ ~simSwitch /\ ~HungUp
  /\ TooManyRedials /\ ~InfiniteRetry
  /\ \E s \in Dialing : ModemStep(s, "REBOOT")

GoAhead == /\ MayDial /\ ~simSwitch /\ ~HungUp
           /\ TooManyRedials => InfiniteRetry

\* Mutant: only the first dial is watched.
WatchFirstDial == tmr' = IF cfg.mode = "ONLINE" /\ redialCnt = 0
                         THEN tmr \cup {"ppp"} ELSE tmr

WatchDial == tmr' = IF cfg.mode = "ONLINE" THEN tmr \cup {"ppp"} ELSE tmr

\* start_ppp() does not stop the pppd it may still have.
DialPpp ==
  /\ st = "PPP" /\ GoAhead
  /\ redialCnt < MaxCount /\ CountRedial(FALSE)
  /\ \E p \in {"fresh", "none"} : child' = [child EXCEPT !["wwan1"] = p]
  /\ WatchDial
  /\ st' = "CONNECTING"
  /\ UNCHANGED <<mail, vif, pub, policy, dualWwan, waitCnt>>

\* The slots a dial starts.  Each is stopped first if it is running; a start
\* may fail, which the CONNECTING arm finds out.
StartSlots == {"wwan1"} \cup (IF cfg.dual THEN {"wwan2"} ELSE {})
                        \cup (IF cfg.modem = "DHCP6" THEN {"odhcp6c"} ELSE {})

DialDhcp ==
  /\ st = "DHCP" /\ GoAhead
  /\ CountRedial(TRUE)
  /\ mail' \in Farewell(StartSlots, mail)
  /\ \E failed \in SUBSET StartSlots :
       child' = [s \in Slots |-> IF s \in failed THEN "none"
                                 ELSE IF s \in StartSlots THEN "fresh" ELSE child[s]]
  /\ WatchDial
  /\ dualWwan' = cfg.dual
  /\ dial' = "STARTED"
  /\ st' = "CONNECTING"
  /\ UNCHANGED <<vif, pub, cfg, simSwitch, force, requests, waitCnt>>

\* The modem itself dials; get_network_parameters() fakes a pid and the link
\* state, and clears the pid when the modem has no address.
DialStatic ==
  /\ st = "GET_STATIC_PARAMS" /\ GoAhead
  /\ CountRedial(TRUE)
  /\ \/ /\ child' = [child EXCEPT !["wwan1"] = "up"]
        /\ vif' = vif \cup {"wwan1"}
        /\ tmr' = tmr \cup {"pppUp"}
        /\ st' = "CONNECTING"
     \/ /\ child' = [child EXCEPT !["wwan1"] = "none"]
        /\ st' = "STARTUP"
        /\ UNCHANGED <<vif, tmr>>
  /\ UNCHANGED <<mail, pub, policy, dualWwan, waitCnt>>

\* The test of CONNECTING and CONNECTED on the pids.
DialDead == \/ child["wwan1"] = "none" /\ child["odhcp6c"] = "none"
            \/ dualWwan /\ child["wwan2"] = "none"
Dialed   == {"wwan1"} \cup (IF dualWwan THEN {"wwan2"} ELSE {})

StopWatching == IF cfg.mode = "ONLINE" THEN tmr \ {"ppp"} ELSE tmr

ConnectingFail ==
  /\ st = "CONNECTING" /\ DialDead
  /\ vif' = {}
  /\ tmr' = StopWatching
  /\ st' = "STARTUP"
  /\ UNCHANGED <<link, pub, policy, dualWwan, counts>>

ConnectingUp ==
  /\ st = "CONNECTING" /\ ~DialDead /\ Dialed \subseteq vif
  /\ pub' = pub \cup Dialed
  /\ tmr' = StopWatching \cup {"signal"} \cup
            (IF SubDaemon \in {"DHCP", "NONE"} THEN {"wwan"} ELSE {})
  /\ waitCnt' = 0
  /\ st' = "CONNECTED"
  /\ UNCHANGED <<link, vif, policy, dualWwan, redialCnt>>

\* Mutants: the connection probe is left armed; a link already known to be down
\* is not withdrawn.
ConnectedDeadKeepsProbe ==
  /\ st = "CONNECTED" /\ DialDead
  /\ vif' = vif \ Dialed /\ pub' = pub \ Dialed
  /\ tmr' = tmr \ {"signal", "pppUp"}
  /\ st' = "STARTUP"
  /\ UNCHANGED <<link, policy, dualWwan, counts>>

ConnectedDeadIfUp ==
  /\ st = "CONNECTED" /\ DialDead
  /\ vif' = vif \ Dialed
  /\ pub' = IF "wwan1" \in vif THEN pub \ Dialed ELSE pub
  /\ tmr' = tmr \ {"signal", "pppUp", "wwan"}
  /\ st' = "STARTUP"
  /\ UNCHANGED <<link, policy, dualWwan, counts>>

ConnectedDead ==
  /\ st = "CONNECTED" /\ DialDead
  /\ vif' = vif \ Dialed /\ pub' = pub \ Dialed
  /\ tmr' = tmr \ {"signal", "pppUp", "wwan"}
  /\ st' = "STARTUP"
  /\ UNCHANGED <<link, policy, dualWwan, counts>>

\* Mutant: only the first WWAN is looked at.
ConnectedReconnectingFirst ==
  /\ st = "CONNECTED" /\ ~DialDead /\ SubDaemon = "QMI" /\ "wwan1" \notin vif
  /\ IF waitCnt >= 3 THEN StopChild(mail) ELSE UNCHANGED link
  /\ waitCnt' = IF waitCnt >= 3 THEN 4 ELSE waitCnt + 1
  /\ UNCHANGED <<st, vif, pub, tmr, policy, dualWwan, redialCnt>>

\* ih-qmi keeps the call and reconnects by itself; it is given three more looks.
ConnectedReconnecting ==
  /\ st = "CONNECTED" /\ ~DialDead /\ SubDaemon = "QMI" /\ ~(Dialed \subseteq vif)
  /\ IF waitCnt >= 3 THEN StopChild(mail) ELSE UNCHANGED link
  /\ waitCnt' = IF waitCnt >= 3 THEN 4 ELSE waitCnt + 1
  /\ UNCHANGED <<st, vif, pub, tmr, policy, dualWwan, redialCnt>>

ConnectedStable ==
  /\ st = "CONNECTED" /\ ~DialDead /\ SubDaemon = "QMI" /\ Dialed \subseteq vif
  /\ waitCnt # 0 /\ waitCnt' = 0
  /\ UNCHANGED <<st, link, vif, pub, tmr, policy, dualWwan, redialCnt>>

Scan == \/ RedialInit \/ WaitConfig \/ ModemStartup \/ SwitchSim \/ LoadDrv
        \/ WaitAt \/ ModemInit \/ ModemReady \/ SmsOnly \/ AtCommands
Dial == SwitchBeforeDial \/ RebootRouter \/ DialPpp \/ DialDhcp \/ DialStatic
Watch == \/ ConnectingFail \/ ConnectingUp \/ ConnectedDead
         \/ ConnectedReconnecting \/ ConnectedStable

\* my_cb_timer(): the main timer, re-armed at the end of every redial_handle().
RedialHandle == Scan \/ Dial \/ Watch

-----------------------------------------------------------------------------
(* The other timers.                                                       *)

\* my_ppp_timer(): "ppp has dialed a long time, kill it"
PppTimer ==
  /\ "ppp" \in tmr
  /\ tmr' = tmr \ {"ppp"}
  /\ StopChild(mail)
  /\ UNCHANGED <<st, vif, pub, policy, dualWwan, counts>>

PppUpTimer ==
  /\ "pppUp" \in tmr
  /\ tmr' = tmr \ {"pppUp"}
  /\ redialCnt' = 0
  /\ UNCHANGED <<st, link, vif, pub, policy, dualWwan, waitCnt>>

\* my_signal_timer() re-arms itself; with no signal for several rounds (DHCP,
\* MIPC and QMI modems) it kills the sub-daemon, and with low signal on a dual
\* SIM modem it also asks for the other SIM card.
SignalTimer ==
  /\ "signal" \in tmr
  /\ \/ SubDaemon \in {"DHCP", "MIPC", "QMI"} /\ UNCHANGED simSwitch
     \/ "sim" \in Requests /\ simSwitch' = TRUE
  /\ StopChild(mail)
  /\ UNCHANGED <<st, vif, pub, tmr, cfg, dial, force, requests, dualWwan, counts>>

\* my_wwan_connect_timer() finding the connection gone.
WwanConnectTimer ==
  /\ "wwan" \in tmr
  /\ tmr' = tmr \ {"wwan"}
  /\ StopChild(mail)
  /\ UNCHANGED <<st, vif, pub, policy, dualWwan, counts>>

TimerFires == PppTimer \/ PppUpTimer \/ SignalTimer \/ WwanConnectTimer

-----------------------------------------------------------------------------
(* The sub-daemons and their reports.                                      *)

ChildUp(s) ==
  /\ SubDaemon # "NONE" /\ child[s] \in {"fresh", "lost"}
  /\ Len(mail) < MaxMail
  /\ child' = [child EXCEPT ![s] = "up"]
  /\ mail' = Append(mail, [from |-> s, up |-> TRUE])
  /\ UNCHANGED <<st, vif, pub, tmr, policy, dualWwan, counts>>

\* The link is lost, or a client deconfigures the interface as it starts.
ChildDown(s) ==
  /\ SubDaemon # "NONE" /\ s \in Wwans /\ child[s] \in {"fresh", "up"}
  /\ Len(mail) < MaxMail
  /\ child' = [child EXCEPT ![s] = IF @ = "up" THEN "lost" ELSE @]
  /\ mail' = Append(mail, [from |-> s, up |-> FALSE])
  /\ UNCHANGED <<st, vif, pub, tmr, policy, dualWwan, counts>>

\* A sub-daemon exits, and sigchld_cb() forgets its pid.
ChildExit(s) ==
  /\ SubDaemon # "NONE" /\ child[s] # "none"
  /\ child' = [child EXCEPT ![s] = "none"]
  /\ mail' \in Farewell({s}, mail)
  /\ UNCHANGED <<st, vif, pub, tmr, policy, dualWwan, counts>>

\* IPC_MSG_UPDOWN_PPP_UP, DHCPC_EVT_BOUND, MIPC_WWAN_EVT_UP: the link state is
\* kept; only for QMI is a link that comes back broadcast here.
HandleUp ==
  /\ mail # <<>> /\ Head(mail).up /\ Head(mail).from \in Wwans
  /\ mail' = Tail(mail)
  /\ vif' = vif \cup {Head(mail).from}
  /\ pub' = IF st = "CONNECTED" /\ SubDaemon = "QMI"
            THEN pub \cup {Head(mail).from} ELSE pub
  /\ tmr' = tmr \cup {"pppUp"}
  /\ UNCHANGED <<st, child, policy, dualWwan, counts>>

\* redl_iface_update_state(): an IPv6 address is broadcast in any state.
HandleUp6 ==
  /\ mail # <<>> /\ Head(mail).from = "odhcp6c"
  /\ mail' = Tail(mail)
  /\ vif' = vif \cup {"wwan1"} /\ pub' = pub \cup {"wwan1"}
  /\ tmr' = tmr \cup {"pppUp"}
  /\ UNCHANGED <<st, child, policy, dualWwan, counts>>

\* IPC_MSG_UPDOWN_PPP_DOWN, DHCPC_EVT_DECONFIG, MIPC_WWAN_EVT_DOWN.
HandleDown ==
  /\ mail # <<>> /\ ~Head(mail).up /\ Head(mail).from \in Wwans
  /\ vif' = vif \ {Head(mail).from}
  /\ pub' = IF st = "CONNECTED" /\ SubDaemon = "QMI"
            THEN pub \ {Head(mail).from} ELSE pub
  /\ IF st = "CONNECTED" /\ SubDaemon = "DHCP" THEN DoRedial(Tail(mail))
     ELSE mail' = Tail(mail) /\ UNCHANGED <<st, child>>
  /\ UNCHANGED <<tmr, policy, dualWwan, counts>>

HandleReport == HandleUp \/ HandleUp6 \/ HandleDown
SubDaemonStep == \E s \in Slots : ChildUp(s) \/ ChildDown(s) \/ ChildExit(s)

-----------------------------------------------------------------------------
(* Requests: commands of the CLI and the web, and messages of services.    *)

Asked(kind) == kind \in Requests /\ requests < MaxRequests
               /\ requests' = requests + 1

\* my_cmd_handle() ends in do_redial_procedure() when a setting has changed; the
\* triggers of PPP_DEMAND, which are settings too, are not modelled.
Changed == IF cfg' # cfg THEN DoRedial(mail)
                         ELSE DoRedial(mail) \/ UNCHANGED <<st, link>>

\* "dialer activate", as <<mode, gl_redial_dial_state>>; the forms that leave the
\* dial state alone ("traffic", most "no" forms, the cloud web, NETCONF) are in
\* SetModeOnly.
Activations == {<<"ONLINE", "STARTED">>, <<"ONLINE", "NONE">>,
                <<"DEMAND", "KILLED">>, <<"MANUAL", "KILLED">>}

DialerActivate ==
  /\ Asked("mode")
  /\ \E a \in Activations : cfg' = [cfg EXCEPT !.mode = a[1]] /\ dial' = a[2]
  /\ Changed
  /\ UNCHANGED <<vif, pub, tmr, simSwitch, force, dualWwan, counts>>

SetModeOnly ==
  /\ Asked("mode")
  /\ \E m \in Modes : cfg' = [cfg EXCEPT !.mode = m]
  /\ Changed
  /\ UNCHANGED <<vif, pub, tmr, dial, simSwitch, force, dualWwan, counts>>

\* "[no] shutdown"
Shutdown ==
  /\ Asked("enable")
  /\ cfg' = [cfg EXCEPT !.enable = ~@]
  /\ DoRedial(mail)
  /\ UNCHANGED <<vif, pub, tmr, dial, simSwitch, force, dualWwan, counts>>

\* "redial ppp down" and "redial ppp up"; pppd is only sent a signal.
PppDown ==
  /\ Asked("ppp") /\ SubDaemon # "PPP"
  /\ StopChild(mail)
  /\ dial' = IF cfg.mode = "ONLINE" THEN dial ELSE "KILLED"
  /\ UNCHANGED <<st, vif, pub, tmr, cfg, simSwitch, force, dualWwan, counts>>

PppUp ==
  /\ Asked("ppp") /\ SubDaemon # "PPP"
  /\ dial' = IF cfg.mode = "ONLINE" THEN dial ELSE "NONE"
  /\ UNCHANGED <<st, link, vif, pub, tmr, cfg, simSwitch, force, dualWwan, counts>>

\* IPC_MSG_BACKUPD_SVCINFO: this link is another one's backup, or is no more.
Backup ==
  /\ Asked("backup")
  /\ \E h \in BOOLEAN : cfg' = [cfg EXCEPT !.held = h]
  /\ StopChild(mail)
  /\ UNCHANGED <<st, vif, pub, tmr, dial, simSwitch, force, dualWwan, counts>>

\* IPC_MSG_NETWATCHER_LINKDOWN, and IP passthrough wanting the address again.
LinkDown ==
  /\ Asked("stop")
  /\ StopChild(mail)
  /\ UNCHANGED <<st, vif, pub, tmr, cfg, dial, simSwitch, force, dualWwan, counts>>

\* SDWAN_RESTART, an IPv6 switch, any other change of the dial settings.
Redial ==
  /\ Asked("redial")
  /\ DoRedial(mail)
  /\ UNCHANGED <<vif, pub, tmr, cfg, dial, simSwitch, force, dualWwan, counts>>

\* SDWAN_SWITCH, and my_dualsim_timer() when the time on the backup SIM is up.
AskSimSwitch ==
  /\ Asked("sim")
  /\ simSwitch' = TRUE
  /\ DoRedial(mail) \/ (StopChild(mail) /\ UNCHANGED st)
  /\ UNCHANGED <<vif, pub, tmr, cfg, dial, force, dualWwan, counts>>

\* The number of WWANs is changed for the SIM in use.
SetDualApn ==
  /\ Asked("dual") /\ SubDaemon = "QMI"
  /\ cfg' = [cfg EXCEPT !.dual = ~@]
  /\ DoRedial(mail)
  /\ UNCHANGED <<vif, pub, tmr, dial, simSwitch, force, dualWwan, counts>>

\* IPC_MSG_REDIAL_SUSPEND_REQ
Suspend ==
  /\ Asked("suspend")
  /\ force' = TRUE
  /\ ChangeState("SUSPEND")
  /\ UNCHANGED <<vif, pub, cfg, dial, simSwitch, dualWwan, counts>>

Resume ==
  /\ Asked("suspend")
  /\ force' = FALSE
  /\ IF st = "SUSPEND" THEN ChangeState("STARTUP") ELSE UNCHANGED <<st, link, tmr>>
  /\ UNCHANGED <<vif, pub, cfg, dial, simSwitch, dualWwan, counts>>

Hup ==
  /\ Asked("hup")
  /\ ChangeState("INIT")
  /\ UNCHANGED <<vif, pub, cfg, dial, simSwitch, force, dualWwan, counts>>

\* sigalrm_cb() resets the modem and starts over, with the sub-daemon running.
Alarm ==
  /\ Asked("alarm")
  /\ st' = "STARTUP"
  /\ UNCHANGED <<link, vif, pub, tmr, cfg, dial, simSwitch, force, dualWwan, counts>>

Request == \/ DialerActivate \/ SetModeOnly \/ Shutdown \/ PppDown \/ PppUp
           \/ Backup \/ LinkDown \/ Redial \/ AskSimSwitch \/ SetDualApn
           \/ Suspend \/ Resume \/ Hup \/ Alarm

-----------------------------------------------------------------------------
\* While the router reboots nothing else is done.
Next == st # "REBOOT" /\ (RedialHandle \/ TimerFires \/ HandleReport
                          \/ SubDaemonStep \/ Request)

Spec == Init /\ [][Next]_vars

\* The event loop serves its timers and its mailbox.  Nothing is assumed of the
\* sub-daemons, of the modem or of the requests.
Fairness == /\ WF_vars(RedialHandle)
            /\ WF_vars(HandleReport)
            /\ WF_vars(PppTimer)

FairSpec == Spec /\ Fairness

-----------------------------------------------------------------------------
(* What the other services may rely on.                                    *)

Link == INSTANCE LinkService
          WITH told  <- pub,
               phase <- CASE st = "CONNECTED" -> "online"
                          [] st = "CONNECTING" -> "dialing"
                          [] OTHER -> "down"

-----------------------------------------------------------------------------
(* Properties.                                                             *)

\* A dial that is to stay online is never left without its watchdog: while
\* CONNECTING with a process alive, gl_ev_ppp_tmr is armed, whatever commands
\* change the mode or restart the dial meanwhile (l.9898, l.10009).
DialIsWatched ==
  st = "CONNECTING" /\ cfg.mode = "ONLINE" /\ SubDaemon # "NONE" /\ SubDaemonRunning
    => "ppp" \in tmr

\* Nothing dials while the modem is being reset, scanned or configured: no
\* path leads from CONNECTING or CONNECTED back to the bring-up arms with a
\* sub-daemon alive, unless its twin of a dual APN dial died.
QuietBringUp == st \in BringUp /\ ~dualWwan => ~SubDaemonRunning

\* The other services are told UP only while the state machine is CONNECTED
\* and so watches the link: every way out of it broadcasts DOWN (l.10261).
UpOnlyWhileConnected == pub # {} => st = "CONNECTED"

\* The dialer implements the link service: UP is announced only at the end of a
\* dial, withdrawn as a whole when the connection ends, and a new dial begins
\* with nothing promised.
ImplementsLinkService == Link!LinkSpec

\* The timers that send AT commands on the modem's port run only while the
\* state machine does not use that port itself (l.10284, l.2868).
ProbesOnlyWhileConnected == {"signal", "wwan"} \cap tmr # {} => st = "CONNECTED"

\* A suspended dialer is quiet (change_redial_state(), l.2863): nothing is left
\* dialing and no timer touches the modem, whatever was going on.
SuspendIsQuiet ==
  st = "SUSPEND" => ~SubDaemonRunning /\ {"signal", "wwan"} \cap tmr = {}

\* "broadcast ppp up" (l.10200): what is broadcast is the link of this dial, so
\* CONNECTED is entered only after a process of this dial reported its link.
UpIsOfThisDial ==
  [][st = "CONNECTING" /\ st' = "CONNECTED" => \E s \in Slots : child[s] \in {"up", "lost"}]_vars

\* my_ppp_timer() is there "for avoid ppp hangup when dialing" (l.5024): it
\* kills a dial, never an established connection.
WatchdogSparesConnection == [][PppTimer => st # "CONNECTED"]_vars

\* A link the others believe in is withdrawn once its process is gone.
DeadLinkIsWithdrawn == "wwan1" \in pub /\ ~SubDaemonRunning ~> "wwan1" \notin pub

\* A connection whose link is lost, or one of its two, does not stay as it is:
\* all its links come back, or it ends.  ih-qmi is given some looks to reconnect
\* by itself (l.10351), udhcpc is killed at once (l.3604); of the other
\* sub-daemons nobody looks at the link again.
LostLinkIsSettled ==
  []<>~(st = "CONNECTED" /\ SubDaemon \in {"QMI", "DHCP"} /\ ~(Dialed \subseteq vif))
=============================================================================
