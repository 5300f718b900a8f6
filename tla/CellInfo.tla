------------------------------ MODULE CellInfo ------------------------------
(***************************************************************************)
(* What the daemon publishes of the cell it is served by and of the SIM    *)
(* card in use, and what it does when the signal goes.  The AT command     *)
(* list fills MODEM_INFO before the dial, my_signal_timer() refreshes it   *)
(* while the link is up.  Each modem has commands of its own for this, and *)
(* each answer sets some fields, clears some, and leaves the others as     *)
(* they were.  The modem may change the cell between any two commands.     *)
(*                                                                         *)
(* The cells the modem has been served by are numbered, and a field holds  *)
(* the number of the cell it was read from: 0 is an empty field.           *)
(***************************************************************************)
EXTENDS Naturals, Sequences, FiniteSetsExt

CONSTANTS
  Families,        \* the modems, by the commands they answer
  Dual,            \* modem_config.dualsim with csq and csq_interval set
  CsqRetries,         \* modem_config.csq_retries
  MaxSignalRetry,  \* MAX_SIGNAL_RETRY
  MaxCells,        \* bound: how many cells a run sees
  MaxTroubles      \* bound: commands that nobody answers, links that break

Nets == {"none", "2G", "3G", "4G", "NSA", "SA"}
\* info->network.
NetworkOf(n) ==
  CASE n = "none" -> 0 [] n = "2G" -> 1 [] n = "3G" -> 2 [] n = "4G" -> 3 [] OTHER -> 4

Levels == [low |-> 5, good |-> 20]
CsqLimit == 10

Signal == {"rssi", "rscp", "ecio", "rsrp", "rsrq", "sinr", "ss"}
Place  == {"rat", "plmn", "lac", "cellid", "pci", "arfcn", "band"}
Fields == Signal \cup Place

AllFamilies == {"ME909", "PLS8", "U8300", "ELS81", "EC25", "RM500", "FM650", "TOBY",
                "LARAR2", "LP41", "WPD200", "LUA10"}

ASSUME CellConstantsOK ==
  /\ Families \subseteq AllFamilies /\ Dual \in BOOLEAN
  /\ CsqRetries \in Nat /\ MaxSignalRetry \in Nat /\ MaxCells \in Nat \ {0} /\ MaxTroubles \in Nat

VARIABLES
  family,    \* the modem
  cells,     \* the cells so far, [net, level, scale]; the last one serves
  currentSim, \* info->current_sim
  info,      \* [cell: the fields, network, old: old_network, imsi, iccid, phone]
  pc,        \* "startup", "at": the command list, "up": connected, "poll"
  todo,      \* the commands left of the list or of the poll
  quiet,     \* gl_check_signal_retry_cnt
  low,       \* gl_dualsim_signal_retry_cnt
  switchFlag, \* gl_sim_switch_flag
  upTimer,   \* gl_ev_ppp_up_tmr
  troubles,  \* how many commands were not answered, and links lost
  clean      \* history: the poll was answered throughout, from one cell

cellVars == <<family, cells, currentSim, info, pc, todo, quiet, low, switchFlag, upTimer,
              troubles, clean>>

Cell   == Len(cells)
Net    == cells[Cell].net
Served == Net # "none"

\* What a modem can be served by.
NetsOf(f) ==
  CASE f \in {"RM500", "FM650"} -> {"none", "3G", "4G", "NSA", "SA"}
    [] f = "LP41" -> {"none", "4G"}
    [] f = "WPD200" -> {"none", "2G", "3G"}
    [] OTHER -> {"none", "2G", "3G", "4G"}

\* The modems whose signal is asked for by AT+CSQ.  It speaks of the RSSI, and
\* on a TD-SCDMA network, with values from 100, of the RSCP: 99 and 199 are the
\* "not known" of either scale.
CsqFamilies == AllFamilies \ {"WPD200", "LP41", "LARAR2", "TOBY"}
Scales == {"rssi", "rscp"}

CellsOf(f) ==
  {c \in [net : NetsOf(f), level : {"low", "good", "none"}, scale : Scales] :
     /\ c.level = "none" <=> c.net = "none"
     /\ c.scale = "rscp" => f \in CsqFamilies /\ c.net \in {"none", "3G"}}

-----------------------------------------------------------------------------
(* The commands, and what their answers say.                               *)

\* Families whose check_modem_network() keeps the operator for itself.
OwnOperator == {"PLS8", "ELS81", "ME909", "LARAR2", "TOBY"}
\* Families that are dialed by udhcpc, ih-mipc or ih-qmi.
Watched == {"ME909", "PLS8", "RM500", "FM650", "LP41", "EC25"}

\* gl_*_at_lists, the commands that read something to publish.
AtList(f) ==
  CASE f = "ME909"  -> <<"CIMI", "CSQ", "CREG", "COPS", "SYSINFO", "ICCID", "MONSC">>
    [] f = "PLS8"   -> <<"CIMI", "CSQ", "SMONI", "CREG", "COPS", "ICCID">>
    [] f = "U8300"  -> <<"CIMI", "CSQ", "CREG", "COPS", "PSRAT", "ICCID">>
    [] f = "ELS81"  -> <<"CIMI", "CSQ", "COPS", "SMONI", "CREG", "ICCID">>
    [] f = "EC25"   -> <<"CIMI", "CSQ", "CREG", "COPS", "ICCID", "QENG2">>
    [] f = "RM500"  -> <<"CIMI", "QENG", "CREG", "ICCID">>
    [] f = "FM650"  -> <<"CIMI", "GTCCINFO", "CREG", "COPS", "ICCID">>
    [] f \in {"TOBY", "LARAR2"} -> <<"CIMI", "CESQ", "CREG", "COPS", "ICCID">>
    [] f = "LP41"   -> <<"CIMI", "MEAS8", "CREG", "COPS">>
    [] f = "WPD200" -> <<"HSTATE", "SYSINFO">>
    [] f = "LUA10"  -> <<"CIMI", "CSQ", "CREG", "COPS", "ICCID">>

\* The command behind a step of my_signal_timer(): it depends on what the
\* steps before have found.
Poll == <<"survey", "cell", "phone", "signal">>
Survey ==
  CASE family = "ME909" -> "SYSINFO"
    [] family = "PLS8"  -> "SMONI"
    [] family = "U8300" -> "PSRAT"
    [] family = "ELS81" -> "COPS"
    [] family = "EC25"  -> "QENG2"
    [] family = "RM500" -> "QENG"
    [] family = "FM650" -> "GTCCINFO"
    [] family = "TOBY" /\ info.network = 3 -> "UCGED"
    [] OTHER -> "nothing"
IsNsa == info.cell["rat"] # 0 /\ cells[info.cell["rat"]].net = "NSA"
Place2 ==
  CASE family = "ME909" -> "CGREG"
    [] family \in {"ELS81", "EC25"} -> IF info.network = 3 THEN "CEREG" ELSE "CREG"
    [] family \in {"RM500", "FM650"} ->
         CASE info.network = 4 -> IF IsNsa THEN "CEREG" ELSE "C5GREG"
           [] info.network = 3 -> "CEREG"
           [] info.network = 2 -> "CGREG"
           [] OTHER -> Survey
    [] OTHER -> "nothing"
SignalCommand ==
  CASE family = "WPD200" -> "HSTATE"
    [] family = "LP41" -> "MEAS8"
    [] family \in {"LARAR2", "TOBY"} -> "CESQ"
    [] OTHER -> "CSQ"
Command(c) ==
  CASE c = "survey" -> Survey
    [] c = "cell"   -> Place2
    [] c = "phone"  -> IF info.phone = 0 THEN "CNUM" ELSE "nothing"
    [] c = "signal" -> SignalCommand
    [] OTHER -> c

\* The registration query that knows where the modem is.
RegAnswers(c) ==
  CASE c = "CEREG" -> Net \in {"4G", "NSA"}
    [] c = "C5GREG" -> Net = "SA"
    [] c = "CGREG" -> Net \in {"2G", "3G"}
    [] c = "CREG" -> Served

\* The commands whose handler ends in update_srvcell_info().
Updates(c) ==
  CASE c \in {"CREG", "CGREG", "CEREG", "C5GREG"} -> RegAnswers(c)
    [] c = "SMONI" -> Served
    [] c = "COPS" -> Served /\ family \notin OwnOperator
    [] c = "UCGED" -> Net = "4G"
    [] OTHER -> c \in {"CSQ", "CESQ", "QENG", "QENG2", "GTCCINFO", "MEAS8", "HSTATE"}

\* What the handlers make of the answers: the fields they write, and of those the
\* ones the answer has a valid value for.
Read(mask, valid) == [mask |-> mask, valid |-> valid]
Identity == {"rat", "plmn", "lac", "cellid"}
NotRssi  == Fields \ {"rssi"}

CheckSignal(c) ==
  IF c = "CSQ" THEN Read({cells[Cell].scale}, IF Served THEN {cells[Cell].scale} ELSE {})
  ELSE Read({"rssi", "rscp", "ecio", "rsrq", "rsrp"},
            CASE Net = "4G" -> {"rsrp", "rsrq"} [] Net = "3G" -> {"rscp", "ecio"}
              [] Net = "2G" -> {"rssi"}         [] OTHER -> {})

CheckServingcell ==
  CASE Net = "4G"  -> Read(NotRssi, Identity \cup {"pci", "arfcn", "band", "rsrp", "rsrq", "sinr"})
    [] Net = "NSA" -> Read(Fields, Fields \ {"pci", "rscp", "ecio"})
    [] Net = "SA"  -> Read(Fields, Identity \cup {"pci", "arfcn", "band", "ss"})
    [] Net = "3G"  -> Read(NotRssi, Identity \cup {"rscp", "ecio", "arfcn"})
    [] OTHER -> Read({}, {})

CheckServingcell2 ==
  CASE Net = "4G" -> Read(NotRssi, Identity \cup {"pci", "arfcn", "band", "rsrp", "rsrq", "sinr"})
    [] Net = "3G" -> Read(NotRssi, Identity \cup {"rscp", "ecio", "arfcn"})
    [] Net = "2G" -> Read(Fields, Identity \cup {"band", "rssi"})
    [] OTHER -> Read({}, {})

CheckGtccinfo ==
  CASE Net = "4G"  -> Read(NotRssi, Identity \cup {"pci", "arfcn", "band", "rsrp", "rsrq"})
    [] Net = "NSA" -> Read(NotRssi, Identity \cup {"pci", "arfcn", "band", "rsrp", "rsrq", "ss"})
    [] Net = "SA"  -> Read(Fields, Identity \cup {"pci", "arfcn", "band", "ss"})
    [] Net = "3G"  -> Read(NotRssi, Identity \cup {"rscp", "ecio", "band"})
    [] OTHER -> Read({}, {})

\* Mutant: AT^SMONI in 3G and 2G writes only the fields it reads.
CheckSmoniOfRead ==
  LET read == {"lac", "cellid"} \cup (IF Net = "4G" THEN {"rsrp", "rsrq"} ELSE {})
  IN Read(read, read)

CheckSmoni ==
  Read({"lac", "cellid", "rsrp", "rsrq", "sinr"},
       {"lac", "cellid"} \cup (IF Net = "4G" THEN {"rsrp", "rsrq"} ELSE {}))

\* The SINR is written over the RSRP, which makes that invalid ...
CheckFb78 == Read({"rsrp", "rsrq", "sinr"}, {"rsrq"})
\* ... and here it is the RSSI.
CheckLp41 == Read({"rssi", "rsrp"}, IF Served THEN {"rsrp"} ELSE {})

CheckReg     == Read({"lac", "cellid"}, {"lac", "cellid"})
CheckNetwork == Read({"plmn"}, {"plmn"})
CheckWpd200  == Read({"rssi"}, {"rssi"})

Answer(c) ==
  CASE c \in {"CSQ", "CESQ"} -> CheckSignal(c)
    [] c \in {"CREG", "CGREG", "CEREG", "C5GREG"} -> CheckReg
    [] c = "QENG"     -> CheckServingcell
    [] c = "QENG2"    -> CheckServingcell2
    [] c = "GTCCINFO" -> CheckGtccinfo
    [] c = "SMONI"    -> CheckSmoni
    [] c = "COPS"     -> CheckNetwork
    [] c = "UCGED"    -> CheckFb78
    [] c = "MEAS8"    -> CheckLp41
    [] c = "HSTATE"   -> CheckWpd200

\* info->network after the answer.
NetworkAfter(c) ==
  CASE c \in {"QENG", "QENG2", "GTCCINFO", "SMONI", "COPS", "SYSINFO"} ->
         IF Served THEN NetworkOf(Net) ELSE info.network
    [] c = "PSRAT" -> NetworkOf(Net)
    [] OTHER -> info.network
\* The fields that a handler writes past update_srvcell_info().
Direct(c) ==
  CASE c \in {"SYSINFO", "PSRAT"} -> {"rat"}
    [] c = "COPS" /\ family \in OwnOperator /\ Served -> {"plmn"}
    [] c = "MONSC" /\ Served -> {"band"}
    [] OTHER -> {}

\* update_srvcell_info(): a change of the network clears the radio technology
\* first, then each field of the mask is stored, or cleared if it is not valid.
Update(i, mask, valid) ==
  LET known == IF i.network # i.old THEN [i.cell EXCEPT !["rat"] = 0] ELSE i.cell
  IN [i EXCEPT !.old = i.network,
               !.cell = [x \in Fields |-> IF x \notin mask THEN known[x]
                                          ELSE IF x \in valid THEN Cell ELSE 0]]

\* check_modem_imsi(), check_check_sim_iccid(), check_modem_phonenum(): a card
\* without a number leaves a "-" of its own.
ReadCard(i, c) ==
  CASE c = "CIMI"  -> [i EXCEPT !.imsi = currentSim]
    [] c = "ICCID" -> [i EXCEPT !.iccid = currentSim]
    [] c = "CNUM"  -> [i EXCEPT !.phone = currentSim]
    [] OTHER -> i

Handle(c) ==
  LET named == [info EXCEPT !.network = NetworkAfter(c),
                            !.cell = [x \in Fields |-> IF x \in Direct(c) THEN Cell
                                                       ELSE info.cell[x]]]
  IN ReadCard(IF Updates(c) THEN Update(named, Answer(c).mask, Answer(c).valid) ELSE named, c)

\* compute_signal_info(): siglevel is that of the RSSI, or of the best of the
\* others.
SigLevel(i) ==
  LET read == SelectSeq(<<"rssi", "ss", "rsrp", "rscp">>, LAMBDA x : i.cell[x] # 0)
  IN IF read = <<>> \/ cells[i.cell[Head(read)]].level = "none" THEN 0
     ELSE Levels[cells[i.cell[Head(read)]].level]

-----------------------------------------------------------------------------
Nothing == [cell |-> [x \in Fields |-> 0], network |-> 0, old |-> 0,
            imsi |-> 0, iccid |-> 0, phone |-> 0]

\* clear_modem_info(): current_sim stays, and old_network is a static variable
\* of update_srvcell_info().
ClearInfo(i) == [Nothing EXCEPT !.old = i.old]

CellInit ==
  /\ family \in Families
  /\ \E c \in CellsOf(family) : cells = <<c>>
  /\ currentSim = 1 /\ pc = "startup" /\ todo = <<>> /\ info = Nothing
  /\ quiet = 0 /\ low = 0 /\ switchFlag = FALSE /\ upTimer = FALSE /\ troubles = 0 /\ clean = FALSE

\* The modem moves to another cell, or loses the one it had.
Handover ==
  /\ Cell < MaxCells
  /\ \E c \in CellsOf(family) : cells' = Append(cells, c)
  /\ clean' = FALSE
  /\ UNCHANGED <<family, currentSim, info, pc, todo, quiet, low, switchFlag, upTimer, troubles>>

\* REDIAL_STATE_MODEM_STARTUP, with the switch that was asked for.
Startup ==
  /\ pc = "startup"
  /\ info' = ClearInfo(info)
  /\ currentSim' = IF switchFlag THEN 3 - currentSim ELSE currentSim
  /\ low' = IF switchFlag THEN 0 ELSE low
  /\ switchFlag' = FALSE
  /\ pc' = "at" /\ todo' = AtList(family)
  /\ UNCHANGED <<family, cells, quiet, upTimer, troubles, clean>>

\* A list that gets no further, a link that goes: STARTUP.
BreakOff ==
  /\ pc \in {"at", "up"} /\ troubles < MaxTroubles
  /\ pc' = "startup" /\ todo' = <<>> /\ upTimer' = FALSE /\ troubles' = troubles + 1
  /\ quiet' = IF pc = "up" /\ family \in Watched THEN 0 ELSE quiet
  /\ UNCHANGED <<family, cells, currentSim, info, low, switchFlag, clean>>

\* A command of the list: without signal or registration it is asked again.
Insisted == {"CSQ", "CESQ", "QENG", "GTCCINFO", "MEAS8", "HSTATE", "CREG", "SMONI", "COPS"}
AtCommand ==
  /\ pc = "at" /\ todo # <<>>
  /\ info' = Handle(Head(todo))
  /\ todo' = IF Head(todo) \in Insisted /\ ~Served THEN todo ELSE Tail(todo)
  /\ UNCHANGED <<family, cells, currentSim, pc, quiet, low, switchFlag, upTimer, troubles, clean>>

ListDone ==
  /\ pc = "at" /\ todo = <<>>
  /\ pc' = "up" /\ upTimer' = TRUE
  /\ UNCHANGED <<family, cells, currentSim, info, todo, quiet, low, switchFlag, troubles, clean>>

\* my_ppp_up_timer(): the link has been up for ten minutes.
CellUpTimer ==
  /\ pc = "up" /\ upTimer
  /\ upTimer' = FALSE /\ low' = 0
  /\ UNCHANGED <<family, cells, currentSim, info, pc, todo, quiet, switchFlag, troubles, clean>>

\* my_signal_timer() begins.
PollBegins ==
  /\ pc = "up"
  /\ pc' = "poll" /\ todo' = Poll /\ clean' = TRUE
  /\ UNCHANGED <<family, cells, currentSim, info, quiet, low, switchFlag, upTimer, troubles>>

PollCommand ==
  /\ pc = "poll" /\ todo # <<>>
  /\ info' = Handle(Command(Head(todo)))
  /\ todo' = Tail(todo)
  /\ UNCHANGED <<family, cells, currentSim, pc, quiet, low, switchFlag, upTimer, troubles, clean>>

\* send_at_cmd_sync3() fails: the handler is not called.
PollSilence ==
  /\ pc = "poll" /\ todo # <<>> /\ Command(Head(todo)) # "nothing"
  /\ troubles < MaxTroubles /\ troubles' = troubles + 1
  /\ todo' = Tail(todo) /\ clean' = FALSE
  /\ UNCHANGED <<family, cells, currentSim, info, pc, quiet, low, switchFlag, upTimer>>

\* Mutant: the tries are counted afresh by each connection's first reading.
SignalVerdictForgets ==
  /\ pc = "poll" /\ todo = <<>>
  /\ pc' = "up" /\ clean' = FALSE /\ quiet' = 0
  /\ low' = IF SigLevel(info) < CsqLimit /\ Dual THEN 1 ELSE 0
  /\ UNCHANGED <<family, cells, currentSim, info, todo, switchFlag, upTimer, troubles>>

\* The end of my_signal_timer(): a modem without signal is dialed again, a SIM
\* card with a low signal is left for the other.
SignalVerdict ==
  /\ pc = "poll" /\ todo = <<>>
  /\ LET level == SigLevel(info)
         lost == family \in Watched /\ level = 0 /\ quiet >= MaxSignalRetry
         weak == Dual /\ level < CsqLimit
         switch == weak /\ low >= CsqRetries
     IN /\ quiet' = IF family \notin Watched THEN quiet
                    ELSE IF level # 0 \/ lost \/ switch THEN 0 ELSE quiet + 1
        /\ low' = IF ~Dual THEN low ELSE IF weak THEN Min({low + 1, CsqRetries + 1}) ELSE 0
        /\ switchFlag' = (switchFlag \/ switch)
        /\ pc' = IF lost \/ switch THEN "startup" ELSE "up"
        /\ upTimer' = (upTimer /\ ~lost /\ ~switch)
  /\ clean' = FALSE
  /\ UNCHANGED <<family, cells, currentSim, info, todo, troubles>>

CellNext ==
  \/ Handover \/ Startup \/ BreakOff \/ AtCommand \/ ListDone
  \/ CellUpTimer \/ PollBegins \/ PollCommand \/ PollSilence \/ SignalVerdict

CellSpec == CellInit /\ [][CellNext]_cellVars

\* The event loop runs its timers, and a modem that serves answers.
Step == Startup \/ AtCommand \/ ListDone \/ PollBegins \/ PollCommand \/ SignalVerdict
CellFairness == WF_cellVars(Step)

-----------------------------------------------------------------------------
(* Properties.                                                             *)

\* A cell the modem has been served by.
Seen == 0..Cell

\* The type invariant.
CellTypeOK ==
  /\ family \in Families /\ currentSim \in {1, 2}
  /\ Cell \in 1..MaxCells /\ \A i \in 1..Cell : cells[i] \in CellsOf(family)
  /\ info.cell \in [Fields -> Seen] /\ {info.network, info.old} \subseteq 0..4
  /\ {info.imsi, info.iccid, info.phone} \subseteq {0, 1, 2}
  /\ pc \in {"startup", "at", "up", "poll"}
  /\ quiet \in 0..MaxSignalRetry /\ low \in 0..(CsqRetries + 1)
  /\ switchFlag \in BOOLEAN /\ upTimer \in BOOLEAN /\ clean \in BOOLEAN /\ troubles \in 0..MaxTroubles

\* The field of AT+CSQ's other scale, where no survey tells it: it keeps what an
\* earlier cell has left there.
LeftBehind ==
  IF family \notin CsqFamilies THEN {}
  ELSE IF cells[Cell].scale = "rscp" THEN {"rssi"}
  ELSE {"rscp"} \ (IF family \in {"EC25", "RM500", "FM650"} THEN Signal ELSE {})

\* What is published of the signal is that of the cell that serves: a poll that
\* is answered from one cell leaves no value of an earlier one, though each of
\* its commands refreshes and clears only some fields ("if network type
\* changed, related signal info should be cleared").  There are two exceptions.
\* AT+CSQ writes the RSSI or, on TD-SCDMA, the RSCP, and leaves the other as it
\* was (modem.c l.2722-2737).  And what the ELS81's AT^SMONI has read before the
\* dial is never asked for again.
SignalIsFresh ==
  family # "ELS81" /\ clean /\ pc = "poll" /\ todo = <<>> /\ Served =>
    \A x \in Signal \ LeftBehind : info.cell[x] \in {0, Cell}

\* What is published of the SIM card is that of the card in use, whatever was
\* switched and dialed before.
CardIsCurrent ==
  pc # "startup" => {info.imsi, info.iccid, info.phone} \subseteq {0, currentSim}

\* AT+CSQ has spoken of one scale only.  Otherwise the RSSI that an earlier cell
\* has left decides the signal level, whatever becomes of the RSCP.
OneScale == \A i \in 1..Cell : cells[i].scale = cells[Cell].scale

\* A modem that has lost its signal while it is connected does not stay so: it is dialed
\* again (ih_redial.c: "No signal for a long time, try redial!"), if its
\* signal is read by one command only, on one scale.  The other watched modems
\* keep the RSRP of the cell they have lost, and a signal level with it.
Lost == pc \in {"up", "poll"} /\ ~Served
LostSignalRedials == []<>~(family \in {"ME909", "LP41"} /\ Lost /\ OneScale)

\* A low signal that stays makes the daemon try the other card, even if the
\* timer of ten minutes has forgotten the tries before.
Low == cells[Cell].level = "low" /\ OneScale
LowSignalSwitches == \A s \in {1, 2} : []<>~(Dual /\ currentSim = s /\ Low)

\* A bad signal is acted on: a lost one by a new dial, a low one by a switch
\* (ih_redial.c l.4970-4999).
BadSignalIsActedOn == LostSignalRedials /\ LowSignalSwitches

\* What is shown of the cell and of the card is what the modem said last of the
\* card in use, since it came up.
CellIsCurrent == CellTypeOK /\ SignalIsFresh /\ CardIsCurrent
=============================================================================
