---------------------------- MODULE DialerProofs ----------------------------
(***************************************************************************)
(* What holds of Dialer for every value of its constants: any set of       *)
(* modems, any bounds on redials, mail and requests.                       *)
(*                                                                         *)
(* All theorems follow from one inductive invariant, IInv.  The safety     *)
(* properties are not inductive: that the bring-up arms are quiet needs to *)
(* know which slots a modem can ever use, that those arms are reached with *)
(* all of them dead, and that a dual dial is remembered as such for as     *)
(* long as it lives.  The lemmas go action group by action group.          *)
(***************************************************************************)
EXTENDS Dialer, SequenceTheorems, TLAPS

(* The inductive invariant.                                                *)

\* Nobody suspends, hangs up or resets the dialer, or changes its WWANs.
Calm == Requests \cap Forced = {}

\* The slots the modem at hand can ever fill.
UsedSlots == {"wwan1"} \cup (IF cfg.modem = "DUAL" \/ (cfg.modem = "QMI" /\ ~Calm)
                             THEN {"wwan2"} ELSE {})
                       \cup (IF cfg.modem = "DHCP6" THEN {"odhcp6c"} ELSE {})
UsedReport == [from : UsedSlots, up : BOOLEAN]

\* Nothing runs, reports or is up in the others.
UsedOnly ==
  /\ \A s \in Slots \ UsedSlots : child[s] = "none"
  /\ mail \in Seq(UsedReport)
  /\ vif \subseteq UsedSlots /\ pub \subseteq UsedSlots

\* A modem is only dialed by the arm made for it.
DialArm == st \in Dialing => st = DialStateOf

\* Only ih-qmi dials two WWANs; and a dual dial is known as one until it ends.
DualOnlyQmi == cfg.dual => SubDaemon = "QMI"

DualKept == Calm =>
  /\ cfg.dual = (cfg.modem = "DUAL")
  /\ dualWwan => cfg.dual
  /\ st \in {"CONNECTING", "CONNECTED"} /\ cfg.dual => dualWwan

\* The properties that the forced requests, and the odhcp6c of DHCP6, may break.
UpWhileConnected     == Calm /\ cfg.modem # "DHCP6" => UpOnlyWhileConnected
ProbesWhileConnected == Calm => ProbesOnlyWhileConnected
QuietWhileDown       == Calm => QuietBringUp

\* While CONNECTED the others know of a first WWAN whose link is up; and of any but
\* ih-qmi's, whose link may come and go.
ConnectedIsTold == st = "CONNECTED" /\ (SubDaemon # "QMI" \/ "wwan1" \in vif) => "wwan1" \in pub

\* Core also holds while something else moves the dialer: the tester of
\* FactoryTest, the restart of the daemon in VifBus.
Core == /\ TypeOK /\ UsedOnly /\ DialArm /\ DualOnlyQmi /\ DualKept /\ ConnectedIsTold
        /\ ProbesWhileConnected /\ QuietWhileDown
        /\ DialIsWatched /\ SuspendIsQuiet

IInv == Core /\ UpWhileConnected

\* What was announced before the daemon died is withdrawn by its first arm.
FirstUp == Calm /\ cfg.modem # "DHCP6" /\ "wwan1" \in pub => st \in {"CONNECTED", "INIT"}

\* What a step of the dialer does to what is broadcast.
UpKept == /\ UpWhileConnected => UpWhileConnected'
          /\ FirstUp => FirstUp'
          /\ st # "CONNECTED" /\ st' = "CONNECTED" => "wwan1" \in pub'

-----------------------------------------------------------------------------
(* Lemmas on the helpers.                                                  *)

\* What a modem can use is among what stop_child_by_sub_daemon() kills.
LEMMA UsedFacts == ASSUME TypeOK PROVE /\ UsedSlots \subseteq Slots /\ "wwan1" \in UsedSlots
                                       /\ UsedSlots \subseteq StopSlots
                                       /\ StopSlots \subseteq Slots
                                       /\ UsedReport \subseteq Report
  BY DEF UsedSlots, Slots, StopSlots, SubDaemon, UsedReport, Report, Wwans

\* Processes on their way out report only of slots that are used.
LEMMA FarewellReports ==
  ASSUME TypeOK, UsedOnly, NEW S, NEW box \in Seq(UsedReport), NEW b \in Farewell(S, box)
  PROVE  b \in Seq(UsedReport)
<1> DEFINE bye(s, q) == IF s \in S /\ child[s] = "up"
                        THEN Append(q, [from |-> s, up |-> FALSE]) ELSE q
<1>1. ASSUME NEW s \in Slots, NEW q \in Seq(UsedReport) PROVE bye(s, q) \in Seq(UsedReport)
  <2>1. CASE s \in S /\ child[s] = "up"
    <3>1. s \in UsedSlots
      BY <2>1 DEF UsedOnly
    <3>2. [from |-> s, up |-> FALSE] \in UsedReport
      BY <3>1 DEF UsedReport
    <3> QED BY <2>1, <3>2, AppendProperties
  <2>2. CASE ~(s \in S /\ child[s] = "up")
    BY <2>2
  <2> QED BY <2>1, <2>2
<1>2. bye("wwan2", bye("wwan1", box)) \in Seq(UsedReport)
  <2>1. bye("wwan1", box) \in Seq(UsedReport)
    BY <1>1 DEF Slots
  <2> HIDE DEF bye
  <2> QED BY <1>1, <2>1 DEF Slots
<1>3. b = bye("wwan2", bye("wwan1", box)) \/ b = box
  BY DEF Farewell
<1> QED BY <1>2, <1>3

\* stop_child_by_sub_daemon() leaves no process behind, whatever the modem.
LEMMA StopChildEffect ==
  ASSUME TypeOK, UsedOnly, NEW box \in Seq(UsedReport), StopChild(box)
  PROVE  /\ child' \in [Slots -> Progress]
         /\ \A s \in Slots : child'[s] = "none"
         /\ mail' \in Seq(UsedReport)
<1>1. child' \in [Slots -> Progress]
  BY DEF StopChild, TypeOK, Progress
<1>2. \A s \in Slots : child'[s] = "none"
  BY UsedFacts DEF StopChild, UsedOnly
<1>3. mail' \in Seq(UsedReport)
  BY FarewellReports DEF StopChild
<1> QED BY <1>1, <1>2, <1>3

\* do_redial_procedure() comes too early and does nothing, or leaves nothing
\* dialing; it never leaves CONNECTED by itself.
LEMMA DoRedialEffect ==
  ASSUME TypeOK, UsedOnly, NEW box \in Seq(UsedReport), DoRedial(box)
  PROVE  /\ child' \in [Slots -> Progress]
         /\ mail' \in Seq(UsedReport)
         /\ st' \in {st, "STARTUP"} /\ (st \in {"CONNECTED", "INIT"} => st' = st)
         /\ \/ st \in BeforeModemInit /\ st' = st /\ child' = child
            \/ \A s \in Slots : child'[s] = "none"
<1>1. CASE st \in BeforeModemInit
  BY <1>1 DEF DoRedial, TypeOK
<1>2. CASE st \notin BeforeModemInit /\ SubDaemonRunning
  BY <1>2, StopChildEffect DEF DoRedial, BeforeModemInit
<1>3. CASE st \notin BeforeModemInit /\ ~SubDaemonRunning
  BY <1>3 DEF DoRedial, TypeOK, SubDaemonRunning, Progress, BeforeModemInit
<1> QED BY <1>1, <1>2, <1>3

-----------------------------------------------------------------------------
(* Initially IInv holds, and every action keeps it.                        *)

\* main(): nothing is running and no timer is armed.
LEMMA InitInv == Init => IInv
<1> SUFFICES ASSUME Init PROVE IInv
  OBVIOUS
<1> USE DEF Init
<1>1. TypeOK
  <2>1. cfg \in Settings
    <3>1. PICK m \in Modems :
            cfg = [modem |-> m, dual |-> m = "DUAL",
                   mode |-> "ONLINE", enable |-> TRUE, held |-> FALSE]
      OBVIOUS
    <3>2. "ONLINE" \in Modes
      BY DEF Modes
    <3> DEFINE d == m = "DUAL"
    <3>3. d \in BOOLEAN
      OBVIOUS
    <3>4. cfg = [modem |-> m, dual |-> d,
                   mode |-> "ONLINE", enable |-> TRUE, held |-> FALSE]
      BY <3>1
    <3> HIDE DEF d
    <3> QED
      BY <3>2, <3>3, <3>4 DEF Settings
  <2>2. /\ redialCnt \in 0 .. MaxCount /\ ~(redialCnt > MaxRedial + 1)
        /\ waitCnt \in 0 .. 4 /\ requests \in 0 .. MaxRequests
    BY ConstantsOK DEF ConstantsOK
  <2>3. mail \in Seq(Report)
    BY EmptySeq
  <2>4. child \in [Slots -> Progress]
    BY DEF Progress
  <2> QED
    BY <2>1, <2>2, <2>3, <2>4
    DEF TypeOK, States, BringUp, BeforeModemInit, DialStates
<1>2. UsedOnly
  BY EmptySeq DEF UsedOnly
<1>3. DialArm /\ DualKept /\ DualOnlyQmi
  <2>1. cfg.dual = (cfg.modem = "DUAL")
    OBVIOUS
  <2>2. cfg.modem = "DUAL" => SubDaemon = "QMI"
    BY DEF SubDaemon
  <2> QED
    BY <2>1, <2>2 DEF DialArm, Dialing, DualKept, DualOnlyQmi
<1>4. UpWhileConnected /\ ProbesWhileConnected /\ QuietWhileDown /\ DialIsWatched /\ SuspendIsQuiet /\ ConnectedIsTold
  BY DEF ConnectedIsTold, UpWhileConnected, UpOnlyWhileConnected, ProbesWhileConnected, ProbesOnlyWhileConnected, QuietWhileDown, QuietBringUp,
         SubDaemonRunning, DialIsWatched, SuspendIsQuiet
<1> QED
  BY <1>1, <1>2, <1>3, <1>4 DEF IInv, Core

\* The modem is detected once: what depends on it alone never changes.
LEMMA SameModem ==
  ASSUME cfg'.modem = cfg.modem
  PROVE  /\ SubDaemon' = SubDaemon /\ DialStateOf' = DialStateOf
         /\ UsedSlots' = UsedSlots /\ UsedReport' = UsedReport
  BY DEF SubDaemon, DialStateOf, UsedSlots, UsedReport

\* The arms before a dial start nothing and announce nothing.
LEMMA ScanStep == Core /\ Scan => Core' /\ UpKept
<1> SUFFICES ASSUME Core, Scan PROVE Core' /\ UpKept
  OBVIOUS
<1>1. UNCHANGED <<link, tmr, cfg, dial, force, requests, dualWwan, counts>>
  BY DEF Scan, RedialInit, WaitConfig, ModemStartup, SwitchSim, WrongSim, SwitchAtOnce, LoadDrv, WaitAt, ModemInit, ModemReady,
         SmsOnly, AtCommands, ModemStep, policy
<1>2. vif' \subseteq vif /\ pub' \subseteq pub /\ (st = "INIT" => "wwan1" \notin pub')
  BY DEF Scan, RedialInit, WaitConfig, ModemStartup, SwitchSim, WrongSim, SwitchAtOnce, LoadDrv, WaitAt, ModemInit, ModemReady,
         SmsOnly, AtCommands, ModemStep, Core, TypeOK
<1>3. st \in BringUp \ Dialing /\ st' \in BringUp \cup {"REBOOT"}
      /\ (st' \in Dialing => st' = DialStateOf) /\ simSwitch' \in BOOLEAN
  BY DEF Scan, RedialInit, WaitConfig, ModemStartup, SwitchSim, WrongSim, SwitchAtOnce, LoadDrv, WaitAt, ModemInit, ModemReady,
         SmsOnly, AtCommands, ModemStep, policy, BringUp, BeforeModemInit, Dialing, DialStateOf, Core, TypeOK
<1> QED
  BY <1>1, <1>2, <1>3, SameModem
  DEF Core, TypeOK, UsedOnly, DialArm, DualKept, DualOnlyQmi, UpKept, FirstUp, ConnectedIsTold, UpWhileConnected, UpOnlyWhileConnected,
      ProbesWhileConnected, ProbesOnlyWhileConnected, QuietWhileDown, QuietBringUp, SubDaemonRunning,
      DialIsWatched, SuspendIsQuiet, States, BringUp, BeforeModemInit, Dialing, link, counts

\* The arms that dial start only the slots of their modem, and watch the dial.
LEMMA DialStep == Core /\ Dial => Core' /\ UpKept
<1> SUFFICES ASSUME Core, Dial PROVE Core' /\ UpKept
  OBVIOUS
<1> USE DEF Core, TypeOK, States, BringUp, BeforeModemInit, Dialing
<1>1. CASE SwitchBeforeDial \/ RebootRouter
  <2>1. /\ UNCHANGED <<child, mail, vif, pub, tmr, cfg, dial, dualWwan, force,
                       redialCnt, waitCnt, requests>>
        /\ simSwitch' \in BOOLEAN
        /\ st \in Dialing /\ st' \in {"STARTUP", "REBOOT"}
    BY <1>1 DEF SwitchBeforeDial, WrongSim, SwitchAtOnce, RebootRouter, ModemStep, link, policy, counts
  <2> QED
    BY <2>1, SameModem
    DEF UsedOnly, DialArm, DualKept, DualOnlyQmi, UpKept, FirstUp, ConnectedIsTold, UpWhileConnected, UpOnlyWhileConnected, ProbesWhileConnected, ProbesOnlyWhileConnected,
        QuietWhileDown, QuietBringUp, SubDaemonRunning, DialIsWatched, SuspendIsQuiet
<1>2. CASE DialPpp
  <2> USE <1>2 DEF DialPpp, policy
  <2>1. /\ redialCnt' \in 0 .. MaxCount
        /\ redialCnt' > MaxRedial + 1 => InfiniteRetry /\ cfg'.modem = "PPP"
    <3>1. cfg.modem = "PPP"
      BY ConstantsOK DEF ConstantsOK, Kinds, Settings, DialArm, DialStateOf, SubDaemon
    <3>2. redialCnt \in 0 .. MaxCount /\ redialCnt < MaxCount /\ redialCnt' = redialCnt + 1
      BY DEF CountRedial
    <3>3. TooManyRedials => InfiniteRetry
      BY DEF GoAhead
    <3> QED
      BY <3>1, <3>2, <3>3, ConstantsOK DEF TooManyRedials, ConstantsOK
  <2>2. TypeOK'
    BY <2>1 DEF WatchDial, Timers, Progress, Slots
  <2>3. UsedOnly'
    BY SameModem, UsedFacts DEF UsedOnly
  <2>4. DualKept' /\ DualOnlyQmi' /\ DialArm'
    BY DEF DualKept, DualOnlyQmi, DialArm, DialStateOf, SubDaemon
  <2>5. UpKept /\ ConnectedIsTold' /\ ProbesWhileConnected' /\ QuietWhileDown'
    BY DEF UpKept, FirstUp, ConnectedIsTold, UpWhileConnected, UpOnlyWhileConnected, ProbesWhileConnected, ProbesOnlyWhileConnected, WatchDial, QuietWhileDown, QuietBringUp
  <2>6. DialIsWatched' /\ SuspendIsQuiet'
    BY DEF DialIsWatched, SuspendIsQuiet, WatchDial
  <2> QED
    BY <2>2, <2>3, <2>4, <2>5, <2>6
<1>3. CASE DialDhcp
  <2> USE <1>3 DEF DialDhcp
  <2>1. /\ redialCnt' \in 0 .. MaxCount
        /\ redialCnt' > MaxRedial + 1 => InfiniteRetry /\ cfg'.modem = "PPP"
    <3>1. redialCnt \in 0 .. MaxCount /\ redialCnt' = IF redialCnt > MaxRedial THEN 0 ELSE redialCnt + 1
      BY DEF CountRedial, TooManyRedials
    <3> QED
      BY <3>1, ConstantsOK DEF ConstantsOK
  <2>2. StartSlots \subseteq UsedSlots
    BY DEF StartSlots, UsedSlots, DualKept, DualOnlyQmi, SubDaemon
  <2>3. mail' \in Seq(UsedReport)
    BY FarewellReports DEF UsedOnly
  <2>4. TypeOK'
    <3>1. mail' \in Seq(Report)
      BY <2>3, UsedFacts
    <3>2. child' \in [Slots -> Progress] /\ tmr' \in SUBSET Timers
      BY DEF WatchDial, Timers, Progress
    <3> QED
      BY <2>1, <3>1, <3>2 DEF Settings, DialStates
  <2>5. UsedOnly'
    BY <2>2, <2>3, SameModem, UsedFacts DEF UsedOnly
  <2>6. DualKept' /\ DualOnlyQmi' /\ DialArm'
    BY SameModem DEF DualKept, DualOnlyQmi, DialArm, Settings
  <2>7. UpKept /\ ConnectedIsTold' /\ ProbesWhileConnected' /\ QuietWhileDown'
    BY DEF UpKept, FirstUp, ConnectedIsTold, UpWhileConnected, UpOnlyWhileConnected, ProbesWhileConnected, ProbesOnlyWhileConnected, WatchDial, QuietWhileDown, QuietBringUp
  <2>8. DialIsWatched' /\ SuspendIsQuiet'
    BY DEF DialIsWatched, SuspendIsQuiet, WatchDial
  <2> QED
    BY <2>4, <2>5, <2>6, <2>7, <2>8
<1>4. CASE DialStatic
  <2> USE <1>4 DEF DialStatic, policy
  <2>1. /\ redialCnt' \in 0 .. MaxCount
        /\ redialCnt' > MaxRedial + 1 => InfiniteRetry /\ cfg'.modem = "PPP"
    <3>1. redialCnt \in 0 .. MaxCount /\ redialCnt' = IF redialCnt > MaxRedial THEN 0 ELSE redialCnt + 1
      BY DEF CountRedial, TooManyRedials
    <3> QED
      BY <3>1, ConstantsOK DEF ConstantsOK
  <2>2. SubDaemon = "NONE" /\ cfg.modem = "NONE"
    BY DEF DialArm, DialStateOf, SubDaemon
  <2>3. TypeOK'
    BY <2>1 DEF Timers, Progress, Slots, Wwans
  <2>4. UsedOnly'
    BY SameModem, UsedFacts DEF UsedOnly
  <2>5. DualKept' /\ DualOnlyQmi' /\ DialArm'
    BY <2>2 DEF DualKept, DualOnlyQmi, DialArm
  <2>6. UpKept /\ ConnectedIsTold' /\ ProbesWhileConnected'
    BY DEF UpKept, FirstUp, ConnectedIsTold, UpWhileConnected, UpOnlyWhileConnected, ProbesWhileConnected, ProbesOnlyWhileConnected
  <2>7. QuietWhileDown'
    BY <2>2 DEF QuietWhileDown, QuietBringUp, SubDaemonRunning, UsedOnly, UsedSlots
  <2>8. DialIsWatched' /\ SuspendIsQuiet'
    BY <2>2, SameModem DEF DialIsWatched, SuspendIsQuiet
  <2> QED
    BY <2>3, <2>4, <2>5, <2>6, <2>7, <2>8
<1> QED
  BY <1>1, <1>2, <1>3, <1>4 DEF Dial

\* The CONNECTING and CONNECTED arms go back only when all is dead, and withdraw
\* what they announced.
LEMMA WatchStep == Core /\ Watch => Core' /\ UpKept
<1> SUFFICES ASSUME Core, Watch PROVE Core' /\ UpKept
  OBVIOUS
<1> USE DEF Core, TypeOK, States, BringUp, BeforeModemInit, Dialing, link, policy, counts
<1>1. CASE ConnectingFail
  <2> USE <1>1 DEF ConnectingFail
  <2>1. TypeOK' /\ UsedOnly' /\ DialArm' /\ DualKept' /\ DualOnlyQmi'
    BY SameModem DEF UsedOnly, DialArm, DualKept, DualOnlyQmi, StopWatching
  <2>2. UpKept /\ ConnectedIsTold' /\ ProbesWhileConnected' /\ DialIsWatched' /\ SuspendIsQuiet'
    BY DEF UpKept, FirstUp, ConnectedIsTold, UpWhileConnected, UpOnlyWhileConnected, ProbesWhileConnected, ProbesOnlyWhileConnected, StopWatching, DialIsWatched, SuspendIsQuiet
  <2>3. QuietWhileDown'
    BY DEF QuietWhileDown, QuietBringUp, SubDaemonRunning, DialDead, UsedOnly, UsedSlots, DualKept, DualOnlyQmi, Slots
  <2> QED
    BY <2>1, <2>2, <2>3
<1>2. CASE ConnectingUp
  <2> USE <1>2 DEF ConnectingUp
  <2>1. TypeOK'
    BY DEF StopWatching, Timers, Dialed, Wwans
  <2>2. UsedOnly' /\ DialArm' /\ DualKept' /\ DualOnlyQmi'
    BY SameModem, UsedFacts DEF UsedOnly, DialArm, DualKept, DualOnlyQmi, Dialed, UsedSlots
  <2>3. UpKept /\ ConnectedIsTold' /\ ProbesWhileConnected' /\ DialIsWatched' /\ SuspendIsQuiet' /\ QuietWhileDown'
    BY DEF Dialed, UpKept, FirstUp, ConnectedIsTold, UpWhileConnected, UpOnlyWhileConnected, ProbesWhileConnected, ProbesOnlyWhileConnected,
           DialIsWatched, SuspendIsQuiet, QuietWhileDown, QuietBringUp
  <2> QED
    BY <2>1, <2>2, <2>3
<1>3. CASE ConnectedDead
  <2> USE <1>3 DEF ConnectedDead
  <2>1. TypeOK' /\ UsedOnly' /\ DialArm' /\ DualKept' /\ DualOnlyQmi'
    BY SameModem DEF UsedOnly, DialArm, DualKept, DualOnlyQmi
  <2>2. Calm /\ cfg.modem # "DHCP6" => pub \subseteq Dialed
    BY DEF UsedOnly, UsedSlots, Dialed, DualKept, DualOnlyQmi
  <2>3. UpKept /\ ConnectedIsTold' /\ ProbesWhileConnected' /\ DialIsWatched' /\ SuspendIsQuiet'
    BY <2>2 DEF UpKept, FirstUp, ConnectedIsTold, UpWhileConnected, UpOnlyWhileConnected, ProbesWhileConnected, ProbesOnlyWhileConnected, DialIsWatched, SuspendIsQuiet
  <2>4. QuietWhileDown'
    BY DEF QuietWhileDown, QuietBringUp, SubDaemonRunning, DialDead, UsedOnly, UsedSlots, DualKept, DualOnlyQmi, Slots
  <2> QED
    BY <2>1, <2>3, <2>4
<1>4. CASE ConnectedReconnecting \/ ConnectedStable
  <2> USE <1>4 DEF ConnectedReconnecting, ConnectedStable
  <2>1. child' \in [Slots -> Progress] /\ mail' \in Seq(UsedReport)
        /\ \A s \in Slots \ UsedSlots : child'[s] = "none"
    BY StopChildEffect DEF UsedOnly
  <2>2. /\ UNCHANGED <<st, vif, pub, tmr, cfg, dial, simSwitch, force, requests, dualWwan, redialCnt>>
        /\ st = "CONNECTED"
    OBVIOUS
  <2>3. waitCnt' \in 0 .. 4
    OBVIOUS
  <2>4. TypeOK' /\ UsedOnly'
    BY <2>1, <2>2, <2>3, UsedFacts, SameModem DEF UsedOnly
  <2> QED
    BY <2>2, <2>4, SameModem
    DEF DialArm, DualKept, DualOnlyQmi, UpKept, FirstUp, ConnectedIsTold, UpWhileConnected, UpOnlyWhileConnected, ProbesWhileConnected, ProbesOnlyWhileConnected,
        QuietWhileDown, QuietBringUp, DialIsWatched, SuspendIsQuiet
<1> QED
  BY <1>1, <1>2, <1>3, <1>4 DEF Watch

\* A callback that only kills, starts over, or changes settings keeps Core: the
\* common part of most timers and requests.
LEMMA Undisturbed ==
  ASSUME Core,
         child' \in [Slots -> Progress], mail' \in Seq(UsedReport),
         st' \in {st, "STARTUP"}, st \in {"CONNECTED", "INIT"} => st' = st,
         \/ \A s \in Slots : child'[s] = "none"
         \/ child' = child /\ tmr' = tmr /\ st' = st
            /\ (st = "CONNECTING" => cfg'.mode = cfg.mode),
         UNCHANGED <<vif, pub, dualWwan>>, tmr' \subseteq tmr,
         cfg' \in Settings, cfg'.modem = cfg.modem,
         cfg'.dual = cfg.dual \/ (~Calm /\ SubDaemon = "QMI"),
         dial' \in DialStates, simSwitch' \in BOOLEAN, force' \in BOOLEAN,
         redialCnt' = redialCnt, waitCnt' \in 0 .. 4, requests' \in 0 .. MaxRequests
  PROVE  Core' /\ UpKept
<1> USE SameModem DEF Core
<1>1. TypeOK'
  BY UsedFacts DEF TypeOK, States, BringUp, BeforeModemInit
<1>2. UsedOnly'
  BY DEF UsedOnly
<1>3. DialArm' /\ DualKept' /\ DualOnlyQmi'
  BY DEF DialArm, Dialing, DualKept, DualOnlyQmi
<1>4. UpKept /\ ConnectedIsTold' /\ ProbesWhileConnected'
  BY DEF UpKept, FirstUp, ConnectedIsTold, UpWhileConnected, UpOnlyWhileConnected, ProbesWhileConnected, ProbesOnlyWhileConnected
<1>5. QuietWhileDown' /\ DialIsWatched' /\ SuspendIsQuiet'
  BY DEF QuietWhileDown, QuietBringUp, DialIsWatched, SuspendIsQuiet, SubDaemonRunning
<1> QED
  BY <1>1, <1>2, <1>3, <1>4, <1>5

\* The four timer callbacks.
LEMMA TimerStep == Core /\ TimerFires => Core' /\ UpKept
<1> SUFFICES ASSUME Core, TimerFires PROVE Core' /\ UpKept
  OBVIOUS
<1> USE DEF Core, TypeOK, UsedOnly, policy, counts, link
<1>1. CASE PppTimer \/ WwanConnectTimer
  BY <1>1, StopChildEffect, Undisturbed DEF PppTimer, WwanConnectTimer
<1>2. CASE PppUpTimer
  <2>1. UNCHANGED <<st, child, mail, vif, pub, cfg, dial, simSwitch, force, requests, dualWwan, waitCnt>>
        /\ tmr' = tmr \ {"pppUp"} /\ redialCnt' = 0
    BY <1>2 DEF PppUpTimer
  <2> QED
    BY <2>1, SameModem, ConstantsOK
    DEF ConstantsOK, DialArm, DualKept, DualOnlyQmi, UpKept, FirstUp, ConnectedIsTold, UpWhileConnected, UpOnlyWhileConnected,
        ProbesWhileConnected, ProbesOnlyWhileConnected, QuietWhileDown, QuietBringUp, DialIsWatched, SuspendIsQuiet, SubDaemonRunning
<1>3. CASE SignalTimer
  BY <1>3, StopChildEffect, Undisturbed DEF SignalTimer
<1> QED
  BY <1>1, <1>2, <1>3 DEF TimerFires

\* What the processes do by themselves.
LEMMA ChildStep == Core /\ SubDaemonStep => Core' /\ UpKept
<1> SUFFICES ASSUME Core, NEW s \in Slots, ChildUp(s) \/ ChildDown(s) \/ ChildExit(s)
             PROVE  Core' /\ UpKept
  BY DEF SubDaemonStep
<1> USE DEF Core, policy, counts
<1>1. UNCHANGED <<st, vif, pub, tmr, cfg, dial, simSwitch, force, requests, dualWwan, redialCnt, waitCnt>>
  BY DEF ChildUp, ChildDown, ChildExit
<1>2. /\ child' \in [Slots -> Progress]
      /\ \A t \in Slots : child[t] = "none" => child'[t] = "none"
  BY DEF ChildUp, ChildDown, ChildExit, TypeOK, Progress
<1>3. mail' \in Seq(UsedReport)
  <2>1. CASE ChildUp(s) \/ ChildDown(s)
    <3>1. s \in UsedSlots
      BY <2>1 DEF ChildUp, ChildDown, UsedOnly
    <3>2. \A b \in BOOLEAN : Append(mail, [from |-> s, up |-> b]) \in Seq(UsedReport)
      BY <3>1, AppendProperties DEF UsedOnly, UsedReport
    <3> QED
      BY <2>1, <3>2 DEF ChildUp, ChildDown
  <2>2. CASE ChildExit(s)
    BY <2>2, FarewellReports DEF ChildExit, UsedOnly
  <2> QED
    BY <2>1, <2>2
<1>4. TypeOK' /\ UsedOnly'
  BY <1>1, <1>2, <1>3, UsedFacts, SameModem DEF TypeOK, UsedOnly
<1> QED
  BY <1>1, <1>2, <1>4, SameModem
  DEF DialArm, DualKept, DualOnlyQmi, UpKept, FirstUp, ConnectedIsTold, UpWhileConnected, UpOnlyWhileConnected, ProbesWhileConnected, ProbesOnlyWhileConnected,
      QuietWhileDown, QuietBringUp, DialIsWatched, SuspendIsQuiet, SubDaemonRunning

\* my_msg_handle() on the reports of the processes.
LEMMA ReportStep == Core /\ HandleReport => Core' /\ UpKept
<1> SUFFICES ASSUME Core, HandleReport PROVE Core' /\ UpKept
  OBVIOUS
<1> USE DEF Core, policy, counts, link
<1>1. mail # <<>> /\ Head(mail) \in UsedReport /\ Tail(mail) \in Seq(UsedReport)
  BY HeadTailProperties DEF HandleReport, HandleUp, HandleUp6, HandleDown, UsedOnly
<1>2. Head(mail).from \in UsedSlots
  BY <1>1 DEF UsedReport
<1>3. UNCHANGED <<cfg, dial, simSwitch, force, requests, dualWwan, redialCnt, waitCnt>>
  BY DEF HandleReport, HandleUp, HandleUp6, HandleDown
<1>4. CASE HandleUp \/ HandleUp6
  <2>1. UNCHANGED <<st, child>> /\ mail' = Tail(mail) /\ tmr' = tmr \cup {"pppUp"}
    BY <1>4 DEF HandleUp, HandleUp6
  <2>2. /\ vif' \subseteq UsedSlots \cap Wwans /\ pub' \subseteq UsedSlots \cap Wwans
        /\ cfg.modem # "DHCP6" /\ pub' # pub => st = "CONNECTED"
    BY <1>2, <1>4, UsedFacts
    DEF HandleUp, HandleUp6, UsedOnly, TypeOK, Wwans, UsedSlots
  <2>3. TypeOK' /\ UsedOnly'
    BY <1>1, <1>3, <2>1, <2>2, UsedFacts, SameModem DEF TypeOK, UsedOnly, Timers
  <2>4. ConnectedIsTold'
    BY <1>3, <1>4, <2>1, SameModem DEF HandleUp, HandleUp6, ConnectedIsTold
  <2> QED
    BY <1>3, <2>1, <2>2, <2>3, <2>4, SameModem
    DEF DialArm, DualKept, DualOnlyQmi, UpKept, FirstUp, UpWhileConnected, UpOnlyWhileConnected, ProbesWhileConnected, ProbesOnlyWhileConnected,
        QuietWhileDown, QuietBringUp, DialIsWatched, SuspendIsQuiet, SubDaemonRunning
<1>5. CASE HandleDown
  <2>1. /\ child' \in [Slots -> Progress] /\ mail' \in Seq(UsedReport)
        /\ \A s \in Slots : child[s] = "none" => child'[s] = "none"
    BY <1>1, <1>5, DoRedialEffect DEF HandleDown, TypeOK
  <2>2. st' = st /\ tmr' = tmr
    BY <1>1, <1>5, DoRedialEffect DEF HandleDown
  <2>3. vif' \subseteq vif /\ pub' \subseteq pub
    BY <1>5 DEF HandleDown
  <2>4. TypeOK' /\ UsedOnly'
    BY <1>3, <2>1, <2>2, <2>3, UsedFacts, SameModem DEF TypeOK, UsedOnly
  <2>5. ConnectedIsTold'
    BY <1>3, <1>5, <2>2, SameModem DEF HandleDown, ConnectedIsTold
  <2> QED
    BY <1>3, <2>1, <2>2, <2>3, <2>4, <2>5, SameModem
    DEF DialArm, DualKept, DualOnlyQmi, UpKept, FirstUp, UpWhileConnected, UpOnlyWhileConnected, ProbesWhileConnected, ProbesOnlyWhileConnected,
        QuietWhileDown, QuietBringUp, DialIsWatched, SuspendIsQuiet, SubDaemonRunning
<1> QED
  BY <1>4, <1>5 DEF HandleReport

\* Commands and messages from outside.
LEMMA RequestStep == Core /\ Request => Core' /\ UpKept
<1> SUFFICES ASSUME Core, Request PROVE Core' /\ UpKept
  OBVIOUS
<1> USE DEF Core, TypeOK, UsedOnly, counts, link
<1>1. requests < MaxRequests /\ requests' = requests + 1 => requests' \in 0 .. MaxRequests
  BY ConstantsOK DEF ConstantsOK
<1>2. ASSUME cfg' \in Settings, cfg'.modem = cfg.modem, cfg'.dual = cfg.dual, dial' \in DialStates,
             Changed, UNCHANGED <<vif, pub, tmr, simSwitch, force, dualWwan, redialCnt, waitCnt>>,
             requests' \in 0 .. MaxRequests
      PROVE  Core' /\ UpKept
  <2>1. CASE DoRedial(mail)
    BY <1>2, <2>1, DoRedialEffect, Undisturbed
    DEF BeforeModemInit
  <2>2. CASE cfg' = cfg /\ UNCHANGED <<st, link>>
    BY <1>2, <2>2, Undisturbed
  <2> QED
    BY <1>2, <2>1, <2>2 DEF Changed
<1>3. CASE DialerActivate
  <2>1. PICK a \in Activations : cfg' = [cfg EXCEPT !.mode = a[1]] /\ dial' = a[2]
    BY <1>3 DEF DialerActivate
  <2>2. a[1] \in Modes /\ a[2] \in DialStates
    BY DEF Activations, Modes, DialStates
  <2>3. cfg' \in Settings /\ cfg'.modem = cfg.modem /\ cfg'.dual = cfg.dual
    BY <2>1, <2>2 DEF Settings
  <2> QED
    BY <1>1, <1>2, <1>3, <2>1, <2>2, <2>3 DEF DialerActivate, Asked
<1>4. CASE SetModeOnly
  <2>1. cfg' \in Settings /\ cfg'.modem = cfg.modem /\ cfg'.dual = cfg.dual
    BY <1>4 DEF SetModeOnly, Settings
  <2> QED
    BY <1>1, <1>2, <1>4, <2>1 DEF SetModeOnly, Asked
<1>5. CASE Shutdown
  <2>1. cfg' \in Settings /\ cfg'.modem = cfg.modem /\ cfg'.dual = cfg.dual /\ cfg'.mode = cfg.mode
    BY <1>5 DEF Shutdown, Settings
  <2> QED
    BY <1>1, <1>5, <2>1, DoRedialEffect, Undisturbed DEF Shutdown, Asked
<1>6. CASE PppDown
  BY <1>1, <1>6, StopChildEffect, Undisturbed DEF PppDown, Asked, DialStates
<1>7. CASE PppUp
  BY <1>1, <1>7, Undisturbed DEF PppUp, Asked, DialStates
<1>8. CASE Backup
  <2>1. cfg' \in Settings /\ cfg'.modem = cfg.modem /\ cfg'.dual = cfg.dual
    BY <1>8 DEF Backup, Settings
  <2> QED
    BY <1>1, <1>8, <2>1, StopChildEffect, Undisturbed DEF Backup, Asked
<1>9. CASE LinkDown
  BY <1>1, <1>9, StopChildEffect, Undisturbed DEF LinkDown, Asked
<1>10. CASE Redial
  BY <1>1, <1>10, DoRedialEffect, Undisturbed DEF Redial, Asked
<1>11. CASE AskSimSwitch
  BY <1>1, <1>11, DoRedialEffect, StopChildEffect, Undisturbed DEF AskSimSwitch, Asked
<1>12. CASE SetDualApn
  <2>1. cfg' \in Settings /\ cfg'.modem = cfg.modem /\ cfg'.mode = cfg.mode
    BY <1>12 DEF SetDualApn, Settings
  <2>2. ~Calm /\ SubDaemon = "QMI"
    BY <1>12 DEF SetDualApn, Asked, Calm, Forced
  <2> QED
    BY <1>1, <1>12, <2>1, <2>2, DoRedialEffect, Undisturbed DEF SetDualApn, Asked
<1>13. CASE Suspend \/ Resume \/ Hup \/ Alarm
  <2>1. ~Calm
    BY <1>13 DEF Suspend, Resume, Hup, Alarm, Asked, Calm, Forced
  <2>2. /\ UNCHANGED <<vif, pub, cfg, dial, simSwitch, dualWwan, redialCnt, waitCnt>>
        /\ force' \in BOOLEAN /\ requests' \in 0 .. MaxRequests
    BY <1>1, <1>13 DEF Suspend, Resume, Hup, Alarm, Asked
  <2>3. /\ tmr' \subseteq tmr
        /\ \/ UNCHANGED <<st, child, mail, tmr>>
           \/ /\ st' \in {"SUSPEND", "STARTUP", "INIT"}
              /\ mail' \in Seq(UsedReport) /\ child' \in [Slots -> Progress]
              /\ \A s \in Slots : child'[s] = "none"
              /\ {"signal", "wwan"} \cap tmr' = {}
           \/ st' = "STARTUP" /\ UNCHANGED <<child, mail, tmr>>
    BY <1>13, StopChildEffect DEF Suspend, Resume, Hup, Alarm, ChangeState
  <2>4. TypeOK' /\ UsedOnly'
    BY <2>2, <2>3, UsedFacts, SameModem DEF States, BringUp, BeforeModemInit
  <2>5. DialArm' /\ DualOnlyQmi'
    BY <2>2, <2>3, SameModem DEF DialArm, Dialing, DualOnlyQmi
  <2>6. DialIsWatched' /\ SuspendIsQuiet'
    BY <2>2, <2>3, SameModem DEF DialIsWatched, SuspendIsQuiet, SubDaemonRunning
  <2>7. ConnectedIsTold'
    BY <2>2, <2>3, SameModem DEF ConnectedIsTold
  <2>8. UpKept
    BY <2>1, <2>2, <2>3 DEF UpKept, FirstUp, UpWhileConnected
  <2> QED
    BY <2>1, <2>4, <2>5, <2>6, <2>7, <2>8 DEF DualKept, ProbesWhileConnected, QuietWhileDown
<1> QED
  BY <1>3, <1>4, <1>5, <1>6, <1>7, <1>8, <1>9, <1>10, <1>11, <1>12, <1>13 DEF Request

\* Steps of nobody.
LEMMA StutterInv == Core /\ UNCHANGED vars => Core' /\ UpKept
<1> SUFFICES ASSUME Core, UNCHANGED vars PROVE Core' /\ UpKept
  OBVIOUS
<1> QED
  BY Undisturbed DEF vars, Core, TypeOK, UsedOnly

-----------------------------------------------------------------------------
(* The theorems.                                                           *)

\* IInv is an invariant of the dialer, whatever is asked of it.
THEOREM Inductive == Spec => []IInv
<1>1. Init => IInv
  BY InitInv
<1>2. IInv /\ [Next]_vars => IInv'
  BY ScanStep, DialStep, WatchStep, TimerStep, ReportStep, ChildStep, RequestStep, StutterInv
  DEF Next, RedialHandle, IInv, UpKept
<1> QED
  BY <1>1, <1>2, PTL DEF Spec

\* The variables stay in their types: the redial counter passes its limit by more
\* than one only where pppd is to be started for ever (l.9871, l.9954), the
\* reconnect counter never passes 4 (l.10351).
THEOREM TypeCorrect == Spec => []TypeOK
BY Inductive, PTL DEF IInv, Core

\* my_ppp_timer() is armed for every online dial under way (l.9898, l.10009),
\* whatever commands and signals arrive meanwhile.
THEOREM DialAlwaysWatched == Spec => []DialIsWatched
BY Inductive, PTL DEF IInv, Core

\* change_redial_state() leaves a suspended dialer with no process and no timer
\* that uses the modem (l.2852), and nothing arms one later.
THEOREM SuspendAlwaysQuiet == Spec => []SuspendIsQuiet
BY Inductive, PTL DEF IInv, Core

\* The arms that reset and scan the modem never run beside a sub-daemon, in the
\* absence of the requests that force the state machine (l.2812, l.10114).
THEOREM BringUpAlwaysQuiet ==
  ASSUME Requests \cap Forced = {}
  PROVE  Spec => []QuietBringUp
<1>1. IInv => QuietBringUp
  BY DEF IInv, Core, QuietWhileDown, Calm
<1> QED
  BY <1>1, Inductive, PTL

\* my_signal_timer() and my_wwan_connect_timer() send AT commands only while
\* CONNECTED (l.10284), in the absence of the forcing requests.
THEOREM ProbesOnlyWhenConnected ==
  ASSUME Requests \cap Forced = {}
  PROVE  Spec => []ProbesOnlyWhileConnected
<1>1. IInv => ProbesOnlyWhileConnected
  BY DEF IInv, Core, ProbesWhileConnected, Calm
<1> QED
  BY <1>1, Inductive, PTL

\* The other services believe in a link only while CONNECTED (l.10200, l.10261),
\* in the absence of the forcing requests and of odhcp6c.
THEOREM UpOnlyWhenConnected ==
  ASSUME Requests \cap Forced = {}, "DHCP6" \notin Modems
  PROVE  Spec => []UpOnlyWhileConnected
<1>1. IInv => UpOnlyWhileConnected
  BY DEF IInv, Core, TypeOK, Settings, UpWhileConnected, Calm
<1> QED
  BY <1>1, Inductive, PTL

\* Every step of the dialer is a step of the link service, or none.
LEMMA LinkStep ==
  ASSUME IInv, IInv', [Next]_vars, Requests \cap Forced = {}, cfg.modem # "DHCP6"
  PROVE  [Link!LinkNext]_Link!linkVars
<1> DEFINE phase == CASE st = "CONNECTED" -> "online"
                      [] st = "CONNECTING" -> "dialing"
                      [] OTHER -> "down"
<1> USE DEF IInv, Core, link, policy, counts, UpWhileConnected, UpOnlyWhileConnected, Calm
<1>0. phase' = CASE st' = "CONNECTED" -> "online"
                 [] st' = "CONNECTING" -> "dialing"
                 [] OTHER -> "down"
  OBVIOUS
<1>1. ASSUME pub' = pub, st' \in {st, "STARTUP"}, st = "CONNECTED" => st' = st
      PROVE  [Link!LinkNext]_Link!linkVars
  BY <1>1 DEF Link!LinkNext, Link!linkVars, Link!GiveUp
<1>2. ASSUME pub' = pub, st \notin {"CONNECTING", "CONNECTED"}, st' \notin {"CONNECTING", "CONNECTED"}
      PROVE  [Link!LinkNext]_Link!linkVars
  BY <1>2 DEF Link!linkVars
<1>3. CASE Scan
  BY <1>2, <1>3
  DEF Scan, RedialInit, WaitConfig, ModemStartup, SwitchSim, WrongSim, SwitchAtOnce, LoadDrv, WaitAt, ModemInit, ModemReady,
      SmsOnly, AtCommands, ModemStep, DialStateOf
<1>4. CASE Dial
  <2>1. CASE SwitchBeforeDial \/ RebootRouter
    BY <1>2, <2>1 DEF SwitchBeforeDial, WrongSim, SwitchAtOnce, RebootRouter, ModemStep, Dialing
  <2>2. CASE DialPpp \/ DialDhcp \/ DialStatic
    <3>1. pub' = pub /\ st \in Dialing /\ st' \in {"CONNECTING", "STARTUP"}
      BY <2>2 DEF DialPpp, DialDhcp, DialStatic, Dialing
    <3>2. pub = {}
      BY <3>1 DEF Dialing
    <3> QED
      BY <3>1, <3>2 DEF Dialing, Link!LinkNext, Link!linkVars, Link!Dial
  <2> QED
    BY <1>4, <2>1, <2>2 DEF Dial
<1>5. CASE Watch
  <2>1. CASE ConnectingFail
    BY <2>1 DEF ConnectingFail, Link!LinkNext, Link!GiveUp
  <2>2. CASE ConnectingUp
    <3>1. pub' \in (SUBSET Wwans) \ {{}} /\ st = "CONNECTING" /\ st' = "CONNECTED"
      BY <2>2 DEF ConnectingUp, Dialed, TypeOK, Wwans
    <3> QED
      BY <3>1 DEF Link!LinkNext, Link!Announce
  <2>3. CASE ConnectedDead
    <3>1. pub' = {} /\ st = "CONNECTED" /\ st' = "STARTUP"
      BY <2>3 DEF ConnectedDead
    <3> QED
      BY <3>1 DEF Link!LinkNext, Link!Withdraw
  <2>4. CASE ConnectedReconnecting \/ ConnectedStable
    BY <1>1, <2>4 DEF ConnectedReconnecting, ConnectedStable
  <2> QED
    BY <1>5, <2>1, <2>2, <2>3, <2>4 DEF Watch
<1>6. CASE TimerFires
  BY <1>1, <1>6 DEF TimerFires, PppTimer, PppUpTimer, SignalTimer, WwanConnectTimer
<1>7. CASE HandleReport
  <2>1. Head(mail) \in UsedReport
    BY <1>7, HeadTailProperties DEF HandleReport, HandleUp, HandleUp6, HandleDown, UsedOnly
  <2>2. Head(mail).from \in Wwans
    BY <2>1 DEF UsedReport, UsedSlots, Wwans
  <2>3. st' = st
    BY <1>7, DoRedialEffect, HeadTailProperties
    DEF HandleReport, HandleUp, HandleUp6, HandleDown, UsedOnly
  <2>4. CASE pub' = pub
    BY <1>1, <2>3, <2>4
  <2>5. CASE pub' # pub
    <3>1. st = "CONNECTED" /\ pub' \in {pub \cup {Head(mail).from}, pub \ {Head(mail).from}}
      BY <1>7, <2>2, <2>5 DEF HandleReport, HandleUp, HandleUp6, HandleDown, Wwans
    <3> QED
      BY <2>2, <2>3, <3>1 DEF Link!LinkNext, Link!Flap
  <2> QED
    BY <2>4, <2>5
<1>8. CASE SubDaemonStep
  BY <1>1, <1>8 DEF SubDaemonStep, ChildUp, ChildDown, ChildExit
<1>9. CASE Request
  <2>1. pub' = pub
    BY <1>9 DEF Request, DialerActivate, SetModeOnly, Shutdown, PppDown, PppUp, Backup, LinkDown, Redial,
        AskSimSwitch, SetDualApn, Suspend, Resume, Hup, Alarm
  <2>2. DoRedial(mail) \/ st' = st
    BY <1>9 DEF Request, DialerActivate, SetModeOnly, Shutdown, PppDown, PppUp, Backup, LinkDown, Redial,
        AskSimSwitch, SetDualApn, Suspend, Resume, Hup, Alarm, Asked, Forced, Changed
  <2> QED
    BY <1>1, <2>1, <2>2, DoRedialEffect DEF UsedOnly
<1>10. CASE UNCHANGED vars
  BY <1>1, <1>10 DEF vars
<1> QED
  BY <1>3, <1>4, <1>5, <1>6, <1>7, <1>8, <1>9, <1>10 DEF Next, RedialHandle

\* The dialer implements LinkService for every modem without odhcp6c: what it
\* broadcasts is announced at the end of a dial, and withdrawn with it.
THEOREM DialerImplementsLinkService ==
  ASSUME Requests \cap Forced = {}, "DHCP6" \notin Modems
  PROVE  Spec => ImplementsLinkService
<1>1. Init => Link!LinkInit
  BY DEF Init, Link!LinkInit
<1>2. IInv => cfg.modem # "DHCP6"
  BY DEF IInv, Core, TypeOK, Settings
<1>3. IInv /\ IInv' /\ [Next]_vars => [Link!LinkNext]_Link!linkVars
  BY <1>2, LinkStep
<1> QED
  BY <1>1, <1>3, Inductive, PTL DEF Spec, ImplementsLinkService, Link!LinkSpec
-----------------------------------------------------------------------------
(* What is announced is the link of this dial.  The reports of a WWAN that  *)
(* wait in the mailbox say less and less about its process: only the last   *)
(* of them is its state, and one of an earlier dial must have been read     *)
(* before the next dial begins.                                             *)

\* In the mailbox q: nothing of w; last that w is up; at least once that it is.
SilentIn(q, w) == \A i \in 1 .. Len(q) : q[i].from # w
LatestIn(q, w) == \E i \in 1 .. Len(q) : /\ q[i].from = w /\ q[i].up
                                         /\ \A j \in 1 .. Len(q) : i < j => q[j].from # w
HeardIn(q, w)  == \E i \in 1 .. Len(q) : q[i].from = w /\ q[i].up

\* What will be believed of w once q is read, V being up now.
Believed(q, V, w) == LatestIn(q, w) \/ (SilentIn(q, w) /\ w \in V)

NewsOf(q, V) == \A w \in Wwans : Believed(q, V, w) => child[w] = "up"
NewsIsTrue == SubDaemon # "NONE" => NewsOf(mail, vif)

\* Nothing says or will say that w is up.
Unheard(q, V, w) == w \notin V /\ ~HeardIn(q, w)

\* The arms of a modem that has been waited for.
Scanned == BringUp \ BeforeModemInit

\* One of the WWANs of the last dial is dead until the next dial; and unheard of
\* once the modem has been waited for.
OneIsDead ==
  st \in BringUp =>
    \E w \in Dialed : child[w] = "none"
                      /\ (SubDaemon # "NONE" /\ st \in Scanned => Unheard(mail, vif, w))

\* One of the WWANs of this dial has not linked before it says so.
OneIsHonest ==
  st = "CONNECTING" => \E w \in Dialed : child[w] = "fresh" => Unheard(mail, vif, w)

FakedIsUp == SubDaemon = "NONE" => child["wwan1"] # "fresh"

HonestInv == NewsIsTrue /\ OneIsDead /\ OneIsHonest /\ FakedIsUp

\* A report is put at the end of the mailbox.
LEMMA AppendNews ==
  ASSUME NEW q \in Seq(UsedReport), NEW r \in UsedReport, NEW w,
         NEW after, after = Append(q, r)
  PROVE  /\ after \in Seq(UsedReport)
         /\ HeardIn(after, w) <=> HeardIn(q, w) \/ (r.from = w /\ r.up)
         /\ r.from = w => (LatestIn(after, w) <=> r.up)
         /\ r.from # w => (LatestIn(after, w) <=> LatestIn(q, w))
         /\ SilentIn(after, w) <=> SilentIn(q, w) /\ r.from # w
<1> DEFINE n == Len(q)
<1>3. /\ n \in Nat /\ Len(after) = n + 1 /\ \A i \in 1 .. n : after[i] = q[i]
      /\ after[n + 1] = r /\ after \in Seq(UsedReport)
  BY AppendProperties, LenProperties
<1>4. 1 .. Len(after) = (1 .. n) \cup {n + 1}
  BY <1>3
<1> HIDE DEF n
<1>5. HeardIn(after, w) <=> HeardIn(q, w) \/ (r.from = w /\ r.up)
  BY <1>3, <1>4 DEF HeardIn, n
<1>6. SilentIn(after, w) <=> SilentIn(q, w) /\ r.from # w
  BY <1>3, <1>4 DEF SilentIn, n
<1>7. ASSUME r.from = w PROVE LatestIn(after, w) <=> r.up
  BY <1>3, <1>4, <1>7 DEF LatestIn
<1>8. ASSUME r.from # w PROVE LatestIn(after, w) <=> LatestIn(q, w)
  BY <1>3, <1>4, <1>8 DEF LatestIn, n
<1> QED
  BY <1>3, <1>5, <1>6, <1>7, <1>8

\* A report is taken from its front.
LEMMA TailNews ==
  ASSUME NEW q \in Seq(UsedReport), q # <<>>, NEW w, NEW rest, rest = Tail(q),
         NEW first, first = Head(q)
  PROVE  /\ HeardIn(q, w) <=> HeardIn(rest, w) \/ (first.from = w /\ first.up)
         /\ LatestIn(q, w) <=> LatestIn(rest, w) \/ (SilentIn(rest, w) /\ first.from = w /\ first.up)
         /\ SilentIn(q, w) <=> SilentIn(rest, w) /\ first.from # w
<1> DEFINE n == Len(rest)
<1>1. /\ n \in Nat /\ Len(q) = n + 1 /\ q[1] = first
      /\ \A i \in 1 .. n : q[i + 1] = rest[i]
  <2>1. rest \in Seq(UsedReport) /\ Len(rest) = Len(q) - 1 /\ \A i \in 1 .. Len(rest) : rest[i] = q[i + 1]
    BY HeadTailProperties
  <2>2. Len(rest) \in Nat /\ Len(q) \in Nat
    BY <2>1, LenProperties
  <2>3. q[1] = first
    OBVIOUS
  <2> QED
    BY <2>1, <2>2, <2>3
<1> HIDE DEF n
<1>2. ASSUME NEW i \in 1 .. Len(q) PROVE i = 1 \/ (i - 1 \in 1 .. n /\ i = (i - 1) + 1)
  BY <1>1
<1>3. ASSUME NEW i \in 1 .. n PROVE i + 1 \in 1 .. Len(q) /\ q[i + 1] = rest[i]
  BY <1>1
<1>4. 1 \in 1 .. Len(q)
  BY <1>1
<1>5. HeardIn(q, w) <=> HeardIn(rest, w) \/ (first.from = w /\ first.up)
  BY <1>1, <1>2, <1>3, <1>4 DEF HeardIn, n
<1>6. SilentIn(q, w) <=> SilentIn(rest, w) /\ first.from # w
  BY <1>1, <1>2, <1>3, <1>4 DEF SilentIn, n
<1>7. ASSUME LatestIn(rest, w) PROVE LatestIn(q, w)
  <2>1. PICK i \in 1 .. n : /\ rest[i].from = w /\ rest[i].up
                            /\ \A j \in 1 .. n : i < j => rest[j].from # w
    BY <1>7 DEF LatestIn, n
  <2>2. ASSUME NEW j \in 1 .. Len(q), i + 1 < j PROVE q[j].from # w
    <3>1. j - 1 \in 1 .. n /\ i < j - 1 /\ q[j] = rest[j - 1]
      BY <1>1, <2>1, <2>2
    <3> QED
      BY <2>1, <3>1
  <2> QED
    BY <1>3, <2>1, <2>2 DEF LatestIn
<1>8. ASSUME SilentIn(rest, w), first.from = w, first.up PROVE LatestIn(q, w)
  <2>1. ASSUME NEW j \in 1 .. Len(q), 1 < j PROVE q[j].from # w
    BY <1>1, <1>8, <2>1, <1>2 DEF SilentIn, n
  <2> QED
    BY <1>1, <1>4, <1>8, <2>1 DEF LatestIn
<1>9. ASSUME LatestIn(q, w) PROVE LatestIn(rest, w) \/ (SilentIn(rest, w) /\ first.from = w /\ first.up)
  <2>1. PICK i \in 1 .. Len(q) : /\ q[i].from = w /\ q[i].up
                                 /\ \A j \in 1 .. Len(q) : i < j => q[j].from # w
    BY <1>9 DEF LatestIn
  <2>2. CASE i = 1
    <3>1. ASSUME NEW j \in 1 .. n PROVE rest[j].from # w
      <4>1. j + 1 \in 1 .. Len(q) /\ 1 < j + 1 /\ q[j + 1] = rest[j]
        BY <1>1
      <4> QED
        BY <2>1, <2>2, <4>1
    <3> QED
      BY <1>1, <2>1, <2>2, <3>1 DEF SilentIn, n
  <2>3. CASE i # 1
    <3>1. i - 1 \in 1 .. n /\ q[i] = rest[i - 1]
      BY <1>1, <2>3
    <3>2. ASSUME NEW j \in 1 .. n, i - 1 < j PROVE rest[j].from # w
      <4>1. j + 1 \in 1 .. Len(q) /\ i < j + 1 /\ q[j + 1] = rest[j]
        BY <1>1, <3>2
      <4> QED
        BY <2>1, <4>1
    <3> QED
      BY <2>1, <3>1, <3>2 DEF LatestIn, n
  <2> QED
    BY <2>2, <2>3
<1> QED
  BY <1>5, <1>6, <1>7, <1>8, <1>9

\* Processes S that leave in good order: nothing that was not known to be up is
\* said to be up, and who was up says goodbye.
LEMMA FarewellNews ==
  ASSUME TypeOK, UsedOnly, ~Crashes, NEW S, NEW box \in Seq(UsedReport),
         NEW b \in Farewell(S, box), NEW V, NEW w \in Wwans
  PROVE  /\ HeardIn(b, w) <=> HeardIn(box, w)
         /\ w \in S /\ child[w] = "up" => ~Believed(b, V, w)
         /\ ~(w \in S /\ child[w] = "up") => (Believed(b, V, w) <=> Believed(box, V, w))
<1> DEFINE Bye(s) == s \in S /\ child[s] = "up"
           b1 == IF Bye("wwan1") THEN Append(box, [from |-> "wwan1", up |-> FALSE]) ELSE box
           b2 == IF Bye("wwan2") THEN Append(b1, [from |-> "wwan2", up |-> FALSE]) ELSE b1
<1>1. b = b2
  BY DEF Farewell
<1>2. ASSUME NEW s \in Slots, Bye(s) PROVE s \in UsedSlots
  BY <1>2 DEF UsedOnly
<1>3. ASSUME NEW s \in Slots, NEW q \in Seq(UsedReport), NEW after,
             after = IF Bye(s) THEN Append(q, [from |-> s, up |-> FALSE]) ELSE q
      PROVE  /\ after \in Seq(UsedReport)
             /\ HeardIn(after, w) <=> HeardIn(q, w)
             /\ s = w /\ Bye(w) => ~Believed(after, V, w)
             /\ ~(s = w /\ Bye(w)) => (Believed(after, V, w) <=> Believed(q, V, w))
  <2>1. CASE Bye(s)
    <3>1. s \in UsedSlots /\ after = Append(q, [from |-> s, up |-> FALSE])
      BY <1>2, <1>3, <2>1
    <3> DEFINE r == [from |-> s, up |-> FALSE]
    <3>2. r \in UsedReport /\ r.from = s /\ ~r.up
      BY <3>1 DEF UsedReport
    <3> HIDE DEF r
    <3>3. after = Append(q, r)
      BY <3>1 DEF r
    <3>4. /\ after \in Seq(UsedReport)
          /\ HeardIn(after, w) <=> HeardIn(q, w)
          /\ s = w => ~LatestIn(after, w)
          /\ s # w => (LatestIn(after, w) <=> LatestIn(q, w))
          /\ SilentIn(after, w) <=> SilentIn(q, w) /\ s # w
      BY <3>2, <3>3, AppendNews
    <3> QED
      BY <2>1, <3>4 DEF Believed
  <2>2. CASE ~Bye(s)
    BY <1>3, <2>2
  <2> QED
    BY <2>1, <2>2
<1>4. "wwan1" \in Slots /\ "wwan2" \in Slots
  BY DEF Slots
<1> HIDE DEF Bye
<1>5. /\ b1 \in Seq(UsedReport)
      /\ HeardIn(b1, w) <=> HeardIn(box, w)
      /\ "wwan1" = w /\ Bye(w) => ~Believed(b1, V, w)
      /\ ~("wwan1" = w /\ Bye(w)) => (Believed(b1, V, w) <=> Believed(box, V, w))
  BY <1>3, <1>4
<1> HIDE DEF b1
<1>6. /\ HeardIn(b2, w) <=> HeardIn(b1, w)
      /\ "wwan2" = w /\ Bye(w) => ~Believed(b2, V, w)
      /\ ~("wwan2" = w /\ Bye(w)) => (Believed(b2, V, w) <=> Believed(b1, V, w))
  BY <1>3, <1>4, <1>5
<1> HIDE DEF b2
<1> QED
  BY <1>1, <1>5, <1>6 DEF Wwans, Bye

\* stop_child_by_sub_daemon() leaves nothing that is believed to be up.
LEMMA StopNews ==
  ASSUME TypeOK, UsedOnly, ~Crashes, NEW box \in Seq(UsedReport), StopChild(box),
         SubDaemon # "NONE", NEW V, NewsOf(box, V), vif' = V
  PROVE  /\ NewsOf(mail, vif)'
         /\ \A w \in Wwans : HeardIn(mail', w) <=> HeardIn(box, w)
<1>1. mail' \in Farewell(StopSlots, box) /\ Wwans \subseteq Slots
  BY DEF StopChild, Wwans, Slots
<1>2. ASSUME NEW w \in Wwans
      PROVE  ~Believed(mail', vif', w) /\ (HeardIn(mail', w) <=> HeardIn(box, w))
  <2>1. /\ HeardIn(mail', w) <=> HeardIn(box, w)
        /\ w \in StopSlots /\ child[w] = "up" => ~Believed(mail', vif', w)
        /\ ~(w \in StopSlots /\ child[w] = "up") => (Believed(mail', vif', w) <=> Believed(box, V, w))
    BY <1>1, FarewellNews
  <2>2. child[w] = "up" => w \in StopSlots
    BY <1>1, UsedFacts DEF UsedOnly
  <2>3. Believed(box, V, w) => child[w] = "up"
    BY DEF NewsOf
  <2> QED
    BY <2>1, <2>2, <2>3
<1> QED
  BY <1>2 DEF NewsOf

LEMMA RedialNews ==
  ASSUME TypeOK, UsedOnly, ~Crashes, NEW box \in Seq(UsedReport), DoRedial(box),
         SubDaemon # "NONE", NEW V, NewsOf(box, V), vif' = V
  PROVE  /\ NewsOf(mail, vif)'
         /\ \A w \in Wwans : HeardIn(mail', w) <=> HeardIn(box, w)
<1>1. CASE StopChild(box)
  BY <1>1, StopNews
<1>2. CASE mail' = box /\ child' = child
  BY <1>2 DEF NewsOf
<1>3. StopChild(box) \/ (mail' = box /\ child' = child)
  BY DEF DoRedial
<1> QED
  BY <1>1, <1>2, <1>3

\* A callback that kills the processes, or leaves them alone, takes nothing from
\* the honesty of the dial.
LEMMA HonestUndisturbed ==
  ASSUME Core, HonestInv, cfg'.modem = cfg.modem, dualWwan' = dualWwan, vif' \subseteq vif,
         st' \in {st, "STARTUP"},
         (\A s \in Slots : child'[s] = "none") \/ (child' = child /\ st' = st),
         SubDaemon # "NONE" => /\ NewsOf(mail, vif)'
                               /\ \A w \in Wwans : HeardIn(mail', w) => HeardIn(mail, w)
  PROVE  HonestInv'
<1>1. NewsIsTrue'
  BY SameModem DEF NewsIsTrue
<1>2. Dialed' = Dialed /\ Dialed \subseteq Wwans /\ "wwan1" \in Dialed /\ Wwans \subseteq Slots
  BY DEF Dialed, Wwans, Slots
<1>3. SubDaemon # "NONE" => \A w \in Wwans : Unheard(mail, vif, w) => Unheard(mail', vif', w)
  BY DEF Unheard
<1>4. OneIsDead'
  <2>1. CASE st' = st
    BY <1>2, <1>3, <2>1, SameModem DEF HonestInv, OneIsDead
  <2>2. CASE st' = "STARTUP" /\ \A s \in Slots : child'[s] = "none"
    BY <1>2, <2>2 DEF OneIsDead, Scanned, BeforeModemInit
  <2> QED
    BY <2>1, <2>2
<1>5. OneIsHonest'
  <2>1. CASE child' = child /\ st' = st
    <3>1. SubDaemon = "NONE" => child["wwan1"] # "fresh"
      BY DEF HonestInv, FakedIsUp
    <3> QED
      BY <1>2, <1>3, <2>1, <3>1 DEF HonestInv, OneIsHonest
  <2>2. CASE \A s \in Slots : child'[s] = "none"
    BY <1>2, <2>2 DEF OneIsHonest
  <2> QED
    BY <2>1, <2>2
<1>6. FakedIsUp'
  BY SameModem DEF HonestInv, FakedIsUp, Slots
<1> QED
  BY <1>1, <1>4, <1>5, <1>6 DEF HonestInv

\* The arms before a dial: by waiting for the modem they let the reports of the
\* last dial arrive.
LEMMA HonestScan ==
  ASSUME Core, HonestInv, Scan
  PROVE  HonestInv'
<1>1. UNCHANGED <<child, mail, cfg, dualWwan>> /\ vif' \subseteq vif
  BY DEF Scan, RedialInit, WaitConfig, ModemStartup, SwitchSim, WrongSim, SwitchAtOnce, LoadDrv, WaitAt, ModemInit, ModemReady,
         SmsOnly, AtCommands, ModemStep, policy, link
<1>2. /\ st \in BringUp /\ st' # "CONNECTING"
      /\ st' \in Scanned => st \in Scanned \/ mail = <<>>
  BY DEF Scan, RedialInit, WaitConfig, ModemStartup, SwitchSim, WrongSim, SwitchAtOnce, LoadDrv, WaitAt, ModemInit, ModemReady,
         SmsOnly, AtCommands, ModemStep, DialStateOf, BringUp, BeforeModemInit, Dialing, Scanned
<1>3. SubDaemon' = SubDaemon /\ Dialed' = Dialed /\ Dialed \subseteq Wwans
  BY <1>1, SameModem DEF Dialed, Wwans
<1>4. NewsIsTrue' /\ FakedIsUp'
  BY <1>1, <1>3 DEF HonestInv, NewsIsTrue, NewsOf, Believed, FakedIsUp
<1>5. OneIsDead'
  <2>1. PICK w \in Dialed : child[w] = "none"
                            /\ (SubDaemon # "NONE" /\ st \in Scanned => Unheard(mail, vif, w))
    BY <1>2 DEF HonestInv, OneIsDead
  <2>2. ASSUME SubDaemon # "NONE", mail = <<>> PROVE Unheard(mail, vif, w)
    <3>1. SilentIn(mail, w) /\ ~HeardIn(mail, w)
      BY <2>2 DEF SilentIn, HeardIn
    <3>2. ~Believed(mail, vif, w)
      BY <1>3, <2>1, <2>2 DEF HonestInv, NewsIsTrue, NewsOf
    <3> QED
      BY <3>1, <3>2 DEF Believed, Unheard
  <2>3. SubDaemon # "NONE" /\ st' \in Scanned => Unheard(mail', vif', w)
    <3> SUFFICES ASSUME SubDaemon # "NONE", st' \in Scanned PROVE Unheard(mail', vif', w)
      OBVIOUS
    <3>1. Unheard(mail, vif, w)
      BY <1>2, <2>1, <2>2
    <3> QED
      BY <1>1, <3>1 DEF Unheard
  <2> QED
    BY <1>1, <1>3, <2>1, <2>3 DEF OneIsDead
<1>6. OneIsHonest'
  BY <1>2 DEF OneIsHonest
<1> QED
  BY <1>4, <1>5, <1>6 DEF HonestInv

\* A dial starts the WWAN that was dead, and of which nothing is said any more.
LEMMA HonestDial ==
  ASSUME Core, HonestInv, Dial, Calm, ~Crashes, cfg.modem # "DHCP6"
  PROVE  HonestInv'
<1> USE DEF Core, link, policy, counts
<1>1. CASE SwitchBeforeDial \/ RebootRouter
  <2>1. /\ UNCHANGED <<child, mail, vif, cfg, dualWwan>>
        /\ st \in Dialing /\ st' \in {"STARTUP", "REBOOT"}
    BY <1>1 DEF SwitchBeforeDial, WrongSim, SwitchAtOnce, RebootRouter, ModemStep
  <2>2. SubDaemon' = SubDaemon /\ Dialed' = Dialed /\ st \in BringUp /\ st' \notin Scanned
    BY <2>1, SameModem DEF Dialed, BringUp, Scanned, BeforeModemInit, Dialing
  <2> QED
    BY <2>1, <2>2 DEF HonestInv, NewsIsTrue, NewsOf, OneIsDead, OneIsHonest, FakedIsUp
<1>2. CASE st \in Dialing
  <2>1. PICK w \in Dialed : child[w] = "none" /\ (SubDaemon # "NONE" => Unheard(mail, vif, w))
    BY <1>2 DEF HonestInv, OneIsDead, BringUp, Scanned, Dialing, BeforeModemInit
  <2>2. CASE DialPpp
    <3>1. /\ cfg' = cfg /\ UNCHANGED <<mail, vif, dualWwan>> /\ st' = "CONNECTING"
          /\ \E p \in {"fresh", "none"} : child' = [child EXCEPT !["wwan1"] = p]
      BY <2>2 DEF DialPpp
    <3>2. SubDaemon \notin {"NONE", "QMI"} /\ SubDaemon' = SubDaemon
      BY <2>2, <3>1, SameModem DEF DialPpp, DialArm, DialStateOf, Dialing
    <3>3. Dialed' = Dialed /\ w = "wwan1"
      BY <2>1, <3>1, <3>2 DEF Dialed, DualKept, DualOnlyQmi
    <3>4. NewsOf(mail, vif)'
      <4> SUFFICES ASSUME NEW x \in Wwans, Believed(mail, vif, x) PROVE child'[x] = "up"
        BY <3>1 DEF NewsOf
      <4>1. child[x] = "up"
        BY <3>2 DEF HonestInv, NewsIsTrue, NewsOf
      <4>2. x # "wwan1"
        BY <2>1, <3>3, <4>1
      <4> QED
        BY <3>1, <4>1, <4>2 DEF TypeOK
    <3>5. Unheard(mail', vif', w)
      BY <2>1, <3>1, <3>2
    <3> QED
      BY <3>1, <3>2, <3>3, <3>4, <3>5
      DEF HonestInv, NewsIsTrue, OneIsDead, OneIsHonest, FakedIsUp, BringUp, BeforeModemInit, Dialing
  <2>3. CASE DialDhcp
    <3>1. /\ cfg' = cfg /\ vif' = vif /\ dualWwan' = cfg.dual /\ st' = "CONNECTING"
          /\ mail' \in Farewell(StartSlots, mail)
          /\ \A s \in Slots : s \in StartSlots => child'[s] \in {"fresh", "none"}
          /\ \A s \in Slots : s \notin StartSlots => child'[s] = child[s]
      BY <2>3 DEF DialDhcp
    <3>2. SubDaemon # "NONE" /\ SubDaemon' = SubDaemon
      BY <2>3, <3>1, SameModem DEF DialDhcp, DialArm, DialStateOf, Dialing
    <3>3. w \in Dialed' /\ w \in Wwans
      BY <2>1, <3>1 DEF Dialed, DualKept, Wwans
    <3>4. ASSUME NEW x \in Wwans
          PROVE  /\ HeardIn(mail', x) <=> HeardIn(mail, x)
                 /\ Believed(mail', vif', x) => child'[x] = "up"
      <4>1. /\ HeardIn(mail', x) <=> HeardIn(mail, x)
            /\ x \in StartSlots /\ child[x] = "up" => ~Believed(mail', vif, x)
            /\ ~(x \in StartSlots /\ child[x] = "up") => (Believed(mail', vif, x) <=> Believed(mail, vif, x))
        BY <3>1, FarewellNews DEF UsedOnly
      <4>2. Believed(mail, vif, x) => child[x] = "up"
        BY <3>2 DEF HonestInv, NewsIsTrue, NewsOf
      <4>3. x \in Slots
        BY DEF Wwans, Slots
      <4> QED
        BY <3>1, <4>1, <4>2, <4>3
    <3>5. Unheard(mail', vif', w)
      BY <2>1, <3>1, <3>2, <3>3, <3>4 DEF Unheard
    <3>6. NewsIsTrue'
      BY <3>4 DEF NewsIsTrue, NewsOf
    <3> QED
      BY <3>1, <3>2, <3>3, <3>5, <3>6
      DEF HonestInv, OneIsDead, OneIsHonest, FakedIsUp, BringUp, BeforeModemInit, Dialing
  <2>4. CASE DialStatic
    <3>1. SubDaemon = "NONE" /\ cfg' = cfg /\ dualWwan' = dualWwan
      BY <2>4 DEF DialStatic, DialArm, DialStateOf, Dialing, SubDaemon
    <3>2. /\ st' \in {"CONNECTING", "STARTUP"} /\ child'["wwan1"] \in {"up", "none"}
          /\ st' = "STARTUP" => child'["wwan1"] = "none"
      BY <2>4 DEF DialStatic, TypeOK, Slots
    <3>3. SubDaemon' = SubDaemon /\ "wwan1" \in Dialed'
      BY <3>1, SameModem DEF Dialed
    <3>4. NewsIsTrue' /\ FakedIsUp'
      BY <3>1, <3>2, <3>3 DEF NewsIsTrue, FakedIsUp
    <3>5. OneIsDead'
      BY <3>1, <3>2, <3>3 DEF OneIsDead, BringUp, BeforeModemInit, Dialing
    <3>6. OneIsHonest'
      BY <3>2, <3>3 DEF OneIsHonest
    <3> QED
      BY <3>4, <3>5, <3>6 DEF HonestInv
  <2> QED
    BY <1>1, <2>2, <2>3, <2>4 DEF Dial
<1> QED
  BY <1>1, <1>2 DEF Dial, DialPpp, DialDhcp, DialStatic, Dialing

\* A dial that is given up leaves one WWAN dead, whichever made it fail.
LEMMA HonestWatch ==
  ASSUME Core, HonestInv, Watch, ~Crashes, cfg.modem # "DHCP6"
  PROVE  HonestInv'
<1> USE DEF Core, link, policy, counts
<1>1. CASE ConnectingFail \/ ConnectedDead
  <2>1. UNCHANGED <<child, mail, cfg, dualWwan>> /\ vif' \subseteq vif /\ st' = "STARTUP" /\ DialDead
    BY <1>1 DEF ConnectingFail, ConnectedDead
  <2>2. SubDaemon' = SubDaemon /\ Dialed' = Dialed
    BY <2>1, SameModem DEF Dialed
  <2>3. \E w \in Dialed : child[w] = "none"
    BY <2>1 DEF DialDead, Dialed
  <2>4. OneIsDead'
    BY <2>1, <2>2, <2>3 DEF OneIsDead, Scanned, BeforeModemInit
  <2>5. NewsIsTrue' /\ OneIsHonest' /\ FakedIsUp'
    BY <2>1, <2>2 DEF HonestInv, NewsIsTrue, NewsOf, Believed, OneIsHonest, FakedIsUp
  <2> QED
    BY <2>4, <2>5 DEF HonestInv
<1>2. CASE ConnectingUp
  <2>1. UNCHANGED <<child, mail, vif, cfg, dualWwan>> /\ st' = "CONNECTED"
    BY <1>2 DEF ConnectingUp
  <2>2. SubDaemon' = SubDaemon
    BY <2>1, SameModem
  <2> QED
    BY <2>1, <2>2
    DEF HonestInv, NewsIsTrue, NewsOf, OneIsDead, OneIsHonest, FakedIsUp, BringUp, BeforeModemInit, Dialing
<1>3. CASE ConnectedReconnecting \/ ConnectedStable
  <2>1. UNCHANGED <<st, vif, cfg, dualWwan>> /\ SubDaemon = "QMI" /\ mail \in Seq(UsedReport)
    BY <1>3 DEF ConnectedReconnecting, ConnectedStable, UsedOnly
  <2>2. NewsOf(mail, vif)
    BY <2>1 DEF HonestInv, NewsIsTrue
  <2>3. CASE StopChild(mail)
    <3>1. NewsOf(mail, vif)' /\ \A w \in Wwans : HeardIn(mail', w) <=> HeardIn(mail, w)
      BY <2>1, <2>2, <2>3, StopNews
    <3> QED
      BY <2>1, <2>3, <3>1, StopChildEffect, HonestUndisturbed
  <2>4. CASE UNCHANGED <<child, mail>>
    BY <2>1, <2>2, <2>4, HonestUndisturbed DEF NewsOf
  <2> QED
    BY <1>3, <2>3, <2>4 DEF ConnectedReconnecting, ConnectedStable
<1> QED
  BY <1>1, <1>2, <1>3 DEF Watch

\* Callbacks that kill the processes or start over, and nothing else that matters here.
LEMMA HonestKill ==
  ASSUME Core, HonestInv, ~Crashes, cfg'.modem = cfg.modem, UNCHANGED <<vif, dualWwan>>,
         (StopChild(mail) /\ st' = st) \/ DoRedial(mail) \/ UNCHANGED <<st, child, mail>>
  PROVE  HonestInv'
<1> USE DEF Core
<1>1. mail \in Seq(UsedReport)
  BY DEF UsedOnly
<1>2. ASSUME SubDaemon # "NONE"
      PROVE  NewsOf(mail, vif)' /\ \A w \in Wwans : HeardIn(mail', w) => HeardIn(mail, w)
  <2>1. NewsOf(mail, vif)
    BY <1>2 DEF HonestInv, NewsIsTrue
  <2>2. CASE StopChild(mail)
    BY <1>1, <1>2, <2>1, <2>2, StopNews
  <2>3. CASE DoRedial(mail)
    BY <1>1, <1>2, <2>1, <2>3, RedialNews
  <2>4. CASE UNCHANGED <<st, child, mail>>
    BY <2>1, <2>4 DEF NewsOf
  <2> QED
    BY <2>2, <2>3, <2>4
<1>3. /\ st' \in {st, "STARTUP"}
      /\ (\A s \in Slots : child'[s] = "none") \/ (child' = child /\ st' = st)
  BY <1>1, StopChildEffect, DoRedialEffect
<1> QED
  BY <1>2, <1>3, HonestUndisturbed

LEMMA HonestTimer ==
  ASSUME Core, HonestInv, TimerFires, ~Crashes
  PROVE  HonestInv'
<1> USE DEF policy, counts, link
<1>1. UNCHANGED <<cfg, vif, dualWwan, st>> /\ (StopChild(mail) \/ UNCHANGED <<child, mail>>)
  BY DEF TimerFires, PppTimer, PppUpTimer, SignalTimer, WwanConnectTimer
<1> QED
  BY <1>1, HonestKill

\* A process says of itself what is true, and links only after it was started.
LEMMA HonestChild ==
  ASSUME Core, HonestInv, SubDaemonStep, ~Crashes
  PROVE  HonestInv'
<1> SUFFICES ASSUME NEW s \in Slots, ChildUp(s) \/ ChildDown(s) \/ ChildExit(s) PROVE HonestInv'
  BY DEF SubDaemonStep
<1> USE DEF Core, policy, counts
<1>1. UNCHANGED <<st, vif, cfg, dualWwan>> /\ SubDaemon # "NONE" /\ mail \in Seq(UsedReport)
  BY DEF ChildUp, ChildDown, ChildExit, UsedOnly
<1>2. SubDaemon' = SubDaemon /\ Dialed' = Dialed /\ Dialed \subseteq Wwans /\ Wwans \subseteq Slots
  BY <1>1, SameModem DEF Dialed, Wwans, Slots
<1>3. NewsOf(mail, vif)
  BY <1>1 DEF HonestInv, NewsIsTrue
<1>4. /\ child[s] # "none"
      /\ \A t \in Slots : t # s => child'[t] = child[t]
      /\ child'[s] # "fresh" \/ child[s] = "fresh"
  BY DEF ChildUp, ChildDown, ChildExit, TypeOK
<1>5. ASSUME NEW w \in Wwans
      PROVE  /\ Believed(mail', vif', w) => child'[w] = "up"
             /\ w # s \/ child'[w] = "fresh" => (HeardIn(mail', w) => HeardIn(mail, w))
  <2>1. CASE ChildUp(s) \/ ChildDown(s)
    <3>1. PICK isUp \in BOOLEAN :
            /\ mail' = Append(mail, [from |-> s, up |-> isUp])
            /\ isUp => child'[s] = "up"
      BY <2>1 DEF ChildUp, ChildDown, TypeOK
    <3> DEFINE q == [from |-> s, up |-> isUp]
    <3>2. q \in UsedReport /\ q.from = s /\ (q.up <=> isUp)
      <4>1. s \in UsedSlots
        BY <1>4 DEF UsedOnly
      <4> QED
        BY <4>1 DEF UsedReport
    <3> HIDE DEF q
    <3>3. mail' = Append(mail, q)
      BY <3>1 DEF q
    <3>4. /\ HeardIn(mail', w) <=> HeardIn(mail, w) \/ (s = w /\ isUp)
          /\ s = w => (LatestIn(mail', w) <=> isUp)
          /\ s # w => (LatestIn(mail', w) <=> LatestIn(mail, w))
          /\ SilentIn(mail', w) <=> SilentIn(mail, w) /\ s # w
      BY <1>1, <3>2, <3>3, AppendNews
    <3>5. Believed(mail, vif, w) => child[w] = "up"
      BY <1>3 DEF NewsOf
    <3> QED
      BY <1>1, <1>2, <1>4, <3>1, <3>4, <3>5 DEF Believed
  <2>2. CASE ChildExit(s)
    <3>1. mail' \in Farewell({s}, mail)
      BY <2>2 DEF ChildExit
    <3>2. /\ HeardIn(mail', w) <=> HeardIn(mail, w)
          /\ w = s /\ child[w] = "up" => ~Believed(mail', vif, w)
          /\ ~(w = s /\ child[w] = "up") => (Believed(mail', vif, w) <=> Believed(mail, vif, w))
      BY <1>1, <3>1, FarewellNews
    <3>3. Believed(mail, vif, w) => child[w] = "up"
      BY <1>3 DEF NewsOf
    <3> QED
      BY <1>1, <1>2, <1>4, <3>2, <3>3
  <2> QED
    BY <2>1, <2>2
<1>6. NewsIsTrue'
  BY <1>5 DEF NewsIsTrue, NewsOf
<1>7. OneIsDead'
  <2> SUFFICES ASSUME st \in BringUp PROVE OneIsDead'
    BY <1>1 DEF OneIsDead
  <2>1. PICK w \in Dialed : child[w] = "none" /\ (st \in Scanned => Unheard(mail, vif, w))
    BY <1>1 DEF HonestInv, OneIsDead
  <2>2. w \in Wwans /\ w # s /\ child'[w] = "none"
    BY <1>2, <1>4, <2>1
  <2>3. st \in Scanned => Unheard(mail', vif', w)
    BY <1>1, <1>5, <2>1, <2>2 DEF Unheard
  <2> QED
    BY <1>1, <1>2, <2>2, <2>3 DEF OneIsDead
<1>8. OneIsHonest'
  <2> SUFFICES ASSUME st = "CONNECTING" PROVE OneIsHonest'
    BY <1>1 DEF OneIsHonest
  <2>1. PICK w \in Dialed : child[w] = "fresh" => Unheard(mail, vif, w)
    BY DEF HonestInv, OneIsHonest
  <2>2. child'[w] = "fresh" => child[w] = "fresh" /\ w \in Wwans
    BY <1>2, <1>4
  <2>3. child'[w] = "fresh" => Unheard(mail', vif', w)
    BY <1>1, <1>5, <2>1, <2>2 DEF Unheard
  <2> QED
    BY <1>1, <1>2, <2>3 DEF OneIsHonest
<1>9. FakedIsUp'
  BY <1>1, <1>2 DEF FakedIsUp
<1> QED
  BY <1>6, <1>7, <1>8, <1>9 DEF HonestInv

\* A report is believed; it is the last word on its sender, or not the last.
LEMMA HonestReport ==
  ASSUME Core, HonestInv, HandleReport, ~Crashes, cfg.modem # "DHCP6"
  PROVE  HonestInv'
<1> USE DEF Core, policy, counts, link
<1> DEFINE first == Head(mail)
           rest  == Tail(mail)
<1>1. /\ mail # <<>> /\ mail \in Seq(UsedReport) /\ first \in UsedReport /\ rest \in Seq(UsedReport)
      /\ UNCHANGED <<cfg, dualWwan>>
  BY HeadTailProperties DEF HandleReport, HandleUp, HandleUp6, HandleDown, UsedOnly
<1>2. first.from \in Wwans /\ first.up \in BOOLEAN
  BY <1>1 DEF UsedReport, UsedSlots, Wwans
<1>3. ASSUME NEW w
      PROVE  /\ HeardIn(mail, w) <=> HeardIn(rest, w) \/ (first.from = w /\ first.up)
             /\ LatestIn(mail, w) <=> LatestIn(rest, w) \/ (SilentIn(rest, w) /\ first.from = w /\ first.up)
             /\ SilentIn(mail, w) <=> SilentIn(rest, w) /\ first.from # w
  BY <1>1, TailNews
<1>4. SubDaemon' = SubDaemon /\ Dialed' = Dialed /\ Dialed \subseteq Wwans
  BY <1>1, SameModem DEF Dialed, Wwans
<1> HIDE DEF first, rest
<1>5. CASE HandleUp \/ HandleUp6
  <2>1. UNCHANGED <<st, child>> /\ mail' = rest /\ vif' = vif \cup {first.from} /\ first.up
    BY <1>2, <1>5 DEF HandleUp, HandleUp6, first, rest, Wwans
  <2>2. ASSUME NEW w PROVE Believed(mail', vif', w) => Believed(mail, vif, w)
    BY <1>3, <2>1 DEF Believed
  <2>3. ASSUME NEW w PROVE Unheard(mail, vif, w) => Unheard(mail', vif', w)
    BY <1>3, <2>1 DEF Unheard
  <2>4. NewsIsTrue' /\ FakedIsUp'
    BY <1>4, <2>1, <2>2 DEF HonestInv, NewsIsTrue, NewsOf, FakedIsUp
  <2>5. OneIsDead' /\ OneIsHonest'
    BY <1>4, <2>1, <2>3 DEF HonestInv, OneIsDead, OneIsHonest
  <2> QED
    BY <2>4, <2>5 DEF HonestInv
<1>6. CASE HandleDown
  <2>1. /\ vif' = vif \ {first.from} /\ ~first.up
        /\ DoRedial(rest) \/ (mail' = rest /\ UNCHANGED <<st, child>>)
    BY <1>6 DEF HandleDown, first, rest
  <2>2. ASSUME SubDaemon # "NONE" PROVE NewsOf(rest, vif \ {first.from})
    <3>1. NewsOf(mail, vif)
      BY <2>2 DEF HonestInv, NewsIsTrue
    <3>2. ASSUME NEW w PROVE Believed(rest, vif \ {first.from}, w) => Believed(mail, vif, w)
      BY <1>3, <2>1 DEF Believed
    <3> QED
      BY <3>1, <3>2 DEF NewsOf
  <2>3. ASSUME SubDaemon # "NONE"
        PROVE  NewsOf(mail, vif)' /\ \A w \in Wwans : HeardIn(mail', w) => HeardIn(rest, w)
    <3>1. CASE DoRedial(rest)
      BY <1>1, <2>1, <2>2, <2>3, <3>1, RedialNews
    <3>2. CASE mail' = rest /\ UNCHANGED <<st, child>>
      BY <2>1, <2>2, <2>3, <3>2 DEF NewsOf
    <3> QED
      BY <2>1, <3>1, <3>2
  <2>4. \A w \in Wwans : HeardIn(rest, w) => HeardIn(mail, w)
    BY <1>3
  <2>5. /\ st' \in {st, "STARTUP"}
        /\ (\A s \in Slots : child'[s] = "none") \/ (child' = child /\ st' = st)
    BY <1>1, <2>1, DoRedialEffect
  <2> QED
    BY <1>1, <2>1, <2>3, <2>4, <2>5, HonestUndisturbed
<1> QED
  BY <1>5, <1>6 DEF HandleReport

\* Commands start over, kill or only change settings.
LEMMA HonestRequest ==
  ASSUME Core, HonestInv, Request, Calm, ~Crashes
  PROVE  HonestInv'
<1> USE DEF link, counts
<1>1. /\ UNCHANGED <<vif, dualWwan>>
      /\ (StopChild(mail) /\ st' = st) \/ DoRedial(mail) \/ UNCHANGED <<st, child, mail>>
  BY DEF Request, DialerActivate, SetModeOnly, Shutdown, PppDown, PppUp, Backup, LinkDown, Redial,
         AskSimSwitch, SetDualApn, Suspend, Resume, Hup, Alarm, Asked, Calm, Forced, Changed
<1>2. cfg'.modem = cfg.modem
  <2>1. cfg \in Settings
    BY DEF Core, TypeOK
  <2> QED
    BY <2>1 DEF Settings, Request, DialerActivate, SetModeOnly, Shutdown, PppDown, PppUp, Backup, LinkDown,
         Redial, AskSimSwitch, SetDualApn, Suspend, Resume, Hup, Alarm, Asked, Calm, Forced
<1> QED
  BY <1>1, <1>2, HonestKill

\* What is announced is the link of this dial, for any modem without odhcp6c whose
\* processes say goodbye, in the absence of the forcing requests.
THEOREM UpIsAlwaysOfThisDial ==
  ASSUME Requests \cap Forced = {}, ~Crashes, "DHCP6" \notin Modems
  PROVE  Spec => UpIsOfThisDial
<1>1. Calm
  BY DEF Calm
<1>2. Init => HonestInv
  <2> SUFFICES ASSUME Init PROVE HonestInv
    OBVIOUS
  <2>1. SilentIn(mail, "wwan1") /\ \A w \in Wwans : ~Believed(mail, vif, w)
    BY DEF Init, SilentIn, LatestIn, Believed
  <2>2. "wwan1" \in Dialed /\ child["wwan1"] = "none"
    BY DEF Init, Dialed, Slots
  <2> QED
    BY <2>1, <2>2
    DEF Init, HonestInv, NewsIsTrue, NewsOf, OneIsDead, OneIsHonest, FakedIsUp, Scanned, BeforeModemInit
<1>3. IInv => Core /\ cfg.modem # "DHCP6"
  BY DEF IInv, Core, TypeOK, Settings
<1>4. IInv /\ HonestInv /\ [Next]_vars => HonestInv'
  <2> SUFFICES ASSUME IInv, HonestInv, [Next]_vars PROVE HonestInv'
    OBVIOUS
  <2>1. CASE UNCHANGED vars
    BY <1>3, <2>1, HonestKill DEF vars
  <2>2. CASE RedialHandle
    BY <1>1, <1>3, <2>2, HonestScan, HonestDial, HonestWatch DEF RedialHandle
  <2>3. CASE TimerFires \/ HandleReport
    BY <1>3, <2>3, HonestTimer, HonestReport
  <2>4. CASE SubDaemonStep \/ Request
    BY <1>1, <1>3, <2>4, HonestChild, HonestRequest
  <2> QED
    BY <2>1, <2>2, <2>3, <2>4 DEF Next
<1>5. IInv /\ HonestInv /\ [Next]_vars =>
        [st = "CONNECTING" /\ st' = "CONNECTED" => \E s \in Slots : child[s] \in {"up", "lost"}]_vars
  <2> SUFFICES ASSUME IInv, HonestInv, [Next]_vars, st = "CONNECTING", st' = "CONNECTED"
               PROVE  \E s \in Slots : child[s] \in {"up", "lost"}
    OBVIOUS
  <2>1. ConnectingUp
    <3>1. ~DoRedial(mail) /\ ~DoRedial(Tail(mail))
      BY DEF DoRedial
    <3> QED
      BY <1>1, <3>1
      DEF Next, vars, RedialHandle, Scan, RedialInit, WaitConfig, ModemStartup, SwitchSim, SwitchAtOnce, LoadDrv, WaitAt,
          ModemInit, ModemReady, SmsOnly, AtCommands, ModemStep, Dial, SwitchBeforeDial, RebootRouter, DialPpp,
          DialDhcp, DialStatic, Dialing, Watch, ConnectingFail, ConnectedDead, ConnectedReconnecting, ConnectedStable,
          TimerFires, PppTimer, PppUpTimer, SignalTimer, WwanConnectTimer, HandleReport, HandleUp, HandleUp6,
          HandleDown, SubDaemonStep, ChildUp, ChildDown, ChildExit, Request, DialerActivate, SetModeOnly, Shutdown,
          PppDown, PppUp, Backup, LinkDown, Redial, AskSimSwitch, SetDualApn, Suspend, Resume, Hup, Alarm, Asked,
          Calm, Forced, Changed, link
  <2>2. PICK w \in Dialed : child[w] = "fresh" => Unheard(mail, vif, w)
    BY DEF HonestInv, OneIsHonest
  <2>3. w \in Slots /\ w \in vif /\ child[w] # "none"
    <3>1. child["odhcp6c"] = "none"
      BY <1>3 DEF Core, UsedOnly, UsedSlots, Slots
    <3> QED
      BY <2>1, <3>1 DEF ConnectingUp, DialDead, Dialed, Slots
  <2> QED
    BY <1>3, <2>2, <2>3 DEF Unheard, Core, TypeOK, Progress
<1> QED
  BY <1>2, <1>4, <1>5, Inductive, PTL DEF Spec, UpIsOfThisDial
=============================================================================
