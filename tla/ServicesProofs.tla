---------------------------- MODULE ServicesProofs ----------------------------
(***************************************************************************)
(* What holds of the two that share the dialer with the outside world: the *)
(* factory test, which moves its state machine, and the services that follow *)
(* its broadcasts.  For every value of the constants.                      *)
(*                                                                         *)
(* Nothing proved of Dialer holds here for free: its invariant Core is shown *)
(* to survive every move of the tester, each of which is change_redial_state() *)
(* into a state that does not dial.  What a service believes of a WWAN in the *)
(* end is what the last message about it says, or its replica if there is  *)
(* none: the property is stated of that one piece of information, Newest, at *)
(* every moment, and not only when the service has read everything.        *)
(***************************************************************************)
EXTENDS FactoryTest, VifBus, DialerProofs

-----------------------------------------------------------------------------
(* The factory test.                                                       *)

\* Where the dialer is when it has not looked for the modem again since the
\* hook or the timer asked for the other SIM card.
BeforeScan == {"INIT", "WAIT_CONFIG", "STARTUP", "SUSPEND", "REBOOT"}

\* A switch of the SIM cards that is owed is still to come: either its turn is
\* kept in gl_sim_switch_count, or it has been asked for and the modem has not
\* been looked for since.
SwitchIsComing ==
  owed => /\ fact # "IDLE"
          /\ swCount = 0 => simSwitch /\ st \in BeforeScan

FactInv == FactTypeOK /\ Core /\ StoppedTestStaysDown /\ SwitchIsComing

-----------------------------------------------------------------------------
\* change_redial_state() towards a state that does not dial keeps what is known
\* of the dialer.
LEMMA ChangeStateKeepsCore ==
  ASSUME Core, NEW s \in {"STARTUP", "SUSPEND"}, ChangeState(s),
         simSwitch' \in BOOLEAN,
         UNCHANGED <<vif, pub, cfg, dial, dualWwan, force, counts, requests>>
  PROVE  Core' /\ (st' = s)
<1> USE DEF Core, TypeOK, UsedOnly, counts, link
<1>1. /\ st' = s /\ tmr' \subseteq tmr
      /\ \/ st = s /\ UNCHANGED <<child, mail, tmr>>
         \/ /\ mail' \in Seq(UsedReport) /\ child' \in [Slots -> Progress]
            /\ \A t \in Slots : child'[t] = "none"
            /\ {"signal", "wwan"} \cap tmr' = {}
  BY StopChildEffect DEF ChangeState
<1>2. TypeOK' /\ UsedOnly'
  BY <1>1, UsedFacts, SameModem DEF States, BringUp, BeforeModemInit
<1>3. DialArm' /\ DualOnlyQmi' /\ DualKept' /\ ConnectedIsTold'
  BY <1>1, SameModem DEF DialArm, Dialing, DualOnlyQmi, DualKept, ConnectedIsTold
<1>4. ProbesWhileConnected' /\ QuietWhileDown' /\ DialIsWatched' /\ SuspendIsQuiet'
  BY <1>1, SameModem
  DEF ProbesWhileConnected, ProbesOnlyWhileConnected, QuietWhileDown, QuietBringUp,
      DialIsWatched, SuspendIsQuiet, SubDaemonRunning
<1> QED
  BY <1>1, <1>2, <1>3, <1>4

\* The timers, the mailbox, the processes and the requests leave the dialer where
\* it is or start it over, and withdraw no request for the other SIM card.
LEMMA CallbackEffect ==
  ASSUME Core, TimerFires \/ HandleReport \/ SubDaemonStep \/ Request
  PROVE  /\ st' \in {st, "STARTUP", "SUSPEND", "INIT"}
         /\ simSwitch => simSwitch'
<1> USE DEF Core, UsedOnly, link, policy, counts
<1>1. CASE TimerFires
  BY <1>1 DEF TimerFires, PppTimer, PppUpTimer, SignalTimer, WwanConnectTimer
<1>2. CASE HandleReport
  <2>1. Tail(mail) \in Seq(UsedReport)
    BY <1>2, HeadTailProperties DEF HandleReport, HandleUp, HandleUp6, HandleDown
  <2>2. CASE HandleUp \/ HandleUp6
    BY <2>2 DEF HandleUp, HandleUp6
  <2>3. CASE HandleDown
    BY <2>1, <2>3, DoRedialEffect DEF HandleDown
  <2> QED
    BY <1>2, <2>2, <2>3 DEF HandleReport
<1>3. CASE SubDaemonStep
  BY <1>3 DEF SubDaemonStep, ChildUp, ChildDown, ChildExit
<1>4. CASE Request
  BY <1>4, DoRedialEffect
  DEF Request, DialerActivate, SetModeOnly, Shutdown, PppDown, PppUp, Backup, LinkDown, Redial,
      AskSimSwitch, SetDualApn, Suspend, Resume, Hup, Alarm, Changed, ChangeState
<1> QED
  BY <1>1, <1>2, <1>3, <1>4

\* An arm reached before the scan stays there, and only the scan consumes the
\* request for the other SIM card.
LEMMA ArmEffect ==
  ASSUME RedialHandle, st \in BeforeScan, simSwitch
  PROVE  st' \in BeforeScan \/ ~simSwitch'
BY DEF RedialHandle, Scan, Dial, Watch, RedialInit, WaitConfig, ModemStartup, SwitchSim, WrongSim, SwitchAtOnce,
       LoadDrv, WaitAt, ModemInit, ModemReady, SmsOnly, AtCommands, ModemStep, SwitchBeforeDial, RebootRouter,
       DialPpp, DialDhcp, DialStatic, Dialing, ConnectingFail, ConnectingUp, ConnectedDead,
       ConnectedReconnecting, ConnectedStable, BeforeScan, policy

-----------------------------------------------------------------------------
LEMMA FactInitInv == FactInit => FactInv
<1> SUFFICES ASSUME FactInit PROVE FactInv
  OBVIOUS
<1>1. Core
  BY InitInv DEF FactInit, IInv
<1>2. FactTypeOK
  <2>1. factTmr \in BOOLEAN /\ leaving \in BOOLEAN /\ owed \in BOOLEAN
    BY Zenon DEF FactInit
  <2>2. swCount \in 0 .. 1 /\ commands \in 0 .. MaxCommands
    BY MaxCommandsOK DEF FactInit, MaxCommandsOK
  <2> QED
    BY <1>1, <2>1, <2>2 DEF FactInit, FactTypeOK, Core, FactStates
<1>3. StoppedTestStaysDown /\ SwitchIsComing
  BY DEF FactInit, StoppedTestStaysDown, SwitchIsComing
<1> QED
  BY <1>1, <1>2, <1>3 DEF FactInv

\* redial_handle(), up to its hook.
LEMMA ArmStep == FactInv /\ Arm => FactInv'
<1> SUFFICES ASSUME FactInv, Arm PROVE FactInv'
  OBVIOUS
<1> USE DEF FactInv, test
<1>1. Core'
  BY ScanStep, DialStep, WatchStep, StutterInv DEF Arm, RedialHandle
<1>2. FactTypeOK'
  <2>1. leaving' \in BOOLEAN
    BY Zenon DEF Arm, Acts
  <2>2. owed' \in BOOLEAN
    BY Zenon DEF Arm, FactTypeOK
  <2> QED
    BY <1>1, <2>1, <2>2 DEF Arm, FactTypeOK, Core
<1>3. StoppedTestStaysDown'
  BY DEF Arm, Acts, StoppedTestStaysDown, PastSuspend, PastReady
<1>4. SwitchIsComing'
  <2>1. CASE RedialHandle
    BY <2>1, ArmEffect DEF Arm, SwitchIsComing
  <2>2. CASE UNCHANGED vars
    BY <2>2 DEF Arm, SwitchIsComing, vars
  <2> QED
    BY <2>1, <2>2 DEF Arm
<1> QED
  BY <1>1, <1>2, <1>3, <1>4

\* redial_handle_leave(), the tester's timer and its commands.
LEMMA TesterStep == FactInv /\ (RedialHandleLeave \/ FactoryTimer \/ FactoryCommand) => FactInv'
<1> SUFFICES ASSUME FactInv, RedialHandleLeave \/ FactoryTimer \/ FactoryCommand PROVE FactInv'
  OBVIOUS
<1> USE DEF FactInv, test, FactTypeOK, FactStates, counts
<1>0. ASSUME UNCHANGED vars PROVE Core'
  BY <1>0, StutterInv
<1>1. \A b \in BOOLEAN : simSwitch' = b => simSwitch' \in BOOLEAN
  OBVIOUS
<1>2. CASE RedialHandleLeave
  <2> USE <1>2 DEF RedialHandleLeave
  <2>1. CASE LeaveRunning /\ swCount > 0
    <3>1. Core' /\ st' = "STARTUP"
      BY <2>1, ChangeStateKeepsCore DEF LeaveRunning, SwitchTheSim
    <3>2. simSwitch' /\ leaving' \in BOOLEAN /\ factTmr' \in BOOLEAN
      BY <2>1, Zenon DEF LeaveRunning, SwitchTheSim
    <3>3. swCount' \in 0 .. 1 /\ fact' = "RUNNING"
      BY <2>1 DEF LeaveRunning, SwitchTheSim
    <3> QED
      BY <3>1, <3>2, <3>3 DEF StoppedTestStaysDown, SwitchIsComing, BeforeScan, Core
  <2>2. CASE LeaveRunning /\ ~(swCount > 0)
    <3>1. Core'
      BY <1>0, <2>2 DEF LeaveRunning, vars, link
    <3>2. QED
      <4>1. swCount = 0 /\ st = "CONNECTED" /\ ~owed
        BY <2>2 DEF LeaveRunning, SwitchIsComing, BeforeScan
      <4> QED
        BY <2>2, <3>1, <4>1 DEF LeaveRunning, StoppedTestStaysDown, SwitchIsComing, Core
  <2>3. CASE LeaveSuspend
    BY <2>3, ChangeStateKeepsCore
    DEF LeaveSuspend, StoppedTestStaysDown, SwitchIsComing, BeforeScan, Core, TypeOK
  <2>4. CASE EnterSuspend
    BY <2>4, ChangeStateKeepsCore
    DEF EnterSuspend, StoppedTestStaysDown, SwitchIsComing, BeforeScan, Core, TypeOK, PastSuspend
  <2> QED
    BY <2>1, <2>2, <2>3, <2>4
<1>3. CASE FactoryTimer
  <2> USE <1>3 DEF FactoryTimer
  <2>1. CASE swCount > 0
    <3>1. Core' /\ st' = "STARTUP"
      BY <2>1, ChangeStateKeepsCore DEF SwitchTheSim
    <3>2. simSwitch' /\ factTmr' \in BOOLEAN
      BY <2>1, Zenon DEF SwitchTheSim
    <3>3. swCount' \in 0 .. 1
      BY <2>1 DEF SwitchTheSim
    <3> QED
      BY <3>1, <3>2, <3>3
      DEF StoppedTestStaysDown, PastSuspend, PastReady, BeforeModemInit, SwitchIsComing, BeforeScan, Core
  <2>2. CASE ~(swCount > 0)
    <3>1. Core'
      BY <1>0, <2>2 DEF vars, link
    <3> QED
      BY <2>2, <3>1 DEF StoppedTestStaysDown, SwitchIsComing, Core
  <2> QED
    BY <2>1, <2>2
<1>4. CASE FactoryCommand
  <2>1. Command /\ commands' \in 0 .. MaxCommands
    BY <1>4, MaxCommandsOK DEF FactoryCommand, AutoTest, DialStart, DialStop, SwitchSimCommand, Command, MaxCommandsOK
  <2> USE <2>1 DEF Command
  <2>2. CASE AutoTest
    <3>1. Core'
      BY <1>0, <2>2 DEF AutoTest, vars, link
    <3> QED
      BY <2>2, <3>1 DEF AutoTest, StoppedTestStaysDown, SwitchIsComing, Core
  <2>3. CASE DialStart
    BY <2>3, ChangeStateKeepsCore
    DEF DialStart, StoppedTestStaysDown, SwitchIsComing, BeforeScan, Core, TypeOK
  <2>4. CASE DialStop /\ st \in PastSuspend
    BY <2>4, ChangeStateKeepsCore
    DEF DialStop, StoppedTestStaysDown, PastSuspend, PastReady, BeforeModemInit, SwitchIsComing, BeforeScan, Core, TypeOK
  <2>5. CASE DialStop /\ st \notin PastSuspend
    <3>1. Core'
      BY <1>0, <2>5 DEF DialStop, vars, link
    <3> QED
      BY <2>5, <3>1 DEF DialStop, StoppedTestStaysDown, SwitchIsComing, Core
  <2>6. CASE SwitchSimCommand
    BY <2>6, ChangeStateKeepsCore
    DEF SwitchSimCommand, StoppedTestStaysDown, PastSuspend, PastReady, BeforeModemInit, SwitchIsComing, BeforeScan, Core
  <2> QED
    BY <1>4, <2>2, <2>3, <2>4, <2>5, <2>6 DEF FactoryCommand
<1> QED
  BY <1>2, <1>3, <1>4

\* Everything else the daemon does.
LEMMA CallbackStep ==
  ASSUME FactInv, ~leaving, TimerFires \/ HandleReport \/ SubDaemonStep \/ Request,
         UNCHANGED <<test, leaving, commands, owed>>
  PROVE  FactInv'
<1> USE DEF FactInv, test, FactTypeOK
<1>1. Core'
  BY TimerStep, ReportStep, ChildStep, RequestStep
<1> QED
  BY <1>1, CallbackEffect
  DEF Core, StoppedTestStaysDown, PastSuspend, PastReady, BeforeModemInit, SwitchIsComing, BeforeScan

\* FactInv is an invariant of the dialer under test, whatever is asked of it.
THEOREM FactInductive == FactSpec => []FactInv
<1>1. FactInit => FactInv
  BY FactInitInv
<1>2. FactInv /\ [FactNext]_factVars => FactInv'
  <2> SUFFICES ASSUME FactInv, [FactNext]_factVars PROVE FactInv'
    OBVIOUS
  <2>1. CASE UNCHANGED factVars
    <3>1. Core'
      BY <2>1, StutterInv DEF FactInv, factVars
    <3> QED
      BY <2>1, <3>1 DEF FactInv, factVars, vars, FactTypeOK, Core, StoppedTestStaysDown, SwitchIsComing
  <2>2. CASE FactNext
    BY <2>2, ArmStep, TesterStep, CallbackStep DEF FactNext
  <2> QED
    BY <2>1, <2>2
<1> QED
  BY <1>1, <1>2, PTL DEF FactSpec

\* "modem dial stop" keeps the dialer down between two callbacks, whatever
\* requests, signals and timers move the state machine (redial_handle_leave()).
THEOREM StoppedStaysStopped == FactSpec => []StopIsObeyed
<1>1. FactInv => StopIsObeyed
  BY DEF FactInv, StopIsObeyed
<1> QED
  BY <1>1, FactInductive, PTL

\* A suspended dialer has no process and no probe left, also when it was the
\* tester who suspended it (change_redial_state(), l.2852).
THEOREM TestedSuspendIsQuiet == FactSpec => []SuspendIsQuiet
<1>1. FactInv => SuspendIsQuiet
  BY DEF FactInv, Core
<1> QED
  BY <1>1, FactInductive, PTL

\* An auto-test is declared finished only after the SIM cards have been switched
\* since it began, whatever came in between (l.270, l.311).
THEOREM BothSimsAreTried == FactSpec => AutoTestTriesBothSims
<1>1. FactInv /\ [FactNext]_factVars =>
        [fact = "RUNNING" /\ fact' = "IDLE" => ~owed]_factVars
  <2> SUFFICES ASSUME FactInv, FactNext, fact = "RUNNING", fact' = "IDLE" PROVE ~owed
    OBVIOUS
  <2>1. LeaveRunning /\ ~(swCount > 0)
    BY DEF FactNext, Arm, test, RedialHandleLeave, LeaveSuspend, EnterSuspend, LeaveRunning, FactoryTimer,
           FactoryCommand, AutoTest, DialStart, DialStop, SwitchSimCommand
  <2> QED
    BY <2>1 DEF LeaveRunning, FactInv, FactTypeOK, SwitchIsComing, BeforeScan
<1> QED
  BY <1>1, FactInductive, PTL DEF FactSpec, AutoTestTriesBothSims

-----------------------------------------------------------------------------
(* The services that follow the broadcasts.                                *)

\* What may be believed of a WWAN once it is the newest information, given the
\* WWANs published, p, and the state of the dialer, s: what was broadcast is what
\* is published, and what was answered of the first WWAN is, while connected.
Believable(w, info, p, s) ==
  info.up => /\ info.via = "publish" => w \in p
             /\ w = "wwan1" /\ s = "CONNECTED" => w \in p

\* Message i is the last one on its way about WWAN w.
LastAbout(c, i, w) == /\ i \in 1 .. Len(c) /\ c[i].iface = w
                      /\ \A j \in 1 .. Len(c) : j > i => c[j].iface # w

Newest(c, r, p, s) ==
  \A w \in Wwans :
    /\ \A i \in 1 .. Len(c) : LastAbout(c, i, w) => Believable(w, c[i].info, p, s)
    /\ (\A i \in 1 .. Len(c) : c[i].iface # w) => Believable(w, r[w], p, s)

BusInv == Core /\ FirstUp /\ BusTypeOK /\ Newest(chan, replica, pub, st)

-----------------------------------------------------------------------------
(* Lemmas on messages.                                                     *)

\* Told() makes one message for each WWAN it is to tell about, with its state.
LEMMA ToldFacts ==
  ASSUME NEW S, NEW up, NEW via \in {"publish", "reply"}
  PROVE  /\ Told(S, up, via) \in Seq(Message)
         /\ \A i \in 1 .. Len(Told(S, up, via)) :
              LET m == Told(S, up, via)[i]
              IN m.iface \in S /\ m.info.via = via /\ (m.info.up => m.iface \in up)
         /\ \A w \in Wwans \cap S : \E i \in 1 .. Len(Told(S, up, via)) :
              Told(S, up, via)[i].iface = w
<1> DEFINE msg(w) == [iface |-> w, info |-> [up |-> w \in up, via |-> via]]
           of(w)  == IF w \in S THEN <<msg(w)>> ELSE <<>>
           a == of("wwan1")
           b == of("wwan2")
<1>1. \A w \in Wwans : /\ msg(w) \in Message /\ msg(w).iface = w
                       /\ msg(w).info.via = via /\ (msg(w).info.up => w \in up)
  <2> TAKE w \in Wwans
  <2> DEFINE here == w \in up
  <2>1. here = TRUE \/ here = FALSE
    OBVIOUS
  <2>2. [up |-> here, via |-> via] \in Info
    BY <2>1 DEF Info
  <2>3. msg(w) \in Message
    BY <2>2 DEF Message
  <2> QED
    BY <2>3
<1>2. ASSUME NEW w \in Wwans
      PROVE  /\ of(w) \in Seq(Message)
             /\ Len(of(w)) = IF w \in S THEN 1 ELSE 0
             /\ w \in S => of(w)[1] = msg(w)
  <2> HIDE DEF msg
  <2>1. CASE w \in S
    BY <1>1, <2>1
  <2>2. CASE w \notin S
    BY <2>2, EmptySeq
  <2> QED
    BY <2>1, <2>2
<1>3. Told(S, up, via) = a \o b
  BY DEF Told
<1> HIDE DEF msg
<1>4. /\ a \in Seq(Message) /\ Len(a) = (IF "wwan1" \in S THEN 1 ELSE 0)
      /\ b \in Seq(Message) /\ Len(b) = (IF "wwan2" \in S THEN 1 ELSE 0)
      /\ "wwan1" \in S => a[1] = msg("wwan1")
      /\ "wwan2" \in S => b[1] = msg("wwan2")
  BY <1>2 DEF Wwans
<1> HIDE DEF a, b
<1>5. /\ a \o b \in Seq(Message) /\ Len(a \o b) = Len(a) + Len(b)
      /\ \A i \in 1 .. Len(a) + Len(b) : (a \o b)[i] = IF i <= Len(a) THEN a[i] ELSE b[i - Len(a)]
  BY <1>4, ConcatProperties
<1>6. \A i \in 1 .. Len(a \o b) :
        \E w \in Wwans \cap S : (a \o b)[i] = msg(w)
  BY <1>4, <1>5 DEF Wwans
<1>7. \A w \in Wwans \cap S : \E i \in 1 .. Len(a \o b) : (a \o b)[i] = msg(w)
  <2>1. "wwan1" \in S => 1 \in 1 .. Len(a \o b) /\ (a \o b)[1] = msg("wwan1")
    BY <1>4, <1>5
  <2>2. "wwan2" \in S => Len(a) + 1 \in 1 .. Len(a \o b) /\ (a \o b)[Len(a) + 1] = msg("wwan2")
    BY <1>4, <1>5
  <2> QED
    BY <2>1, <2>2 DEF Wwans
<1>8. \A i \in 1 .. Len(a \o b) :
        LET m == (a \o b)[i]
        IN m.iface \in S /\ m.info.via = via /\ (m.info.up => m.iface \in up)
  BY <1>1, <1>6
<1>9. \A w \in Wwans \cap S : \E i \in 1 .. Len(a \o b) : (a \o b)[i].iface = w
  BY <1>1, <1>7
<1> QED
  BY <1>3, <1>5, <1>8, <1>9

\* When messages are added about some WWANs, what they say is the newest of those
\* and what was the newest stays so of the others.
LEMMA AddMessages ==
  ASSUME NEW c \in Seq(Message), NEW r \in [Wwans -> Info], NEW p, NEW s, NEW p2, NEW s2,
         Newest(c, r, p, s), NEW S, NEW t \in Seq(Message),
         \A i \in 1 .. Len(t) : t[i].iface \in S /\ Believable(t[i].iface, t[i].info, p2, s2),
         \A w \in Wwans \cap S : \E i \in 1 .. Len(t) : t[i].iface = w,
         \A w \in Wwans \ S, info \in Info : Believable(w, info, p, s) => Believable(w, info, p2, s2)
  PROVE  Newest(c \o t, r, p2, s2)
<1> DEFINE d == c \o t
<1>1. /\ Len(d) = Len(c) + Len(t) /\ Len(c) \in Nat /\ Len(t) \in Nat
      /\ \A i \in 1 .. Len(c) : d[i] = c[i]
      /\ \A i \in 1 .. Len(t) : d[Len(c) + i] = t[i]
  BY ConcatProperties
<1> HIDE DEF d
<1> SUFFICES ASSUME NEW w \in Wwans
             PROVE  /\ \A i \in 1 .. Len(d) : LastAbout(d, i, w) => Believable(w, d[i].info, p2, s2)
                    /\ (\A i \in 1 .. Len(d) : d[i].iface # w) => Believable(w, r[w], p2, s2)
  BY DEF Newest, d
<1>2. CASE w \in S
  <2>1. PICK k \in 1 .. Len(t) : t[k].iface = w
    BY <1>2
  <2>2. Len(c) + k \in 1 .. Len(d) /\ d[Len(c) + k].iface = w
    BY <1>1, <2>1
  <2>3. ASSUME NEW i \in 1 .. Len(d), LastAbout(d, i, w) PROVE Believable(w, d[i].info, p2, s2)
    <3>1. i >= Len(c) + k
      BY <1>1, <2>2, <2>3 DEF LastAbout
    <3>2. i - Len(c) \in 1 .. Len(t) /\ i = Len(c) + (i - Len(c))
      BY <1>1, <3>1
    <3>3. d[i] = t[i - Len(c)]
      BY <1>1, <3>2
    <3> QED
      BY <2>3, <3>2, <3>3 DEF LastAbout
  <2> QED
    BY <2>2, <2>3
<1>3. CASE w \notin S
  <2>1. \A i \in 1 .. Len(d) : d[i].iface = w => i \in 1 .. Len(c)
    <3> SUFFICES ASSUME NEW i \in 1 .. Len(d), i > Len(c) PROVE d[i].iface # w
      BY <1>1
    <3>1. i - Len(c) \in 1 .. Len(t) /\ i = Len(c) + (i - Len(c))
      BY <1>1
    <3>2. d[i] = t[i - Len(c)]
      BY <1>1, <3>1
    <3> QED
      BY <1>3, <3>1, <3>2
  <2>2. ASSUME NEW i \in 1 .. Len(d), LastAbout(d, i, w) PROVE Believable(w, d[i].info, p2, s2)
    <3>1. i \in 1 .. Len(c) /\ d[i] = c[i]
      BY <1>1, <2>1, <2>2 DEF LastAbout
    <3>2. LastAbout(c, i, w)
      BY <1>1, <2>2, <3>1 DEF LastAbout
    <3>3. c[i].info \in Info
      <4>1. c[i] \in Message
        BY <3>1, ElementOfSeq
      <4> QED
        BY <4>1 DEF Message
    <3>4. Believable(w, c[i].info, p, s)
      BY <3>1, <3>2 DEF Newest
    <3> QED
      BY <1>3, <3>1, <3>3, <3>4
  <2>3. ASSUME \A i \in 1 .. Len(d) : d[i].iface # w PROVE Believable(w, r[w], p2, s2)
    <3>1. \A i \in 1 .. Len(c) : c[i].iface # w
      BY <1>1, <2>3
    <3> QED
      BY <1>3, <3>1 DEF Newest
  <2> QED
    BY <2>2, <2>3
<1> QED
  BY <1>2, <1>3

\* Reading a message leaves the newest information what it is.
LEMMA ReadMessage ==
  ASSUME NEW c \in Seq(Message), c # <<>>, NEW r \in [Wwans -> Info], NEW p, NEW s,
         Newest(c, r, p, s)
  PROVE  Newest(Tail(c), [r EXCEPT ![Head(c).iface] = Head(c).info], p, s)
<1> DEFINE d == Tail(c)
           q == [r EXCEPT ![Head(c).iface] = Head(c).info]
<1>1. /\ Len(d) = Len(c) - 1 /\ Len(c) \in Nat \ {0}
      /\ \A i \in 1 .. Len(d) : d[i] = c[i + 1]
      /\ Head(c) = c[1] /\ Head(c) \in Message
  BY HeadTailProperties
<1>2. Head(c).iface \in Wwans /\ Head(c).info \in Info
  BY <1>1 DEF Message
<1> HIDE DEF d
<1>3. ASSUME NEW w \in Wwans, NEW i \in 1 .. Len(d), LastAbout(d, i, w)
      PROVE  Believable(w, d[i].info, p, s)
  <2>1. i + 1 \in 1 .. Len(c) /\ d[i] = c[i + 1]
    BY <1>1
  <2>2. LastAbout(c, i + 1, w)
    <3> SUFFICES ASSUME NEW j \in 1 .. Len(c), j > i + 1 PROVE c[j].iface # w
      BY <1>3, <2>1 DEF LastAbout
    <3>1. j - 1 \in 1 .. Len(d) /\ j - 1 > i /\ j = (j - 1) + 1
      BY <1>1
    <3>2. d[j - 1] = c[j]
      BY <1>1, <3>1
    <3> QED
      BY <1>3, <3>1, <3>2 DEF LastAbout
  <2> QED
    BY <2>1, <2>2 DEF Newest
<1>4. ASSUME NEW w \in Wwans, \A i \in 1 .. Len(d) : d[i].iface # w
      PROVE  Believable(w, q[w], p, s)
  <2>1. ASSUME NEW j \in 1 .. Len(c), j > 1 PROVE c[j].iface # w
    <3>1. j - 1 \in 1 .. Len(d) /\ j = (j - 1) + 1
      BY <1>1, <2>1
    <3>2. d[j - 1] = c[j]
      BY <1>1, <3>1
    <3> QED
      BY <1>4, <3>1, <3>2
  <2>2. CASE Head(c).iface = w
    <3>1. 1 \in 1 .. Len(c) /\ LastAbout(c, 1, w)
      BY <1>1, <2>1, <2>2 DEF LastAbout
    <3>2. q[w] = c[1].info
      BY <1>1, <2>2
    <3> QED
      BY <3>1, <3>2 DEF Newest
  <2>3. CASE Head(c).iface # w
    <3>1. \A j \in 1 .. Len(c) : c[j].iface # w
      BY <1>1, <2>1, <2>3
    <3>2. q[w] = r[w]
      BY <2>3
    <3> QED
      BY <3>1, <3>2 DEF Newest
  <2> QED
    BY <2>2, <2>3
<1> QED
  BY <1>3, <1>4 DEF Newest, d

-----------------------------------------------------------------------------
LEMMA BusInitInv == BusInit => BusInv
<1> SUFFICES ASSUME BusInit PROVE BusInv
  OBVIOUS
<1>1. Core /\ FirstUp
  BY InitInv DEF BusInit, IInv, Init, FirstUp
<1>2. BusTypeOK
  <2>1. Unknown \in Info
    BY DEF Unknown, Info
  <2>2. asked \in BOOLEAN
    BY Zenon DEF BusInit
  <2> QED
    BY <2>1, <2>2, EmptySeq, BusConstantsOK DEF BusInit, BusTypeOK, BusConstantsOK
<1>3. Newest(chan, replica, pub, st)
  BY DEF BusInit, Newest, Unknown, Believable, Wwans, LastAbout
<1> QED
  BY <1>1, <1>2, <1>3 DEF BusInv

\* A step of the dialer keeps its own invariant.
LEMMA DialerKept == ASSUME Core, FirstUp, Next PROVE Core' /\ FirstUp' /\ UpKept
BY ScanStep, DialStep, WatchStep, TimerStep, ReportStep, ChildStep, RequestStep
DEF Next, RedialHandle, UpKept

\* A step of the dialer tells of every WWAN that it publishes or withdraws, and
\* connects only with its first WWAN published.
LEMMA DaemonKeeps == BusInv /\ DaemonStep => BusInv'
<1> SUFFICES ASSUME BusInv, DaemonStep PROVE BusInv'
  OBVIOUS
<1> USE DEF BusInv, DaemonStep
<1> DEFINE t == Told(Sent, pub', "publish")
<1>1. Core' /\ FirstUp' /\ UpKept
  BY DialerKept
<1>2. t \in Seq(Message)
  BY ToldFacts
<1>3. BusTypeOK'
  <2>1. chan' \in Seq(Message)
    BY <1>2, ConcatProperties DEF BusTypeOK
  <2> QED
    BY <2>1 DEF BusTypeOK
<1>4. \A i \in 1 .. Len(t) : t[i].iface \in Sent /\ Believable(t[i].iface, t[i].info, pub', st')
  BY ToldFacts DEF Believable, Message
<1>5. \A w \in Wwans \cap Sent : \E i \in 1 .. Len(t) : t[i].iface = w
  BY ToldFacts
<1>6. \A w \in Wwans \ Sent, info \in Info : Believable(w, info, pub, st) => Believable(w, info, pub', st')
  <2>1. \A w \in Wwans \ Sent : w \in pub => w \in pub'
    BY DEF Sent
  <2> QED
    BY <1>1, <2>1 DEF Believable, UpKept
<1>7. Newest(chan', replica', pub', st')
  <2> HIDE DEF t
  <2>1. chan' = chan \o t /\ replica' = replica
    BY DEF t
  <2>2. chan \in Seq(Message) /\ replica \in [Wwans -> Info]
    BY DEF BusTypeOK
  <2>3. Newest(chan \o t, replica, pub', st')
    BY <1>2, <1>4, <1>5, <1>6, <2>2, AddMessages, Zenon
  <2> QED
    BY <2>1, <2>3
<1> QED
  BY <1>1, <1>3, <1>7

\* An answer tells the state of the links themselves, which while the dialer is
\* connected is what is published.
LEMMA ReplyKeeps == BusInv /\ Reply => BusInv'
<1> SUFFICES ASSUME BusInv, Reply PROVE BusInv'
  OBVIOUS
<1> USE DEF BusInv, Reply
<1> DEFINE S == {"wwan1"} \cup (IF dualWwan THEN {"wwan2"} ELSE {})
           t == Told(S, vif, "reply")
<1>1. Core' /\ FirstUp'
  BY StutterInv DEF vars, FirstUp, Calm
<1>2. t \in Seq(Message)
  BY ToldFacts
<1>3. BusTypeOK'
  <2>1. chan' \in Seq(Message)
    BY <1>2, ConcatProperties DEF BusTypeOK
  <2>2. asked' \in BOOLEAN
    BY Zenon
  <2> QED
    BY <2>1, <2>2 DEF BusTypeOK
<1>4. \A i \in 1 .. Len(t) : t[i].iface \in S /\ Believable(t[i].iface, t[i].info, pub', st')
  <2>1. st = "CONNECTED" /\ "wwan1" \in vif => "wwan1" \in pub
    BY DEF Core, ConnectedIsTold
  <2> QED
    BY <2>1, ToldFacts DEF Believable, vars
<1>5. \A w \in Wwans \cap S : \E i \in 1 .. Len(t) : t[i].iface = w
  BY ToldFacts
<1>6. \A w \in Wwans \ S, info \in Info : Believable(w, info, pub, st) => Believable(w, info, pub', st')
  BY DEF Believable, vars
<1>7. Newest(chan', replica', pub', st')
  <2> HIDE DEF t, S
  <2>1. chan' = chan \o t /\ replica' = replica
    BY DEF t, S
  <2>2. chan \in Seq(Message) /\ replica \in [Wwans -> Info]
    BY DEF BusTypeOK
  <2>3. Newest(chan \o t, replica, pub', st')
    BY <1>2, <1>4, <1>5, <1>6, <2>2, AddMessages, Zenon
  <2> QED
    BY <2>1, <2>3
<1> QED
  BY <1>1, <1>3, <1>7

\* The service reads its messages in order, so the newest is read last.
LEMMA DeliverKeeps == BusInv /\ Deliver => BusInv'
<1> SUFFICES ASSUME BusInv, Deliver PROVE BusInv'
  OBVIOUS
<1> USE DEF BusInv, Deliver
<1>1. Core' /\ FirstUp'
  BY StutterInv DEF vars, FirstUp, Calm
<1>2. /\ chan' \in Seq(Message) /\ Len(chan') = Len(chan) - 1 /\ Len(chan) \in Nat \ {0}
      /\ \A i \in 1 .. Len(chan') : chan'[i] = chan[i + 1]
      /\ Head(chan) = chan[1] /\ Head(chan) \in Message
  BY HeadTailProperties DEF BusTypeOK
<1>3. BusTypeOK'
  <2>1. Head(chan).iface \in Wwans /\ Head(chan).info \in Info
    BY <1>2 DEF Message
  <2>2. replica' \in [Wwans -> Info]
    BY <2>1 DEF BusTypeOK
  <2>3. asked' \in BOOLEAN /\ restarts' \in 0 .. MaxRestarts
    BY DEF BusTypeOK
  <2>4. Len(chan') <= MaxChan
    BY <1>2, BusConstantsOK DEF BusTypeOK, BusConstantsOK
  <2> QED
    BY <1>2, <2>2, <2>3, <2>4 DEF BusTypeOK
<1>4. Newest(chan', replica', pub', st')
  BY ReadMessage DEF BusTypeOK, vars
<1> QED
  BY <1>1, <1>3, <1>4

LEMMA ServiceRestartKeeps == BusInv /\ ServiceRestart => BusInv'
<1> SUFFICES ASSUME BusInv, ServiceRestart PROVE BusInv'
  OBVIOUS
<1> USE DEF BusInv, ServiceRestart
<1>1. Core' /\ FirstUp'
  BY StutterInv DEF vars, FirstUp, Calm
<1>2. BusTypeOK'
  <2>1. Unknown \in Info
    BY DEF Unknown, Info
  <2>2. asked' \in BOOLEAN
    BY Zenon
  <2>3. chan' \in Seq(Message) /\ Len(chan') <= MaxChan
    BY EmptySeq, BusConstantsOK DEF BusConstantsOK
  <2>4. restarts' \in 0 .. MaxRestarts
    BY BusConstantsOK DEF BusTypeOK, BusConstantsOK
  <2> QED
    BY <2>1, <2>2, <2>3, <2>4 DEF BusTypeOK
<1>3. Newest(chan', replica', pub', st')
  BY DEF Newest, Unknown, Believable, Wwans, LastAbout
<1> QED
  BY <1>1, <1>2, <1>3

\* The daemon that starts again has no process, no timer and no link of its own,
\* but what the other one published is still believed.
LEMMA DaemonRestartKeeps == BusInv /\ DaemonRestart => BusInv'
<1> SUFFICES ASSUME BusInv, DaemonRestart PROVE BusInv'
  OBVIOUS
<1> USE DEF BusInv, DaemonRestart
<1>1. cfg' \in Settings /\ cfg'.modem = cfg.modem /\ cfg'.dual = cfg.dual
  BY DEF Core, TypeOK, Settings
<1>2. mail' \in Seq(UsedReport)
  BY FarewellReports, EmptySeq DEF Core
<1>3. child' \in [Slots -> Progress] /\ \A s \in Slots : child'[s] = "none"
  BY DEF Progress
<1>4. vif' \subseteq vif
  OBVIOUS
<1>5. dualWwan' \in BOOLEAN /\ simSwitch' \in BOOLEAN /\ force' \in BOOLEAN
  BY Zenon
<1>6. /\ redialCnt' \in 0 .. MaxCount /\ ~(redialCnt' > MaxRedial + 1)
      /\ waitCnt' \in 0 .. 4 /\ requests' \in 0 .. MaxRequests
  BY ConstantsOK DEF ConstantsOK, Core, TypeOK
<1>7. Core'
  <2>1. TypeOK' /\ UsedOnly'
    BY <1>1, <1>2, <1>3, <1>4, <1>5, <1>6, UsedFacts, SameModem
    DEF Core, TypeOK, UsedOnly, States, BringUp, BeforeModemInit, DialStates
  <2>2. DialArm' /\ DualOnlyQmi' /\ DualKept' /\ ConnectedIsTold'
    BY <1>1, SameModem DEF Core, DialArm, Dialing, DualOnlyQmi, DualKept, ConnectedIsTold
  <2>3. ProbesWhileConnected' /\ QuietWhileDown' /\ DialIsWatched' /\ SuspendIsQuiet'
    BY <1>3 DEF ProbesWhileConnected, ProbesOnlyWhileConnected, QuietWhileDown, QuietBringUp,
                DialIsWatched, SuspendIsQuiet, SubDaemonRunning
  <2> QED
    BY <2>1, <2>2, <2>3 DEF Core
<1>8. FirstUp'
  BY DEF FirstUp
<1>9. BusTypeOK'
  <2>1. asked' \in BOOLEAN
    BY Zenon
  <2>2. restarts' \in 0 .. MaxRestarts
    BY BusConstantsOK DEF BusTypeOK, BusConstantsOK
  <2> QED
    BY <2>1, <2>2 DEF BusTypeOK
<1>10. Newest(chan', replica', pub', st')
  <2>1. \A w, info : Believable(w, info, pub, st) => Believable(w, info, pub', st')
    BY DEF Believable
  <2> QED
    BY <2>1 DEF Newest, LastAbout
<1> QED
  BY <1>7, <1>8, <1>9, <1>10

-----------------------------------------------------------------------------
\* BusInv is an invariant of the dialer and the service, through any restarts.
THEOREM BusInductive == BusSpec => []BusInv
<1>1. BusInit => BusInv
  BY BusInitInv
<1>2. BusInv /\ [BusNext]_busVars => BusInv'
  <2>1. BusInv /\ UNCHANGED busVars => BusInv'
    <3> SUFFICES ASSUME BusInv, UNCHANGED busVars PROVE BusInv'
      OBVIOUS
    <3>1. Core'
      BY StutterInv DEF BusInv, busVars
    <3> QED
      BY <3>1 DEF BusInv, busVars, vars, FirstUp, BusTypeOK, Newest, LastAbout, Believable
  <2> QED
    BY <2>1, DaemonKeeps, ReplyKeeps, DeliverKeeps, ServiceRestartKeeps, DaemonRestartKeeps DEF BusNext
<1> QED
  BY <1>1, <1>2, PTL DEF BusSpec

\* A service that has read its messages believes in no link that the dialer has
\* withdrawn or, told of it in an answer, never published (vif_shared.c l.351-470).
THEOREM ReplicaAlwaysAgrees == BusSpec => []ReplicaAgrees
<1>1. BusInv => ReplicaAgrees
  BY DEF BusInv, ReplicaAgrees, ReplicaIsPublished, LateServiceAgrees, Newest, Believable, BusTypeOK, Info, Wwans
<1> QED
  BY <1>1, BusInductive, PTL

\* As long as nothing has restarted, nothing at all is promised out of CONNECTED.
NoRestartYet == restarts = 0 => UpWhileConnected

\* Out of CONNECTED and INIT no link is promised; after a restart, none of the first
\* WWAN, in the absence of the forcing requests and of odhcp6c (l.8866-8881).
THEOREM RestartAlwaysWithdraws ==
  ASSUME Requests \cap Forced = {}, "DHCP6" \notin Modems
  PROVE  BusSpec => []RestartWithdraws
<1>1. BusInit => NoRestartYet
  BY InitInv DEF BusInit, NoRestartYet, IInv
<1>2. BusInv /\ NoRestartYet /\ [BusNext]_busVars => NoRestartYet'
  <2> SUFFICES ASSUME BusInv, NoRestartYet, [BusNext]_busVars PROVE NoRestartYet'
    OBVIOUS
  <2>1. CASE DaemonStep
    <3>1. restarts' = restarts /\ UpKept
      BY <2>1, DialerKept DEF DaemonStep, BusInv
    <3> QED
      BY <3>1 DEF NoRestartYet, UpKept
  <2>2. CASE ServiceRestart \/ DaemonRestart
    <3>1. restarts' # 0
      BY <2>2 DEF ServiceRestart, DaemonRestart, BusInv, BusTypeOK
    <3> QED
      BY <3>1 DEF NoRestartYet
  <2>3. CASE Reply \/ Deliver \/ UNCHANGED busVars
    <3>1. restarts' = restarts /\ UNCHANGED vars
      BY <2>3 DEF Reply, Deliver, busVars
    <3> QED
      BY <3>1 DEF NoRestartYet, UpWhileConnected, UpOnlyWhileConnected, vars
  <2> QED
    BY <2>1, <2>2, <2>3 DEF BusNext
<1>3. BusInv /\ NoRestartYet => RestartWithdraws
  <2> SUFFICES ASSUME BusInv, NoRestartYet, st \notin {"CONNECTED", "INIT"}
               PROVE  pub \subseteq (IF restarts = 0 THEN {} ELSE {"wwan2"})
    BY DEF RestartWithdraws
  <2>1. Calm /\ cfg.modem # "DHCP6" /\ pub \subseteq Wwans
    BY DEF BusInv, Core, TypeOK, Settings, Calm
  <2>2. "wwan1" \notin pub
    BY <2>1 DEF BusInv, FirstUp
  <2>3. restarts = 0 => pub = {}
    BY <2>1 DEF NoRestartYet, UpWhileConnected, UpOnlyWhileConnected
  <2> QED
    BY <2>1, <2>2, <2>3 DEF Wwans
<1> QED
  BY <1>1, <1>2, <1>3, BusInductive, PTL DEF BusSpec
===============================================================================
