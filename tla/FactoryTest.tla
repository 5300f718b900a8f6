----------------------------- MODULE FactoryTest -----------------------------
(***************************************************************************)
(* The factory test of the modem (redial_factory.c) on top of the dialer:  *)
(* its own three states, its timer, its commands, and the hook             *)
(* redial_handle_leave() that ends every run of redial_handle() and may    *)
(* move the dialer's state machine under its feet.                         *)
(*                                                                         *)
(* An arm of redial_handle() and the hook behind it are one callback: the  *)
(* arm is one step, `leaving' is then set if the hook has something to do, *)
(* and nothing but the hook can follow.                                    *)
(***************************************************************************)
EXTENDS Dialer

CONSTANT MaxCommands  \* bound: commands of the tester in one behaviour

ASSUME MaxCommandsOK == MaxCommands \in Nat

VARIABLES
  fact,      \* gl_factory_dial_state
  swCount,   \* gl_sim_switch_count
  factTmr,   \* g_ev_factory_modem_tmr is armed
  leaving,   \* the arm has run, redial_handle_leave() has not
  commands,  \* how many commands have been given
  owed       \* history: an auto-test began and the SIM cards were not switched yet

test     == <<fact, swCount, factTmr>>
factVars == <<vars, fact, swCount, factTmr, leaving, commands, owed>>

FactStates == {"IDLE", "RUNNING", "SUSPENDED"}
\* The states from REDIAL_STATE_MODEM_READY on, and those beyond SUSPEND.
PastReady   == States \ (BeforeModemInit \cup {"MODEM_INIT", "SLEEP", "REBOOT"})
PastSuspend == PastReady \ {"READY", "SUSPEND"}

FactTypeOK ==
  /\ TypeOK
  /\ fact \in FactStates /\ swCount \in 0 .. 1 /\ factTmr \in BOOLEAN
  /\ leaving \in BOOLEAN /\ owed \in BOOLEAN
  /\ commands \in 0 .. MaxCommands

FactInit ==
  /\ Init
  /\ fact = "IDLE" /\ swCount = 0 /\ factTmr = FALSE
  /\ leaving = FALSE /\ commands = 0 /\ owed = FALSE

-----------------------------------------------------------------------------
(* redial_handle().                                                        *)

\* The arms that only wait: they change nothing and end in the hook as well.
Waiting ==
  \/ st \in {"SUSPEND", "AT"}
  \/ st = "SMS_ONLY" /\ ~cfg.enable
  \/ st \in Dialing /\ (~MayDial \/ HungUp)
  \/ st = "CONNECTING" /\ ~DialDead /\ ~(Dialed \subseteq vif)
  \/ st = "CONNECTED" /\ ~DialDead /\ (SubDaemon = "QMI" => Dialed \subseteq vif /\ waitCnt = 0)

\* What redial_handle_leave() acts on, in state s.
Acts(s) ==
  \/ fact = "RUNNING"   /\ s \in {"SUSPEND", "CONNECTED"}
  \/ fact = "SUSPENDED" /\ s \in PastReady \ {"SUSPEND"}
  \/ fact = "IDLE"      /\ s = "SUSPEND" /\ ~force

Arm ==
  /\ RedialHandle \/ (Waiting /\ Acts(st) /\ UNCHANGED vars)
  /\ leaving' = Acts(st')
  /\ owed' = (owed /\ ~(simSwitch /\ ~simSwitch'))
  /\ UNCHANGED <<test, commands>>

SwitchTheSim ==
  /\ swCount' = 0
  /\ simSwitch' = TRUE
  /\ ChangeState("STARTUP")

\* Mutant: the second card's turn is skipped.
LeaveRunningEarly ==
  /\ fact = "RUNNING" /\ st = "CONNECTED"
  /\ fact' = "IDLE"
  /\ UNCHANGED <<link, st, tmr, simSwitch, swCount, factTmr>>

\* CONNECTED ends the test on this card: the other card is next, if its turn is
\* still to come.
LeaveRunning ==
  /\ fact = "RUNNING" /\ st = "CONNECTED"
  /\ IF swCount > 0 THEN SwitchTheSim /\ factTmr' = FALSE /\ UNCHANGED fact
     ELSE fact' = "IDLE" /\ UNCHANGED <<link, st, tmr, simSwitch, swCount, factTmr>>

LeaveSuspend ==
  /\ st = "SUSPEND"
  /\ fact = "RUNNING" \/ (fact = "IDLE" /\ ~force)
  /\ ChangeState("STARTUP")
  /\ UNCHANGED <<simSwitch, test>>

EnterSuspend ==
  /\ fact = "SUSPENDED" /\ st \in PastReady
  /\ ChangeState("SUSPEND")
  /\ UNCHANGED <<simSwitch, test>>

RedialHandleLeave ==
  /\ leaving
  /\ leaving' = FALSE
  /\ LeaveRunning \/ LeaveSuspend \/ EnterSuspend
  /\ UNCHANGED <<vif, pub, cfg, dial, dualWwan, force, counts, requests, commands, owed>>

\* my_factory_modem_timer(): the time for the first card is over.
FactoryTimer ==
  /\ factTmr
  /\ factTmr' = FALSE
  /\ IF swCount > 0 THEN SwitchTheSim ELSE UNCHANGED <<link, st, tmr, simSwitch, swCount>>
  /\ UNCHANGED <<vif, pub, cfg, dial, dualWwan, force, counts, requests,
                 fact, leaving, commands, owed>>

-----------------------------------------------------------------------------
(* The tester's commands.                                                  *)

Command == /\ commands < MaxCommands /\ commands' = commands + 1
           /\ UNCHANGED <<vif, pub, cfg, dial, dualWwan, force, counts, requests, leaving>>

\* "modem 1 dial auto-test timeout n"
AutoTest ==
  /\ Command
  /\ swCount' = 1 /\ factTmr' = TRUE /\ fact' = "RUNNING"
  /\ owed' = TRUE
  /\ UNCHANGED <<link, st, tmr, simSwitch>>

\* "modem 1 dial start": a switch still owed by an auto-test stays owed.
DialStart ==
  /\ Command
  /\ factTmr' = FALSE /\ fact' = "RUNNING"
  /\ ChangeState("STARTUP")
  /\ UNCHANGED <<simSwitch, swCount, owed>>

\* Mutant: the hook is left to end the dial in progress.
DialStopLater ==
  /\ Command
  /\ factTmr' = FALSE /\ fact' = "SUSPENDED"
  /\ UNCHANGED <<link, st, tmr, simSwitch, swCount, owed>>

\* "modem 1 dial stop"
DialStop ==
  /\ Command
  /\ factTmr' = FALSE /\ fact' = "SUSPENDED"
  /\ IF st \in PastSuspend THEN ChangeState("STARTUP") ELSE UNCHANGED <<link, st, tmr>>
  /\ UNCHANGED <<simSwitch, swCount, owed>>

\* "modem 1 switch sim n", n not being the card in use.
SwitchSimCommand ==
  /\ Command
  /\ simSwitch' = TRUE
  /\ ChangeState("STARTUP")
  /\ UNCHANGED <<test, owed>>

FactoryCommand == AutoTest \/ DialStart \/ DialStop \/ SwitchSimCommand

-----------------------------------------------------------------------------
FactNext ==
  IF leaving THEN RedialHandleLeave
  ELSE /\ st # "REBOOT"
       /\ \/ Arm \/ FactoryTimer \/ FactoryCommand
          \/ /\ TimerFires \/ HandleReport \/ SubDaemonStep \/ Request
             /\ UNCHANGED <<test, leaving, commands, owed>>

FactSpec == FactInit /\ [][FactNext]_factVars

-----------------------------------------------------------------------------
(* Properties.                                                             *)

\* "modem dial stop" keeps the dialer down, whatever requests, signals and timers
\* move the state machine meanwhile: between two callbacks it is never seen in a
\* state that dials, nor past READY unless suspended (redial_handle_leave(), l.288).
StoppedTestStaysDown == fact = "SUSPENDED" /\ ~leaving => st \notin PastSuspend

\* An auto-test ends only after both cards have been tried: when the hook
\* declares the test finished, the SIM cards have been switched since it began,
\* whether the connection of the first card or its timer came first, and
\* whatever commands came in between (l.270, l.311).
AutoTestTriesBothSims ==
  [][fact = "RUNNING" /\ fact' = "IDLE" => ~owed]_factVars

\* A test that was stopped stays stopped.
StopIsObeyed == FactTypeOK /\ StoppedTestStaysDown
=============================================================================
