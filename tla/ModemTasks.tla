------------------------------- MODULE ModemTasks ------------------------------
(***************************************************************************)
(* The pending tasks of the dialer (ih_redial.c l.5262-5375): questions to *)
(* the modem that wait for its port, the time for the SNTP client and the  *)
(* list of preferred operators.  The delays between attempts are left out. *)
(***************************************************************************)
EXTENDS Naturals

CONSTANTS
  TaskKits,  \* [time, pol, shared]: it can tell the time, its list is wanted,
             \* pppd takes the port that the questions use
  MaxAsked   \* bound: requests of other services

ASSUME TaskConstantsOK == MaxAsked \in Nat

VARIABLES
  taskKit,  \* the modem
  place,    \* gl_redial_state: EARLY (up to SLEEP), READY, SUSPEND, SMS_ONLY, AT, LINK
  tasks,    \* gl_redial_pending_task: TIME, POL
  timer,    \* gl_ev_redial_pending_task_tmr is armed
  dialing,  \* priv.enable
  asked     \* bounded by MaxAsked

taskVars == <<taskKit, place, tasks, timer, dialing, asked>>

TasksInit ==
  /\ taskKit \in TaskKits /\ dialing \in BOOLEAN
  /\ place = "EARLY" /\ tasks = {} /\ timer = FALSE /\ asked = 0

\* Mutant: the timer is armed for the first task only.
StartTaskOnce(t) ==
  /\ tasks' = tasks \cup {t}
  /\ timer' = (timer \/ tasks = {})

\* start_redial_pending_task()
StartTask(t) == tasks' = tasks \cup {t} /\ timer' = TRUE

\* stop_redial_pending_task()
StopTask(t) == tasks' = tasks \ {t} /\ timer' = (timer /\ tasks # {t})

\* check_modem_cclk_update_time(): a clock the network has not set yet, or one
\* that cannot be read, leaves the task pending; the same time is as good as a new one.
Clocks == {"silent", "unreadable", "before 2022", "same", "new"}
SetsTime(clock) == clock \in {"same", "new"}

\* get_modem_preferred_operator_list(): the list is written as it comes; one
\* part that fails is a failure.
Lists == {"silent", "error", "read"}
ReadsOperators(list) == list = "read"

\* run_redial_pending_task(): the tasks that are done with.  A task the modem is
\* not asked for is dropped; in debug mode nothing is asked.
Run == {{}} \cup
  {{t \in tasks : CASE t = "TIME" -> taskKit.time => SetsTime(clock)
                    [] t = "POL"  -> taskKit.pol => ReadsOperators(list)} :
     clock \in Clocks, list \in Lists}

AskPending ==
  /\ asked < MaxAsked /\ asked' = asked + 1
  /\ StartTask("TIME") \/ StopTask("TIME")   \* IPC_MSG_REDIAL_TIME_SYNC_REQ
  /\ UNCHANGED <<taskKit, place, dialing>>

\* can_use_commport
MayUsePort ==
  place \in {"READY", "SUSPEND", "SMS_ONLY"} \/ (place = "LINK" /\ ~taskKit.shared)

\* my_redial_pending_task_timer()
TaskTimer ==
  /\ timer
  /\ \E done \in IF MayUsePort THEN Run ELSE {{}} :
       tasks' = tasks \ done /\ timer' = (tasks \ done # {})
  /\ UNCHANGED <<taskKit, place, dialing, asked>>

\* The READY arm asks once; the AT list, once it is through, wants the operators.
ReadyTasks ==
  /\ place = "READY"
  /\ IF dialing
     THEN /\ place' = "AT"
          /\ \E done \in Run :
               tasks' = tasks \ done /\ timer' = (timer /\ (done # {} => tasks \ done # {}))
     ELSE place' \in {"SMS_ONLY", "READY"} /\ UNCHANGED <<tasks, timer>>
  /\ UNCHANGED <<taskKit, dialing, asked>>

ListEnds ==
  /\ place = "AT"
  /\ \/ place' = "EARLY" /\ UNCHANGED <<tasks, timer>>
     \/ place' = "LINK" /\ StartTask("POL")
  /\ UNCHANGED <<taskKit, dialing, asked>>

\* The arms before READY, and the end of a dial.
ComeUp == place = "EARLY" /\ place' = "READY"
           /\ UNCHANGED <<taskKit, tasks, timer, dialing, asked>>
Redial == place \in {"LINK", "SMS_ONLY"} /\ place' = "EARLY" /\ dialing' \in BOOLEAN
          /\ UNCHANGED <<taskKit, tasks, timer, asked>>

\* change_redial_state(): suspend, resume, SIGHUP and the factory test.
ChangeState ==
  /\ place' \in {"EARLY", "SUSPEND"} \ {place} /\ timer' = FALSE
  /\ UNCHANGED <<taskKit, tasks, dialing, asked>>

TasksNext == AskPending \/ TaskTimer \/ ReadyTasks \/ ListEnds \/ ComeUp \/ Redial \/ ChangeState
TasksSpec == TasksInit /\ [][TasksNext]_taskVars

-----------------------------------------------------------------------------
\* A task is not forgotten by a dialer that links: while one is pending its timer
\* is armed, although change_redial_state() disarms it and keeps the task
\* (ih_redial.c l.2871, 5262-5271, 9766).
PendingIsTried == place = "LINK" /\ tasks # {} => timer
================================================================================
