----------------------------- MODULE SimPolicy -----------------------------
(***************************************************************************)
(* The choice of the SIM card: which of the two cards an enabled router    *)
(* scans and dials with, when it leaves one for the other, what it         *)
(* remembers of each, and when it gives up (sleeps or reboots).            *)
(*                                                                         *)
(* The same state machine as in Dialer, one action per arm of              *)
(* redial_handle(), seen from its SIM cards.  The dialer is enabled; the   *)
(* three arms that dial are DIAL; how often a dial is tried again and what *)
(* the sub-daemons do is left out: killing them and the return to STARTUP  *)
(* that follows are one step.                                              *)
(***************************************************************************)
EXTENDS Naturals, FiniteSetsExt

CONSTANTS
  Outcomes,       \* what a scan of a SIM card that is present may end in
  Usages,         \* what the traffic service may report of a SIM card
  Retries,        \* dualsim_info.retries
  MaxReset,       \* MAX_MODEM_RESET
  MaxSimRetry,    \* MAX_SIM_RETRY
  InfiniteRetry,  \* ppp_config.infinitely_dial_retry
  Backtime,       \* TRUE: the time on the backup SIM is limited
  Requests,       \* the kinds of request that may arrive
  MaxRequests     \* bound: how many of them

Sims    == {1, 2}
Random  == 3                      \* SIMX or SIM_SEQ: policy_main is no SIM card
\* AT_ERR_CODE; a command that may fail ends in NAK, which is no outcome of a scan.
Errors  == {"OK", "NAK", "NOMODEM", "NEED_RESET", "NOSIM", "NOSIGNAL", "LOWSIGNAL",
              "NOREG", "ROAM", "NOVALIDIP"}
\* Of a month's traffic: within the limit; exceeded, which is only to be
\* reported ("alert", "cloud"); exceeded, which bars the SIM card.
AllUsages == {"normal", "alert", "barred"}

ASSUME SimConstantsOK ==
  /\ Outcomes \subseteq Errors \ {"NOSIM", "NAK"}
  /\ Usages \subseteq AllUsages
  /\ Retries \in Nat /\ MaxReset \in Nat /\ MaxSimRetry \in Nat /\ MaxRequests \in Nat
  /\ InfiniteRetry \in BOOLEAN /\ Backtime \in BOOLEAN
  /\ Requests \subseteq {"dual", "main", "sdwan", "redial", "signal"}

VARIABLES
  st,        \* gl_redial_state
  present,   \* the slots that hold a SIM card
  cur,       \* modem_info.current_sim
  main,      \* modem_config.main_sim; the other one is backup_sim
  policy,    \* modem_config.policy_main
  dualsim,   \* modem_config.dualsim
  flag,      \* gl_sim_switch_flag
  errno,     \* gl_at_errno
  sim,       \* sim_status[]: what is remembered of each SIM card
  retryCnt,  \* gl_dualsim_retry_cnt
  resetCnt,  \* gl_modem_reset_cnt
  backTmr,   \* gl_ev_dualsim_tmr is armed
  requests   \* how many requests have arrived (bounded by MaxRequests)

setup    == <<present, main, policy, dualsim, requests>>
simVars  == <<st, cur, flag, errno, sim, retryCnt, resetCnt, backTmr, setup>>

EarlyStates == {"STARTUP", "LOAD_DRV", "WAIT_AT"}
SimStates   == EarlyStates \cup {"MODEM_INIT", "SLEEP", "READY", "AT", "DIAL",
                                 "CONNECTING", "CONNECTED", "REBOOT"}
Linking     == {"CONNECTING", "CONNECTED"}
SimStatus   == [errno : Errors, retries : 0 .. MaxSimRetry, usage : AllUsages]

TypeOK ==
  /\ st \in SimStates
  /\ present \subseteq Sims /\ cur \in Sims /\ main \in Sims
  /\ policy \in Sims \cup {Random}
  /\ dualsim \in BOOLEAN /\ flag \in BOOLEAN /\ backTmr \in BOOLEAN
  /\ errno \in Errors
  /\ sim \in [Sims -> SimStatus]
  /\ retryCnt \in 0 .. Retries + 1
  /\ resetCnt \in 0 .. MaxReset + 1
  /\ requests \in 0 .. MaxRequests

Other(s)  == 3 - s
BackupSim == Other(main)

Init ==
  /\ st = "STARTUP"
  /\ present \in SUBSET Sims
  /\ cur = 1 /\ main = 1 /\ policy = 1 /\ dualsim \in BOOLEAN
  /\ flag = FALSE /\ errno = "OK"
  /\ sim = [s \in Sims |-> [errno |-> "OK", retries |-> 0, usage |-> "normal"]]
  /\ retryCnt = 0 /\ resetCnt = 0 /\ backTmr = FALSE /\ requests = 0

-----------------------------------------------------------------------------
(* What the policy asks of the SIM cards.                                  *)

\* check_sim_status() = 0
SimReady(s) == sim[s].errno # "NOSIM" /\ sim[s].usage # "barred"

\* The conditions on which current_sim_is_right() raises the flag.
SimIsWrong ==
  IF dualsim THEN sim[cur].usage # "normal" /\ SimReady(Other(cur))
             ELSE cur # policy

\* "if need switch sim, change it at once": every arm that begins with
\* current_sim_is_right() is left for STARTUP, or goes on with the flag down.
\* In the middle of the AT commands gl_at_errno is the error the command under
\* way would end in, "no SIM" or NAK too.
SwitchAtOnce(arm) ==
  /\ st = arm /\ (flag \/ SimIsWrong)
  /\ flag' = TRUE /\ st' = "STARTUP"
  /\ IF arm = "AT" THEN errno' \in Outcomes \cup {"NOSIM", "NAK"} ELSE UNCHANGED errno
  /\ UNCHANGED <<cur, sim, retryCnt, resetCnt, backTmr, setup>>

GoOn(arm) == st = arm /\ ~flag /\ ~SimIsWrong

\* should_enter_sleep_state()
SleepState == \A s \in IF dualsim THEN Sims ELSE {cur} :
                sim[s].errno = "NOSIM" /\ sim[s].retries >= MaxSimRetry

-----------------------------------------------------------------------------
(* The arms of redial_handle().                                            *)

RememberForBoth ==
  [s \in Sims |-> [sim[s] EXCEPT !.errno = errno,
                                 !.retries = IF errno = "OK" THEN 0
                                             ELSE Min({@ + 1, MaxSimRetry})]]

\* sim_status[] takes over the outcome of the last scan.
Remember == [sim EXCEPT ![cur].errno = errno,
                        ![cur].retries = IF errno = "OK" THEN 0
                                         ELSE Min({@ + 1, MaxSimRetry})]

\* Mutant: only a dial that fails is counted, not a failure to register.
CountsDials == ~(flag \/ SimIsWrong) /\ errno = "OK"

\* check_dualsim_switch() asks for the retry count, and counts.
CountsRetry == ~(flag \/ SimIsWrong) /\ errno \in {"OK", "NOREG", "LOWSIGNAL"}

\* Mutant: a switch that is asked for waits for the current card to fail.
SwitchOnErrorOnly ==
  \/ errno \in {"NOSIGNAL", "LOWSIGNAL", "NOSIM", "ROAM"}
  \/ CountsRetry /\ retryCnt >= Retries /\ SimReady(Other(cur))

\* check_dualsim_switch() = 0; "if(cfg->csq)" tests an array and is always true.
SwitchDue ==
  \/ flag \/ SimIsWrong
  \/ errno \in {"NOSIGNAL", "LOWSIGNAL", "NOSIM", "ROAM"}
  \/ CountsRetry /\ retryCnt >= Retries /\ SimReady(Other(cur))

\* do_dualsim_switch(), and dualsim_handle_backuptimer() in it.
DoSwitch ==
  /\ cur' = IF cur = main THEN BackupSim ELSE main
  /\ backTmr' = (Backtime /\ cur' = BackupSim)
  /\ retryCnt' = 1

MayReboot == ~InfiniteRetry \/ errno = "NOMODEM"

ModemStartup ==
  /\ st = "STARTUP"
  /\ ~(resetCnt >= MaxReset /\ MayReboot)
  /\ resetCnt' = Min({resetCnt + 1, MaxReset + 1})
  /\ sim' = Remember
  /\ LET asked == dualsim \/ flag \/ SimIsWrong IN
     /\ IF asked /\ SwitchDue THEN DoSwitch
        ELSE /\ UNCHANGED <<cur, backTmr>>
             /\ retryCnt' = IF asked /\ CountsRetry THEN Min({retryCnt + 1, Retries + 1})
                                                    ELSE retryCnt
     /\ flag' = FALSE
  /\ st' = "LOAD_DRV"
  /\ UNCHANGED <<errno, setup>>

\* schedule_router_or_modem_reboot()
TooManyResets ==
  /\ st = "STARTUP" /\ resetCnt >= MaxReset /\ MayReboot
  /\ st' = "REBOOT"
  /\ UNCHANGED <<cur, flag, errno, sim, retryCnt, resetCnt, backTmr, setup>>

Rescan(e) == st' = "STARTUP" /\ errno' = e

LoadDrv ==
  /\ GoOn("LOAD_DRV")
  /\ \/ "NOMODEM" \in Outcomes /\ Rescan("NOMODEM")
     \/ st' = "WAIT_AT" /\ errno' = "OK"
  /\ UNCHANGED <<cur, flag, sim, retryCnt, resetCnt, backTmr, setup>>

\* Only the flag is looked at here, and only with two SIM cards.
WaitAt ==
  /\ st = "WAIT_AT"
  /\ IF dualsim /\ flag THEN Rescan(errno)
     ELSE \/ "NOMODEM" \in Outcomes /\ Rescan("NOMODEM")
          \/ st' = "MODEM_INIT" /\ UNCHANGED errno
  /\ UNCHANGED <<cur, flag, sim, retryCnt, resetCnt, backTmr, setup>>

ModemInit ==
  /\ GoOn("MODEM_INIT")
  /\ st' = IF SleepState THEN "SLEEP" ELSE "READY"
  /\ errno' = "OK"
  /\ UNCHANGED <<cur, flag, sim, retryCnt, resetCnt, backTmr, setup>>

ModemReady ==
  /\ GoOn("READY")
  /\ st' = "AT" /\ errno' = "OK"
  /\ UNCHANGED <<cur, flag, sim, retryCnt, resetCnt, backTmr, setup>>

\* The list of AT commands: the first that fails for good names the error.
Found == IF cur \in present THEN Outcomes ELSE {"NOSIM"}
AtCommands ==
  /\ GoOn("AT")
  /\ \E e \in Found :
       IF e = "OK" THEN st' = "DIAL" /\ errno' = "OK" /\ resetCnt' = 0
                   ELSE Rescan(e) /\ UNCHANGED resetCnt
  /\ UNCHANGED <<cur, flag, sim, retryCnt, backTmr, setup>>

\* Too many dials reboot the router.
DialUp ==
  /\ GoOn("DIAL")
  /\ st' \in {"CONNECTING", "STARTUP"} \cup (IF InfiniteRetry THEN {} ELSE {"REBOOT"})
  /\ UNCHANGED <<cur, flag, errno, sim, retryCnt, resetCnt, backTmr, setup>>

\* A dial ends; neither this arm nor CONNECTED looks at the SIM card.
DialEnds ==
  /\ st = "CONNECTING" /\ st' \in {"CONNECTED", "STARTUP"}
  /\ UNCHANGED <<cur, flag, errno, sim, retryCnt, resetCnt, backTmr, setup>>

LinkLost ==
  /\ st = "CONNECTED" /\ st' = "STARTUP"
  /\ UNCHANGED <<cur, flag, errno, sim, retryCnt, resetCnt, backTmr, setup>>

\* my_ppp_up_timer(): the connection has been up for long enough.  That the
\* timer may also outlive its dial is seen in Dialer, not here.
UpTimer ==
  /\ st = "CONNECTED" /\ retryCnt # 0 /\ retryCnt' = 0
  /\ UNCHANGED <<st, cur, flag, errno, sim, resetCnt, backTmr, setup>>

RedialHandle ==
  \/ ModemStartup \/ TooManyResets \/ LoadDrv \/ WaitAt \/ ModemInit \/ ModemReady
  \/ AtCommands \/ DialUp \/ DialEnds
  \/ \E arm \in {"LOAD_DRV", "MODEM_INIT", "READY", "AT", "DIAL"} : SwitchAtOnce(arm)

-----------------------------------------------------------------------------
(* Messages, commands and the timer of the backup SIM.                     *)

\* do_redial_procedure(): forget everything and start over, or only kill what
\* is dialed; which of the two depends on whether a process is still there.
DoRedial(heard) ==
  \/ st \in EarlyStates /\ sim' = heard /\ UNCHANGED <<st, errno>>
  \/ st \in Linking /\ st' = "STARTUP" /\ sim' = heard /\ UNCHANGED errno
  \/ /\ st \notin EarlyStates
     /\ st' = "STARTUP" /\ errno' = "OK"
     /\ sim' = [s \in Sims |-> [heard[s] EXCEPT !.errno = "OK", !.retries = 0]]

Asked(kind) == /\ kind \in Requests /\ requests < MaxRequests
               /\ requests' = requests + 1

\* handle_sim_data_usage()
TrafficReport(s, u) ==
  /\ sim[s].usage # u
  /\ LET heard == [sim EXCEPT ![s].usage = u]
         leave == /\ s = cur /\ u = "barred" /\ dualsim /\ ~flag
                  /\ SimReady(Other(cur))
     IN IF leave THEN flag' = TRUE /\ DoRedial(heard)
                 ELSE sim' = heard /\ UNCHANGED <<st, flag, errno>>
  /\ UNCHANGED <<cur, retryCnt, resetCnt, backTmr, setup>>

\* The end of my_cmd_handle(): a command that asks for a SIM switch dials again
\* only if it has changed a setting.
SwitchIf(wrong, changed) ==
  /\ flag' = (flag \/ wrong)
  /\ IF wrong /\ changed THEN DoRedial(sim) ELSE UNCHANGED <<st, errno, sim>>

\* "dual-sim enable"
EnableDual ==
  /\ Asked("dual") /\ dualsim' = TRUE
  /\ SwitchIf(cur # main, ~dualsim)
  /\ UNCHANGED <<present, main, policy, cur, retryCnt, resetCnt, backTmr>>

\* "no dual-sim enable"
DisableDual ==
  /\ Asked("dual") /\ dualsim' = FALSE
  /\ flag' = FALSE
  /\ UNCHANGED <<st, errno, sim, present, main, policy, cur, retryCnt, resetCnt, backTmr>>

\* "dual-sim main {1|2|random|sequence}", and "no dual-sim main", which asks for
\* the switch even if there is only one SIM card.
SetMain ==
  /\ Asked("main")
  /\ policy' \in Sims \cup {Random}
  /\ main' \in IF policy' \in Sims THEN {policy'} ELSE Sims
  /\ SwitchIf(dualsim /\ cur # main', <<main', policy'>> # <<main, policy>>)
  /\ UNCHANGED <<present, dualsim, cur, retryCnt, resetCnt, backTmr>>

UnsetMain ==
  /\ Asked("main")
  /\ policy' = 1 /\ main' = 1
  /\ SwitchIf(cur # 1, <<main', policy'>> # <<main, policy>>)
  /\ UNCHANGED <<present, dualsim, cur, retryCnt, resetCnt, backTmr>>

\* SDWAN_SWITCH, and the remote procedure call that names a SIM card.
SdwanSwitch ==
  /\ Asked("sdwan") /\ dualsim
  /\ flag' = TRUE /\ DoRedial(sim)
  /\ UNCHANGED <<present, main, policy, dualsim, cur, retryCnt, resetCnt, backTmr>>

Redial ==
  /\ Asked("redial") /\ DoRedial(sim)
  /\ UNCHANGED <<present, main, policy, dualsim, cur, flag, retryCnt, resetCnt, backTmr>>

\* my_signal_timer(): the signal of this SIM card has been low for too long.
LowSignal ==
  /\ Asked("signal") /\ dualsim /\ st = "CONNECTED"
  /\ flag' = TRUE /\ st' = "STARTUP"
  /\ UNCHANGED <<present, main, policy, dualsim, cur, errno, sim, retryCnt, resetCnt, backTmr>>

\* my_dualsim_timer()
BackTimer ==
  /\ backTmr /\ backTmr' = FALSE
  /\ flag' = TRUE
  /\ st' = IF st \in Linking THEN "STARTUP" ELSE st
  /\ UNCHANGED <<cur, errno, sim, retryCnt, resetCnt, setup>>

Ask == EnableDual \/ DisableDual \/ SetMain \/ UnsetMain \/ SdwanSwitch \/ Redial \/ LowSignal

-----------------------------------------------------------------------------
Next == /\ st # "REBOOT"
        /\ \/ RedialHandle \/ LinkLost \/ UpTimer \/ BackTimer \/ Ask
           \/ \E s \in Sims, u \in Usages : TrafficReport(s, u)

Spec == Init /\ [][Next]_simVars

\* The main timer runs; a connection may last for ever.
FairSpec == Spec /\ WF_simVars(RedialHandle)

-----------------------------------------------------------------------------
(* Properties.                                                             *)

\* "-1: no sim" (l.5110): a SIM card is remembered as absent only when its slot
\* is empty, so the outcome of a scan is booked on the card that was scanned.
NoSimWasSeen == \A s \in Sims : sim[s].errno = "NOSIM" => s \notin present

\* The daemon goes to sleep (for a year, l.9556) only if there is no card it could
\* dial with, however the two cards took turns before.
SleepMeansNoSim ==
  st = "SLEEP" => IF dualsim THEN present = {} ELSE cur \notin present

\* With two cards in place no luck with one leads to the other one, if it is
\* ready: a card that fails to register, or whose dials end, again and again does not
\* hold the dialer (l.5206).  Scans that end in NEED_RESET or NOVALIDIP are no such
\* failures: they neither switch nor count (l.5201-5222).
FailsAgain(s) == /\ dualsim /\ present = Sims /\ cur = s /\ st = "STARTUP"
                 /\ errno \notin {"NAK", "NEED_RESET", "NOVALIDIP"}
OtherSimIsTried ==
  \A s \in Sims :
    []<>FailsAgain(s)
      => []<>(cur # s \/ st \in {"CONNECTED", "REBOOT"} \/ ~dualsim \/ ~SimReady(Other(s)))

\* A switch asked for while there is no connection is made, however often the
\* scan is interrupted, unless the second card is given up (l.5196).
SwitchIsMade ==
  \A s \in Sims :
    dualsim /\ flag /\ cur = s
      ~> cur # s \/ ~dualsim \/ st \in {"CONNECTED", "SLEEP", "REBOOT"}

\* "0: ready" (l.5110): with two cards that are ready, one of them is dialed.
ReadySimIsDialed ==
  [](dualsim /\ SimReady(1) /\ SimReady(2)) => <>(st = "DIAL")

\* What the daemon knows of its cards is true: it takes a slot for empty, and goes
\* to sleep, only if there is no card (l.5110, l.9549-9566).
CardsAreKnown == TypeOK /\ NoSimWasSeen /\ SleepMeansNoSim
=============================================================================
