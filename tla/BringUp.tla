-------------------------------- MODULE BringUp --------------------------------
(***************************************************************************)
(* Bringing the modem up (redial_handle(), set_modem(), modem_dualsim_     *)
(* switch(), the checks of the modem's own settings): the early arms of    *)
(* the dialer with the hardware under them: the modem's power, the slot    *)
(* its SIM switch selects, the card it has read, the settings it has       *)
(* booted with, and the network devices of its driver.                     *)
(* Which card is wanted, and when the dialer sleeps, is decided as in      *)
(* SimPolicy; here the decisions are free.  Dialing is the state ON.       *)
(***************************************************************************)
EXTENDS IfRename

CONSTANTS
  Kits,       \* modems in play, see below
  Sims,       \* slots: {1, 2}
  MaxCheck,   \* MAX_CHECK_MODEM_RETRY
  MaxEvents   \* bound: switches wanted, requests, hangs and restarts

\* fam: the modem; wr3: on a WR3 board; dual: dual APN; exempt: the check of its
\* settings does not apply or asks for no reset: an RM500U of unknown version, before
\* A17 or behind an RTL8125B, an EC20 of version EC20CEHCR06A06M1G.

Pulse == {"PHS8", "PLS8", "ELS61", "ELS81", "ELS31", "TOBYL201", "LARAR2", "PVS8"}
Plain == {"EC20", "EC25", "EP06", "RM500", "RM520N", "RM500U", "RG500", "FM650", "NL668", "LP41",
          "ME909", "LE910", "U8300", "U8300C", "MC7350"}
CfunModems == {"RM500", "RM520N", "FM650", "RM500U", "RG500"}

\* The modems are those set_modem() knows.
ASSUME BringUpConstantsOK ==
  /\ Kits \subseteq [fam : Plain \cup Pulse \cup {"FG360"}, wr3 : BOOLEAN, dual : BOOLEAN,
              exempt : BOOLEAN]
  /\ Sims = {1, 2}
  /\ MaxCheck \in Nat \ {0} /\ MaxEvents \in Nat

VARIABLES
  kit,      \* the modem and the board
  st,       \* gl_redial_state
  hw,       \* the hardware, see below
  cur,      \* modem_info.current_sim
  dualsim,  \* modem_config.dualsim
  enabled,  \* priv.enable
  wanted,   \* gl_sim_switch_flag
  errno,    \* gl_at_errno
  reset,    \* gl_modem_reset_flag
  cfun,     \* gl_modem_cfun_reset_flag
  errCnt,   \* gl_check_modem_err_cnt
  dev,      \* gl_modem_dev_state
  linked,   \* ghost: uplinks whose device was named in this dial
  check,    \* ghost: how the check of the settings ended in this bring-up
  forgot,   \* ghost: a restart has lost a reset to come, or the slot in use
  ctx,      \* the context of the first uplink (get_pdp_context_id())
  events    \* bounded by MaxEvents

upVars == <<kit, st, hw, cur, dualsim, enabled, wanted, errno, reset, cfun, errCnt, dev, linked,
            check, forgot, ctx, events>>

States == {"INIT", "WAIT_CONFIG", "STARTUP", "LOAD_DRV", "WAIT_AT", "MODEM_INIT", "SLEEP",
           "READY", "ON"}
Contexts == {1, 3}   \* DEFAULT_CID, VZW_CLASS3_CID
SecondContext == 6   \* VZW_CLASS6_CID

\* hw.modem: off, booting, up or hung; slot: the card slot selected; read: the slot
\* of the card it has read, 0 if none; live, nv: the settings it has booted with
\* and those it has stored, TRUE if they are as wanted; devs: network devices.

\* The boards whose INIT arm starts the modem; on the others it has power.
StartsOff(k) ==
  k.wr3 \/ k.fam \in {"RM520N", "RM500U", "FM650", "PLS8", "ELS61", "ELS81", "TOBYL201"}

-----------------------------------------------------------------------------
\* set_modem(), as functions on the hardware.

PowerUp(h) == IF h.modem = "off" THEN [h EXCEPT !.modem = "booting"] ELSE h
PowerDown(h) == [h EXCEPT !.modem = "off", !.read = 0, !.devs = {}]

MStart(fam, h) == IF fam \in Plain \cup Pulse THEN PowerUp(h) ELSE h
MForceStop(fam, h) == IF fam \in Plain \cup Pulse THEN PowerDown(h) ELSE h
\* AT^SMSO for three of them; the others are left running.
MStop(fam, h) ==
  IF fam \in {"PHS8", "PLS8", "PVS8"} /\ h.modem = "up" THEN PowerDown(h) ELSE h
\* AT+CFUN=0, AT+CFUN=1: lost on a modem that does not answer.
CfunReset(h) == IF h.modem = "up" THEN [h EXCEPT !.read = h.slot] ELSE h

\* MODEM_RESET: the reset line, a power cycle, or nothing at all.
MReset(fam, h) ==
  CASE fam \in {"U8300", "FM650"}           -> IF h.modem = "off" THEN h ELSE PowerUp(PowerDown(h))
    [] fam \in Plain \ {"U8300", "FM650"}   -> h
    [] fam \in Pulse                        -> MStart(fam, MForceStop(fam, h))
    [] fam = "FG360"                        -> CfunReset(h)
    [] OTHER                                -> MStart(fam, MStop(fam, h))

\* MODEM_FORCE_RESET.
MForceReset(fam, h) ==
  CASE fam \in (Plain \cup Pulse) \ {"FM650"} -> MStart(fam, MForceStop(fam, h))
    [] fam \in {"FM650", "FG360"}             -> MReset(fam, h)
    [] OTHER                                  -> h

\* modem_dualsim_switch(): FG360 is told, the modems of CfunModems are reset
\* later, the others are without power while the slot changes.  The WR3 board
\* has no switch.
Switched(k, h, sim) ==
  LET slotted(x) == IF k.wr3 THEN x ELSE [x EXCEPT !.slot = sim] IN
  CASE k.fam = "FG360" ->
         CfunReset(IF h.modem = "up" THEN [h EXCEPT !.slot = sim] ELSE h)
    [] k.fam \in CfunModems -> slotted(h)
    [] OTHER -> MStart(k.fam, slotted(MForceStop(k.fam, h)))

\* Mutant: the modem goes on with the card it has read.
SwitchNeedsCfunNever(k) == FALSE

\* .. and asks for the later reset.
SwitchNeedsCfun(k) == k.fam \in CfunModems

-----------------------------------------------------------------------------
\* The modem itself, and what is asked of the dialer.

UpInit ==
  /\ kit \in Kits /\ dualsim \in BOOLEAN /\ enabled \in BOOLEAN
  /\ st = "INIT" /\ cur = 1 /\ wanted = FALSE /\ errno = "OK"
  /\ reset = FALSE /\ cfun = FALSE /\ errCnt = 0 /\ dev = {} /\ linked = {} /\ ctx \in Contexts
  /\ check = "fine" /\ forgot = FALSE /\ events = 0
  /\ \E nv \in BOOLEAN :
       hw = [modem |-> IF StartsOff(kit) THEN "off" ELSE "booting",
             slot |-> 1, read |-> 0, live |-> nv, nv |-> nv, devs |-> {}]

seen == <<linked, check, forgot>>
daemon == <<cur, dualsim, enabled, wanted, errno, reset, cfun, errCnt, dev>>
Event == events < MaxEvents /\ events' = events + 1

Devices == IF kit.fam = "RM500U" /\ hw.nv THEN {Dev(<<"pcie0">>)} ELSE RawDevices(kit.fam, kit.dual)

\* The modem has booted: it reads its card and its settings, the driver creates
\* its devices.
Boot ==
  /\ hw.modem = "booting"
  /\ hw' = [hw EXCEPT !.modem = "up", !.read = hw.slot, !.live = hw.nv, !.devs = Devices]
  /\ UNCHANGED <<kit, st, daemon, seen, ctx, events>>

\* It stops answering.
Hang ==
  /\ Event /\ hw.modem = "up"
  /\ hw' = [hw EXCEPT !.modem = "hung"]
  /\ UNCHANGED <<kit, st, daemon, seen, ctx>>

\* my_dualsim_timer(), current_sim_is_right() and others want the other card.
WantSwitch ==
  /\ Event /\ ~wanted /\ wanted' = TRUE
  /\ UNCHANGED <<kit, st, hw, cur, dualsim, enabled, errno, reset, cfun, errCnt, dev, seen, ctx>>

\* do_redial_procedure(): a sleeper is woken with a reset to come.
Wake ==
  /\ Event /\ st = "SLEEP"
  /\ st' = "STARTUP" /\ cfun' = TRUE /\ errno' = "OK"
  /\ UNCHANGED <<kit, hw, cur, dualsim, enabled, wanted, reset, errCnt, dev, seen, ctx>>

\* The daemon is started again, with the state it had saved: with two cards the
\* first slot is selected (main()).  A reset that was to come is forgotten, and
\* so is the slot of the card in use.
Restart ==
  /\ Event /\ st \notin {"INIT", "WAIT_CONFIG"}
  /\ forgot' = (forgot \/ reset \/ IF dualsim THEN cur # 1 ELSE cfun)
  /\ st' = "INIT" /\ linked' = {} /\ check' = "fine"
  /\ wanted' = FALSE /\ errno' = "OK" /\ reset' = FALSE /\ errCnt' = 0 /\ dev' = {}
  /\ IF dualsim /\ kit.fam # "FG360"
     THEN hw' = Switched(kit, hw, 1) /\ cfun' = SwitchNeedsCfun(kit)
     ELSE hw' = hw /\ cfun' = FALSE
  /\ UNCHANGED <<kit, cur, dualsim, enabled, ctx>>

-----------------------------------------------------------------------------
\* The arms of redial_handle().

InitArm ==
  /\ st = "INIT" /\ st' = "WAIT_CONFIG"
  /\ hw' = IF StartsOff(kit) THEN LET h == MStart(kit.fam, hw)
                                  IN IF kit.fam = "FM650" THEN MReset(kit.fam, h) ELSE h
           ELSE hw
  /\ UNCHANGED <<kit, daemon, seen, ctx, events>>

WaitConfig ==
  /\ st = "WAIT_CONFIG" /\ st' = "STARTUP"
  /\ UNCHANGED <<kit, hw, daemon, seen, ctx, events>>

\* The STARTUP arm resets by the error the last attempt ended in.
NeedsReset == errno \in {"NOMODEM", "NEED_RESET"} \/ reset
\* schedule_router_or_modem_reboot() after MaxCheck resets in a row: U8300C, FG360.
Reboots == NeedsReset /\ kit.fam \in {"U8300C", "FG360"} /\ errCnt + 1 >= MaxCheck
                      /\ errno = "NOMODEM"

\* What the arm does to the modem once the card is chosen: h as it is then, c
\* the reset flag.  due: the counters of attempts are at a multiple.
\* Mutant: a missing modem is reset as one that only fails is.
RecoveredSoftly(h, c, due) ==
  IF NeedsReset THEN {<<MReset(kit.fam, h), c>>} ELSE {<<h, c>>}

Recovered(h, c, due) ==
  LET force == {<<MForceReset(kit.fam, h), c>>} IN
  CASE NeedsReset -> force
    [] ~NeedsReset /\ errno \in {"NOSIM", "NOREG", "NOSIGNAL"} ->
         IF dualsim \/ ~due THEN {<<h, c>>}
         ELSE {<<CfunReset(h), c>>} \cup
              (IF errno # "NOSIM" THEN {}
               ELSE IF kit.fam \in CfunModems \cup {"NL668"} THEN {<<h, TRUE>>} ELSE force)
    [] ~NeedsReset /\ errno = "NOVALIDIP" -> IF dualsim \/ ~due THEN {<<h, c>>} ELSE force
    [] ~NeedsReset /\ errno = "OK" ->
         IF ~due THEN {<<h, c>>}
         ELSE IF kit.fam \in {"FM650", "FG360", "RM500U", "RM520N", "RG500", "NL668"}
              THEN {<<h, TRUE>>} ELSE force
    [] OTHER -> {<<h, c>>}

\* check_dualsim_switch(): SimPolicy says when.
MaySwitch == dualsim /\ errno \in {"OK", "NOREG", "NOSIM", "NOSIGNAL"}

Startup ==
  /\ st = "STARTUP" /\ ~Reboots
  /\ \E switch \in {wanted} \cup (IF MaySwitch THEN BOOLEAN ELSE {}), due \in BOOLEAN :
       LET sim == IF switch THEN 3 - cur ELSE cur
           h   == IF switch THEN Switched(kit, hw, sim) ELSE hw
           c   == cfun \/ (switch /\ SwitchNeedsCfun(kit))
       IN /\ wanted => switch
          /\ cur' = sim /\ wanted' = FALSE
          /\ \E r \in Recovered(h, c, due) : hw' = r[1] /\ cfun' = r[2]
  /\ errCnt' = IF NeedsReset /\ kit.fam \in {"U8300C", "FG360"} THEN (errCnt + 1) % MaxCheck
               ELSE IF NeedsReset \/ errno = "NOVALIDIP" THEN errCnt ELSE 0
  /\ reset' = FALSE
  /\ st' = "LOAD_DRV" /\ linked' = {} /\ check' = "fine"
  /\ UNCHANGED <<kit, dualsim, enabled, errno, dev, forgot, ctx, events>>

\* The system is rebooted: the modem loses its power, the SIM switch is back at its
\* first slot; FG360 has a switch of its own.
Reboot ==
  /\ st = "STARTUP" /\ Reboots
  /\ st' = "INIT" /\ cur' = 1 /\ wanted' = FALSE /\ errno' = "OK" /\ reset' = FALSE
  /\ cfun' = FALSE /\ errCnt' = 0 /\ dev' = {} /\ linked' = {}
  /\ check' = "fine" /\ forgot' = FALSE
  /\ hw' = [PowerDown(hw) EXCEPT !.modem = "booting",
                                 !.slot = IF kit.fam = "FG360" THEN @ ELSE 1]
  /\ UNCHANGED <<kit, dualsim, enabled, ctx, events>>

\* The devices found: the modem shows on one bus, or on two, or on its socket.
Buses ==
  CASE hw.modem \in {"off", "booting"} -> {{}}
    [] OTHER ->
         CASE kit.fam = "FG360" -> {{"SOCK"}}
           [] kit.fam = "RM500" /\ hw.live -> {{"PCIE"}, {"PCIE", "USB"}}
           [] kit.fam = "RM500U" /\ hw.live -> {{"PCIE"}, {"PCIE", "USB"}}
           [] OTHER -> {{"USB"}}

BackToStartup ==
  /\ wanted /\ st' = "STARTUP"
  /\ UNCHANGED <<kit, hw, cur, dualsim, enabled, wanted, errno, reset, cfun, errCnt, dev,
                 seen, ctx, events>>

LoadDrv ==
  /\ st = "LOAD_DRV"
  /\ \/ BackToStartup
     \/ /\ ~wanted
        /\ \E found \in Buses :
             /\ dev' = found
             /\ errno' = IF found = {} THEN "NOMODEM" ELSE "OK"
             /\ st' = IF found = {} THEN "STARTUP" ELSE "WAIT_AT"
        /\ UNCHANGED <<kit, hw, cur, dualsim, enabled, wanted, reset, cfun, errCnt, seen, ctx,
                       events>>

\* Ten tries: a modem that is up answers one of them.
WaitAt ==
  /\ st = "WAIT_AT"
  /\ \/ dualsim /\ BackToStartup
     \/ /\ ~(dualsim /\ wanted)
        /\ \/ hw.modem = "up" /\ st' = "MODEM_INIT" /\ errno' = errno
           \/ /\ hw.modem # "up"
              /\ IF enabled THEN st' = "STARTUP" /\ errno' = "NOMODEM"
                 ELSE st' = "MODEM_INIT" /\ errno' = errno
        /\ UNCHANGED <<kit, hw, cur, dualsim, enabled, wanted, reset, cfun, errCnt, dev, seen,
                       ctx, events>>

\* The settings some modems are checked for: the interface their data takes.
\* RM500 is asked over USB only.
Checked == \/ kit.fam = "RM500" /\ "USB" \in dev
           \/ kit.fam = "RM500U" /\ ~kit.exempt
           \/ kit.fam \in {"FM650", "RM520N"}

\* How such a check ends.  "set": found wrong and changed, which takes a reset;
\* "again": a reset too, with a setting that is still wrong, for the answer to the
\* change is not looked at, or some of an RM520N's were taken, or the question was
\* not answered, which is a wrong setting to check_fm650_ippass(); "refused": by an
\* RM520N, all of them, and no reset; "unasked": no answer to the question.  A
\* TOBY-L201 is looked at for its usb0, which may be missing.
CheckEnds ==
  CASE kit.fam = "TOBYL201" -> {"fine", "missing"}
    [] Checked /\ hw.modem # "up" -> IF kit.fam = "FM650" THEN {"again"} ELSE {"unasked"}
    [] Checked /\ hw.modem = "up" ->
         (IF hw.nv THEN {"fine"} ELSE {"set", "again"}) \cup {"unasked"}
         \cup (IF kit.fam = "FM650" THEN {"again"} ELSE {})
         \cup (IF kit.fam = "RM520N" /\ ~hw.nv THEN {"refused"} ELSE {})
    [] OTHER -> {"fine"}

\* save_raw_name_to_ifalias().
Saved(h) == IF kit.fam = "RM500U" /\ "PCIE" \in dev THEN h
            ELSE [h EXCEPT !.devs = SaveRawName(@)]
\* AT+QUIMSLOT on the WR3 board: the modem turns to the card itself.
Slotted(h) == IF kit.wr3 /\ h.modem = "up" THEN [h EXCEPT !.slot = cur, !.read = cur] ELSE h

\* The settings are stored as they should be.
Changed(h, how) == IF how = "set" THEN [h EXCEPT !.nv = TRUE] ELSE h

ModemInit ==
  /\ st = "MODEM_INIT"
  /\ \/ BackToStartup
     \/ /\ ~wanted
        /\ \E how \in CheckEnds :
             LET h == Changed(Saved(hw), how)
             IN /\ errno' = IF how = "missing" THEN "NOMODEM" ELSE "OK"
                /\ IF how \in {"set", "again", "missing"}
                   THEN /\ hw' = h /\ st' = "STARTUP" /\ UNCHANGED <<cfun, check>>
                        /\ reset' = (reset \/ how # "missing")
                   ELSE /\ hw' = IF cfun THEN CfunReset(Slotted(h)) ELSE Slotted(h)
                        /\ cfun' = FALSE /\ reset' = reset /\ check' = how
                        /\ st' \in {"READY", "SLEEP"}
        /\ UNCHANGED <<kit, cur, dualsim, enabled, wanted, errCnt, dev, linked, forgot, ctx,
                       events>>

\* check_modem_nv_parameter(): EC20 (with the key LQ20) and U8300C (TL01) are checked
\* in READY; the answer to the change is not looked at, and one EC20 is not reset.
NvChecked == enabled /\ kit.fam \in {"EC20", "U8300C"}
NvEnds ==
  CASE ~NvChecked -> {check}
    [] NvChecked /\ hw.modem # "up" -> {"unasked"}
    [] NvChecked /\ hw.modem = "up" ->
         {"unasked"} \cup (IF hw.nv THEN {"fine"} ELSE {"set", "again"})

Ready ==
  /\ st = "READY"
  /\ \/ BackToStartup
     \/ /\ ~wanted /\ errno' = "OK"
        /\ \E how \in NvEnds :
             /\ hw' = Changed(hw, how)
             /\ IF how \in {"set", "again"} /\ ~(kit.fam = "EC20" /\ kit.exempt)
                THEN st' = "STARTUP" /\ reset' = TRUE /\ check' = check
                ELSE st' = "ON" /\ reset' = reset /\ check' = how
        /\ UNCHANGED <<kit, cur, dualsim, enabled, wanted, cfun, errCnt, dev, linked, forgot, ctx,
                       events>>

\* A dial: the device of the uplink is named; the context of the first one
\* depends on the operator of the card (start_dhcpc(), start_ih_qmi(),
\* mipc_wwan_event_handle()).
Dial(wwan) ==
  /\ st = "ON" /\ enabled /\ hw.modem = "up"
  /\ wwan = 2 => kit.dual /\ 1 \in linked
  /\ wwan \notin linked
  /\ LET r == CheckCellSysName(kit.fam, kit.dual, "PCIE" \in dev, hw.devs, wwan,
                               IF wwan = 2 THEN SecondContext ELSE ctx)
     IN /\ hw' = [hw EXCEPT !.devs = r.devs]
        /\ linked' = IF r.ok THEN linked \cup {wwan} ELSE linked
  /\ UNCHANGED <<kit, st, daemon, check, forgot, ctx, events>>

\* The dial, or the AT list before it, has ended; the next card may be another
\* operator's.
Leave ==
  /\ st = "ON" /\ enabled
  /\ errno' \in IF hw.modem = "hung" THEN {"NOMODEM"} ELSE {"OK", "NOSIM", "NOREG", "NOVALIDIP"}
  /\ st' = "STARTUP" /\ linked' = {} /\ ctx' \in Contexts
  /\ Event
  /\ UNCHANGED <<kit, hw, cur, dualsim, enabled, wanted, reset, cfun, errCnt, dev, check, forgot>>

Arms == InitArm \/ WaitConfig \/ Startup \/ Reboot \/ LoadDrv \/ WaitAt \/ ModemInit \/ Ready

UpNext ==
  \/ Boot \/ Hang \/ WantSwitch \/ Wake \/ Restart \/ Leave
  \/ Arms
  \/ \E wwan \in {1, 2} : Dial(wwan)

\* The timer of the dialer runs its arm, and a modem that has power boots.
UpFairness == WF_upVars(Arms) /\ WF_upVars(Boot)
UpSpec == UpInit /\ [][UpNext]_upVars /\ UpFairness

-----------------------------------------------------------------------------
(* Properties.                                                             *)

\* An enabled dialer that has come through the bring-up uses the card it means
\* to: the modem has read the slot of current_sim, whatever resets and switches came
\* between, and restarts that had nothing to lose (modem_dualsim_switch(),
\* modem.c:1827; the reset put off in l.1835 is made at ih_redial.c:9535).  FG360 is
\* not claimed: it keeps its slot over a reboot, and a switch it does not answer is
\* lost.
CardIsRead ==
  /\ st \in {"READY", "ON"} /\ enabled /\ hw.modem = "up" /\ kit.fam # "FG360"
  => hw.read = cur \/ forgot

\* It never dials with a modem that runs with settings it has found wrong: the
\* setting is stored, and the modem has booted since (modem.c l.3879-4125,
\* ih_redial.c l.9449-9494, 9597-9608).  It does if the modem does not answer the
\* question, if an RM520N refuses what is set, and with the EC20 that is not reset; a
\* refusal keeps the others from READY.
ReadyIsConfigured ==
  /\ /\ st \in {"READY", "ON"} /\ enabled /\ hw.modem = "up" /\ Checked
     /\ check # "unasked" /\ ~(kit.fam = "RM520N" /\ check = "refused")
     => hw.live \/ forgot
  /\ /\ st = "ON" /\ enabled /\ hw.modem = "up" /\ kit.fam \in {"EC20", "U8300C"}
     /\ check # "unasked" /\ ~kit.exempt
     => hw.live \/ forgot

\* A modem that hangs while it is brought up gets a reset that wakes it:
\* MODEM_RESET leaves most of them as they are, MODEM_FORCE_RESET does not, and
\* FG360, which has no power switch, takes a reboot (ih_redial.c l.9086-9112).
HungModemIsRevived ==
  hw.modem = "hung" /\ enabled /\ st \in {"STARTUP", "LOAD_DRV", "WAIT_AT"} ~> hw.modem # "hung"

\* The device that carries an uplink's name is that of the uplink's context,
\* whatever contexts were dialed before and however often the modem was reset
\* (check_cell_sys_name(), ih_redial.c:3319).
LinkIsOfContext ==
  \A wwan \in linked : kit.fam \in {"RM500", "EP06", "FG360"} =>
    \A d \in Called(hw.devs, SysOf(kit.fam, wwan)) :
      d.raw = RawOf(kit.fam, kit.dual, IF wwan = 2 THEN SecondContext ELSE ctx)

\* A modem that is READY is one that can be dialed with: it has read the card that
\* is wanted, works with the settings it needs as far as it takes them, and its
\* devices carry the names of the contexts (ih_redial.c l.8946-9548, l.3319-3420).
ModemIsPrepared == CardIsRead /\ ReadyIsConfigured /\ LinkIsOfContext
================================================================================
